--------------------------- MODULE CompressBench ---------------------------
(***************************************************************************)
(* The jarvis application WrpCompressBench (jarvis_iowarp/.../             *)
(* wrp_compress_bench/pkg.py) under any sequence of the jarvis commands    *)
(* configure, start and clean.  The framework (jarvis_cd, not in this      *)
(* repository) is taken to call _configure with the new self.config and    *)
(* to keep the attributes and self.mod_env of the package from one command *)
(* to the next; a configuration that _configure rejects is not kept.       *)
(*                                                                         *)
(* The state is what the commands leave behind: the configuration, the     *)
(* output file the package will write and remove, the environment the      *)
(* benchmark runs with, and the output files in the shared directory.      *)
(***************************************************************************)
EXTENDS Integers

CONSTANTS
  Configs,   \* the configurations a user can give
  OutNames,  \* the non-empty values of output_file
  None

(* The configuration fields whose values drive the state.                  *)
ConfigType ==
  [compute_time: Int, iterations: Int, nprocs: Int, ppn: Int,
   output_file: OutNames \cup {""}, trace: BOOLEAN]

ASSUME ConstantsAssumption ==
  /\ Configs \subseteq ConfigType
  /\ None \notin OutNames \cup ConfigType

VARIABLES
  config,    \* self.config, None before the first configure
  outFile,   \* self.output_file (a path under shared_dir, or None)
  traceEnv,  \* WRP_CTE_COMPRESS_TRACE is "on" in self.mod_env
  files,     \* the output files present in shared_dir
  lastRun,   \* what the last start ran with, None before any
  lastCmd    \* the last command, "init" first

vars == <<config, outFile, traceEnv, files, lastRun, lastCmd>>

(* Mutant: `iterations < 0` where the code rejects `<= 0`.                 *)
ValidIterOffByOne(c) ==
  c.compute_time >= 0 /\ c.iterations >= 0 /\ c.nprocs > 0 /\ c.ppn > 0

(* The checks of _configure (lines 141-154); a failed one raises           *)
(* ValueError.  The pattern check only logs a warning.                     *)
Valid(c) ==
  c.compute_time >= 0 /\ c.iterations > 0 /\ c.nprocs > 0 /\ c.ppn > 0

-----------------------------------------------------------------------------
(* _init: no output file yet.                                              *)
Init ==
  /\ config = None
  /\ outFile = None
  /\ traceEnv = FALSE
  /\ files = {}
  /\ lastRun = None
  /\ lastCmd = "init"

(* Mutant: the else branch is dropped, so a configuration without an      *)
(* output file keeps the previous configuration's.                        *)
ConfigureNoClear ==
  /\ \E c \in Configs :
       IF Valid(c)
       THEN /\ config' = c
            /\ outFile' = IF c.output_file # "" THEN c.output_file ELSE outFile
            /\ traceEnv' = (traceEnv \/ c.trace)
       ELSE UNCHANGED <<config, outFile, traceEnv>>
  /\ lastCmd' = "configure"
  /\ UNCHANGED <<files, lastRun>>

(* jarvis configure: _configure validates, then sets the output file and,  *)
(* when tracing, WRP_CTE_COMPRESS_TRACE=on (lines 129-185).                *)
Configure ==
  /\ \E c \in Configs :
       IF Valid(c)
       THEN /\ config' = c
            /\ outFile' = IF c.output_file # "" THEN c.output_file ELSE None
            /\ traceEnv' = (traceEnv \/ c.trace)
       ELSE UNCHANGED <<config, outFile, traceEnv>>
  /\ lastCmd' = "configure"
  /\ UNCHANGED <<files, lastRun>>

(* jarvis start: the benchmark runs under PsshExecInfo with mod_env, its   *)
(* output redirected to output_file when there is one (lines 187-243).     *)
Start ==
  /\ config # None
  /\ files' = IF outFile # None THEN files \cup {outFile} ELSE files
  /\ lastRun' = [trace |-> traceEnv, asked |-> config.trace,
                 out |-> outFile, named |-> config.output_file,
                 nprocs |-> IF config.nprocs > 1 THEN config.nprocs ELSE 1]
  /\ lastCmd' = "start"
  /\ UNCHANGED <<config, outFile, traceEnv>>

(* jarvis clean: remove self.output_file if it exists (lines 255-269).     *)
Clean ==
  /\ files' = IF outFile # None THEN files \ {outFile} ELSE files
  /\ lastCmd' = "clean"
  /\ UNCHANGED <<config, outFile, traceEnv, lastRun>>

Next == Configure \/ Start \/ Clean

Spec == Init /\ [][Next]_vars

-----------------------------------------------------------------------------
(* Only a configuration that passed _configure's checks is ever kept, so  *)
(* the benchmark is never started with a negative compute time, no        *)
(* iterations, or no processes.                                            *)
TypeOK ==
  /\ \/ config = None
     \/ /\ config \in Configs
        /\ config.compute_time >= 0
        /\ config.iterations >= 1
        /\ config.nprocs >= 1 /\ config.ppn >= 1
  /\ outFile \in OutNames \cup {None}
  /\ traceEnv \in BOOLEAN
  /\ files \subseteq OutNames
  /\ lastRun \in {None} \cup [trace: BOOLEAN, asked: BOOLEAN, out: OutNames \cup {None},
                               named: OutNames \cup {""}, nprocs: Nat \ {0}]
  /\ lastCmd \in {"init", "configure", "start", "clean"}

(* The trace menu option: a run traces compression exactly when the       *)
(* configuration it started with enables tracing.  _configure sets         *)
(* WRP_CTE_COMPRESS_TRACE when trace is on and never clears it.            *)
TraceFollowsConfig ==
  lastRun # None => lastRun.trace = lastRun.asked

(* The output_file option: a run writes its results to the file its       *)
(* configuration names, under shared_dir, and prints them when it names    *)
(* none, whatever earlier configurations named.  Unlike the trace          *)
(* variable, _configure resets self.output_file on every configure.        *)
RunWritesConfiguredFile ==
  lastRun # None => lastRun.out = IF lastRun.named = "" THEN None ELSE lastRun.named

(* clean's docstring: "Clean up benchmark output files."  After a clean   *)
(* no output file of the benchmark is left in the shared directory; the   *)
(* code removes only the file of the current configuration.                *)
CleanRemovesOutputs ==
  lastCmd = "clean" => files = {}
=============================================================================
