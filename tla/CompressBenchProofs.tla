------------------------- MODULE CompressBenchProofs -------------------------
(***************************************************************************)
(* Proofs about the WrpCompressBench package (CompressBench), for every    *)
(* set of configurations and output names that satisfies                  *)
(* ConstantsAssumption, under any sequence of configure, start and clean. *)
(***************************************************************************)
EXTENDS CompressBench, TLAPS

(* The kept configuration passes every check of _configure.               *)
LEMMA ValidKept ==
  ASSUME NEW c \in Configs, Valid(c)
  PROVE  /\ c.compute_time >= 0
         /\ c.iterations >= 1
         /\ c.nprocs >= 1 /\ c.ppn >= 1
<1>1. c \in ConfigType
  BY ConstantsAssumption
<1>2. c.compute_time \in Int /\ c.iterations \in Int /\ c.nprocs \in Int /\ c.ppn \in Int
  BY <1>1 DEF ConfigType
<1>. QED BY <1>2 DEF Valid

LEMMA TypeInit == Init => TypeOK
BY DEF Init, TypeOK

(* Every command keeps the types of TypeOK; in particular a configuration *)
(* is kept only after it passed the checks.                               *)
LEMMA TypeStep == TypeOK /\ [Next]_vars => TypeOK'
<1>. SUFFICES ASSUME TypeOK, [Next]_vars PROVE TypeOK'
  OBVIOUS
<1>1. CASE Configure
  <2>. PICK c \in Configs :
         IF Valid(c)
         THEN /\ config' = c
              /\ outFile' = IF c.output_file # "" THEN c.output_file ELSE None
              /\ traceEnv' = (traceEnv \/ c.trace)
         ELSE UNCHANGED <<config, outFile, traceEnv>>
    BY <1>1 DEF Configure
  <2>1. c \in ConfigType
    BY ConstantsAssumption
  <2>2. CASE Valid(c)
    BY <1>1, <2>1, <2>2, ValidKept DEF Configure, TypeOK, ConfigType
  <2>3. CASE ~Valid(c)
    BY <1>1, <2>3 DEF Configure, TypeOK
  <2>. QED BY <2>2, <2>3
<1>2. CASE Start
  <2>1. config \in ConfigType
    BY <1>2, ConstantsAssumption DEF Start, TypeOK
  <2>2. /\ config.trace \in BOOLEAN
        /\ config.output_file \in OutNames \cup {""}
        /\ config.nprocs \in Int
    BY <2>1 DEF ConfigType
  <2>3. (IF config.nprocs > 1 THEN config.nprocs ELSE 1) \in Nat \ {0}
    <3>. DEFINE n == config.nprocs
    <3>1. n \in Int
      BY <2>2
    <3>2. CASE n > 1
      BY <3>1, <3>2
    <3>3. CASE ~(n > 1)
      BY <3>3
    <3>. QED BY <3>2, <3>3
  <2>4. lastRun' \in [trace: BOOLEAN, asked: BOOLEAN, out: OutNames \cup {None},
                      named: OutNames \cup {""}, nprocs: Nat \ {0}]
    BY <1>2, <2>2, <2>3 DEF Start, TypeOK
  <2>5. files' \subseteq OutNames
    BY <1>2 DEF Start, TypeOK
  <2>. QED BY <1>2, <2>4, <2>5 DEF Start, TypeOK
<1>3. CASE Clean
  BY <1>3 DEF Clean, TypeOK
<1>4. CASE UNCHANGED vars
  BY <1>4 DEF vars, TypeOK
<1>. QED BY <1>1, <1>2, <1>3, <1>4 DEF Next

(* Under any sequence of jarvis commands only configurations that passed  *)
(* _configure's checks are kept, and every run had at least one process.  *)
THEOREM TypeCorrect == Spec => []TypeOK
BY TypeInit, TypeStep, PTL DEF Spec

-----------------------------------------------------------------------------
(* self.output_file is what the kept configuration names: a file under    *)
(* shared_dir, or None (stdout) when output_file is empty.                 *)
OutFileOfConfig ==
  config # None => outFile = IF config.output_file # "" THEN config.output_file ELSE None

(* The inductive invariant behind RunWritesConfiguredFile.                 *)
IInv == TypeOK /\ OutFileOfConfig /\ RunWritesConfiguredFile

LEMMA IInvInit == Init => IInv
BY DEF Init, IInv, TypeOK, OutFileOfConfig, RunWritesConfiguredFile

LEMMA IInvStep == IInv /\ [Next]_vars => IInv'
<1>. SUFFICES ASSUME IInv, [Next]_vars PROVE IInv'
  OBVIOUS
<1>0. TypeOK'
  BY TypeStep DEF IInv
<1>1. CASE Configure
  <2>. PICK c \in Configs :
         IF Valid(c)
         THEN /\ config' = c
              /\ outFile' = IF c.output_file # "" THEN c.output_file ELSE None
              /\ traceEnv' = (traceEnv \/ c.trace)
         ELSE UNCHANGED <<config, outFile, traceEnv>>
    BY <1>1 DEF Configure
  <2>1. c # None
    BY ConstantsAssumption
  <2>2. OutFileOfConfig'
    BY <2>1 DEF OutFileOfConfig, IInv
  <2>3. RunWritesConfiguredFile'
    BY <1>1 DEF Configure, RunWritesConfiguredFile, IInv
  <2>. QED BY <1>0, <2>2, <2>3 DEF IInv
<1>2. CASE Start
  BY <1>0, <1>2 DEF Start, IInv, OutFileOfConfig, RunWritesConfiguredFile
<1>3. CASE Clean
  BY <1>0, <1>3 DEF Clean, IInv, OutFileOfConfig, RunWritesConfiguredFile
<1>4. CASE UNCHANGED vars
  BY <1>0, <1>4 DEF vars, IInv, OutFileOfConfig, RunWritesConfiguredFile
<1>. QED BY <1>1, <1>2, <1>3, <1>4 DEF Next

(* Every run of the benchmark writes to the output file its own           *)
(* configuration names, or to stdout when it names none, whatever earlier *)
(* configurations named: _configure resets self.output_file each time.    *)
THEOREM RunWritesConfiguredFileHolds == Spec => []RunWritesConfiguredFile
<1>1. IInv => RunWritesConfiguredFile
  BY DEF IInv
<1>. QED BY <1>1, IInvInit, IInvStep, PTL DEF Spec
=============================================================================
