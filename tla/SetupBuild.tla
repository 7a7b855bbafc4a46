----------------------------- MODULE SetupBuild -----------------------------
(***************************************************************************)
(* The build_ext command of setup.py (CMakeBuild.run, build_iowarp_core)   *)
(* over successive invocations that share the build_temp directory: the    *)
(* C++ source copied (or cloned) into build_temp/iowarp-core, the CMake    *)
(* configure, build and install steps, and the copy of the staged install  *)
(* tree into the wheel's package directory.  Any subprocess may fail, the  *)
(* process may be killed between any two steps, and the developer may edit *)
(* the package root between invocations.                                   *)
(*                                                                         *)
(* A tree of files (the source copy, an install tree, the package) is      *)
(* abstracted to the source version it was made from and whether it is     *)
(* complete.                                                               *)
(***************************************************************************)
EXTENDS Naturals

CONSTANTS
  Versions,    \* versions of the C++ source in the package root
  Upstream,    \* the version a `git clone` of REPO_URL yields
  BundleVals,  \* values of IOWARP_BUNDLE_BINARIES the environment can hold
  Unset,       \* IOWARP_BUNDLE_BINARIES not set
  OnVals,      \* the values v with v.upper() == "ON"
  MaxRuns,     \* bound on the number of invocations
  None

Trees == [ver: Versions \cup {Upstream}, complete: BOOLEAN]

ASSUME ConstantsAssumption ==
  /\ Upstream \notin Versions
  /\ Unset \in BundleVals
  /\ "OFF" \notin OnVals
  /\ None \notin Trees
  /\ MaxRuns \in Nat

VARIABLES
  hasRoot,   \* CMakeLists.txt exists in the package root
  rootVer,   \* the version of the sources in the package root
  srcDir,    \* build_temp/iowarp-core, None when it does not exist
  staged,    \* build_temp/install
  sysInst,   \* the install under sys.prefix
  pkg,       \* build_lib/iowarp_core/{lib,include,bin}
  pc,        \* "idle", "cmake", "prep", "copysrc", "clone", "configure",
             \* "build", "install", "bundle", "copy", "done", "failed"
  env,       \* IOWARP_BUNDLE_BINARIES of the running invocation
  bundleB,   \* build_iowarp_core's local bundle_binaries
  built,     \* the tree configured and built by the running invocation
  runs       \* invocations started so far

vars == <<hasRoot, rootVer, srcDir, staged, sysInst, pkg, pc, env, bundleB,
          built, runs>>

locals == <<env, bundleB, built>>

(* os.environ.get("IOWARP_BUNDLE_BINARIES", default).upper() == "ON"       *)
IsOn(v, default) == IF v = Unset THEN default \in OnVals ELSE v \in OnVals

-----------------------------------------------------------------------------
Init ==
  /\ hasRoot \in BOOLEAN
  /\ rootVer \in Versions
  /\ srcDir = None
  /\ staged = None
  /\ sysInst = None
  /\ pkg = None
  /\ pc = "idle"
  /\ env = Unset
  /\ bundleB = FALSE
  /\ built = None
  /\ runs = 0

(* `setup.py build_ext` (or pip) is invoked with some environment.         *)
Start ==
  /\ pc = "idle"
  /\ runs < MaxRuns
  /\ \E v \in BundleVals : env' = v
  /\ runs' = runs + 1
  /\ pc' = "cmake"
  /\ UNCHANGED <<hasRoot, rootVer, srcDir, staged, sysInst, pkg, bundleB, built>>

(* The developer edits the C++ sources between two invocations.            *)
EditSource ==
  /\ pc = "idle"
  /\ \E v \in Versions \ {rootVer} : rootVer' = v
  /\ UNCHANGED <<hasRoot, srcDir, staged, sysInst, pkg, pc, locals, runs>>

(* `cmake --version` raises OSError: RuntimeError.                         *)
CmakeMissing ==
  /\ pc = "cmake"
  /\ pc' = "failed"
  /\ UNCHANGED <<hasRoot, rootVer, srcDir, staged, sysInst, pkg, locals, runs>>

(* cmake found; build_temp created.                                        *)
CmakeFound ==
  /\ pc = "cmake"
  /\ pc' = "prep"
  /\ UNCHANGED <<hasRoot, rootVer, srcDir, staged, sysInst, pkg, locals, runs>>

(* Mutant: bundle_binaries compared without .upper().                      *)
PrepNoUpper ==
  /\ pc = "prep"
  /\ bundleB' = (env \in {Unset, "ON"})
  /\ pc' = IF srcDir # None THEN "configure"
           ELSE IF hasRoot THEN "copysrc" ELSE "clone"
  /\ UNCHANGED <<hasRoot, rootVer, srcDir, staged, sysInst, pkg, env, built, runs>>

(* Mutant: the source_dir.exists() test dropped; "existing" source used.  *)
PrepSkipSource ==
  /\ pc = "prep"
  /\ bundleB' = IsOn(env, "ON")
  /\ pc' = "configure"
  /\ UNCHANGED <<hasRoot, rootVer, srcDir, staged, sysInst, pkg, env, built, runs>>

(* build_iowarp_core up to the source decision: bundle_binaries defaults   *)
(* to ON here; an existing source_dir is used as it is.                    *)
Prep ==
  /\ pc = "prep"
  /\ bundleB' = IsOn(env, "ON")
  /\ pc' = IF srcDir # None THEN "configure"
           ELSE IF hasRoot THEN "copysrc" ELSE "clone"
  /\ UNCHANGED <<hasRoot, rootVer, srcDir, staged, sysInst, pkg, env, built, runs>>

(* copytree / copy2 of every source item into source_dir.                  *)
CopySource ==
  /\ pc = "copysrc"
  /\ srcDir' = [ver |-> rootVer, complete |-> TRUE]
  /\ pc' = "configure"
  /\ UNCHANGED <<hasRoot, rootVer, staged, sysInst, pkg, locals, runs>>

(* git clone --recursive REPO_URL source_dir; git removes the directory   *)
(* of a clone that fails.                                                  *)
Clone ==
  /\ pc = "clone"
  /\ \/ /\ srcDir' = [ver |-> Upstream, complete |-> TRUE]
        /\ pc' = "configure"
     \/ /\ pc' = "failed"
        /\ UNCHANGED srcDir
  /\ UNCHANGED <<hasRoot, rootVer, staged, sysInst, pkg, locals, runs>>

(* cmake --preset, then cmake build with the additional arguments (the     *)
(* install prefix is always among them); either call may fail.             *)
Configure ==
  /\ pc = "configure"
  /\ \/ /\ built' = srcDir
        /\ pc' = "build"
     \/ /\ pc' = "failed"
        /\ UNCHANGED built
  /\ UNCHANGED <<hasRoot, rootVer, srcDir, staged, sysInst, pkg, env, bundleB, runs>>

(* cmake --build build --parallel N                                        *)
Build ==
  /\ pc = "build"
  /\ pc' \in {"install", "failed"}
  /\ UNCHANGED <<hasRoot, rootVer, srcDir, staged, sysInst, pkg, locals, runs>>

(* cmake --install build --prefix install_prefix: the staging directory    *)
(* when bundling, sys.prefix otherwise.  A failed install leaves a partly  *)
(* written tree.                                                           *)
Install ==
  /\ pc = "install"
  /\ \E ok \in BOOLEAN :
       LET tree == [built EXCEPT !.complete = @ /\ ok]
       IN  /\ IF bundleB THEN staged' = tree /\ UNCHANGED sysInst
                         ELSE sysInst' = tree /\ UNCHANGED staged
           /\ pc' = IF ok THEN "bundle" ELSE "failed"
  /\ UNCHANGED <<hasRoot, rootVer, srcDir, pkg, locals, runs>>

(* run(): copy to the package only when IOWARP_BUNDLE_BINARIES, with      *)
(* default OFF here, is ON.                                                *)
CheckBundle ==
  /\ pc = "bundle"
  /\ pc' = IF IsOn(env, "OFF") THEN "copy" ELSE "done"
  /\ UNCHANGED <<hasRoot, rootVer, srcDir, staged, sysInst, pkg, locals, runs>>

(* copy_binaries_to_package: whatever build_temp/install holds.            *)
CopyBinaries ==
  /\ pc = "copy"
  /\ pkg' = staged
  /\ pc' = "done"
  /\ UNCHANGED <<hasRoot, rootVer, srcDir, staged, sysInst, locals, runs>>

(* The process ends; the next invocation starts afresh.                    *)
Exit ==
  /\ pc \in {"done", "failed"}
  /\ pc' = "idle"
  /\ env' = Unset
  /\ bundleB' = FALSE
  /\ built' = None
  /\ UNCHANGED <<hasRoot, rootVer, srcDir, staged, sysInst, pkg, runs>>

(* The process is killed mid-step.  A copy or an install in progress      *)
(* leaves a partial tree behind.                                           *)
Crash ==
  /\ pc \notin {"idle", "done", "failed"}
  /\ pc' = "idle"
  /\ srcDir' = CASE pc = "copysrc" -> [ver |-> rootVer, complete |-> FALSE]
                 [] pc = "clone"   -> [ver |-> Upstream, complete |-> FALSE]
                 [] OTHER          -> srcDir
  /\ staged' = IF pc = "install" /\ bundleB
               THEN [built EXCEPT !.complete = FALSE] ELSE staged
  /\ sysInst' = IF pc = "install" /\ ~bundleB
                THEN [built EXCEPT !.complete = FALSE] ELSE sysInst
  /\ pkg' = IF pc = "copy" /\ staged # None
            THEN [staged EXCEPT !.complete = FALSE] ELSE pkg
  /\ env' = Unset
  /\ bundleB' = FALSE
  /\ built' = None
  /\ UNCHANGED <<hasRoot, rootVer, runs>>

Next ==
  \/ Start \/ EditSource \/ CmakeMissing \/ CmakeFound \/ Prep
  \/ CopySource \/ Clone \/ Configure \/ Build \/ Install \/ CheckBundle
  \/ CopyBinaries \/ Exit \/ Crash

Spec == Init /\ [][Next]_vars

-----------------------------------------------------------------------------
TypeOK ==
  /\ hasRoot \in BOOLEAN
  /\ rootVer \in Versions
  /\ srcDir \in Trees \cup {None}
  /\ staged \in Trees \cup {None}
  /\ sysInst \in Trees \cup {None}
  /\ pkg \in Trees \cup {None}
  /\ pc \in {"idle", "cmake", "prep", "copysrc", "clone", "configure", "build",
            "install", "bundle", "copy", "done", "failed"}
  /\ env \in BundleVals
  /\ bundleB \in BOOLEAN
  /\ built \in Trees \cup {None}
  /\ pc \in {"build", "install", "bundle", "copy", "done"} => built \in Trees
  /\ runs \in 0..MaxRuns

(* An invocation that copies binaries into the wheel (run(), line 50)     *)
(* copies the install it made itself, of the source it configured and      *)
(* complete, never a staging tree left by an earlier or killed invocation: *)
(* build_iowarp_core and run() read IOWARP_BUNDLE_BINARIES separately,     *)
(* with different defaults, and must agree whenever the copy happens.      *)
(* (Files an earlier install left in the staging or package directory are *)
(* not modelled: a tree is its source version and whether it is complete.) *)
BundleMatchesBuild ==
  pc = "done" /\ IsOn(env, "OFF") => pkg = built

(* The comment above ext_modules: IOWARP_BUNDLE_BINARIES decides whether   *)
(* the build is bundled into the wheel or installed into the system        *)
(* prefix.  A successful invocation leaves its build in one of the two.    *)
InstalledSomewhere ==
  pc = "done" => pkg = built \/ sysInst = built

(* build_iowarp_core builds "from included source": a successful           *)
(* invocation built the complete sources of the package root as they are  *)
(* now, not a copy left in build_temp by an earlier or a killed one.       *)
BuildsCurrentSource ==
  pc = "done" /\ hasRoot => built = [ver |-> rootVer, complete |-> TRUE]
=============================================================================
