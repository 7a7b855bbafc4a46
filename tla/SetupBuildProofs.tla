-------------------------- MODULE SetupBuildProofs --------------------------
(***************************************************************************)
(* Proofs about the build_ext command of setup.py (SetupBuild): every     *)
(* reachable state is well typed, and an invocation that copies binaries  *)
(* into the wheel ships the tree it built itself, for any number of        *)
(* invocations, versions and values of IOWARP_BUNDLE_BINARIES.             *)
(***************************************************************************)
EXTENDS SetupBuild, TLAPS



(* The steps between Prep and the end of an invocation.                   *)
AfterPrep == {"copysrc", "clone", "configure", "build", "install", "bundle",
              "copy", "done"}

(* The inductive invariant.  Besides the types it records the three facts *)
(* the copy relies on: build_iowarp_core's bundle decision is the flag    *)
(* read with default ON; once installed with bundling, the staging tree   *)
(* is the tree built; and the copy only happens when the flag read with   *)
(* default OFF is on.                                                      *)
SourceReady == pc = "configure" => srcDir \in Trees
BundleDecided == pc \in AfterPrep => bundleB = IsOn(env, "ON")
StagedIsBuilt == pc \in {"bundle", "copy", "done"} /\ bundleB => staged = built
CopyWanted == pc = "copy" => IsOn(env, "OFF")

IInv ==
  /\ TypeOK
  /\ SourceReady
  /\ BundleDecided
  /\ StagedIsBuilt
  /\ CopyWanted
  /\ BundleMatchesBuild

(* The flag read with default OFF is on only if it is on with default ON. *)
LEMMA OffImpliesOn ==
  ASSUME NEW v, IsOn(v, "OFF")
  PROVE  IsOn(v, "ON")
BY ConstantsAssumption DEF IsOn

LEMMA IInvInit == Init => IInv
<1> SUFFICES ASSUME Init PROVE IInv
  OBVIOUS
<1>1. srcDir \in Trees \cup {None} /\ staged \in Trees \cup {None}
      /\ sysInst \in Trees \cup {None} /\ pkg \in Trees \cup {None}
      /\ built \in Trees \cup {None}
  BY DEF Init
<1>2. runs \in 0..MaxRuns /\ env \in BundleVals
  BY ConstantsAssumption DEF Init
<1>3. pc \in {"idle", "cmake", "prep", "copysrc", "clone", "configure", "build",
            "install", "bundle", "copy", "done", "failed"}
  BY DEF Init
<1>4. hasRoot \in BOOLEAN /\ rootVer \in Versions /\ bundleB \in BOOLEAN
  BY DEF Init
<1>5. pc \in {"build", "install", "bundle", "copy", "done"} => built \in Trees
  BY DEF Init
<1>6. TypeOK
  BY <1>1, <1>2, <1>3, <1>4, <1>5 DEF TypeOK
<1> QED
  BY <1>6 DEF Init, IInv, AfterPrep, SourceReady, BundleDecided, StagedIsBuilt,
           CopyWanted, BundleMatchesBuild

(* Reading the flag gives a Boolean.                                     *)
LEMMA IsOnBool ==
  ASSUME NEW v, NEW d
  PROVE  IsOn(v, d) = TRUE \/ IsOn(v, d) = FALSE
BY DEF IsOn

(* A tree with its completeness flag changed is a tree.                  *)
LEMMA TreeExcept ==
  ASSUME NEW t \in Trees, NEW b \in BOOLEAN
  PROVE  [t EXCEPT !.complete = b] \in Trees
BY DEF Trees

(* Installing successfully over a tree leaves it as it is.                *)
LEMMA TreeSame ==
  ASSUME NEW t \in Trees, NEW b \in BOOLEAN, b
  PROVE  [t EXCEPT !.complete = t.complete /\ b] = t
BY DEF Trees

(* A record of a version and a flag is a tree.                           *)
LEMMA MkTree ==
  ASSUME NEW v \in Versions \cup {Upstream}, NEW b \in BOOLEAN
  PROVE  [ver |-> v, complete |-> b] \in Trees
BY DEF Trees

(* Every step keeps the types.  Configure relies on the invariant: the    *)
(* source tree it builds exists.                                           *)
LEMMA TypeStep == IInv /\ [Next]_vars => TypeOK'
<1> SUFFICES ASSUME IInv, [Next]_vars PROVE TypeOK'
  OBVIOUS
<1> USE DEF IInv, SourceReady
<1>1. CASE Start
  <2>1. env' \in BundleVals /\ pc' = "cmake"
    BY <1>1 DEF Start
  <2>2. runs' \in 0..MaxRuns
    BY <1>1, ConstantsAssumption DEF Start, TypeOK
  <2>3. UNCHANGED <<hasRoot, rootVer, srcDir, staged, sysInst, pkg, bundleB, built>>
    BY <1>1 DEF Start
  <2> QED
    BY <2>1, <2>2, <2>3 DEF TypeOK
<1>2. CASE EditSource
  <2>1. rootVer' \in Versions
    BY <1>2 DEF EditSource
  <2>2. UNCHANGED <<hasRoot, srcDir, staged, sysInst, pkg, pc, env, bundleB, built, runs>>
    BY <1>2 DEF EditSource, locals
  <2> QED
    BY <2>1, <2>2 DEF TypeOK
<1>3. CASE CmakeMissing \/ CmakeFound
  <2>1. pc' \in {"failed", "prep"}
    BY <1>3 DEF CmakeMissing, CmakeFound
  <2>2. UNCHANGED <<hasRoot, rootVer, srcDir, staged, sysInst, pkg, env, bundleB, built, runs>>
    BY <1>3 DEF CmakeMissing, CmakeFound, locals
  <2> QED
    BY <2>1, <2>2 DEF TypeOK
<1>4. CASE Prep
  <2>1. bundleB' \in BOOLEAN
    <3>1. IsOn(env, "ON") = TRUE \/ IsOn(env, "ON") = FALSE
      BY IsOnBool
    <3>2. bundleB' = IsOn(env, "ON")
      BY <1>4 DEF Prep
    <3> QED
      BY <3>1, <3>2
  <2>2. pc' \in {"configure", "copysrc", "clone"}
    BY <1>4 DEF Prep
  <2>3. UNCHANGED <<hasRoot, rootVer, srcDir, staged, sysInst, pkg, env, built, runs>>
    BY <1>4 DEF Prep
  <2> QED
    BY <2>1, <2>2, <2>3 DEF TypeOK
<1>5. CASE CopySource \/ Clone
  <2>1. srcDir' \in Trees \cup {None}
    <3>1. [ver |-> rootVer, complete |-> TRUE] \in Trees
      BY MkTree DEF TypeOK
    <3>2. [ver |-> Upstream, complete |-> TRUE] \in Trees
      BY MkTree
    <3> QED
      BY <1>5, <3>1, <3>2 DEF CopySource, Clone, TypeOK
  <2>2. pc' \in {"configure", "failed"}
    BY <1>5 DEF CopySource, Clone
  <2>3. UNCHANGED <<hasRoot, rootVer, staged, sysInst, pkg, env, bundleB, built, runs>>
    BY <1>5 DEF CopySource, Clone, locals
  <2> QED
    BY <2>1, <2>2, <2>3 DEF TypeOK
<1>6. CASE Configure
  <2>1. \/ built' = srcDir /\ srcDir \in Trees /\ pc' = "build"
        \/ built' = built /\ pc' = "failed"
    BY <1>6 DEF Configure
  <2>2. UNCHANGED <<hasRoot, rootVer, srcDir, staged, sysInst, pkg, env, bundleB, runs>>
    BY <1>6 DEF Configure
  <2> QED
    BY <2>1, <2>2 DEF TypeOK
<1>7. CASE Build \/ CheckBundle
  <2>1. \/ pc = "build" /\ pc' \in {"install", "failed"}
        \/ pc = "bundle" /\ pc' \in {"copy", "done"}
    <3>1. CASE Build
      BY <3>1 DEF Build
    <3>2. CASE CheckBundle
      BY <3>2 DEF CheckBundle
    <3> QED
      BY <1>7, <3>1, <3>2
  <2>2. UNCHANGED <<hasRoot, rootVer, srcDir, staged, sysInst, pkg, env, bundleB, built, runs>>
    BY <1>7 DEF Build, CheckBundle, locals
  <2> QED
    BY <2>1, <2>2 DEF TypeOK
<1>8. CASE Install
  <2>1. PICK ok \in BOOLEAN :
          LET tree == [built EXCEPT !.complete = @ /\ ok]
          IN  /\ IF bundleB THEN staged' = tree /\ UNCHANGED sysInst
                            ELSE sysInst' = tree /\ UNCHANGED staged
              /\ pc' = IF ok THEN "bundle" ELSE "failed"
    BY <1>8 DEF Install
  <2>2. built \in Trees
    BY <1>8 DEF Install, TypeOK
  <2>3. built.complete \in BOOLEAN
    BY <2>2 DEF Trees
  <2>4. [built EXCEPT !.complete = @ /\ ok] \in Trees
    BY <2>2, <2>3, TreeExcept
  <2>5. UNCHANGED <<hasRoot, rootVer, srcDir, pkg, env, bundleB, built, runs>>
    BY <1>8 DEF Install, locals
  <2> QED
    BY <2>1, <2>2, <2>4, <2>5 DEF TypeOK
<1>9. CASE CopyBinaries
  <2>1. pkg' = staged /\ pc' = "done" /\ pc = "copy"
    BY <1>9 DEF CopyBinaries
  <2>2. UNCHANGED <<hasRoot, rootVer, srcDir, staged, sysInst, env, bundleB, built, runs>>
    BY <1>9 DEF CopyBinaries, locals
  <2> QED
    BY <2>1, <2>2 DEF TypeOK
<1>10. CASE Exit
  <2>1. pc' = "idle" /\ env' = Unset /\ bundleB' = FALSE /\ built' = None
    BY <1>10 DEF Exit
  <2>2. UNCHANGED <<hasRoot, rootVer, srcDir, staged, sysInst, pkg, runs>>
    BY <1>10 DEF Exit
  <2> QED
    BY <2>1, <2>2, ConstantsAssumption DEF TypeOK
<1>11. CASE Crash
  <2>1. pc' = "idle" /\ env' = Unset /\ bundleB' = FALSE /\ built' = None
    BY <1>11 DEF Crash
  <2>2. UNCHANGED <<hasRoot, rootVer, runs>>
    BY <1>11 DEF Crash
  <2>3. srcDir' \in Trees \cup {None}
    <3>1. [ver |-> rootVer, complete |-> FALSE] \in Trees
      BY MkTree DEF TypeOK
    <3>2. [ver |-> Upstream, complete |-> FALSE] \in Trees
      BY MkTree
    <3> QED
      BY <1>11, <3>1, <3>2 DEF Crash, TypeOK
  <2>4. staged' \in Trees \cup {None} /\ sysInst' \in Trees \cup {None}
    <3>1. pc = "install" => [built EXCEPT !.complete = FALSE] \in Trees
      BY TreeExcept DEF TypeOK
    <3> QED
      BY <1>11, <3>1 DEF Crash, TypeOK
  <2>5. pkg' \in Trees \cup {None}
    <3>1. staged # None => [staged EXCEPT !.complete = FALSE] \in Trees
      BY TreeExcept DEF TypeOK
    <3> QED
      BY <1>11, <3>1 DEF Crash, TypeOK
  <2> QED
    BY <2>1, <2>2, <2>3, <2>4, <2>5, ConstantsAssumption DEF TypeOK
<1>12. CASE UNCHANGED vars
  BY <1>12 DEF vars, TypeOK
<1> QED
  BY <1>1, <1>2, <1>3, <1>4, <1>5, <1>6, <1>7, <1>8, <1>9, <1>10, <1>11,
     <1>12 DEF Next

(* Every step keeps the invariant.  The copy step is where the argument  *)
(* lies: the flag read with default OFF being on implies it was on with   *)
(* default ON when build_iowarp_core chose the install prefix, so the     *)
(* staging tree the copy takes is the one this invocation installed.      *)
LEMMA IInvStep == IInv /\ [Next]_vars => IInv'
<1> SUFFICES ASSUME IInv, [Next]_vars PROVE IInv'
  OBVIOUS
<1>0. TypeOK'
  BY TypeStep
<1> USE DEF IInv, SourceReady, BundleDecided, StagedIsBuilt, CopyWanted,
            BundleMatchesBuild
<1>1. CASE Start
  BY <1>0, <1>1 DEF Start, AfterPrep, IsOn
<1>2. CASE EditSource
  BY <1>0, <1>2 DEF EditSource, AfterPrep, locals, IsOn
<1>3. CASE CmakeMissing \/ CmakeFound
  BY <1>0, <1>3 DEF CmakeMissing, CmakeFound, AfterPrep, locals, IsOn
<1>4. CASE Prep
  <2>1. SourceReady'
    BY <1>4 DEF Prep, TypeOK
  <2>2. BundleDecided'
    BY <1>4 DEF Prep, IsOn
  <2>3. pc' \notin {"bundle", "copy", "done"}
    BY <1>4 DEF Prep
  <2> QED
    BY <1>0, <2>1, <2>2, <2>3
<1>5. CASE CopySource \/ Clone
  <2>1. SourceReady'
    <3>1. [ver |-> rootVer, complete |-> TRUE] \in Trees
      BY MkTree DEF TypeOK
    <3>2. [ver |-> Upstream, complete |-> TRUE] \in Trees
      BY MkTree
    <3> QED
      BY <1>5, <3>1, <3>2 DEF CopySource, Clone
  <2>2. BundleDecided'
    BY <1>5 DEF CopySource, Clone, locals, AfterPrep, IsOn
  <2>3. pc' \notin {"bundle", "copy", "done"}
    BY <1>5 DEF CopySource, Clone
  <2> QED
    BY <1>0, <2>1, <2>2, <2>3
<1>6. CASE Configure
  BY <1>0, <1>6 DEF Configure, AfterPrep, IsOn
<1>7. CASE Build
  BY <1>0, <1>7 DEF Build, AfterPrep, locals, IsOn
<1>8. CASE Install
  <2>1. PICK ok \in BOOLEAN :
          LET tree == [built EXCEPT !.complete = @ /\ ok]
          IN  /\ IF bundleB THEN staged' = tree /\ UNCHANGED sysInst
                            ELSE sysInst' = tree /\ UNCHANGED staged
              /\ pc' = IF ok THEN "bundle" ELSE "failed"
    BY <1>8 DEF Install
  <2>2. UNCHANGED <<hasRoot, rootVer, srcDir, pkg, env, bundleB, built, runs>>
    BY <1>8 DEF Install, locals
  <2>3. built \in Trees /\ built.complete \in BOOLEAN
    BY <1>8 DEF Install, TypeOK, Trees
  <2>4. CASE ok
    <3>1. [built EXCEPT !.complete = @ /\ ok] = built
      BY <2>3, <2>4, TreeSame
    <3>2. pc' = "bundle" /\ (bundleB => staged' = built)
      BY <2>1, <2>4, <3>1
    <3>3. bundleB = IsOn(env, "ON")
      BY <1>8 DEF Install, AfterPrep
    <3> QED
      BY <1>0, <2>2, <3>2, <3>3 DEF AfterPrep
  <2>5. CASE ~ok
    <3>1. pc' = "failed"
      BY <2>1, <2>5
    <3> QED
      BY <1>0, <2>2, <3>1 DEF AfterPrep
  <2> QED
    BY <2>4, <2>5
<1>9. CASE CheckBundle
  <2>1. IsOn(env, "OFF") => bundleB
    BY <1>9, OffImpliesOn DEF CheckBundle, AfterPrep
  <2> QED
    BY <1>0, <1>9, <2>1 DEF CheckBundle, AfterPrep, locals
<1>10. CASE CopyBinaries
  <2>1. bundleB
    BY <1>10, OffImpliesOn DEF CopyBinaries, AfterPrep
  <2>2. staged = built
    BY <1>10, <2>1 DEF CopyBinaries
  <2> QED
    BY <1>0, <1>10, <2>2 DEF CopyBinaries, AfterPrep, locals
<1>11. CASE Exit \/ Crash
  BY <1>0, <1>11 DEF Exit, Crash, AfterPrep
<1>12. CASE UNCHANGED vars
  BY <1>0, <1>12 DEF vars
<1> QED
  BY <1>0, <1>1, <1>2, <1>3, <1>4, <1>5, <1>6, <1>7, <1>8, <1>9, <1>10,
     <1>11, <1>12 DEF Next

(* Every reachable state of the build command is well typed; in          *)
(* particular a build, install or copy always has a configured source    *)
(* tree (build_iowarp_core never configures a source_dir it has not       *)
(* found or created).                                                      *)
THEOREM TypeCorrect == Spec => []TypeOK
<1>1. IInv => TypeOK
  BY DEF IInv
<1> QED
  BY IInvInit, IInvStep, <1>1, PTL DEF Spec

(* An invocation that copies binaries into the wheel (run(), line 50)     *)
(* ships exactly the tree it configured and built, never the staging left *)
(* by an earlier invocation.                                               *)
THEOREM BundleMatchesBuildHolds == Spec => []BundleMatchesBuild
<1>1. IInv => BundleMatchesBuild
  BY DEF IInv
<1> QED
  BY IInvInit, IInvStep, <1>1, PTL DEF Spec
=============================================================================
