--------------------------- MODULE BundleCopyProofs ---------------------------
(***************************************************************************)
(* Proofs about copy_binaries_to_package (BundleCopy), for every install   *)
(* tree, conda prefix, pattern list and skip list that satisfy             *)
(* ConstantsAssumption, and for every order in which the globs yield       *)
(* their files.                                                            *)
(***************************************************************************)
EXTENDS BundleCopy, TLAPS

(* CMake installed no library symlink with an absolute target into lib or *)
(* lib64.  The copy keeps install-tree links as they are (os.readlink,     *)
(* lines 226 and 247), so this is what the wheel's relocatability rests on *)
(* for them; conda's absolute links are the code's own business (line 370).*)
InstallLinksRelative ==
  \A t \in {LibTree, Lib64Tree} : \A n \in Names :
    LibLike(n) /\ t[n] # Absent /\ t[n].kind = "link" => t[n].to # AbsPath

FileEntries == [kind: {"file"}, origin: Origins, rpath: BOOLEAN]

(* The inductive invariant behind TypeOK: each loop visits only files its *)
(* glob yielded, and patchelf only regular files of lib/.                  *)
IInv ==
  /\ TypeOK
  /\ phase = "lib" => todo \subseteq Present(LibTree)
  /\ phase = "lib64" => todo \subseteq Present(Lib64Tree)
  /\ phase = "conda" => todo \subseteq Present(CondaTree)
  /\ phase = "patchlib" => \A m \in todo : lib[m] \in FileEntries

-----------------------------------------------------------------------------
(* An entry of a source tree is a regular file or a symlink.               *)
LEMMA EntryCases ==
  ASSUME NEW e \in Entries
  PROVE  \/ e.kind = "file" /\ e \in FileEntries
         \/ e.kind = "link" /\ e = [kind |-> "link", to |-> e.to] /\ e.to \in Names \cup {AbsPath}
BY DEF Entries, FileEntries

(* What lib/ of the wheel may hold is closed under the copies of the code.  *)
LEMMA PkgShapes ==
  /\ \A o \in Origins : File(o) \in PkgEntries
  /\ FileEntries \subseteq PkgEntries
  /\ \A t \in Names : [kind |-> "link", to |-> t] \in PkgEntries
BY DEF File, FileEntries, PkgEntries, Origins

(* copy2 onto a name of lib/: through a relative symlink to its target.    *)
LEMMA WriteFileTyped ==
  ASSUME NEW l \in [Names -> PkgEntries \cup {Absent}], NEW n \in Names,
         NEW f \in PkgEntries
  PROVE  WriteFile(l, n, f) \in [Names -> PkgEntries \cup {Absent}]
<1>1. CASE l[n] # Absent /\ l[n].kind = "link"
  <2>1. l[n].to \in Names
    BY <1>1 DEF PkgEntries
  <2>. QED BY <1>1, <2>1 DEF WriteFile
<1>2. CASE ~(l[n] # Absent /\ l[n].kind = "link")
  BY <1>2 DEF WriteFile
<1>. QED BY <1>1, <1>2

LEMMA TreesTyped ==
  /\ \A n \in Present(LibTree) : LibTree[n] \in Entries
  /\ \A n \in Present(Lib64Tree) : Lib64Tree[n] \in Entries
  /\ \A n \in Present(CondaTree) : CondaTree[n] \in Entries
  /\ Present(LibTree) \cup Present(Lib64Tree) \cup Present(CondaTree) \subseteq Names
BY ConstantsAssumption DEF Present

LEMMA PatternsFacts ==
  /\ Len(Patterns) \in Nat \ {0}
  /\ \A i \in 1..Len(Patterns) : CondaTodo(i) \subseteq Present(CondaTree)
<1>1. Patterns \in Seq(SUBSET Names) /\ Patterns # << >>
  BY ConstantsAssumption
<1>2. Len(Patterns) \in Nat \ {0}
  BY <1>1
<1>. QED BY <1>2 DEF CondaTodo

LEMMA IInvInit == Init => IInv
<1>. SUFFICES ASSUME Init PROVE IInv
  OBVIOUS
<1>1. Len(Patterns) \in Nat \ {0}
  BY PatternsFacts
<1>. QED BY <1>1, TreesTyped DEF Init, IInv, TypeOK

(* patchelf's work list: regular files of lib/, whatever lib/ holds.       *)
LEMMA PatchTodoFiles ==
  ASSUME NEW l \in [Names -> PkgEntries \cup {Absent}]
  PROVE  /\ PatchTodo(l) \subseteq Names
         /\ \A m \in PatchTodo(l) : l[m] \in FileEntries
BY DEF PatchTodo, PkgEntries, FileEntries

(* Entering the patchelf pass from the bin loop or the last conda pattern. *)
LEMMA ToPatchKeeps ==
  ASSUME IInv, ToPatch(lib), lib' = lib
  PROVE  /\ phase' = "patchlib"
         /\ todo' \subseteq Names
         /\ \A m \in todo' : lib'[m] \in FileEntries
<1>1. lib \in [Names -> PkgEntries \cup {Absent}] /\ patchelf \in BOOLEAN
  BY DEF IInv, TypeOK
<1>. QED BY <1>1, PatchTodoFiles DEF ToPatch

(* One file of install/lib or install/lib64 recreated in lib/.             *)
LEMMA CopyInstalledKeeps ==
  ASSUME IInv, InstallLinksRelative, CopyInstalled
  PROVE  IInv'
<1>1. PICK n \in todo :
        LET e == IF phase = "lib" THEN LibTree[n] ELSE Lib64Tree[n]
        IN  /\ lib' = IF LibLike(n)
                      THEN [lib EXCEPT ![n] = IF e.kind = "link" THEN e
                                              ELSE File("built")]
                      ELSE lib
            /\ todo' = todo \ {n}
  BY DEF CopyInstalled
<1>. DEFINE e == IF phase = "lib" THEN LibTree[n] ELSE Lib64Tree[n]
<1>2. phase \in {"lib", "lib64"}
  BY DEF CopyInstalled
<1>0. CASE ~LibLike(n)
  BY <1>0, <1>1 DEF CopyInstalled, IInv, TypeOK
<1>3. LibLike(n) => n \in Names /\ e \in Entries /\ (e.kind = "link" => e.to # AbsPath)
  <2>1. CASE phase = "lib"
    <3>1. n \in Present(LibTree)
      BY <2>1 DEF IInv
    <3>. QED BY <2>1, <3>1, TreesTyped DEF InstallLinksRelative, Present
  <2>2. CASE phase = "lib64"
    <3>1. n \in Present(Lib64Tree)
      BY <2>2, <1>2 DEF IInv
    <3>. QED BY <2>2, <3>1, TreesTyped DEF InstallLinksRelative, Present
  <2>. QED BY <1>2, <2>1, <2>2
<1>4. LibLike(n) => (IF e.kind = "link" THEN e ELSE File("built")) \in PkgEntries
  <2>. SUFFICES ASSUME LibLike(n) PROVE (IF e.kind = "link" THEN e ELSE File("built")) \in PkgEntries
    OBVIOUS
  <2>1. CASE e.kind = "link"
    <3>1. e = [kind |-> "link", to |-> e.to] /\ e.to \in Names
      BY <1>3, <2>1, EntryCases
    <3>. QED BY <2>1, <3>1, PkgShapes
  <2>2. CASE e.kind # "link"
    BY <2>2, PkgShapes DEF Origins
  <2>. QED BY <2>1, <2>2
<1>5. LibLike(n) => lib' \in [Names -> PkgEntries \cup {Absent}]
  BY <1>1, <1>3, <1>4 DEF IInv, TypeOK
<1>6. LibLike(n) => IInv'
  BY <1>1, <1>2, <1>5 DEF CopyInstalled, IInv, TypeOK
<1>. QED BY <1>0, <1>6

(* One file globbed by the conda loop: copied through a link of lib/, kept *)
(* as a relative link, or an absolute link turned into a file.            *)
LEMMA CondaCopyKeeps ==
  ASSUME IInv, CondaCopy
  PROVE  IInv'
<1>1. PICK n \in todo :
        LET e == CondaTree[n]
        IN  /\ IF n \in SkipLibs \/ n \in copied
               THEN UNCHANGED <<lib, copied>>
               ELSE /\ lib' = IF e.kind = "file" THEN WriteFile(lib, n, File("conda"))
                              ELSE IF e.to # AbsPath THEN [lib EXCEPT ![n] = e]
                              ELSE [lib EXCEPT ![n] = File("conda")]
                    /\ copied' = copied \cup {n}
            /\ todo' = todo \ {n}
  BY DEF CondaCopy
<1>. DEFINE e == CondaTree[n]
<1>2. n \in Names /\ e \in Entries
  BY <1>1, TreesTyped DEF CondaCopy, IInv, Present
<1>3. lib \in [Names -> PkgEntries \cup {Absent}]
  BY DEF IInv, TypeOK
<1>4. File("conda") \in PkgEntries
  BY PkgShapes DEF Origins
<1>5. CASE n \in SkipLibs \/ n \in copied
  BY <1>1, <1>5 DEF CondaCopy, IInv, TypeOK
<1>6. CASE ~(n \in SkipLibs \/ n \in copied) /\ e.kind = "file"
  <2>1. lib' = WriteFile(lib, n, File("conda"))
    BY <1>1, <1>6
  <2>2. lib' \in [Names -> PkgEntries \cup {Absent}]
    BY <2>1, <1>2, <1>3, <1>4, WriteFileTyped
  <2>. QED BY <1>1, <1>2, <1>6, <2>2 DEF CondaCopy, IInv, TypeOK
<1>7. CASE ~(n \in SkipLibs \/ n \in copied) /\ e.kind # "file" /\ e.to # AbsPath
  <2>1. e = [kind |-> "link", to |-> e.to] /\ e.to \in Names
    BY <1>2, <1>7, EntryCases
  <2>2. e \in PkgEntries
    BY <2>1, PkgShapes
  <2>3. lib' = [lib EXCEPT ![n] = e]
    BY <1>1, <1>7
  <2>. QED BY <1>1, <1>2, <1>3, <1>7, <2>2, <2>3 DEF CondaCopy, IInv, TypeOK
<1>8. CASE ~(n \in SkipLibs \/ n \in copied) /\ e.kind # "file" /\ e.to = AbsPath
  <2>1. lib' = [lib EXCEPT ![n] = File("conda")]
    BY <1>1, <1>8
  <2>. QED BY <1>1, <1>2, <1>3, <1>4, <1>8, <2>1 DEF CondaCopy, IInv, TypeOK
<1>. QED BY <1>5, <1>6, <1>7, <1>8

(* patchelf rewrites the rpath of a regular file; the others stay files.   *)
LEMMA PatchLibKeeps ==
  ASSUME IInv, PatchLib
  PROVE  IInv'
<1>1. PICK n \in todo :
        /\ \/ lib' = [lib EXCEPT ![n].rpath = TRUE]
           \/ UNCHANGED lib
        /\ todo' = todo \ {n}
  BY DEF PatchLib
<1>2. n \in Names /\ lib[n] \in FileEntries
  BY <1>1 DEF PatchLib, IInv, TypeOK
<1>3. lib \in [Names -> PkgEntries \cup {Absent}]
  BY DEF IInv, TypeOK
<1>4. [lib[n] EXCEPT !.rpath = TRUE] \in FileEntries
  BY <1>2 DEF FileEntries
<1>5. FileEntries \subseteq PkgEntries
  BY PkgShapes
<1>6. CASE lib' = [lib EXCEPT ![n].rpath = TRUE]
  <2>1. lib' = [lib EXCEPT ![n] = [lib[n] EXCEPT !.rpath = TRUE]]
    BY <1>6, <1>3, <1>2
  <2>2. lib' \in [Names -> PkgEntries \cup {Absent}]
    BY <2>1, <1>2, <1>3, <1>4, <1>5
  <2>3. \A m \in todo' : lib'[m] \in FileEntries
    BY <2>1, <1>1, <1>2, <1>3, <1>4 DEF PatchLib, IInv
  <2>. QED BY <1>1, <2>2, <2>3 DEF PatchLib, IInv, TypeOK
<1>7. CASE UNCHANGED lib
  BY <1>1, <1>7 DEF PatchLib, IInv, TypeOK
<1>. QED BY <1>1, <1>6, <1>7

LEMMA IInvStep == IInv /\ InstallLinksRelative /\ [Next]_vars => IInv'
<1>. SUFFICES ASSUME IInv, InstallLinksRelative, [Next]_vars PROVE IInv'
  OBVIOUS
<1>0. Len(Patterns) \in Nat \ {0}
  BY PatternsFacts
<1>1. CASE CopyInstalled
  BY <1>1, CopyInstalledKeeps
<1>2. CASE EndLib
  BY <1>2, TreesTyped DEF EndLib, IInv, TypeOK
<1>3. CASE EndLib64
  BY <1>3, ConstantsAssumption DEF EndLib64, IInv, TypeOK
<1>4. CASE CopyBin
  <2>1. PICK n \in todo :
          /\ bin' = IF n \in TestBins THEN bin ELSE [bin EXCEPT ![n] = "copied"]
          /\ todo' = todo \ {n}
    BY <1>4 DEF CopyBin
  <2>. QED BY <1>4, <2>1 DEF CopyBin, IInv, TypeOK
<1>5. CASE EndBin
  <2>1. CASE conda
    <3>1. CondaTodo(1) \subseteq Present(CondaTree) /\ 1 \in 1..Len(Patterns)
      BY <1>0, PatternsFacts
    <3>. QED BY <1>5, <2>1, <3>1, TreesTyped DEF EndBin, IInv, TypeOK
  <2>2. CASE ~conda
    <3>1. ToPatch(lib) /\ UNCHANGED pi /\ lib' = lib
      BY <1>5, <2>2 DEF EndBin
    <3>2. /\ phase' = "patchlib" /\ todo' \subseteq Names
          /\ \A m \in todo' : lib'[m] \in FileEntries
      BY <3>1, ToPatchKeeps
    <3>. QED BY <1>5, <3>1, <3>2 DEF EndBin, IInv, TypeOK
  <2>. QED BY <2>1, <2>2
<1>6. CASE CondaCopy
  BY <1>6, CondaCopyKeeps
<1>7. CASE EndPattern
  <2>1. CASE pi < Len(Patterns)
    <3>1. pi + 1 \in 1..Len(Patterns)
      BY <2>1, <1>0 DEF IInv, TypeOK
    <3>2. CondaTodo(pi + 1) \subseteq Present(CondaTree)
      BY <3>1, PatternsFacts
    <3>. QED BY <1>7, <2>1, <3>1, <3>2, TreesTyped DEF EndPattern, IInv, TypeOK
  <2>2. CASE ~(pi < Len(Patterns))
    <3>1. ToPatch(lib) /\ UNCHANGED pi /\ lib' = lib
      BY <1>7, <2>2 DEF EndPattern
    <3>2. /\ phase' = "patchlib" /\ todo' \subseteq Names
          /\ \A m \in todo' : lib'[m] \in FileEntries
      BY <3>1, ToPatchKeeps
    <3>. QED BY <1>7, <3>1, <3>2 DEF EndPattern, IInv, TypeOK
  <2>. QED BY <2>1, <2>2
<1>8. CASE PatchLib
  BY <1>8, PatchLibKeeps
<1>9. CASE EndPatchLib
  BY <1>9 DEF EndPatchLib, IInv, TypeOK
<1>10. CASE PatchBin
  <2>1. PICK n \in todo :
          /\ \/ bin' = [bin EXCEPT ![n] = "fixed"]
             \/ UNCHANGED bin
          /\ todo' = todo \ {n}
    BY <1>10 DEF PatchBin
  <2>. QED BY <1>10, <2>1 DEF PatchBin, IInv, TypeOK
<1>11. CASE EndPatchBin
  BY <1>11 DEF EndPatchBin, IInv, TypeOK
<1>12. CASE UNCHANGED vars
  BY <1>12 DEF vars, IInv, TypeOK
<1>. QED BY <1>1, <1>2, <1>3, <1>4, <1>5, <1>6, <1>7, <1>8, <1>9, <1>10,
            <1>11, <1>12 DEF Next

(* When CMake installs no absolute symlink into lib or lib64, the wheel's  *)
(* lib/ never holds a symlink that leaves the package, whatever conda's    *)
(* prefix holds and in whatever order the globs yield their files: the     *)
(* conda loop turns absolute links into files (line 370), and patchelf     *)
(* only ever runs on regular files.                                        *)
THEOREM TypeCorrect == InstallLinksRelative => (Spec => []TypeOK)
<1>. SUFFICES ASSUME InstallLinksRelative PROVE Spec => []TypeOK
  OBVIOUS
<1>1. IInv => TypeOK
  BY DEF IInv
<1>2. IInv /\ [Next]_vars => IInv'
  BY IInvStep
<1>. QED BY <1>1, <1>2, IInvInit, PTL DEF Spec

-----------------------------------------------------------------------------
(* The libraries the install tree puts into lib/: what the copy filter     *)
(* accepts of install/lib and install/lib64, files and links alike.        *)
InstalledLibs ==
  {n \in Names : LibLike(n) /\ (LibTree[n] # Absent \/ Lib64Tree[n] # Absent)}

(* The maintenance rule of skip_libs (line 337): every conda library some  *)
(* pattern globs that the install tree also provides is listed in it.      *)
SkipLibsCoverInstalled ==
  \A i \in 1..Len(Patterns) : (CondaTodo(i) \ SkipLibs) \cap InstalledLibs = {}

(* install/lib64 does not replace a library built as a regular file by a   *)
(* symlink of the same name.                                               *)
Lib64KeepsFiles ==
  \A n \in BuiltLibs : Lib64Tree[n] # Absent => Lib64Tree[n].kind = "file"

(* The inductive invariant behind BuiltLibsKept: each loop over the install *)
(* tree leaves every built library it visited in place, and the conda loop *)
(* only writes onto names that are absent or regular files of lib/ and     *)
(* that the install tree does not provide.                                 *)
KeptInv ==
  /\ IInv
  /\ \A m \in Names \ InstalledLibs :
       m \notin copied => lib[m] = Absent \/ lib[m].kind = "file"
  /\ phase = "conda" => todo \subseteq CondaTodo(pi)
  /\ phase = "lib" =>
       \A n \in BuiltLibs :
         n \notin todo /\ LibTree[n] # Absent /\ LibTree[n].kind = "file" => BuiltAt(lib, n)
  /\ phase = "lib64" => \A n \in BuiltLibs : n \in todo \/ BuiltAt(lib, n)
  /\ phase \notin {"lib", "lib64"} => \A n \in BuiltLibs : BuiltAt(lib, n)
  /\ \A m \in Names : BuiltAt(lib, m) => m \in BuiltLibs
  /\ phase = "lib" => \A m \in todo : lib[m] = Absent

(* A step keeps every built library lib/ holds (the action lemmas state   *)
(* it beside KeptInv').                                                     *)
NoReplace == \A n \in Names : BuiltAt(lib, n) => BuiltAt(lib', n)

LEMMA BuiltFacts ==
  /\ BuiltLibs \subseteq InstalledLibs
  /\ \A n \in BuiltLibs :
       LibLike(n) /\ (Lib64Tree[n] = Absent => LibTree[n] # Absent /\ LibTree[n].kind = "file")
BY DEF BuiltLibs, InstalledLibs

LEMMA KeptInit == Init => KeptInv
<1>. SUFFICES ASSUME Init PROVE KeptInv
  OBVIOUS
<1>1. IInv
  BY IInvInit
<1>2. \A n \in BuiltLibs : n \in Present(LibTree) \/ LibTree[n] = Absent
  BY DEF BuiltLibs, Present
<1>3. \A m \in Names : ~BuiltAt(lib, m)
  BY DEF Init, BuiltAt
<1>4. todo \subseteq Names
  BY DEF Init, Present
<1>. QED BY <1>1, <1>2, <1>3, <1>4 DEF Init, KeptInv

(* One file of install/lib or install/lib64: a built library is copied as *)
(* the built file, and only names the install tree provides are written.   *)
LEMMA CopyInstalledKept ==
  ASSUME KeptInv, InstallLinksRelative, Lib64KeepsFiles, CopyInstalled
  PROVE  KeptInv' /\ NoReplace
<1>1. PICK n \in todo :
        LET e == IF phase = "lib" THEN LibTree[n] ELSE Lib64Tree[n]
        IN  /\ lib' = IF LibLike(n)
                      THEN [lib EXCEPT ![n] = IF e.kind = "link" THEN e
                                              ELSE File("built")]
                      ELSE lib
            /\ todo' = todo \ {n}
  BY DEF CopyInstalled
<1>. DEFINE e == IF phase = "lib" THEN LibTree[n] ELSE Lib64Tree[n]
<1>2. /\ phase \in {"lib", "lib64"} /\ phase' = phase /\ copied' = copied
      /\ lib \in [Names -> PkgEntries \cup {Absent}]
  BY DEF CopyInstalled, KeptInv, IInv, TypeOK
<1>3. n \in Names /\ e # Absent
  <2>1. CASE phase = "lib"
    BY <2>1 DEF KeptInv, IInv, Present
  <2>2. CASE phase = "lib64"
    BY <2>2, <1>2 DEF KeptInv, IInv, Present
  <2>. QED BY <1>2, <2>1, <2>2
<1>4. LibLike(n) => n \in InstalledLibs
  BY <1>3 DEF InstalledLibs
<1>5. \A m \in Names : m # n => lib'[m] = lib[m]
  BY <1>1, <1>2
<1>6. ASSUME NEW b \in BuiltLibs, e.kind = "file", b = n PROVE BuiltAt(lib, b)'
  <2>1. LibLike(n)
    BY <1>6, BuiltFacts
  <2>2. lib'[n] = File("built")
    BY <1>1, <1>2, <1>3, <1>6, <2>1
  <2>3. File("built") # Absent
    <3>1. File("built") \in Entries
      BY DEF File, Entries, Origins
    <3>. QED BY <3>1, ConstantsAssumption
  <2>. QED BY <1>6, <2>2, <2>3 DEF BuiltAt, File
<1>7. IInv'
  BY CopyInstalledKeeps DEF KeptInv
<1>8. (\A m \in Names \ InstalledLibs :
         m \notin copied => lib[m] = Absent \/ lib[m].kind = "file")'
  BY <1>2, <1>4, <1>5, <1>1 DEF KeptInv
<1>9. (phase = "lib" =>
         \A b \in BuiltLibs :
           b \notin todo /\ LibTree[b] # Absent /\ LibTree[b].kind = "file" => BuiltAt(lib, b))'
  <2>. SUFFICES ASSUME phase = "lib", NEW b \in BuiltLibs, b \notin todo',
                      LibTree[b] # Absent, LibTree[b].kind = "file"
               PROVE  BuiltAt(lib, b)'
    BY <1>2
  <2>1. CASE b = n
    BY <2>1, <1>6
  <2>2. CASE b # n
    <3>1. b \notin todo /\ b \in Names
      BY <2>2, <1>1 DEF BuiltLibs
    <3>2. BuiltAt(lib, b)
      BY <3>1 DEF KeptInv
    <3>. QED BY <3>1, <3>2, <1>5 DEF BuiltAt
  <2>. QED BY <2>1, <2>2
<1>10. (phase = "lib64" => \A b \in BuiltLibs : b \in todo \/ BuiltAt(lib, b))'
  <2>. SUFFICES ASSUME phase = "lib64", NEW b \in BuiltLibs PROVE b \in todo' \/ BuiltAt(lib, b)'
    BY <1>2
  <2>1. CASE b = n
    <3>1. e.kind = "file"
      BY <2>1, <1>3 DEF Lib64KeepsFiles
    <3>. QED BY <2>1, <3>1, <1>6
  <2>2. CASE b # n
    <3>1. b \in todo \/ BuiltAt(lib, b)
      BY DEF KeptInv
    <3>2. b \in Names
      BY DEF BuiltLibs
    <3>. QED BY <3>1, <3>2, <2>2, <1>1, <1>5 DEF BuiltAt
  <2>. QED BY <2>1, <2>2
<1>11. LibLike(n) => lib'[n] = IF e.kind = "link" THEN e ELSE File("built")
  BY <1>1, <1>2, <1>3
<1>12. \A m \in Names : m # n \/ ~LibLike(n) => lib'[m] = lib[m]
  BY <1>1, <1>5
<1>13. (\A m \in Names : BuiltAt(lib, m) => m \in BuiltLibs)'
  <2>. SUFFICES ASSUME NEW m \in Names, BuiltAt(lib, m)' PROVE m \in BuiltLibs
    OBVIOUS
  <2>1. CASE m # n \/ ~LibLike(n)
    BY <2>1, <1>12 DEF KeptInv, BuiltAt
  <2>2. CASE m = n /\ LibLike(n)
    <3>1. e.kind # "link"
      BY <2>2, <1>11 DEF BuiltAt
    <3>2. e.kind = "file"
      <4>1. e \in Entries
        BY <1>2, <1>3, ConstantsAssumption
      <4>. QED BY <3>1, <4>1, EntryCases
    <3>3. \E t \in {LibTree, Lib64Tree} : t[n] # Absent /\ t[n].kind = "file"
      BY <3>2, <1>2, <1>3
    <3>. QED BY <2>2, <3>3, <1>3 DEF BuiltLibs
  <2>. QED BY <2>1, <2>2
<1>14. (phase = "lib" => \A m \in todo : lib[m] = Absent)'
  BY <1>1, <1>2, <1>12 DEF KeptInv, IInv, TypeOK
<1>15. NoReplace
  <2>. SUFFICES ASSUME NEW m \in Names, BuiltAt(lib, m) PROVE BuiltAt(lib, m)'
    BY DEF NoReplace
  <2>1. CASE m # n \/ ~LibLike(n)
    BY <2>1, <1>12 DEF BuiltAt
  <2>2. CASE m = n /\ LibLike(n)
    <3>1. phase = "lib64" /\ n \in BuiltLibs
      BY <2>2, <1>1, <1>2, <1>3 DEF KeptInv, BuiltAt
    <3>2. e.kind = "file"
      BY <3>1, <1>3 DEF Lib64KeepsFiles
    <3>. QED BY <2>2, <3>1, <3>2, <1>6
  <2>. QED BY <2>1, <2>2
<1>. QED BY <1>2, <1>7, <1>8, <1>9, <1>10, <1>13, <1>14, <1>15 DEF KeptInv

(* One file globbed by the conda loop: it is written onto its own name,    *)
(* never through a symlink, and never onto a library of the install tree. *)
LEMMA CondaCopyKept ==
  ASSUME KeptInv, InstallLinksRelative, SkipLibsCoverInstalled, CondaCopy
  PROVE  KeptInv' /\ NoReplace
<1>1. PICK n \in todo :
        LET e == CondaTree[n]
        IN  /\ IF n \in SkipLibs \/ n \in copied
               THEN UNCHANGED <<lib, copied>>
               ELSE /\ lib' = IF e.kind = "file" THEN WriteFile(lib, n, File("conda"))
                              ELSE IF e.to # AbsPath THEN [lib EXCEPT ![n] = e]
                              ELSE [lib EXCEPT ![n] = File("conda")]
                    /\ copied' = copied \cup {n}
            /\ todo' = todo \ {n}
  BY DEF CondaCopy
<1>. DEFINE e == CondaTree[n]
<1>2. /\ phase = "conda" /\ phase' = phase /\ pi' = pi
      /\ lib \in [Names -> PkgEntries \cup {Absent}] /\ pi \in 1..Len(Patterns)
  BY DEF CondaCopy, KeptInv, IInv, TypeOK
<1>3. n \in Names /\ n \in CondaTodo(pi)
  <2>1. n \in CondaTodo(pi)
    BY <1>1, <1>2 DEF KeptInv
  <2>. QED BY <2>1 DEF CondaTodo, Present
<1>4. IInv'
  BY CondaCopyKeeps DEF KeptInv
<1>5. CASE n \in SkipLibs \/ n \in copied
  BY <1>1, <1>2, <1>4, <1>5 DEF KeptInv, BuiltAt, NoReplace
<1>6. CASE ~(n \in SkipLibs \/ n \in copied)
  <2>1. n \notin InstalledLibs
    BY <1>2, <1>3, <1>6 DEF SkipLibsCoverInstalled
  <2>2. lib[n] = Absent \/ lib[n].kind = "file"
    BY <1>3, <1>6, <2>1 DEF KeptInv
  <2>3. WriteFile(lib, n, File("conda")) = [lib EXCEPT ![n] = File("conda")]
    BY <2>2 DEF WriteFile
  <2>4. PICK v : lib' = [lib EXCEPT ![n] = v]
    BY <1>1, <1>6, <2>3
  <2>5. \A m \in Names : m # n => lib'[m] = lib[m]
    BY <2>4, <1>2
  <2>6. copied' = copied \cup {n}
    BY <1>1, <1>6
  <2>7. \A b \in BuiltLibs : b # n /\ b \in Names
    BY <2>1, BuiltFacts DEF BuiltLibs
  <2>8. todo' \subseteq CondaTodo(pi')
    BY <1>1, <1>2 DEF KeptInv
  <2>9. ~BuiltAt(lib, n)'
    <3>1. File("conda").origin # "built"
      BY DEF File
    <3>2. CASE e.kind = "file"
      BY <1>1, <1>6, <2>3, <3>1, <3>2, <1>2, <1>3 DEF BuiltAt
    <3>3. CASE e.kind # "file" /\ e.to # AbsPath
      BY <1>1, <1>6, <3>3, <1>2, <1>3 DEF BuiltAt
    <3>4. CASE e.kind # "file" /\ e.to = AbsPath
      BY <1>1, <1>6, <3>1, <3>4, <1>2, <1>3 DEF BuiltAt
    <3>. QED BY <3>2, <3>3, <3>4
  <2>10. ~BuiltAt(lib, n)
    BY <1>3, <2>1, BuiltFacts DEF KeptInv
  <2>. QED BY <1>2, <1>4, <2>5, <2>6, <2>7, <2>8, <2>9, <2>10 DEF KeptInv, BuiltAt, NoReplace
<1>. QED BY <1>5, <1>6

(* patchelf changes the rpath of a regular file of lib/: no entry appears, *)
(* disappears or changes its kind or origin, and no link changes.          *)
LEMMA PatchLibShape ==
  ASSUME IInv, PatchLib
  PROVE  /\ todo' \subseteq todo
         /\ \A m \in Names : /\ lib'[m] # Absent <=> lib[m] # Absent
                             /\ lib'[m].kind = lib[m].kind
                             /\ lib'[m].origin = lib[m].origin
                             /\ lib[m] # Absent /\ lib[m].kind = "link" => lib'[m] = lib[m]
<1>1. PICK n \in todo :
        /\ \/ lib' = [lib EXCEPT ![n].rpath = TRUE]
           \/ UNCHANGED lib
        /\ todo' = todo \ {n}
  BY DEF PatchLib
<1>2. /\ n \in Names /\ lib[n] \in FileEntries
      /\ lib \in [Names -> PkgEntries \cup {Absent}]
  BY <1>1 DEF PatchLib, IInv, TypeOK
<1>3. CASE lib' = [lib EXCEPT ![n].rpath = TRUE]
  <2>1. lib' = [lib EXCEPT ![n] = [lib[n] EXCEPT !.rpath = TRUE]]
    BY <1>3, <1>2
  <2>2. /\ [lib[n] EXCEPT !.rpath = TRUE] # Absent
        /\ [lib[n] EXCEPT !.rpath = TRUE].kind = lib[n].kind
        /\ [lib[n] EXCEPT !.rpath = TRUE].origin = lib[n].origin
        /\ lib[n] # Absent /\ lib[n].kind = "file"
    <3>1. [lib[n] EXCEPT !.rpath = TRUE] \in FileEntries
      BY <1>2 DEF FileEntries
    <3>2. FileEntries \subseteq Entries
      BY DEF FileEntries, Entries
    <3>. QED BY <3>1, <3>2, <1>2, ConstantsAssumption DEF FileEntries
  <2>. QED BY <1>1, <2>1, <2>2, <1>2
<1>4. CASE UNCHANGED lib
  BY <1>1, <1>4
<1>. QED BY <1>1, <1>3, <1>4

(* patchelf changes the rpath of a regular file, not its kind or origin.  *)
LEMMA PatchLibKept ==
  ASSUME KeptInv, PatchLib
  PROVE  KeptInv' /\ NoReplace
<1>1. IInv'
  BY PatchLibKeeps DEF KeptInv
<1>2. /\ todo' \subseteq todo
      /\ \A m \in Names : /\ lib'[m] # Absent <=> lib[m] # Absent
                          /\ lib'[m].kind = lib[m].kind
                          /\ lib'[m].origin = lib[m].origin
  BY PatchLibShape DEF KeptInv
<1>. QED BY <1>1, <1>2 DEF PatchLib, KeptInv, BuiltAt, BuiltLibs, NoReplace

LEMMA KeptStep ==
  ASSUME InstallLinksRelative, SkipLibsCoverInstalled, Lib64KeepsFiles
  PROVE  KeptInv /\ [Next]_vars => KeptInv'
<1>. SUFFICES ASSUME KeptInv, [Next]_vars PROVE KeptInv'
  OBVIOUS
<1>0. IInv'
  BY IInvStep DEF KeptInv
<1>1. CASE CopyInstalled
  BY <1>1, CopyInstalledKept
<1>2. CASE EndLib
  <2>1. \A b \in BuiltLibs : b \in Present(Lib64Tree) \/ BuiltAt(lib, b)
    BY <1>2, BuiltFacts DEF EndLib, KeptInv, BuiltLibs, Present
  <2>. QED BY <1>0, <1>2, <2>1 DEF EndLib, KeptInv, BuiltAt
<1>3. CASE EndLib64
  BY <1>0, <1>3 DEF EndLib64, KeptInv, BuiltAt
<1>4. CASE CopyBin
  BY <1>0, <1>4 DEF CopyBin, KeptInv, BuiltAt
<1>5. CASE EndBin
  <2>1. CASE conda
    BY <1>0, <1>5, <2>1 DEF EndBin, KeptInv, BuiltAt
  <2>2. CASE ~conda
    BY <1>0, <1>5, <2>2 DEF EndBin, ToPatch, KeptInv, BuiltAt
  <2>. QED BY <2>1, <2>2
<1>6. CASE CondaCopy
  BY <1>6, CondaCopyKept
<1>7. CASE EndPattern
  <2>1. CASE pi < Len(Patterns)
    BY <1>0, <1>7, <2>1 DEF EndPattern, KeptInv, BuiltAt
  <2>2. CASE ~(pi < Len(Patterns))
    BY <1>0, <1>7, <2>2 DEF EndPattern, ToPatch, KeptInv, BuiltAt
  <2>. QED BY <2>1, <2>2
<1>8. CASE PatchLib
  BY <1>8, PatchLibKept
<1>9. CASE EndPatchLib
  BY <1>0, <1>9 DEF EndPatchLib, KeptInv, BuiltAt
<1>10. CASE PatchBin
  BY <1>0, <1>10 DEF PatchBin, KeptInv, BuiltAt
<1>11. CASE EndPatchBin
  BY <1>0, <1>11 DEF EndPatchBin, KeptInv, BuiltAt
<1>12. CASE UNCHANGED vars
  BY <1>0, <1>12 DEF vars, KeptInv, BuiltAt
<1>. QED BY <1>1, <1>2, <1>3, <1>4, <1>5, <1>6, <1>7, <1>8, <1>9, <1>10,
            <1>11, <1>12 DEF Next

(* The comment on skip_libs (line 337) holds whenever skip_libs is kept    *)
(* up to date: if it names every conda library a pattern globs that the    *)
(* install tree also provides, and install/lib64 does not replace a built  *)
(* library by a link, then every library built from source is shipped as  *)
(* the built file, in whatever order the globs yield their files.  (The   *)
(* links the install tree holds are relative, as TypeCorrect assumes.)     *)
THEOREM BuiltLibsKeptHolds ==
  ASSUME InstallLinksRelative, SkipLibsCoverInstalled, Lib64KeepsFiles
  PROVE  Spec => []BuiltLibsKept
<1>1. KeptInv => BuiltLibsKept
  BY DEF KeptInv, BuiltLibsKept, BuiltAt
<1>2. KeptInv /\ [Next]_vars => KeptInv'
  BY KeptStep
<1>. QED BY <1>1, <1>2, KeptInit, PTL DEF Spec

-----------------------------------------------------------------------------
(* The names some lib_patterns glob matches in $CONDA_PREFIX/lib.          *)
Globbed == {m \in Names : \E i \in 1..Len(Patterns) : m \in CondaTodo(i)}

(* Every library symlink of the install tree points to a library the copy *)
(* filter accepts from the install tree (libfoo.so -> libfoo.so.1 -> ...).  *)
InstallLinksClosed ==
  \A t \in {LibTree, Lib64Tree} : \A n \in Names :
    LibLike(n) /\ t[n] # Absent /\ t[n].kind = "link" => t[n].to \in InstalledLibs

(* Every relative symlink conda's loop copies points to a library that the *)
(* install tree provides or that lib_patterns globs and skip_libs lets in.  *)
CondaLinksClosed ==
  \A n \in Globbed \ SkipLibs :
    CondaTree[n].kind = "link" /\ CondaTree[n].to # AbsPath =>
      CondaTree[n].to \in InstalledLibs \cup (Globbed \ SkipLibs)

(* The inductive invariant behind NoDanglingLinks: every symlink of lib/   *)
(* points into what the install tree or the conda loop provides, and each *)
(* name those provide is in lib/ once its loop has visited it.             *)
LinkInv ==
  /\ IInv
  /\ phase = "conda" => conda /\ todo \subseteq CondaTodo(pi)
  /\ \A n \in Names :
       lib[n] # Absent /\ lib[n].kind = "link" =>
         \/ lib[n].to \in InstalledLibs
         \/ conda /\ lib[n].to \in Globbed \ SkipLibs
  /\ \A m \in copied : lib[m] # Absent
  /\ phase = "lib" =>
       \A m \in InstalledLibs : m \notin todo /\ LibTree[m] # Absent => lib[m] # Absent
  /\ phase = "lib64" => \A m \in InstalledLibs : m \in todo \/ lib[m] # Absent
  /\ phase \notin {"lib", "lib64"} => \A m \in InstalledLibs : lib[m] # Absent
  /\ phase = "conda" =>
       \A i \in 1..Len(Patterns) : \A m \in CondaTodo(i) \ SkipLibs :
         i < pi \/ (i = pi /\ m \notin todo) => m \in copied
  /\ phase \in {"patchlib", "patchbin", "done"} /\ conda => Globbed \ SkipLibs \subseteq copied

LEMMA ClosedRelative == InstallLinksClosed => InstallLinksRelative
BY ConstantsAssumption DEF InstallLinksClosed, InstallLinksRelative, InstalledLibs

LEMMA LinkInit == Init => LinkInv
<1>. SUFFICES ASSUME Init PROVE LinkInv
  OBVIOUS
<1>1. IInv
  BY IInvInit
<1>2. \A m \in InstalledLibs : m \in Present(LibTree) \/ LibTree[m] = Absent
  BY DEF InstalledLibs, Present
<1>. QED BY <1>1, <1>2 DEF Init, LinkInv

(* One file of install/lib or install/lib64: it lands in lib/, as a link  *)
(* to a library of the install tree or as a file.                          *)
LEMMA CopyInstalledLinks ==
  ASSUME LinkInv, InstallLinksClosed, CopyInstalled
  PROVE  LinkInv'
<1>1. PICK n \in todo :
        LET e == IF phase = "lib" THEN LibTree[n] ELSE Lib64Tree[n]
        IN  /\ lib' = IF LibLike(n)
                      THEN [lib EXCEPT ![n] = IF e.kind = "link" THEN e
                                              ELSE File("built")]
                      ELSE lib
            /\ todo' = todo \ {n}
  BY DEF CopyInstalled
<1>. DEFINE e == IF phase = "lib" THEN LibTree[n] ELSE Lib64Tree[n]
            v == IF e.kind = "link" THEN e ELSE File("built")
<1>2. /\ phase \in {"lib", "lib64"} /\ UNCHANGED <<phase, copied, conda, pi>>
      /\ lib \in [Names -> PkgEntries \cup {Absent}]
  BY DEF CopyInstalled, LinkInv, IInv, TypeOK
<1>3. n \in Names /\ e \in Entries /\ (phase = "lib" => n \in Present(LibTree))
  <2>1. CASE phase = "lib"
    BY <2>1, TreesTyped DEF LinkInv, IInv, Present
  <2>2. CASE phase = "lib64"
    BY <2>2, <1>2, TreesTyped DEF LinkInv, IInv, Present
  <2>. QED BY <1>2, <2>1, <2>2
<1>4. IInv'
  BY CopyInstalledKeeps, ClosedRelative DEF LinkInv
<1>5. \A m \in Names : m # n \/ ~LibLike(n) => lib'[m] = lib[m]
  BY <1>1, <1>2
<1>6. ASSUME LibLike(n)
      PROVE  /\ n \in InstalledLibs
             /\ lib'[n] = v
             /\ v # Absent
             /\ v.kind = "link" => v.to \in InstalledLibs
  <2>1. e # Absent
    BY <1>3, ConstantsAssumption
  <2>2. n \in InstalledLibs
    BY <1>3, <1>6, <2>1, <1>2 DEF InstalledLibs
  <2>3. lib'[n] = v
    BY <1>1, <1>2, <1>3, <1>6
  <2>4. File("built") \in Entries
    BY DEF File, Entries, Origins
  <2>5. v # Absent
    BY <1>3, <2>4, ConstantsAssumption
  <2>6. e.kind = "link" => e.to \in InstalledLibs
    BY <1>2, <1>3, <1>6, <2>1 DEF InstallLinksClosed
  <2>7. v.kind = "link" => v.to \in InstalledLibs
    BY <2>6 DEF File
  <2>. QED BY <2>2, <2>3, <2>5, <2>7
<1>7. \A m \in Names : lib[m] # Absent => lib'[m] # Absent
  BY <1>5, <1>6
<1>8. (\A k \in Names :
         lib[k] # Absent /\ lib[k].kind = "link" =>
           \/ lib[k].to \in InstalledLibs
           \/ conda /\ lib[k].to \in Globbed \ SkipLibs)'
  BY <1>2, <1>5, <1>6 DEF LinkInv
<1>9. (\A m \in copied : lib[m] # Absent)'
  BY <1>2, <1>7 DEF LinkInv, IInv, TypeOK
<1>10. (phase = "lib" =>
          \A m \in InstalledLibs : m \notin todo /\ LibTree[m] # Absent => lib[m] # Absent)'
  BY <1>1, <1>2, <1>5, <1>6 DEF LinkInv, InstalledLibs
<1>11. (phase = "lib64" => \A m \in InstalledLibs : m \in todo \/ lib[m] # Absent)'
  BY <1>1, <1>2, <1>5, <1>6 DEF LinkInv, InstalledLibs
<1>. QED BY <1>2, <1>4, <1>8, <1>9, <1>10, <1>11 DEF LinkInv

(* One file globbed by the conda loop: nothing leaves lib/, the name is in *)
(* lib/ afterwards, and a link it creates points to what conda provides.  *)
LEMMA CondaCopyLinks ==
  ASSUME LinkInv, InstallLinksClosed, CondaLinksClosed, CondaCopy
  PROVE  LinkInv'
<1>1. PICK n \in todo :
        LET e == CondaTree[n]
        IN  /\ IF n \in SkipLibs \/ n \in copied
               THEN UNCHANGED <<lib, copied>>
               ELSE /\ lib' = IF e.kind = "file" THEN WriteFile(lib, n, File("conda"))
                              ELSE IF e.to # AbsPath THEN [lib EXCEPT ![n] = e]
                              ELSE [lib EXCEPT ![n] = File("conda")]
                    /\ copied' = copied \cup {n}
            /\ todo' = todo \ {n}
  BY DEF CondaCopy
<1>. DEFINE e == CondaTree[n]
<1>2. /\ phase = "conda" /\ conda /\ UNCHANGED <<phase, conda, pi>>
      /\ lib \in [Names -> PkgEntries \cup {Absent}] /\ pi \in 1..Len(Patterns)
      /\ copied \subseteq Names
  BY DEF CondaCopy, LinkInv, IInv, TypeOK
<1>3. n \in Names /\ n \in CondaTodo(pi) /\ e \in Entries
  <2>1. n \in CondaTodo(pi)
    BY <1>1, <1>2 DEF LinkInv
  <2>. QED BY <2>1, TreesTyped DEF CondaTodo, Present
<1>4. IInv'
  BY CondaCopyKeeps DEF LinkInv
<1>5. CASE n \in SkipLibs \/ n \in copied
  BY <1>1, <1>2, <1>4, <1>5 DEF LinkInv
<1>6. CASE ~(n \in SkipLibs \/ n \in copied)
  <2>1. n \in Globbed \ SkipLibs
    BY <1>2, <1>3, <1>6 DEF Globbed
  <2>2. File("conda") \in Entries
    BY DEF File, Entries, Origins
  <2>3. File("conda") # Absent /\ File("conda").kind = "file"
    BY <2>2, ConstantsAssumption DEF File
  (* What the copy does to lib/: a file written at n or at the target of  *)
  (* n's link, or a relative link of conda's at n.                          *)
  <2>4. /\ \A m \in Names : lib[m] # Absent => lib'[m] # Absent
        /\ lib'[n] # Absent
        /\ \A m \in Names : lib'[m] # Absent /\ lib'[m].kind = "link" =>
             \/ lib'[m] = lib[m]
             \/ m = n /\ lib'[m] = e /\ e.kind = "link" /\ e.to # AbsPath
    <3>1. CASE e.kind = "file" /\ lib[n] # Absent /\ lib[n].kind = "link"
      <4>1. lib[n].to \in Names
        BY <3>1, <1>2, <1>3 DEF PkgEntries
      <4>2. lib' = [lib EXCEPT ![lib[n].to] = File("conda")]
        BY <1>1, <1>6, <3>1, <4>1, ConstantsAssumption DEF WriteFile
      <4>. QED BY <1>2, <1>3, <2>3, <3>1, <4>1, <4>2
    <3>2. CASE e.kind = "file" /\ ~(lib[n] # Absent /\ lib[n].kind = "link")
      <4>1. lib' = [lib EXCEPT ![n] = File("conda")]
        BY <1>1, <1>6, <3>2 DEF WriteFile
      <4>. QED BY <1>2, <1>3, <2>3, <4>1
    <3>3. CASE e.kind # "file" /\ e.to # AbsPath
      <4>1. lib' = [lib EXCEPT ![n] = e] /\ e.kind = "link" /\ e # Absent
        BY <1>1, <1>3, <1>6, <3>3, ConstantsAssumption DEF Entries
      <4>2. \A m \in Names : lib[m] # Absent => lib'[m] # Absent
        BY <1>2, <1>3, <4>1
      <4>3. lib'[n] = e
        BY <1>2, <1>3, <4>1
      <4>4. \A m \in Names : m # n => lib'[m] = lib[m]
        BY <1>2, <4>1
      <4>. QED BY <3>3, <4>1, <4>2, <4>3, <4>4
    <3>4. CASE e.kind # "file" /\ e.to = AbsPath
      <4>1. lib' = [lib EXCEPT ![n] = File("conda")]
        BY <1>1, <1>6, <3>4
      <4>. QED BY <1>2, <1>3, <2>3, <4>1
    <3>. QED BY <3>1, <3>2, <3>3, <3>4
  <2>5. e.kind = "link" /\ e.to # AbsPath => e.to \in InstalledLibs \cup (Globbed \ SkipLibs)
    BY <2>1 DEF CondaLinksClosed
  <2>6. copied' = copied \cup {n} /\ todo' = todo \ {n}
    BY <1>1, <1>6
  <2>7. (\A k \in Names :
           lib[k] # Absent /\ lib[k].kind = "link" =>
             \/ lib[k].to \in InstalledLibs
             \/ conda /\ lib[k].to \in Globbed \ SkipLibs)'
    BY <1>2, <2>4, <2>5 DEF LinkInv
  <2>8. (\A m \in copied : lib[m] # Absent)'
    BY <1>2, <1>3, <2>4, <2>6 DEF LinkInv
  <2>9. (\A m \in InstalledLibs : lib[m] # Absent)'
    BY <1>2, <2>4 DEF LinkInv, InstalledLibs
  <2>10. (\A i \in 1..Len(Patterns) : \A m \in CondaTodo(i) \ SkipLibs :
            i < pi \/ (i = pi /\ m \notin todo) => m \in copied)'
    BY <1>2, <2>6 DEF LinkInv
  <2>11. (todo \subseteq CondaTodo(pi))'
    BY <1>2, <2>6 DEF LinkInv
  <2>. QED BY <1>2, <1>4, <2>7, <2>8, <2>9, <2>10, <2>11 DEF LinkInv
<1>. QED BY <1>5, <1>6

LEMMA PatchLibLinks ==
  ASSUME LinkInv, PatchLib
  PROVE  LinkInv'
<1>1. IInv'
  BY PatchLibKeeps DEF LinkInv
<1>2. /\ todo' \subseteq todo
      /\ \A m \in Names : /\ lib'[m] # Absent <=> lib[m] # Absent
                          /\ lib'[m].kind = lib[m].kind
                          /\ lib[m] # Absent /\ lib[m].kind = "link" => lib'[m] = lib[m]
  BY PatchLibShape DEF LinkInv
<1>3. copied \subseteq Names /\ phase = "patchlib"
  BY DEF LinkInv, IInv, TypeOK, PatchLib
<1>. QED BY <1>1, <1>2, <1>3 DEF PatchLib, LinkInv, InstalledLibs, Globbed

LEMMA LinkStep ==
  ASSUME InstallLinksClosed, CondaLinksClosed
  PROVE  LinkInv /\ [Next]_vars => LinkInv'
<1>. SUFFICES ASSUME LinkInv, [Next]_vars PROVE LinkInv'
  OBVIOUS
<1>0. /\ IInv'
      /\ pi \in 1..Len(Patterns) /\ Len(Patterns) \in Nat \ {0}
  BY IInvStep, ClosedRelative, PatternsFacts DEF LinkInv, IInv, TypeOK
<1>1. CASE CopyInstalled
  BY <1>1, CopyInstalledLinks
<1>2. CASE EndLib
  <2>1. \A m \in InstalledLibs : m \in Present(Lib64Tree) \/ lib[m] # Absent
    BY <1>2 DEF EndLib, LinkInv, InstalledLibs, Present
  <2>. QED BY <1>0, <1>2, <2>1 DEF EndLib, LinkInv
<1>3. CASE EndLib64
  BY <1>0, <1>3 DEF EndLib64, LinkInv
<1>4. CASE CopyBin
  BY <1>0, <1>4 DEF CopyBin, LinkInv
<1>5. CASE EndBin
  <2>1. CASE conda
    BY <1>0, <1>5, <2>1 DEF EndBin, LinkInv
  <2>2. CASE ~conda
    BY <1>0, <1>5, <2>2 DEF EndBin, ToPatch, LinkInv
  <2>. QED BY <2>1, <2>2
<1>6. CASE CondaCopy
  BY <1>6, CondaCopyLinks
<1>7. CASE EndPattern
  <2>1. CASE pi < Len(Patterns)
    <3>1. /\ pi' = pi + 1 /\ todo' = CondaTodo(pi + 1) /\ todo = {}
          /\ UNCHANGED <<lib, copied, conda, phase>> /\ phase = "conda"
      BY <1>7, <2>1 DEF EndPattern
    <3>2. \A i \in 1..Len(Patterns) : i < pi + 1 => i < pi \/ i = pi
      BY <1>0
    <3>3. (\A i \in 1..Len(Patterns) : \A m \in CondaTodo(i) \ SkipLibs :
             i < pi \/ (i = pi /\ m \notin todo) => m \in copied)'
      BY <3>1, <3>2 DEF LinkInv
    <3>4. pi + 1 \in 1..Len(Patterns)
      BY <1>0, <2>1
    <3>. QED BY <1>0, <3>1, <3>3, <3>4 DEF LinkInv
  <2>2. CASE ~(pi < Len(Patterns))
    <3>1. /\ phase' = "patchlib" /\ todo = {} /\ phase = "conda"
          /\ UNCHANGED <<lib, copied, conda, pi>>
      BY <1>7, <2>2 DEF EndPattern, ToPatch
    <3>2. \A i \in 1..Len(Patterns) : i < pi \/ i = pi
      BY <1>0, <2>2
    <3>3. Globbed \ SkipLibs \subseteq copied
      BY <3>1, <3>2 DEF LinkInv, Globbed
    <3>. QED BY <1>0, <3>1, <3>3 DEF LinkInv
  <2>. QED BY <2>1, <2>2
<1>8. CASE PatchLib
  BY <1>8, PatchLibLinks
<1>9. CASE EndPatchLib
  BY <1>0, <1>9 DEF EndPatchLib, LinkInv
<1>10. CASE PatchBin
  BY <1>0, <1>10 DEF PatchBin, LinkInv
<1>11. CASE EndPatchBin
  BY <1>0, <1>11 DEF EndPatchBin, LinkInv
<1>12. CASE UNCHANGED vars
  BY <1>0, <1>12 DEF vars, LinkInv
<1>. QED BY <1>1, <1>2, <1>3, <1>4, <1>5, <1>6, <1>7, <1>8, <1>9, <1>10,
            <1>11, <1>12 DEF Next

(* The wheel's lib/ has no dangling symlink once the copy is done, for any *)
(* install tree whose library links point to libraries it installs and    *)
(* any conda prefix whose relative links lib_patterns follows to their    *)
(* targets, as libz.so* globs libz.so and libz.so.1: every link           *)
(* copied as a link (lines 226, 247, 369) finds its target shipped, in     *)
(* whatever order the globs yield the files and whether or not             *)
(* CONDA_PREFIX is set.                                                    *)
THEOREM NoDanglingLinksHolds ==
  ASSUME InstallLinksClosed, CondaLinksClosed
  PROVE  Spec => []NoDanglingLinks
<1>1. LinkInv => NoDanglingLinks
  <2>. SUFFICES ASSUME LinkInv, phase = "done", NEW n \in Names,
                      lib[n] # Absent, lib[n].kind = "link", lib[n].to # AbsPath
               PROVE  lib[lib[n].to] # Absent
    BY DEF NoDanglingLinks
  <2>1. \/ lib[n].to \in InstalledLibs
        \/ conda /\ lib[n].to \in Globbed \ SkipLibs
    BY DEF LinkInv
  <2>. QED BY <2>1 DEF LinkInv
<1>2. LinkInv /\ [Next]_vars => LinkInv'
  BY LinkStep
<1>. QED BY <1>1, <1>2, LinkInit, PTL DEF Spec
=============================================================================
