----------------------------- MODULE BundleCopy -----------------------------
(***************************************************************************)
(* CMakeBuild.copy_binaries_to_package (setup.py): the copy of the staged  *)
(* install tree (lib, lib64, include, bin) and of the conda dependencies   *)
(* into the wheel's package directory, then the patchelf pass.  Each loop  *)
(* visits one file per step, in the order rglob or glob yields them        *)
(* (filesystem order: any order).  A file name is its stem, extension and *)
(* version suffix; a file is a regular file of some origin or a symlink   *)
(* to a name of the same directory or to an absolute path.                 *)
(***************************************************************************)
EXTENDS Naturals, Sequences, FiniteSets

CONSTANTS
  Names,       \* file names under lib/, lib64/, bin/ and $CONDA_PREFIX/lib:
               \* stem, extension and version suffix, as in libz.so.1
  Absent,      \* no such file
  AbsPath,     \* the target of a symlink that is an absolute path
  LibTree,     \* install/lib:   Names -> entry or Absent
  Lib64Tree,   \* install/lib64: Names -> entry or Absent
  BinNames,    \* the regular files of install/bin
  TestBins,    \* exclude_binaries
  CondaTree,   \* $CONDA_PREFIX/lib: Names -> entry or Absent
  Patterns,    \* lib_patterns: for each pattern, the names its glob matches
  SkipLibs     \* skip_libs

NameType == [stem: STRING, ext: STRING, ver: STRING]

(* Path.suffix: the last dot-component of the name.                        *)
Suffix(n) == IF n.ver = "" THEN n.ext ELSE n.ver

(* Mutant: the ".so." test dropped, versioned libraries not copied.        *)
LibLikeSuffixOnly(n) == Suffix(n) \in {".so", ".a", ".dylib"}

(* lib_file.suffix in [".so", ".a", ".dylib"] or ".so." in lib_file.name  *)
LibLike(n) == Suffix(n) \in {".so", ".a", ".dylib"} \/ (n.ext = ".so" /\ n.ver # "")

(* lib_dir.rglob("*.so*")                                                  *)
SoGlob(n) == n.ext = ".so"

Origins == {"built", "conda"}

Entries ==
  [kind: {"file"}, origin: Origins, rpath: BOOLEAN]
    \cup [kind: {"link"}, to: Names \cup {AbsPath}]

(* What lib/ of the wheel may hold: no symlink leaves the package.         *)
PkgEntries ==
  [kind: {"file"}, origin: Origins, rpath: BOOLEAN] \cup [kind: {"link"}, to: Names]

File(o) == [kind |-> "file", origin |-> o, rpath |-> FALSE]

ASSUME ConstantsAssumption ==
  /\ Names \subseteq NameType
  /\ Absent \notin Entries
  /\ AbsPath \notin Names
  /\ LibTree \in [Names -> Entries \cup {Absent}]
  /\ Lib64Tree \in [Names -> Entries \cup {Absent}]
  /\ CondaTree \in [Names -> Entries \cup {Absent}]
  /\ BinNames \subseteq Names
  /\ Patterns \in Seq(SUBSET Names)
  /\ Patterns # << >>

VARIABLES
  lib,       \* package lib/: Names -> entry or Absent
  bin,       \* package bin/: the names copied, with whether patchelf ran
  phase,     \* the loop running
  todo,      \* the files that loop has still to visit
  pi,        \* the index of the conda pattern being globbed
  copied,    \* copied_libs
  conda,     \* CONDA_PREFIX is set
  patchelf   \* patchelf --version succeeds

vars == <<lib, bin, phase, todo, pi, copied, conda, patchelf>>

Present(tree) == {n \in Names : tree[n] # Absent}

(* What one visit of the conda loop globs: the names of pattern i.         *)
CondaTodo(i) == Patterns[i] \cap Present(CondaTree)

-----------------------------------------------------------------------------
Init ==
  /\ lib = [n \in Names |-> Absent]
  /\ bin = [n \in Names |-> Absent]
  /\ phase = "lib"
  /\ todo = Present(LibTree)
  /\ pi = 1
  /\ copied = {}
  /\ conda \in BOOLEAN
  /\ patchelf \in BOOLEAN

(* One file of install/lib or install/lib64 (lines 214-229, 235-249):     *)
(* a library is unlinked at its destination, then recreated as the same   *)
(* symlink or copied.                                                      *)
CopyInstalled ==
  /\ phase \in {"lib", "lib64"}
  /\ \E n \in todo :
       LET e == IF phase = "lib" THEN LibTree[n] ELSE Lib64Tree[n]
       IN  /\ lib' = IF LibLike(n)
                     THEN [lib EXCEPT ![n] = IF e.kind = "link" THEN e
                                             ELSE File("built")]
                     ELSE lib
           /\ todo' = todo \ {n}
  /\ UNCHANGED <<bin, phase, pi, copied, conda, patchelf>>

(* install/lib done: install/lib64.                                        *)
EndLib ==
  /\ phase = "lib"
  /\ todo = {}
  /\ phase' = "lib64"
  /\ todo' = Present(Lib64Tree)
  /\ UNCHANGED <<lib, bin, pi, copied, conda, patchelf>>

(* install/lib64 done; the headers are copied (lines 251-260, not         *)
(* modelled: no property reads them); then install/bin.                    *)
EndLib64 ==
  /\ phase = "lib64"
  /\ todo = {}
  /\ phase' = "bin"
  /\ todo' = BinNames
  /\ UNCHANGED <<lib, bin, pi, copied, conda, patchelf>>

(* One executable (lines 273-286): test binaries are skipped, the others  *)
(* copied and made executable.                                             *)
CopyBin ==
  /\ phase = "bin"
  /\ \E n \in todo :
       /\ bin' = IF n \in TestBins THEN bin ELSE [bin EXCEPT ![n] = "copied"]
       /\ todo' = todo \ {n}
  /\ UNCHANGED <<lib, phase, pi, copied, conda, patchelf>>

(* The regular .so files of lib/ patchelf is run on.                       *)
PatchTodo(l) == {n \in Names : l[n] # Absent /\ l[n].kind = "file" /\ SoGlob(n)}

(* Entering the patchelf pass: nothing to do without patchelf.            *)
ToPatch(l) ==
  /\ phase' = "patchlib"
  /\ todo' = IF patchelf THEN PatchTodo(l) ELSE {}

(* install/bin done: the conda loop when CONDA_PREFIX is set.              *)
EndBin ==
  /\ phase = "bin"
  /\ todo = {}
  /\ IF conda THEN phase' = "conda" /\ pi' = 1 /\ todo' = CondaTodo(1)
               ELSE ToPatch(lib) /\ UNCHANGED pi
  /\ UNCHANGED <<lib, bin, copied, conda, patchelf>>

(* shutil.copy2(src, dest) opens dest for writing: when dest is a symlink  *)
(* the write goes to its target, and to a path outside lib/ when the       *)
(* target is absolute.  (A chain of symlinks is followed one level: the    *)
(* trees checked have none.)                                               *)
WriteFile(l, n, f) ==
  IF l[n] # Absent /\ l[n].kind = "link"
  THEN IF l[n].to = AbsPath THEN l ELSE [l EXCEPT ![l[n].to] = f]
  ELSE [l EXCEPT ![n] = f]

(* Mutant: every conda symlink recreated as a symlink, absolute or not.    *)
CondaCopyKeepAbs ==
  /\ phase = "conda"
  /\ \E n \in todo :
       LET e == CondaTree[n]
       IN  /\ IF n \in SkipLibs \/ n \in copied
              THEN UNCHANGED <<lib, copied>>
              ELSE /\ lib' = IF e.kind = "file" THEN WriteFile(lib, n, File("conda"))
                             ELSE [lib EXCEPT ![n] = e]
                   /\ copied' = copied \cup {n}
           /\ todo' = todo \ {n}
  /\ UNCHANGED <<bin, phase, pi, conda, patchelf>>

(* Mutant: the skip_libs test dropped.                                     *)
CondaCopyNoSkip ==
  /\ phase = "conda"
  /\ \E n \in todo :
       LET e == CondaTree[n]
       IN  /\ IF n \in copied
              THEN UNCHANGED <<lib, copied>>
              ELSE /\ lib' = IF e.kind = "file" THEN WriteFile(lib, n, File("conda"))
                             ELSE IF e.to # AbsPath THEN [lib EXCEPT ![n] = e]
                             ELSE [lib EXCEPT ![n] = File("conda")]
                   /\ copied' = copied \cup {n}
           /\ todo' = todo \ {n}
  /\ UNCHANGED <<bin, phase, pi, conda, patchelf>>

(* One file globbed by the conda loop (lines 345-374).                     *)
CondaCopy ==
  /\ phase = "conda"
  /\ \E n \in todo :
       LET e == CondaTree[n]
       IN  /\ IF n \in SkipLibs \/ n \in copied
              THEN UNCHANGED <<lib, copied>>
              ELSE /\ lib' = IF e.kind = "file" THEN WriteFile(lib, n, File("conda"))
                             ELSE IF e.to # AbsPath THEN [lib EXCEPT ![n] = e]
                             ELSE [lib EXCEPT ![n] = File("conda")]
                   /\ copied' = copied \cup {n}
           /\ todo' = todo \ {n}
  /\ UNCHANGED <<bin, phase, pi, conda, patchelf>>

(* The glob of one pattern is exhausted: the next pattern, or patchelf.    *)
EndPattern ==
  /\ phase = "conda"
  /\ todo = {}
  /\ IF pi < Len(Patterns)
     THEN pi' = pi + 1 /\ todo' = CondaTodo(pi + 1) /\ UNCHANGED phase
     ELSE ToPatch(lib) /\ UNCHANGED pi
  /\ UNCHANGED <<lib, bin, copied, conda, patchelf>>

(* patchelf --set-rpath on one library; a CalledProcessError (a file that *)
(* is not ELF) is ignored.                                                 *)
PatchLib ==
  /\ phase = "patchlib"
  /\ \E n \in todo :
       /\ \/ lib' = [lib EXCEPT ![n].rpath = TRUE]
          \/ UNCHANGED lib
       /\ todo' = todo \ {n}
  /\ UNCHANGED <<bin, phase, pi, copied, conda, patchelf>>

EndPatchLib ==
  /\ phase = "patchlib"
  /\ todo = {}
  /\ phase' = "patchbin"
  /\ todo' = IF patchelf THEN {n \in Names : bin[n] # Absent} ELSE {}
  /\ UNCHANGED <<lib, bin, pi, copied, conda, patchelf>>

(* patchelf --set-rpath $ORIGIN/../lib on one executable.                  *)
PatchBin ==
  /\ phase = "patchbin"
  /\ \E n \in todo :
       /\ \/ bin' = [bin EXCEPT ![n] = "fixed"]
          \/ UNCHANGED bin
       /\ todo' = todo \ {n}
  /\ UNCHANGED <<lib, phase, pi, copied, conda, patchelf>>

EndPatchBin ==
  /\ phase = "patchbin"
  /\ todo = {}
  /\ phase' = "done"
  /\ UNCHANGED <<lib, bin, todo, pi, copied, conda, patchelf>>

Next ==
  \/ CopyInstalled \/ EndLib \/ EndLib64 \/ CopyBin \/ EndBin
  \/ CondaCopy \/ EndPattern \/ PatchLib \/ EndPatchLib \/ PatchBin
  \/ EndPatchBin

Spec == Init /\ [][Next]_vars

-----------------------------------------------------------------------------
(* The libraries the install tree provides: regular files of lib or lib64 *)
(* that the copy filter accepts.                                           *)
BuiltLibs ==
  {n \in Names : LibLike(n) /\ \E t \in {LibTree, Lib64Tree} :
                                  t[n] # Absent /\ t[n].kind = "file"}

(* lib/ holds no absolute symlink: the wheel is relocatable (line 370).    *)
TypeOK ==
  /\ lib \in [Names -> PkgEntries \cup {Absent}]
  /\ bin \in [Names -> {Absent, "copied", "fixed"}]
  /\ phase \in {"lib", "lib64", "bin", "conda", "patchlib", "patchbin", "done"}
  /\ todo \subseteq Names
  /\ pi \in 1..Len(Patterns)
  /\ copied \subseteq Names
  /\ conda \in BOOLEAN
  /\ patchelf \in BOOLEAN

(* The wheel's lib/ has no dangling relative symlink once the copy is     *)
(* done: every library symlink of the install tree or of conda is shipped *)
(* with the file it points to (lines 226 and 369 keep links relative).    *)
NoDanglingLinks ==
  phase = "done" =>
    \A n \in Names :
      lib[n] # Absent /\ lib[n].kind = "link" /\ lib[n].to # AbsPath =>
        lib[lib[n].to] # Absent

(* The comment on skip_libs (line 337): libraries built from source are   *)
(* not replaced by conda's.  Every library of the install tree is shipped *)
(* as the built file.                                                      *)
BuiltLibsKept ==
  phase = "done" =>
    \A n \in BuiltLibs : lib[n] # Absent /\ lib[n].kind = "file"
                                          /\ lib[n].origin = "built"

(* lib/ holds the regular file built from source under name n.             *)
BuiltAt(l, n) == l[n] # Absent /\ l[n].kind = "file" /\ l[n].origin = "built"
=============================================================================
