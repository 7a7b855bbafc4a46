---------------------------- MODULE MCBundleCopy ----------------------------
EXTENDS BundleCopy, TLC

CONSTANTS absent, abspath

N(s, e, v) == [stem |-> s, ext |-> e, ver |-> v]
Link(t) == [kind |-> "link", to |-> t]
Reg == File("built")

coreSo == N("libcore", ".so", "")
coreSo1 == N("libcore", ".so", ".1")
coreA == N("libcore", ".a", "")
coreCmake == N("coreConfig", ".cmake", "")
yamlSo == N("libyaml-cpp", ".so", "")
yamlSo1 == N("libyaml-cpp", ".so", ".1")
yamlSo2 == N("libyaml-cpp", ".so", ".2")
zSo == N("libz", ".so", "")
zSo1 == N("libz", ".so", ".1")
sslSo == N("libssl", ".so", "")
runBin == N("chimaera", "", "")
testBin == N("test_error_handling", "", "")

MCNames == {coreSo, coreSo1, coreA, coreCmake, yamlSo, yamlSo1, yamlSo2,
            zSo, zSo1, sslSo, runBin, testBin}

MCBinNames == {runBin, testBin}
MCTestBins == {testBin}

(* A tree given by the entries it has.                                     *)
Tree(f) == [n \in MCNames |-> IF n \in DOMAIN f THEN f[n] ELSE absent]

(* The install tree: a versioned library behind its link, a static        *)
(* library under lib64, a CMake config file, and yaml-cpp built at the     *)
(* version skip_libs names (1) or at another one (2).                      *)
MCLibTreeAt(yv) ==
  Tree((coreSo :> Link(coreSo1)) @@ (coreSo1 :> Reg) @@ (coreCmake :> Reg)
       @@ (yamlSo :> Link(yv)) @@ (yv :> Reg))
MCLibTree == MCLibTreeAt(yamlSo1)
MCLibTreeBumped == MCLibTreeAt(yamlSo2)
MCLib64Tree == Tree(coreA :> Reg)

(* An install tree whose libcore.so is an absolute symlink, as CMake      *)
(* installs one built with an absolute target.                            *)
MCLibTreeAbsLink ==
  Tree((coreSo :> Link(abspath)) @@ (coreSo1 :> Reg) @@ (coreCmake :> Reg)
       @@ (yamlSo :> Link(yamlSo1)) @@ (yamlSo1 :> Reg))

(* $CONDA_PREFIX/lib: zlib behind a relative link, OpenSSL behind an      *)
(* absolute one, and conda's own yaml-cpp.                                 *)
MCCondaTreeAt(yv) ==
  Tree((zSo :> Link(zSo1)) @@ (zSo1 :> File("conda")) @@ (sslSo :> Link(abspath))
       @@ (yamlSo :> Link(yv)) @@ (yv :> File("conda")))
MCCondaTree == MCCondaTreeAt(yamlSo1)
MCCondaTreeBumped == MCCondaTreeAt(yamlSo2)

(* The globs of libyaml*.so*, libz.so* and libssl.so*, in lib_patterns'   *)
(* order.                                                                  *)
MCPatterns == << {yamlSo, yamlSo1, yamlSo2}, {zSo, zSo1}, {sslSo} >>

(* skip_libs names the .so link and one version.                           *)
MCSkipLibs == {yamlSo, yamlSo1}
=============================================================================
