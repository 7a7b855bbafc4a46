------------------------------ MODULE MCPools ------------------------------
EXTENDS Pools, TLC

CONSTANTS malformed, emptyDoc, scalarDoc, noKey, null, emptyMap, mapVal, junk,
          noFile, none, strVal, intVal, nullVal

(* A string, an integer and a null in the YAML.                           *)
MCScalars == {strVal, intVal, nullVal}
MCStrScalars == {strVal}

(* An entry with every field, pool_id an integer as runtime configs write *)
(* it; an entry with only a null pool_name; a well-formed string entry.    *)
FullEntry == [f \in PoolFields |-> IF f = "pool_id" THEN intVal ELSE strVal]
NullEntry == [f \in {"pool_name"} |-> nullVal]
StrEntry == [f \in {"mod_name", "pool_name"} |-> strVal]

(* CHI_SERVER_CONF set, WRP_RUNTIME_CONF unset, and the home default.      *)
MCPaths == << "/etc/chi.yaml", none, "~/.chimaera/chimaera.yaml" >>

(* Mappings whose compose is absent, null, {}, a non-empty mapping, a list *)
(* of two descriptors, or a list with a junk entry.                        *)
MCMappings ==
  {[compose |-> c] : c \in {noKey, null, emptyMap, mapVal,
                           << FullEntry, NullEntry >>, << StrEntry, junk >>}}

(* Well-formed configs only: every compose a list of string descriptors.  *)
MCCleanContents ==
  {[compose |-> c] : c \in {noKey, << StrEntry >>}}

(* The documents of the run in which every file parses.                    *)
MCGoodContents == MCMappings \cup {scalarDoc}

MCAllContents == MCGoodContents \cup {malformed, emptyDoc}

RequestSymmetry == Permutations(Requests)
=============================================================================
