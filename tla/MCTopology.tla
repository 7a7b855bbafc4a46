----------------------------- MODULE MCTopology -----------------------------
(***************************************************************************)
(* A small instance of Topology: two containers, "1" (numeric, so that its *)
(* fallback identity collides with node_id 1) and "c" (not numeric), node  *)
(* ids n1 and n2 that are the integers 1 and 2, and a handful of records  *)
(* chosen to exercise ties, missing node_id, missing event_id and missing  *)
(* hostnames.  Every snapshot lists a subset of the containers in any     *)
(* order, each with a list of at most two items, a single dict, or junk.   *)
(***************************************************************************)
EXTENDS Topology, SequencesExt, TLC

CONSTANTS n1, n2, nbad

MCStr(x) == CASE x = n1 -> "1" [] x = n2 -> "2" [] x = nbad -> "node-x" [] OTHER -> x

MCToInt(x) ==
  CASE x \in {n1, "1"} -> 1 [] x \in {n2, "2"} -> 2 [] OTHER -> NotInt

Rec(n, e, h) == [node_id |-> n, event_id |-> e, hostname |-> h]

(* Records for runs where every node_id is an integer.                     *)
MCRecords ==
  { Rec(n1, 1, "h1"), Rec(n1, 2, None), Rec(n1, 2, "h2"),
    Rec(None, 1, "h1"), Rec(None, None, EmptyString) }

(* Adds a record whose node_id is not an integer.                          *)
MCRecordsBadId == MCRecords \cup { Rec(nbad, 1, "h1") }

MCMaxItems == 2

ItemSeqs == UNION {[1..n -> Records \cup {NotDict}] : n \in 0..MCMaxItems}

MCReports ==
  {[shape |-> "list", items |-> s] : s \in ItemSeqs}
    \cup {[shape |-> "dict", rec |-> r] : r \in Records}
    \cup {[shape |-> "other"]}

MCSnapshots ==
  UNION {{[i \in 1..Len(o) |-> [cid |-> o[i], report |-> f[o[i]]]]
            : f \in [Range(o) -> MCReports]}
         : o \in SetToAllKPermutations(Containers)}
=============================================================================
