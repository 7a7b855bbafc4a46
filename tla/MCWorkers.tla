------------------------------ MODULE MCWorkers ------------------------------
(***************************************************************************)
(* A small instance of Workers: two containers and the two worker records *)
(* of the spec's example (section 8), each list at most MCMaxItems long.   *)
(***************************************************************************)
EXTENDS Workers, TLC

W(q, b, p) == [queued |-> q, blocked |-> b, processed |-> p]

MCRecords == { W(2, None, 5), W(None, 1, None) }

(* The longest list a container reports.                                   *)
CONSTANT MCMaxItems

(* Lists of records; with MCWithJunk also lists holding a non-dict.        *)
MCSnapshotsOf(items) ==
  LET reps == {[shape |-> "list", items |-> s]
                 : s \in UNION {[1..n -> items] : n \in 0..MCMaxItems}}
                \cup {[shape |-> "dict", rec |-> w] : w \in Records}
                \cup {[shape |-> "other"]}
  IN  UNION {{[i \in 1..Len(o) |-> [cid |-> o[i], report |-> f[o[i]]]]
                : f \in [Range(o) -> reps]}
             : o \in SetToAllKPermutations(Containers)}

MCSnapshots == MCSnapshotsOf(Records)

(* The requests are interchangeable threads.                               *)
RequestSymmetry == Permutations(Requests)

MCSnapshotsWithJunk == MCSnapshotsOf(Records \cup {NotDict})
=============================================================================
