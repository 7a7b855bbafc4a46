--------------------------- MODULE TopologyProofs ---------------------------
(***************************************************************************)
(* Proofs about the Node Reconciler (Topology), for every value of the     *)
(* constants that satisfies ConstantsAssumption.                           *)
(***************************************************************************)
EXTENDS Topology, TLAPS

USE ConstantsAssumption

(* A record's identity key is one of Keys.                                 *)
LEMMA NodeKeyInKeys ==
  ASSUME NEW c \in Containers, NEW e \in Records
  PROVE  NodeKey(c, e) \in Keys
BY DEF NodeKey, Keys, RecordType

(* What the second loop builds from a stored record has the output type.   *)
LEMMA OutputTyped ==
  ASSUME NEW k \in Keys, NEW e \in Records
  PROVE  Output(k, e) \in OutputType
<1>1. ExposedId(k, e) \in Int \cup {NotInt}
  BY DEF ExposedId, RecordType
<1>2. ExposedHost(e) \in Hostnames
  BY DEF ExposedHost, RecordType
<1>. QED BY <1>1, <1>2 DEF Output, OutputType

LEMMA TypeInit == Init => TypeOK
BY DEF Init, TypeOK, NoNodes, SnapshotType, ResponseType

(* Every step of get_topology keeps the types of TypeOK.                   *)
LEMMA TypeStep == TypeOK /\ [Next]_vars => TypeOK'
  <2> SUFFICES ASSUME TypeOK, [Next]_vars PROVE TypeOK'
    OBVIOUS
  <2>1. CASE FetchFail
    BY <2>1 DEF FetchFail, TypeOK, ResponseType
  <2>2. CASE Fetch
    BY <2>2 DEF Fetch, TypeOK, NoNodes
  <2>3. CASE SkipReport
    BY <2>3 DEF SkipReport, TypeOK
  <2>4. CASE EndOfList
    BY <2>4 DEF EndOfList, TypeOK
  <2>5. CASE ScanEntry
    <3>. DEFINE entry == raw[ci].report.items[ei]
                k     == NodeKey(raw[ci].cid, entry)
    <3>0. /\ raw \in Seq(Pair)
          /\ ci \in 1..Len(raw)
      BY <2>5 DEF ScanEntry, TypeOK, SnapshotType
    <3>1. raw[ci].cid \in Containers /\ raw[ci].report \in Reports
      <4>1. raw[ci] \in Pair
        BY <3>0
      <4>. QED BY <4>1 DEF Pair
    <3>2. entry \in Records \cup {NotDict}
      <4>1. raw[ci].report \in [shape: {"list"}, items: Seq(Records \cup {NotDict})]
        BY <2>5, <3>1 DEF ScanEntry, Reports
      <4>2. ei \in 1..Len(raw[ci].report.items)
        BY <2>5, <4>1 DEF ScanEntry, TypeOK
      <4>. QED BY <4>1, <4>2
    <3>3. entry # NotDict => k \in Keys
      BY <3>1, <3>2, NodeKeyInKeys, Zenon
    <3>4. nodes' \in [Keys -> Records \cup {None}]
      BY <2>5, <3>2, <3>3 DEF ScanEntry, TypeOK
    <3>. QED BY <2>5, <3>4 DEF ScanEntry, TypeOK
  <2>6. CASE Respond
    <3>1. \A k \in Keys : nodes[k] # None => Output(k, nodes[k]) \in OutputType
      BY OutputTyped DEF TypeOK
    <3>2. resp' \in ResponseType
      BY <2>6, <3>1 DEF Respond, Response, ResponseType, TypeOK
    <3>. QED BY <2>6, <3>2 DEF Respond, TypeOK
  <2>7. CASE Return
    BY <2>7 DEF Return, TypeOK, NoNodes, SnapshotType, ResponseType
  <2>8. CASE UNCHANGED vars
    BY <2>8 DEF vars, TypeOK
  <2>. QED BY <2>1, <2>2, <2>3, <2>4, <2>5, <2>6, <2>7, <2>8 DEF Next

(* Type correctness: every state get_topology reaches has the types of     *)
(* TypeOK, for every choice of containers, records and conversions.        *)
THEOREM TypeCorrect == Spec => []TypeOK
BY TypeInit, TypeStep, PTL DEF Spec

-----------------------------------------------------------------------------
(* The response get_topology builds from `nodes` in its second loop.       *)
OutMap == [k \in Keys |-> IF nodes[k] = None THEN None ELSE Output(k, nodes[k])]

(* The inductive invariant behind FreshestWins: the loop invariant, no     *)
(* response while a request is idle or scanning, and a 200 response is     *)
(* what the second loop builds once the first has visited every pair.      *)
IInv ==
  /\ TypeOK
  /\ ScanInv
  /\ pc \in {"idle", "scan"} => resp = None
  /\ (resp # None /\ resp.status = 200) => (ci > Len(raw) /\ resp.nodes = OutMap)

(* A position is a pair <<i, j>> naming the j-th element of the i-th       *)
(* container's list, and that element is a dict.                           *)
LEMMA PositionsDef ==
  ASSUME NEW s, NEW p
  PROVE  p \in Positions(s) <=>
           \E i \in 1..Len(s) : \E j \in DictIdx(s, i) : p = <<i, j>>
BY DEF Positions

LEMMA DictIdxDef ==
  ASSUME NEW s, NEW i, NEW j
  PROVE  j \in DictIdx(s, i) <=>
           /\ s[i].report.shape = "list"
           /\ j \in 1..Len(s[i].report.items)
           /\ s[i].report.items[j] # NotDict
BY DEF DictIdx

(* The record at a position of a well-typed snapshot, and its key.         *)
LEMMA RecAtTyped ==
  ASSUME NEW s \in SnapshotType, NEW p \in Positions(s)
  PROVE  /\ RecAt(s, p) \in Records
         /\ KeyAt(s, p) \in Keys
         /\ EventId(RecAt(s, p)) \in Nat
         /\ p \in (1..Len(s)) \X (Nat \ {0})
<1>0. PICK i \in 1..Len(s) : \E j \in DictIdx(s, i) : p = <<i, j>>
  BY PositionsDef
<1>1. PICK j \in DictIdx(s, i) : p = <<i, j>>
  BY <1>0
<1>2. /\ s[i].report.shape = "list"
      /\ j \in 1..Len(s[i].report.items)
      /\ s[i].report.items[j] # NotDict
  BY <1>1, DictIdxDef
<1>3. s[i] \in Pair
  BY DEF SnapshotType
<1>4. s[i].cid \in Containers /\ s[i].report \in Reports
  BY <1>3 DEF Pair
<1>5. s[i].report \in [shape: {"list"}, items: Seq(Records \cup {NotDict})]
  BY <1>2, <1>4 DEF Reports
<1>6. s[i].report.items[j] \in Records
  BY <1>2, <1>5
<1>7. RecAt(s, p) \in Records
  BY <1>1, <1>6 DEF RecAt
<1>8. KeyAt(s, p) \in Keys
  BY <1>1, <1>4, <1>7, NodeKeyInKeys DEF KeyAt
<1>9. EventId(RecAt(s, p)) \in Nat
  BY <1>7 DEF EventId, RecordType
<1>. QED BY <1>1, <1>2, <1>7, <1>8, <1>9

(* The heart of the loop: visiting one more record q, after every record   *)
(* of P, and keeping it exactly when its identity is new or its event_id   *)
(* is strictly greater, turns the reconciliation of P into that of P+{q}.  *)
LEMMA ReconcileStep ==
  ASSUME NEW s, NEW P, NEW q, NEW m \in [Keys -> Records \cup {None}],
         \A p \in P \cup {q} : KeyAt(s, p) \in Keys /\ EventId(RecAt(s, p)) \in Nat,
         \A p \in P \cup {q} : RecAt(s, p) \in Records,
         \A p \in P : Before(p, q) /\ ~Before(q, p),
         ~Before(q, q),
         Reconciled(s, P, m)
  PROVE  LET k == KeyAt(s, q)
         IN  Reconciled(s, P \cup {q},
                        IF m[k] = None \/ EventId(RecAt(s, q)) > EventId(m[k])
                        THEN [m EXCEPT ![k] = RecAt(s, q)]
                        ELSE m)
<1>. DEFINE k == KeyAt(s, q)
            r == RecAt(s, q)
            Q == P \cup {q}
            m2 == IF m[k] = None \/ EventId(r) > EventId(m[k])
                  THEN [m EXCEPT ![k] = r]
                  ELSE m
<1>. SUFFICES ASSUME NEW k2 \in Keys
              PROVE  /\ (m2[k2] = None) <=> (\A p \in Q : KeyAt(s, p) # k2)
                     /\ m2[k2] # None =>
                          \E p \in Q : IsWinner(s, Q, k2, p) /\ RecAt(s, p) = m2[k2]
  BY DEF Reconciled
<1>0. /\ (m[k2] = None) <=> (\A p \in P : KeyAt(s, p) # k2)
      /\ m[k2] # None => \E p \in P : IsWinner(s, P, k2, p) /\ RecAt(s, p) = m[k2]
  BY DEF Reconciled
<1>a. k \in Keys /\ r \in Records /\ r # None /\ EventId(r) \in Nat
  OBVIOUS
<1>1. CASE k2 # k
  <2>1. m2[k2] = m[k2]
    BY <1>1, <1>a
  <2>2. (\A p \in Q : KeyAt(s, p) # k2) <=> (\A p \in P : KeyAt(s, p) # k2)
    BY <1>1
  <2>3. ASSUME NEW p \in P, IsWinner(s, P, k2, p) PROVE IsWinner(s, Q, k2, p)
    BY <2>3, <1>1 DEF IsWinner
  <2>. QED BY <1>0, <2>1, <2>2, <2>3
<1>2. CASE k2 = k /\ m[k] = None
  <2>1. m2[k2] = r
    BY <1>2, <1>a
  <2>2. \A p \in P : KeyAt(s, p) # k
    BY <1>0, <1>2
  <2>3. IsWinner(s, Q, k2, q)
    <3>1. \A p \in Q : KeyAt(s, p) = k2 => p = q
      BY <1>2, <2>2
    <3>2. EventId(r) <= EventId(r)
      BY <1>a
    <3>. QED BY <1>2, <3>1, <3>2 DEF IsWinner
  <2>. QED BY <1>2, <1>a, <2>1, <2>3
<1>3. CASE k2 = k /\ m[k] # None
  <2>1. PICK w \in P : IsWinner(s, P, k, w) /\ RecAt(s, w) = m[k]
    BY <1>0, <1>3
  <2>2. EventId(m[k]) \in Nat /\ EventId(r) \in Nat
    BY <2>1
  <2>3. \A p \in P : KeyAt(s, p) = k => EventId(RecAt(s, p)) <= EventId(m[k])
    BY <2>1 DEF IsWinner
  <2>4. CASE EventId(r) > EventId(m[k])
    <3>1. m2[k2] = r
      BY <1>3, <2>4, <1>a
    <3>2. IsWinner(s, Q, k2, q)
      <4>1. \A p \in P : KeyAt(s, p) = k => EventId(RecAt(s, p)) < EventId(r)
        BY <2>2, <2>3, <2>4
      <4>2. EventId(r) <= EventId(r)
        BY <1>a
      <4>3. \A p \in P : KeyAt(s, p) = k => EventId(RecAt(s, p)) <= EventId(r)
        BY <4>1, <2>2
      <4>. QED BY <1>3, <4>1, <4>2, <4>3 DEF IsWinner
    <3>. QED BY <1>3, <1>a, <3>1, <3>2
  <2>5. CASE ~(EventId(r) > EventId(m[k]))
    <3>1. m2[k2] = m[k2]
      BY <1>3, <2>5
    <3>2. EventId(r) <= EventId(RecAt(s, w))
      BY <2>1, <2>2, <2>5
    <3>3. IsWinner(s, Q, k2, w)
      BY <1>3, <2>1, <3>2 DEF IsWinner
    <3>. QED BY <1>3, <2>1, <3>1, <3>3
  <2>. QED BY <2>4, <2>5
<1>. QED BY <1>1, <1>2, <1>3

-----------------------------------------------------------------------------
(* Nothing precedes the first element of the first list.                   *)
LEMMA VisitedStart ==
  ASSUME NEW s \in SnapshotType
  PROVE  {p \in Positions(s) : Before(p, <<1, 1>>)} = {}
<1>. SUFFICES ASSUME NEW p \in Positions(s), Before(p, <<1, 1>>) PROVE FALSE
  OBVIOUS
<1>1. p \in (1..Len(s)) \X (Nat \ {0})
  BY RecAtTyped
<1>. QED BY <1>1 DEF Before

(* The inner loop moves from element j to j + 1 of the i-th list: the      *)
(* visited records gain the j-th element if it is a dict.                  *)
LEMMA VisitedScan ==
  ASSUME NEW s \in SnapshotType, NEW i \in 1..Len(s), NEW j \in Nat \ {0},
         s[i].report.shape = "list", j <= Len(s[i].report.items)
  PROVE  {p \in Positions(s) : Before(p, <<i, j + 1>>)}
           = {p \in Positions(s) : Before(p, <<i, j>>)}
               \cup (IF s[i].report.items[j] # NotDict THEN {<<i, j>>} ELSE {})
<1>1. \A p \in Positions(s) :
        Before(p, <<i, j + 1>>) <=> (Before(p, <<i, j>>) \/ p = <<i, j>>)
  <2>. SUFFICES ASSUME NEW p \in Positions(s)
                PROVE  Before(p, <<i, j + 1>>) <=> (Before(p, <<i, j>>) \/ p = <<i, j>>)
    OBVIOUS
  <2>1. p \in (1..Len(s)) \X (Nat \ {0})
    BY RecAtTyped
  <2>. QED BY <2>1 DEF Before
<1>2. <<i, j>> \in Positions(s) <=> s[i].report.items[j] # NotDict
  BY PositionsDef, DictIdxDef
<1>. QED BY <1>1, <1>2

(* The outer loop moves from the i-th pair to the next, the i-th report    *)
(* being no list or its list used up: the visited records stay the same.   *)
LEMMA VisitedNext ==
  ASSUME NEW s \in SnapshotType, NEW i \in 1..Len(s), NEW j \in Nat \ {0},
         s[i].report.shape # "list" \/ j > Len(s[i].report.items)
  PROVE  {p \in Positions(s) : Before(p, <<i + 1, 1>>)}
           = {p \in Positions(s) : Before(p, <<i, j>>)}
<1>. SUFFICES ASSUME NEW p \in Positions(s)
              PROVE  Before(p, <<i + 1, 1>>) <=> Before(p, <<i, j>>)
  OBVIOUS
<1>1. p \in (1..Len(s)) \X (Nat \ {0})
  BY RecAtTyped
<1>2. p[1] = i => p[2] < j
  <2>. SUFFICES ASSUME p[1] = i PROVE p[2] < j
    OBVIOUS
  <2>1. p[2] \in DictIdx(s, i)
    BY <1>1, PositionsDef
  <2>2. s[i].report.shape = "list" /\ p[2] \in 1..Len(s[i].report.items)
    BY <2>1, DictIdxDef
  <2>. QED BY <2>2
<1>. QED BY <1>1, <1>2 DEF Before

(* The empty map reconciles no records.                                    *)
LEMMA ReconciledEmpty ==
  ASSUME NEW s
  PROVE  Reconciled(s, {}, NoNodes)
BY DEF Reconciled, NoNodes

-----------------------------------------------------------------------------
LEMMA IInvInit == Init => IInv
<1>. SUFFICES ASSUME Init PROVE IInv
  OBVIOUS
<1>1. TypeOK
  BY TypeInit
<1>2. Visited = {}
  BY DEF Init, Visited, Positions
<1>3. ScanInv
  BY <1>2, ReconciledEmpty DEF Init, ScanInv
<1>. QED BY <1>1, <1>3 DEF Init, IInv

LEMMA IInvStep == IInv /\ [Next]_vars => IInv'
<1>. SUFFICES ASSUME IInv, [Next]_vars PROVE IInv'
  OBVIOUS
<1>0. TypeOK /\ TypeOK'
  BY TypeStep DEF IInv
<1>1. CASE FetchFail
  <2>1. ScanInv'
    BY <1>1 DEF FetchFail, IInv, ScanInv, Visited
  <2>2. resp'.status = 503 /\ pc' = "done"
    BY <1>1 DEF FetchFail
  <2>. QED BY <1>0, <2>1, <2>2 DEF IInv
<1>2. CASE Fetch
  <2>1. raw' \in SnapshotType
    BY <1>0 DEF TypeOK
  <2>2. Visited' = {}
    BY <1>2, <2>1, VisitedStart DEF Fetch, Visited
  <2>3. ScanInv'
    BY <1>2, <2>2, ReconciledEmpty DEF Fetch, ScanInv
  <2>. QED BY <1>0, <1>2, <2>3 DEF Fetch, IInv
<1>3. CASE SkipReport
  <2>1. Visited' = Visited
    BY <1>0, <1>3, VisitedNext DEF SkipReport, Visited, TypeOK
  <2>. QED BY <1>0, <1>3, <2>1 DEF SkipReport, IInv, ScanInv
<1>4. CASE EndOfList
  <2>1. Visited' = Visited
    BY <1>0, <1>4, VisitedNext DEF EndOfList, Visited, TypeOK
  <2>. QED BY <1>0, <1>4, <2>1 DEF EndOfList, IInv, ScanInv
<1>5. CASE ScanEntry
  <2>. DEFINE q == <<ci, ei>>
              e == raw[ci].report.items[ei]
  <2>1. Visited' = Visited \cup (IF e # NotDict THEN {q} ELSE {})
    BY <1>0, <1>5, VisitedScan DEF ScanEntry, Visited, TypeOK
  <2>2. CASE e = NotDict
    BY <1>0, <1>5, <2>1, <2>2 DEF ScanEntry, IInv, ScanInv
  <2>3. CASE e # NotDict
    <3>1. q \in Positions(raw)
      <4>1. ci \in 1..Len(raw)
        BY <1>0, <1>5 DEF ScanEntry, TypeOK
      <4>2. ei \in DictIdx(raw, ci)
        BY <1>0, <1>5, <2>3, DictIdxDef DEF ScanEntry, TypeOK
      <4>. QED BY <4>1, <4>2, PositionsDef
    <3>2. RecAt(raw, q) = e /\ KeyAt(raw, q) = NodeKey(raw[ci].cid, e)
      BY DEF RecAt, KeyAt
    <3>3. \A p \in Visited \cup {q} :
            /\ KeyAt(raw, p) \in Keys /\ EventId(RecAt(raw, p)) \in Nat
            /\ RecAt(raw, p) \in Records
      BY <1>0, <3>1, RecAtTyped DEF Visited, TypeOK
    <3>4. \A p \in Visited : Before(p, q) /\ ~Before(q, p)
      <4>. SUFFICES ASSUME NEW p \in Visited PROVE Before(p, q) /\ ~Before(q, p)
        OBVIOUS
      <4>1. p \in (1..Len(raw)) \X (Nat \ {0}) /\ q \in Nat \X Nat
        BY <1>0, RecAtTyped DEF Visited, TypeOK
      <4>. QED BY <4>1 DEF Visited, Before
    <3>5. ~Before(q, q)
      BY <1>0 DEF TypeOK, Before
    <3>6. nodes \in [Keys -> Records \cup {None}] /\ Reconciled(raw, Visited, nodes)
      BY <1>0 DEF IInv, ScanInv, TypeOK
    <3>7. Reconciled(raw, Visited \cup {q}, nodes')
      BY <1>5, <2>3, <3>2, <3>3, <3>4, <3>5, <3>6, ReconcileStep DEF ScanEntry, Fresher
    <3>. QED BY <1>0, <1>5, <2>1, <2>3, <3>7 DEF ScanEntry, IInv, ScanInv
  <2>. QED BY <2>2, <2>3
<1>6. CASE Respond
  <2>1. ScanInv'
    BY <1>6 DEF Respond, ScanInv, Visited, IInv
  <2>2. (resp' # None /\ resp'.status = 200) => (ci' > Len(raw') /\ resp'.nodes = OutMap')
    BY <1>6 DEF Respond, Response, OutMap
  <2>. QED BY <1>0, <1>6, <2>1, <2>2 DEF Respond, IInv
<1>7. CASE Return
  <2>1. Visited' = {}
    BY <1>7 DEF Return, Visited, Positions
  <2>. QED BY <1>0, <1>7, <2>1, ReconciledEmpty DEF Return, IInv, ScanInv
<1>8. CASE UNCHANGED vars
  BY <1>0, <1>8 DEF vars, IInv, ScanInv, Visited, OutMap
<1>. QED BY <1>1, <1>2, <1>3, <1>4, <1>5, <1>6, <1>7, <1>8 DEF Next

(* Once the outer loop is past the last pair, it has visited every record, *)
(* so `nodes` is the reconciliation of the whole snapshot.                  *)
LEMMA LoopDone ==
  ASSUME IInv, ci > Len(raw)
  PROVE  Reconciled(raw, Positions(raw), nodes)
<1>1. Visited = Positions(raw)
  <2>1. \A p \in Positions(raw) : Before(p, <<ci, ei>>)
    BY RecAtTyped DEF IInv, TypeOK, Before
  <2>. QED BY <2>1 DEF Visited
<1>. QED BY <1>1 DEF IInv, ScanInv

LEMMA IInvFreshest == IInv => FreshestWins
<1>. SUFFICES ASSUME IInv, resp # None, resp.status = 200, NEW k \in Keys
              PROVE  /\ (resp.nodes[k] = None) <=> (\A p \in Positions(raw) : KeyAt(raw, p) # k)
                     /\ resp.nodes[k] # None =>
                          \E p \in Positions(raw) :
                             /\ IsWinner(raw, Positions(raw), k, p)
                             /\ resp.nodes[k] = Output(k, RecAt(raw, p))
  BY DEF FreshestWins
<1>1. ci > Len(raw) /\ resp.nodes = OutMap
  BY DEF IInv
<1>3. Reconciled(raw, Positions(raw), nodes)
  BY <1>1, LoopDone
<1>4. nodes[k] \in Records \cup {None}
  BY DEF IInv, TypeOK
<1>5. nodes[k] # None => Output(k, nodes[k]) \in OutputType
  BY <1>4, OutputTyped
<1>6. resp.nodes[k] = IF nodes[k] = None THEN None ELSE Output(k, nodes[k])
  BY <1>1 DEF OutMap
<1>7. (resp.nodes[k] = None) <=> (nodes[k] = None)
  BY <1>5, <1>6
<1>. QED BY <1>3, <1>6, <1>7 DEF Reconciled

(* The loop invariant of get_topology's reconciliation loop: at every     *)
(* step `nodes` is the reconciliation of the records visited so far, for   *)
(* every snapshot, whatever the order of raw.items() and of each list.      *)
THEOREM ScanInvHolds == Spec => []ScanInv
<1>1. IInv => ScanInv
  BY DEF IInv
<1>. QED BY <1>1, IInvInit, IInvStep, PTL DEF Spec

(* Freshest wins: every 200 response of get_topology holds, per identity,  *)
(* the output of a record of that identity with the largest event_id, the  *)
(* first seen among equals, and nothing for identities no record carries:  *)
(* for every set of containers, records and str/int conversions.           *)
THEOREM FreshestWinsHolds == Spec => []FreshestWins
BY IInvInit, IInvStep, IInvFreshest, PTL DEF Spec


-----------------------------------------------------------------------------
(* Two winners for the same identity are the same position: their          *)
(* event_ids are equal, and of two distinct positions one comes first,     *)
(* which would make its event_id strictly smaller.                         *)
LEMMA WinnerUnique ==
  ASSUME NEW s \in SnapshotType, NEW P \in SUBSET Positions(s), NEW k,
         NEW p, NEW q, IsWinner(s, P, k, p), IsWinner(s, P, k, q)
  PROVE  p = q
<1>1. p \in Positions(s) /\ q \in Positions(s)
  BY DEF IsWinner
<1>2. EventId(RecAt(s, p)) = EventId(RecAt(s, q))
  BY <1>1, RecAtTyped DEF IsWinner
<1>3. p # q => Before(p, q) \/ Before(q, p)
  BY <1>1, RecAtTyped DEF Before
<1>4. Before(q, p) => EventId(RecAt(s, q)) < EventId(RecAt(s, p))
  BY DEF IsWinner
<1>5. Before(p, q) => EventId(RecAt(s, p)) < EventId(RecAt(s, q))
  BY DEF IsWinner
<1>6. EventId(RecAt(s, p)) \in Nat
  BY <1>1, RecAtTyped
<1>. QED BY <1>2, <1>3, <1>4, <1>5, <1>6

(* A map that reconciles every record of a snapshot is its freshest-wins  *)
(* map: reconciliation has exactly one outcome.                            *)
LEMMA ReconciledIsFreshest ==
  ASSUME NEW s \in SnapshotType, NEW m \in [Keys -> Records \cup {None}],
         Reconciled(s, Positions(s), m)
  PROVE  m = FreshestMap(s)
<1>. SUFFICES ASSUME NEW k \in Keys PROVE m[k] = FreshestMap(s)[k]
  BY DEF FreshestMap
<1>1. CASE \A p \in Positions(s) : KeyAt(s, p) # k
  BY <1>1 DEF Reconciled, FreshestMap
<1>2. CASE \E p \in Positions(s) : KeyAt(s, p) = k
  <2>1. m[k] # None
    BY <1>2 DEF Reconciled
  <2>2. PICK p \in Positions(s) : IsWinner(s, Positions(s), k, p) /\ RecAt(s, p) = m[k]
    BY <2>1 DEF Reconciled
  <2>3. IsWinner(s, Positions(s), k, Freshest(s, k))
    BY <2>2 DEF Freshest
  <2>4. Freshest(s, k) = p
    BY <2>2, <2>3, WinnerUnique
  <2>5. FreshestMap(s)[k] = RecAt(s, Freshest(s, k))
    BY <1>2 DEF FreshestMap
  <2>. QED BY <2>2, <2>4, <2>5
<1>. QED BY <1>1, <1>2

(* get_topology implements the atomic query TopologyAtomic: a request is  *)
(* answered, 200, 500 or 503, with exactly the response its snapshot      *)
(* determines, for every value of the constants.  The scan steps are      *)
(* stutters of the abstract query; Respond is its Reply, because the loop *)
(* has then reconciled the whole snapshot (LoopDone), and reconciliation  *)
(* has one outcome (ReconciledIsFreshest).                                *)
THEOREM Refinement == Spec => ImplementsAtomic
<1>1. Spec => []IInv
  BY IInvInit, IInvStep, PTL DEF Spec
<1>2. Init => Atomic!Init
  BY DEF Init, Atomic!Init
<1>3. IInv /\ [Next]_vars => [Atomic!Next]_Atomic!avars
  <2>. SUFFICES ASSUME IInv, [Next]_vars PROVE [Atomic!Next]_Atomic!avars
    OBVIOUS
  <2>1. CASE FetchFail
    BY <2>1 DEF FetchFail, Atomic!Next, Atomic!Fail
  <2>2. CASE Fetch
    BY <2>2 DEF Fetch, Atomic!Next, Atomic!Take, IInv, TypeOK
  <2>3. CASE SkipReport \/ EndOfList \/ ScanEntry
    BY <2>3 DEF SkipReport, EndOfList, ScanEntry, Atomic!avars
  <2>4. CASE Respond
    <3>1. nodes = FreshestMap(raw)
      BY <2>4, LoopDone, ReconciledIsFreshest DEF Respond, IInv, TypeOK
    <3>. QED BY <2>4, <3>1 DEF Respond, Atomic!Next, Atomic!Reply
  <2>5. CASE Return
    BY <2>5 DEF Return, Atomic!Next, Atomic!Finish
  <2>6. CASE UNCHANGED vars
    BY <2>6 DEF vars, Atomic!avars
  <2>. QED BY <2>1, <2>2, <2>3, <2>4, <2>5, <2>6 DEF Next
<1>. QED BY <1>1, <1>2, <1>3, PTL DEF Spec, Atomic!Spec, ImplementsAtomic

=============================================================================
