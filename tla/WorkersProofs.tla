---------------------------- MODULE WorkersProofs ----------------------------
(***************************************************************************)
(* Proofs about the Worker Aggregator (Workers), for any number of         *)
(* concurrent requests and every snapshot the Telemetry Source can return. *)
(***************************************************************************)
EXTENDS Workers, SequenceTheorems, FiniteSetTheorems, TLAPS

(* The summing loop has only met dicts so far: every worker before wi[r]   *)
(* passed w.get, and wi[r] stays within the list.                          *)
SummedPrefix ==
  \A r \in Requests :
    pc[r] = "flatten" =>
      /\ wi[r] <= Len(workers[r]) + 1
      /\ \A j \in 1..(wi[r] - 1) : workers[r][j] \in Records

(* The inductive invariant behind TypeOK.  TypeOK alone is not inductive: *)
(* a 200 response lists the flattened workers, which are dicts only       *)
(* because the summing loop raised on any element that was not.           *)
IInv == TypeOK /\ SummedPrefix

(* w.get(f, 0) on a dict record is a count.                                *)
LEMMA GetTyped ==
  ASSUME NEW w \in Records, NEW f \in Fields
  PROVE  Get(w, f) \in Nat
BY ConstantsAssumption DEF Get, RecordType

(* The error responses: a 500, and a 503 with the connection flag.         *)
LEMMA ResponseShapes ==
  /\ [status |-> 500] \in ResponseType
  /\ \A c \in BOOLEAN \cup {None} : [status |-> 503, connected |-> c] \in ResponseType
BY DEF ResponseType

LEMMA IInvInit == Init => IInv
<1> SUFFICES ASSUME Init PROVE IInv
  OBVIOUS
<1>1. << >> \in SnapshotType /\ << >> \in Seq(Records \cup {NotDict})
  BY DEF SnapshotType
<1>2. NoTotals \in [Fields -> Nat]
  BY DEF NoTotals
<1>3. None \in ResponseType
  BY DEF ResponseType
<1>4. TypeOK
  <2>1. /\ connected \in BOOLEAN
        /\ pc \in [Requests -> {"idle", "fetch", "flatten", "done"}]
        /\ endpoint \in [Requests -> {"workers", "system"}]
        /\ sawConn \in [Requests -> BOOLEAN]
    BY DEF Init
  <2>2. /\ raw \in [Requests -> SnapshotType]
        /\ workers \in [Requests -> Seq(Records \cup {NotDict})]
    BY <1>1 DEF Init
  <2>3. /\ ci \in [Requests -> Nat \ {0}]
        /\ wi \in [Requests -> Nat \ {0}]
    BY DEF Init
  <2>4. totals \in [Requests -> [Fields -> Nat]]
    BY <1>2 DEF Init
  <2>5. resp \in [Requests -> ResponseType]
    BY <1>3 DEF Init
  <2>. QED BY <2>1, <2>2, <2>3, <2>4, <2>5 DEF TypeOK
<1>5. SummedPrefix
  BY DEF Init, SummedPrefix
<1>. QED BY <1>4, <1>5 DEF IInv

(* The response of a request whose summing loop went over the whole list.  *)
LEMMA ResponseTyped ==
  ASSUME IInv, NEW r \in Requests, pc[r] = "flatten", wi[r] > Len(workers[r])
  PROVE  Response(r) \in ResponseType
<1>1. workers[r] \in Seq(Records)
  <2>1. workers[r] \in Seq(Records \cup {NotDict})
    BY DEF IInv, TypeOK
  <2>2. \A j \in 1..Len(workers[r]) : workers[r][j] \in Records
    <3>1. wi[r] \in Nat /\ Len(workers[r]) \in Nat
      BY <2>1 DEF IInv, TypeOK
    <3>. QED BY <3>1 DEF IInv, SummedPrefix
  <2>. QED BY <2>1, <2>2
<1>2. Len(workers[r]) \in Nat /\ << >> \in Seq(Records)
  BY <1>1
<1>3. totals[r] \in [Fields -> Nat]
  BY DEF IInv, TypeOK
<1>4. (IF endpoint[r] = "system" THEN TRUE ELSE None) \in BOOLEAN \cup {None}
  OBVIOUS
<1>5. /\ totals[r]["queued"] \in Nat
      /\ totals[r]["blocked"] \in Nat
      /\ totals[r]["processed"] \in Nat
  BY <1>3 DEF Fields
<1>6. (IF endpoint[r] = "workers" THEN workers[r] ELSE << >>) \in Seq(Records)
  BY <1>1, <1>2
<1>7. Response(r) \in [status: {200}, connected: BOOLEAN \cup {None},
                       list: Seq(Records), count: Nat, queued: Nat, blocked: Nat,
                       processed: Nat]
  BY <1>2, <1>4, <1>5, <1>6 DEF Response
<1>. QED BY <1>7 DEF ResponseType

(* The report of the container the flattening loop is at.                  *)
LEMMA ReportTyped ==
  ASSUME TypeOK, NEW r \in Requests, ci[r] <= Len(raw[r])
  PROVE  raw[r][ci[r]].report \in Reports
<1>1. raw[r] \in Seq([cid: Containers, report: Reports])
  BY DEF TypeOK, SnapshotType
<1>2. ci[r] \in 1..Len(raw[r])
  BY <1>1 DEF TypeOK
<1>3. raw[r][ci[r]] \in [cid: Containers, report: Reports]
  BY <1>1, <1>2, ElementOfSeq
<1>. QED BY <1>3

(* Extending a list (list.extend, list.append) keeps its elements where   *)
(* they were.                                                              *)
LEMMA ExtendKeepsPrefix ==
  ASSUME NEW S, NEW a \in Seq(S)
  PROVE  /\ \A b \in Seq(S) :
              /\ a \o b \in Seq(S)
              /\ Len(a \o b) >= Len(a)
              /\ \A j \in 1..Len(a) : (a \o b)[j] = a[j]
         /\ \A x \in S :
              /\ Append(a, x) \in Seq(S)
              /\ Len(Append(a, x)) >= Len(a)
              /\ \A j \in 1..Len(a) : Append(a, x)[j] = a[j]
<1>1. ASSUME NEW b \in Seq(S)
      PROVE  /\ a \o b \in Seq(S)
             /\ Len(a \o b) >= Len(a)
             /\ \A j \in 1..Len(a) : (a \o b)[j] = a[j]
  <2>1. Len(a) \in Nat /\ Len(b) \in Nat
    BY LenProperties
  <2>. QED BY <2>1, ConcatProperties
<1>2. ASSUME NEW x \in S
      PROVE  /\ Append(a, x) \in Seq(S)
             /\ Len(Append(a, x)) >= Len(a)
             /\ \A j \in 1..Len(a) : Append(a, x)[j] = a[j]
  <2>1. Len(a) \in Nat
    BY LenProperties
  <2>. QED BY <2>1, AppendProperties
<1>. QED BY <1>1, <1>2

(* One (cid, data) pair of the flattening loop keeps the invariant.        *)
LEMMA FlattenKeeps ==
  ASSUME IInv, NEW r \in Requests, Flatten(r)
  PROVE  IInv'
<1>. DEFINE data == raw[r][ci[r]].report
            ws   == workers[r]
            Item == Records \cup {NotDict}
<1>1. data \in Reports /\ ws \in Seq(Item)
  BY ReportTyped DEF Flatten, IInv, TypeOK
<1>2. workers \in [Requests -> Seq(Item)]
  BY DEF IInv, TypeOK
<1>3. /\ workers'[r] \in Seq(Item)
      /\ Len(workers'[r]) >= Len(ws)
      /\ \A j \in 1..Len(ws) : workers'[r][j] = ws[j]
  <2>1. CASE data.shape = "list"
    <3>1. data.items \in Seq(Item)
      BY <1>1, <2>1 DEF Reports
    <3>2. workers'[r] = ws \o data.items
      BY <1>2, <2>1 DEF Flatten
    <3>3. /\ ws \o data.items \in Seq(Item)
          /\ Len(ws \o data.items) >= Len(ws)
          /\ \A j \in 1..Len(ws) : (ws \o data.items)[j] = ws[j]
      BY <1>1, <3>1, ExtendKeepsPrefix, Zenon
    <3>. QED BY <3>2, <3>3, Zenon
  <2>2. CASE data.shape = "dict"
    <3>1. data.rec \in Item
      BY <1>1, <2>2 DEF Reports
    <3>2. workers'[r] = Append(ws, data.rec)
      BY <1>2, <2>2 DEF Flatten
    <3>. QED BY <1>1, <3>1, <3>2, ExtendKeepsPrefix
  <2>3. CASE data.shape \notin {"list", "dict"}
    <3>1. workers'[r] = ws
      BY <1>2, <2>3 DEF Flatten
    <3>. QED BY <1>1, <3>1
  <2>. QED BY <2>1, <2>2, <2>3
<1>4. workers' \in [Requests -> Seq(Item)]
  BY <1>2, <1>3 DEF Flatten
<1>5. ci' \in [Requests -> Nat \ {0}]
  BY DEF Flatten, IInv, TypeOK
<1>6. TypeOK'
  BY <1>4, <1>5 DEF Flatten, IInv, TypeOK
<1>7. SummedPrefix'
  <2> SUFFICES ASSUME NEW s \in Requests, pc'[s] = "flatten"
               PROVE  /\ wi'[s] <= Len(workers'[s]) + 1
                      /\ \A j \in 1..(wi'[s] - 1) : workers'[s][j] \in Records
    BY DEF SummedPrefix
  <2>1. CASE s = r
    <3>1. wi[r] \in Nat /\ Len(ws) \in Nat /\ Len(workers'[r]) \in Nat
      BY <1>1, <1>3 DEF IInv, TypeOK
    <3>2. wi[r] <= Len(ws) + 1 /\ \A j \in 1..(wi[r] - 1) : ws[j] \in Records
      BY DEF Flatten, IInv, SummedPrefix
    <3>3. wi' = wi /\ pc' = pc
      BY DEF Flatten
    <3>4. wi'[r] <= Len(workers'[r]) + 1
      BY <1>3, <3>1, <3>2, <3>3
    <3>5. \A j \in 1..(wi'[r] - 1) : workers'[r][j] \in Records
      BY <1>3, <3>1, <3>2, <3>3
    <3>. QED BY <2>1, <3>4, <3>5
  <2>2. CASE s # r
    BY <2>2 DEF Flatten, IInv, TypeOK, SummedPrefix
  <2>. QED BY <2>1, <2>2
<1>. QED BY <1>6, <1>7 DEF IInv

(* One worker of the summing loop keeps the invariant: w.get succeeded, so *)
(* w is a dict, and the totals grow by counts.                             *)
LEMMA TallyKeeps ==
  ASSUME IInv, NEW r \in Requests, Tally(r)
  PROVE  IInv'
<1>. DEFINE w == workers[r][wi[r]]
<1>1. wi[r] \in 1..Len(workers[r]) /\ workers[r] \in Seq(Records \cup {NotDict})
  BY DEF Tally, IInv, TypeOK
<1>2. w \in Records
  BY <1>1 DEF Tally
<1>3. totals[r] \in [Fields -> Nat]
  BY DEF IInv, TypeOK
<1>4. [f \in Fields |-> totals[r][f] + Get(w, f)] \in [Fields -> Nat]
  BY <1>2, <1>3, GetTyped
<1>5. totals' = [totals EXCEPT ![r] = [f \in Fields |-> totals[r][f] + Get(w, f)]]
  BY DEF Tally
<1>6. TypeOK'
  BY <1>4, <1>5 DEF Tally, IInv, TypeOK
<1>7. SummedPrefix'
  <2> SUFFICES ASSUME NEW s \in Requests, pc'[s] = "flatten"
               PROVE  /\ wi'[s] <= Len(workers'[s]) + 1
                      /\ \A j \in 1..(wi'[s] - 1) : workers'[s][j] \in Records
    BY DEF SummedPrefix
  <2>1. CASE s = r
    <3>1. \A j \in 1..(wi[r] - 1) : workers[r][j] \in Records
      BY DEF Tally, IInv, SummedPrefix
    <3>. QED BY <2>1, <1>1, <1>2, <3>1 DEF Tally
  <2>2. CASE s # r
    BY <2>2 DEF Tally, IInv, TypeOK, SummedPrefix
  <2>. QED BY <2>1, <2>2
<1>. QED BY <1>6, <1>7 DEF IInv


(* Every step of either handler, and a disconnection, keeps the invariant. *)
LEMMA IInvStep == IInv /\ [Next]_vars => IInv'
<1> SUFFICES ASSUME IInv, [Next]_vars PROVE IInv'
  OBVIOUS
<1>0. TypeOK /\ SummedPrefix
  BY DEF IInv
<1>1. CASE Disconnect
  BY <1>0, <1>1 DEF Disconnect, IInv, TypeOK, SummedPrefix
<1>2. ASSUME NEW r \in Requests, StartWorkers(r) PROVE IInv'
  BY <1>0, <1>2 DEF StartWorkers, IInv, TypeOK, SummedPrefix
<1>3. ASSUME NEW r \in Requests, StartSystem(r) PROVE IInv'
  BY <1>0, <1>3 DEF StartSystem, IInv, TypeOK, SummedPrefix
<1>4. ASSUME NEW r \in Requests, FetchOk(r) PROVE IInv'
  <2>1. PICK sn \in Snapshots : raw' = [raw EXCEPT ![r] = sn]
    BY <1>4 DEF FetchOk
  <2>2. sn \in SnapshotType /\ << >> \in Seq(Records \cup {NotDict})
    BY ConstantsAssumption
  <2>3. NoTotals \in [Fields -> Nat]
    BY DEF NoTotals
  <2>4. TypeOK'
    BY <1>0, <1>4, <2>1, <2>2, <2>3 DEF FetchOk, TypeOK
  <2>5. SummedPrefix'
    BY <1>0, <1>4 DEF FetchOk, TypeOK, SummedPrefix
  <2>. QED BY <2>4, <2>5 DEF IInv
<1>5. ASSUME NEW r \in Requests, FetchFail(r) PROVE IInv'
  <2>1. resp'[r] \in ResponseType
    <3>1. sawConn[r] \in BOOLEAN \cup {None}
      BY <1>0 DEF TypeOK
    <3>2. resp'[r] = IF endpoint[r] = "system"
                     THEN [status |-> 503, connected |-> sawConn[r]]
                     ELSE [status |-> 503, connected |-> None]
      BY <1>0, <1>5 DEF FetchFail, TypeOK
    <3>3. /\ [status |-> 503, connected |-> sawConn[r]] \in ResponseType
          /\ [status |-> 503, connected |-> None] \in ResponseType
      BY <3>1, ResponseShapes
    <3>. QED BY <3>2, <3>3
  <2>2. TypeOK'
    BY <1>0, <1>5, <2>1 DEF FetchFail, TypeOK
  <2>3. SummedPrefix'
    BY <1>0, <1>5 DEF FetchFail, TypeOK, SummedPrefix
  <2>. QED BY <2>2, <2>3 DEF IInv
<1>6. ASSUME NEW r \in Requests, Flatten(r) PROVE IInv'
  BY <1>6, FlattenKeeps
<1>7. ASSUME NEW r \in Requests, Tally(r) PROVE IInv'
  BY <1>7, TallyKeeps
<1>8. ASSUME NEW r \in Requests, GetFails(r) PROVE IInv'
  <2>1. TypeOK'
    BY <1>0, <1>8, ResponseShapes DEF GetFails, TypeOK
  <2>2. SummedPrefix'
    BY <1>0, <1>8 DEF GetFails, TypeOK, SummedPrefix
  <2>. QED BY <2>1, <2>2 DEF IInv
<1>9. ASSUME NEW r \in Requests, Respond(r) PROVE IInv'
  <2>1. Response(r) \in ResponseType
    BY <1>9, ResponseTyped DEF Respond
  <2>2. TypeOK'
    BY <1>0, <1>9, <2>1 DEF Respond, TypeOK
  <2>3. SummedPrefix'
    BY <1>0, <1>9 DEF Respond, TypeOK, SummedPrefix
  <2>. QED BY <2>2, <2>3 DEF IInv
<1>10. ASSUME NEW r \in Requests, Return(r) PROVE IInv'
  <2>1. << >> \in SnapshotType /\ << >> \in Seq(Records \cup {NotDict})
    BY DEF SnapshotType
  <2>2. NoTotals \in [Fields -> Nat] /\ None \in ResponseType
    BY DEF NoTotals, ResponseType
  <2>3. TypeOK'
    BY <1>0, <1>10, <2>1, <2>2 DEF Return, TypeOK
  <2>4. SummedPrefix'
    BY <1>0, <1>10 DEF Return, TypeOK, SummedPrefix
  <2>. QED BY <2>3, <2>4 DEF IInv
<1>11. CASE UNCHANGED vars
  BY <1>0, <1>11 DEF vars, IInv, TypeOK, SummedPrefix
<1>. QED BY <1>1, <1>2, <1>3, <1>4, <1>5, <1>6, <1>7, <1>8, <1>9, <1>10, <1>11
         DEF Next

(* Type correctness: for any number of concurrent requests and every       *)
(* snapshot, each handler's locals keep their types, the totals are counts *)
(* and every response is a 500, a 503 with the connection flag, or a 200   *)
(* whose worker list holds only dicts.                                     *)
THEOREM TypeCorrect == Spec => []TypeOK
<1>1. Init => IInv
  BY IInvInit
<1>2. IInv /\ [Next]_vars => IInv'
  BY IInvStep
<1>3. IInv => TypeOK
  BY DEF IInv
<1>. QED BY <1>1, <1>2, <1>3, PTL DEF Spec


-----------------------------------------------------------------------------
(* The worker positions of the first n containers of a snapshot.          *)
PosBefore(s, n) == UNION {ContainerPositions(s, i) : i \in 1..n}

(* The i-th container contributes n positions <<i, 1>> .. <<i, n>>.        *)
LEMMA RowCard ==
  ASSUME NEW i, NEW n \in Nat
  PROVE  /\ IsFiniteSet({<<i, j>> : j \in 1..n})
         /\ Cardinality({<<i, j>> : j \in 1..n}) = n
<1>. DEFINE T == {<<i, j>> : j \in 1..n}
            f == [j \in 1..n |-> <<i, j>>]
<1>1. f \in Bijection(1..n, T)
  BY DEF Bijection, Injection, Surjection, IsInjective
<1>2. ExistsBijection(1..n, T)
  BY <1>1 DEF ExistsBijection
<1>3. IsFiniteSet(1..n) /\ Cardinality(1..n) = n
  BY FS_Interval
<1>. QED BY <1>2, <1>3, FS_Bijection

(* How many worker positions a container's report has: the length of a   *)
(* list, one for a single dict, none for anything else.                   *)
LEMMA ContainerCard ==
  ASSUME NEW s \in SnapshotType, NEW i \in 1..Len(s)
  PROVE  /\ IsFiniteSet(ContainerPositions(s, i))
         /\ Cardinality(ContainerPositions(s, i)) =
              IF s[i].report.shape = "list" THEN Len(s[i].report.items)
              ELSE IF s[i].report.shape = "dict" THEN 1 ELSE 0
         /\ \A p \in ContainerPositions(s, i) : p[1] = i
<1>1. s[i].report \in Reports
  <2>1. s \in Seq([cid: Containers, report: Reports])
    BY DEF SnapshotType
  <2>2. s[i] \in [cid: Containers, report: Reports]
    BY <2>1, ElementOfSeq
  <2>. QED BY <2>2
<1>2. CASE s[i].report.shape = "list"
  <2>. DEFINE n == Len(s[i].report.items)
  <2>1. n \in Nat
    BY <1>1, <1>2, LenProperties DEF Reports
  <2>2. ContainerPositions(s, i) = {<<i, j>> : j \in 1..n}
    BY <1>2 DEF ContainerPositions
  <2>3. IsFiniteSet({<<i, j>> : j \in 1..n}) /\ Cardinality({<<i, j>> : j \in 1..n}) = n
    BY <2>1, RowCard
  <2>4. \A p \in {<<i, j>> : j \in 1..n} : p[1] = i
    OBVIOUS
  <2>. QED BY <1>2, <2>2, <2>3, <2>4
<1>3. CASE s[i].report.shape = "dict"
  <2>1. ContainerPositions(s, i) = {<<i, 0>>}
    BY <1>3 DEF ContainerPositions
  <2>2. IsFiniteSet({<<i, 0>>}) /\ Cardinality({<<i, 0>>}) = 1
    BY FS_Singleton
  <2>. QED BY <1>3, <2>1, <2>2
<1>4. CASE s[i].report.shape \notin {"list", "dict"}
  <2>1. ContainerPositions(s, i) = {}
    BY <1>4 DEF ContainerPositions
  <2>. QED BY <1>4, <2>1, FS_EmptySet
<1>. QED BY <1>2, <1>3, <1>4

(* The loop over raw.items() adds one container at a time, and no position *)
(* of a new container was counted before.                                  *)
LEMMA PosBeforeStep ==
  ASSUME NEW s \in SnapshotType, NEW n \in 0..(Len(s) - 1)
  PROVE  /\ PosBefore(s, n + 1) = PosBefore(s, n) \cup ContainerPositions(s, n + 1)
         /\ PosBefore(s, n) \cap ContainerPositions(s, n + 1) = {}
<1>1. PosBefore(s, n + 1) = PosBefore(s, n) \cup ContainerPositions(s, n + 1)
  BY DEF PosBefore
<1>2. ASSUME NEW p \in PosBefore(s, n), p \in ContainerPositions(s, n + 1)
      PROVE  FALSE
  <2>1. PICK i \in 1..n : p \in ContainerPositions(s, i)
    BY <1>2 DEF PosBefore
  <2>2. p[1] = i /\ p[1] = n + 1
    BY <1>2, <2>1, ContainerCard
  <2>. QED BY <2>2
<1>. QED BY <1>1, <1>2

LEMMA PosBeforeEnds ==
  ASSUME NEW s
  PROVE  /\ PosBefore(s, 0) = {}
         /\ PosBefore(s, Len(s)) = Positions(s)
BY DEF PosBefore, Positions


(* The loop invariant of the flattening loop: the list holds one element  *)
(* per worker position of the containers visited so far.  No response     *)
(* exists before the loop ends, and a 200 response counts the snapshot.   *)
CountInv ==
  /\ \A r \in Requests :
       /\ pc[r] = "flatten" =>
            /\ ci[r] \in 1..(Len(raw[r]) + 1)
            /\ IsFiniteSet(PosBefore(raw[r], ci[r] - 1))
            /\ Len(workers[r]) = Cardinality(PosBefore(raw[r], ci[r] - 1))
       /\ pc[r] \in {"idle", "fetch", "flatten"} => resp[r] = None
  /\ CountMatchesSnapshot

(* The inductive invariant behind CountMatchesSnapshot.                    *)
CInv == IInv /\ CountInv

(* CountInv is a conjunction over the requests.                            *)
CountAt(q) ==
  /\ pc[q] = "flatten" =>
       /\ ci[q] \in 1..(Len(raw[q]) + 1)
       /\ IsFiniteSet(PosBefore(raw[q], ci[q] - 1))
       /\ Len(workers[q]) = Cardinality(PosBefore(raw[q], ci[q] - 1))
  /\ pc[q] \in {"idle", "fetch", "flatten"} => resp[q] = None
  /\ resp[q] # None /\ resp[q].status = 200 =>
       resp[q].count = Cardinality(Positions(raw[q]))

LEMMA CountInvByRequest ==
  (\A q \in Requests : CountAt(q)) <=> CountInv
BY DEF CountAt, CountInv, CountMatchesSnapshot

LEMMA CountInvByRequestNext ==
  (\A q \in Requests : CountAt(q)') <=> CountInv'
BY DEF CountAt, CountInv, CountMatchesSnapshot

(* A request whose pc, resp, raw, ci and workers a step leaves alone.    *)
LEMMA CountAtFrame ==
  ASSUME NEW q, CountAt(q),
         pc'[q] = pc[q], resp'[q] = resp[q], raw'[q] = raw[q],
         ci'[q] = ci[q], workers'[q] = workers[q]
  PROVE  CountAt(q)'
BY DEF CountAt

LEMMA CInvInit == Init => CInv
<1> SUFFICES ASSUME Init PROVE CInv
  OBVIOUS
<1>1. IInv
  BY IInvInit
<1>2. CountInv
  BY DEF Init, CountInv, CountMatchesSnapshot
<1>. QED BY <1>1, <1>2 DEF CInv

(* One container of the flattening loop adds as many elements as it has   *)
(* worker positions.                                                       *)
LEMMA FlattenCounts ==
  ASSUME CInv, NEW r \in Requests, Flatten(r)
  PROVE  CountInv'
<1>. DEFINE s  == raw[r]
            n  == ci[r] - 1
            ws == workers[r]
<1>1. /\ s \in SnapshotType
      /\ ci[r] \in 1..Len(s)
      /\ n \in 0..(Len(s) - 1)
      /\ ws \in Seq(Records \cup {NotDict})
  BY DEF CInv, IInv, TypeOK, Flatten
<1>2. /\ IsFiniteSet(PosBefore(s, n))
      /\ Len(ws) = Cardinality(PosBefore(s, n))
  BY DEF Flatten, CInv, CountInv
<1>3. /\ IsFiniteSet(ContainerPositions(s, ci[r]))
      /\ Len(workers'[r]) = Len(ws) + Cardinality(ContainerPositions(s, ci[r]))
  <2>1. s[ci[r]].report \in Reports
    BY <1>1, ReportTyped DEF CInv, IInv, Flatten
  <2>2. Len(ws) \in Nat
    BY <1>1, LenProperties
  <2>3. CASE s[ci[r]].report.shape = "list"
    <3>1. s[ci[r]].report.items \in Seq(Records \cup {NotDict})
      BY <2>1, <2>3 DEF Reports
    <3>2. workers'[r] = ws \o s[ci[r]].report.items
      BY <2>3 DEF Flatten, CInv, IInv, TypeOK
    <3>3. Len(ws \o s[ci[r]].report.items) = Len(ws) + Len(s[ci[r]].report.items)
      BY <1>1, <3>1, ConcatProperties, Zenon
    <3>. QED BY <1>1, <2>3, <3>2, <3>3, ContainerCard
  <2>4. CASE s[ci[r]].report.shape = "dict"
    <3>1. s[ci[r]].report.rec \in Records \cup {NotDict}
      BY <2>1, <2>4 DEF Reports
    <3>2. workers'[r] = Append(ws, s[ci[r]].report.rec)
      BY <2>4 DEF Flatten, CInv, IInv, TypeOK
    <3>3. Len(Append(ws, s[ci[r]].report.rec)) = Len(ws) + 1
      BY <1>1, <3>1, AppendProperties
    <3>. QED BY <1>1, <2>4, <3>2, <3>3, ContainerCard
  <2>5. CASE s[ci[r]].report.shape \notin {"list", "dict"}
    <3>1. workers'[r] = ws
      BY <2>5 DEF Flatten, CInv, IInv, TypeOK
    <3>. QED BY <1>1, <2>2, <2>5, <3>1, ContainerCard
  <2>. QED BY <2>3, <2>4, <2>5
<1>4. /\ IsFiniteSet(PosBefore(s, n + 1))
      /\ Cardinality(PosBefore(s, n + 1)) =
           Cardinality(PosBefore(s, n)) + Cardinality(ContainerPositions(s, ci[r]))
  <2>1. /\ PosBefore(s, n + 1) = PosBefore(s, n) \cup ContainerPositions(s, n + 1)
        /\ PosBefore(s, n) \cap ContainerPositions(s, n + 1) = {}
    BY <1>1, PosBeforeStep
  <2>2. n + 1 = ci[r]
    BY <1>1
  <2>3. Cardinality({}) = 0
    BY FS_EmptySet
  <2>4. /\ IsFiniteSet(PosBefore(s, n) \cup ContainerPositions(s, ci[r]))
        /\ Cardinality(PosBefore(s, n) \cup ContainerPositions(s, ci[r])) =
             Cardinality(PosBefore(s, n)) + Cardinality(ContainerPositions(s, ci[r]))
             - Cardinality(PosBefore(s, n) \cap ContainerPositions(s, ci[r]))
    BY <1>2, <1>3, FS_Union
  <2>5. /\ Cardinality(PosBefore(s, n)) \in Nat
        /\ Cardinality(ContainerPositions(s, ci[r])) \in Nat
    BY <1>2, <1>3, FS_CardinalityType
  <2>6. /\ PosBefore(s, n + 1) = PosBefore(s, n) \cup ContainerPositions(s, ci[r])
        /\ PosBefore(s, n) \cap ContainerPositions(s, ci[r]) = {}
    BY <2>1, <2>2
  <2>7. Cardinality(PosBefore(s, n) \cap ContainerPositions(s, ci[r])) = 0
    BY <2>3, <2>6, Zenon
  <2>8. /\ IsFiniteSet(PosBefore(s, n + 1))
        /\ Cardinality(PosBefore(s, n + 1)) =
             Cardinality(PosBefore(s, n) \cup ContainerPositions(s, ci[r]))
    BY <2>4, <2>6, Zenon
  <2>. QED BY <2>4, <2>5, <2>7, <2>8
<1>5. /\ raw' = raw /\ pc' = pc /\ resp' = resp
      /\ ci' = [ci EXCEPT ![r] = ci[r] + 1]
      /\ \A q \in Requests \ {r} : workers'[q] = workers[q]
  BY DEF Flatten, CInv, IInv, TypeOK
<1>6. ASSUME NEW q \in Requests
      PROVE  pc'[q] = "flatten" =>
               /\ ci'[q] \in 1..(Len(raw'[q]) + 1)
               /\ IsFiniteSet(PosBefore(raw'[q], ci'[q] - 1))
               /\ Len(workers'[q]) = Cardinality(PosBefore(raw'[q], ci'[q] - 1))
  <2>1. CASE q = r
    <3>1. ci'[r] = ci[r] + 1 /\ ci'[r] - 1 = n + 1
      BY <1>1, <1>5 DEF CInv, IInv, TypeOK
    <3>. QED BY <1>1, <1>2, <1>3, <1>4, <1>5, <2>1, <3>1
  <2>2. CASE q # r
    BY <1>5, <2>2 DEF CInv, CountInv
  <2>. QED BY <2>1, <2>2
<1>. QED BY <1>5, <1>6 DEF CInv, CountInv, CountMatchesSnapshot

(* The response counts the list, which by then holds one element per      *)
(* worker position of the whole snapshot.                                  *)
LEMMA RespondCounts ==
  ASSUME CInv, NEW r \in Requests, Respond(r)
  PROVE  CountInv'
<1>1. /\ ci[r] = Len(raw[r]) + 1
      /\ Len(workers[r]) = Cardinality(PosBefore(raw[r], ci[r] - 1))
  BY DEF CInv, CountInv, IInv, TypeOK, Respond
<1>2. ci[r] - 1 = Len(raw[r])
  BY <1>1, LenProperties DEF CInv, IInv, TypeOK, SnapshotType
<1>3. Len(workers[r]) = Cardinality(Positions(raw[r]))
  BY <1>1, <1>2, PosBeforeEnds
<1>4. /\ resp'[r].status = 200
      /\ resp'[r].count = Len(workers[r])
  BY DEF Respond, Response, CInv, IInv, TypeOK
<1>5. /\ raw' = raw /\ workers' = workers /\ ci' = ci
      /\ pc' = [pc EXCEPT ![r] = "done"]
      /\ \A q \in Requests \ {r} : resp'[q] = resp[q]
  BY DEF Respond, CInv, IInv, TypeOK
<1>6. pc'[r] = "done" /\ \A q \in Requests \ {r} : pc'[q] = pc[q]
  BY <1>5 DEF CInv, IInv, TypeOK
<1>7. ASSUME NEW q \in Requests
      PROVE  /\ pc'[q] = "flatten" =>
                  /\ ci'[q] \in 1..(Len(raw'[q]) + 1)
                  /\ IsFiniteSet(PosBefore(raw'[q], ci'[q] - 1))
                  /\ Len(workers'[q]) = Cardinality(PosBefore(raw'[q], ci'[q] - 1))
             /\ pc'[q] \in {"idle", "fetch", "flatten"} => resp'[q] = None
             /\ resp'[q] # None /\ resp'[q].status = 200 =>
                  resp'[q].count = Cardinality(Positions(raw'[q]))
  <2>1. CASE q = r
    BY <1>3, <1>4, <1>5, <1>6, <2>1
  <2>2. CASE q # r
    BY <1>5, <1>6, <2>2 DEF CInv, CountInv, CountMatchesSnapshot
  <2>. QED BY <2>1, <2>2
<1>. QED BY <1>7 DEF CountInv, CountMatchesSnapshot

LEMMA CInvStep == CInv /\ [Next]_vars => CInv'
<1> SUFFICES ASSUME CInv, [Next]_vars PROVE CInv'
  OBVIOUS
<1>0. IInv' /\ TypeOK
  BY IInvStep DEF CInv, IInv
<1> USE DEF CInv
<1>1. CASE Disconnect
  BY <1>0, <1>1 DEF Disconnect, CountInv, CountMatchesSnapshot
<1>2. ASSUME NEW r \in Requests, StartWorkers(r) PROVE CInv'
  BY <1>0, <1>2 DEF StartWorkers, CountInv, CountMatchesSnapshot, TypeOK
<1>3. ASSUME NEW r \in Requests, StartSystem(r) PROVE CInv'
  BY <1>0, <1>3 DEF StartSystem, CountInv, CountMatchesSnapshot, TypeOK
<1>4. ASSUME NEW r \in Requests, FetchOk(r) PROVE CInv'
  <2>1. PICK sn \in Snapshots : raw' = [raw EXCEPT ![r] = sn]
    BY <1>4 DEF FetchOk
  <2>2. /\ sn \in SnapshotType
        /\ Len(sn) \in Nat
        /\ PosBefore(sn, 0) = {}
    BY ConstantsAssumption, PosBeforeEnds, LenProperties DEF SnapshotType
  <2>3. IsFiniteSet({}) /\ Cardinality({}) = 0
    BY FS_EmptySet
  <2>4. /\ raw'[r] = sn /\ ci'[r] = 1 /\ workers'[r] = << >> /\ pc'[r] = "flatten"
        /\ resp' = resp /\ resp[r] = None
    BY <1>0, <1>4, <2>1 DEF FetchOk, CountInv, TypeOK
  <2>5. \A q \in Requests \ {r} :
          /\ raw'[q] = raw[q] /\ ci'[q] = ci[q] /\ workers'[q] = workers[q]
          /\ pc'[q] = pc[q] /\ resp'[q] = resp[q]
    BY <1>0, <1>4, <2>1, <2>4 DEF FetchOk, TypeOK
  <2>6. CountAt(r)'
    <3>1. ci'[r] \in 1..(Len(raw'[r]) + 1) /\ ci'[r] - 1 = 0
      BY <2>2, <2>4
    <3>2. IsFiniteSet(PosBefore(raw'[r], ci'[r] - 1))
          /\ Len(workers'[r]) = Cardinality(PosBefore(raw'[r], ci'[r] - 1))
      BY <2>2, <2>3, <2>4, <3>1
    <3>. QED BY <2>4, <3>1, <3>2 DEF CountAt
  <2>7. \A q \in Requests : CountAt(q)'
    BY <2>5, <2>6, CountInvByRequest, CountAtFrame
  <2>. QED BY <1>0, <2>7, CountInvByRequestNext
<1>5. ASSUME NEW r \in Requests, FetchFail(r) PROVE CInv'
  <2>1. resp'[r].status = 503
    BY <1>0, <1>5 DEF FetchFail, TypeOK
  <2>2. /\ raw' = raw /\ workers' = workers /\ ci' = ci
        /\ pc' = [pc EXCEPT ![r] = "done"]
        /\ \A q \in Requests \ {r} : resp'[q] = resp[q]
    BY <1>5 DEF FetchFail, TypeOK
  <2>3. pc'[r] = "done" /\ \A q \in Requests \ {r} : pc'[q] = pc[q]
    BY <1>0, <2>2 DEF TypeOK
  <2>4. CountAt(r)'
    BY <2>1, <2>3 DEF CountAt
  <2>5. \A q \in Requests : CountAt(q)'
    BY <2>2, <2>3, <2>4, CountInvByRequest, CountAtFrame
  <2>. QED BY <1>0, <2>5, CountInvByRequestNext
<1>6. ASSUME NEW r \in Requests, Flatten(r) PROVE CInv'
  BY <1>0, <1>6, FlattenCounts
<1>7. ASSUME NEW r \in Requests, Tally(r) PROVE CInv'
  BY <1>0, <1>7 DEF Tally, CountInv, CountMatchesSnapshot
<1>8. ASSUME NEW r \in Requests, GetFails(r) PROVE CInv'
  <2>1. resp'[r].status = 500
    BY <1>0, <1>8 DEF GetFails, TypeOK
  <2>2. /\ raw' = raw /\ workers' = workers /\ ci' = ci
        /\ pc' = [pc EXCEPT ![r] = "done"]
        /\ \A q \in Requests \ {r} : resp'[q] = resp[q]
    BY <1>8 DEF GetFails, TypeOK
  <2>3. pc'[r] = "done" /\ \A q \in Requests \ {r} : pc'[q] = pc[q]
    BY <1>0, <2>2 DEF TypeOK
  <2>4. CountAt(r)'
    BY <2>1, <2>3 DEF CountAt
  <2>5. \A q \in Requests : CountAt(q)'
    BY <2>2, <2>3, <2>4, CountInvByRequest, CountAtFrame
  <2>. QED BY <1>0, <2>5, CountInvByRequestNext
<1>9. ASSUME NEW r \in Requests, Respond(r) PROVE CInv'
  BY <1>0, <1>9, RespondCounts
<1>10. ASSUME NEW r \in Requests, Return(r) PROVE CInv'
  <2>1. /\ resp'[r] = None /\ pc'[r] = "idle"
        /\ \A q \in Requests \ {r} :
             /\ raw'[q] = raw[q] /\ ci'[q] = ci[q] /\ workers'[q] = workers[q]
             /\ pc'[q] = pc[q] /\ resp'[q] = resp[q]
    BY <1>0, <1>10 DEF Return, TypeOK
  <2>. QED BY <1>0, <2>1 DEF CountInv, CountMatchesSnapshot
<1>11. CASE UNCHANGED vars
  BY <1>0, <1>11 DEF vars, CountInv, CountMatchesSnapshot
<1>. QED BY <1>1, <1>2, <1>3, <1>4, <1>5, <1>6, <1>7, <1>8, <1>9, <1>10, <1>11
         DEF Next

(* For any number of concurrent requests of either endpoint and every      *)
(* snapshot, a 200 response of get_workers or get_system counts each       *)
(* worker record of the snapshot it fetched exactly once: the flattening   *)
(* loop of workers.py / system.py extends by a list and appends a dict.    *)
THEOREM CountMatchesSnapshotHolds == Spec => []CountMatchesSnapshot
<1>1. Init => CInv
  BY CInvInit
<1>2. CInv /\ [Next]_vars => CInv'
  BY CInvStep
<1>3. CInv => CountMatchesSnapshot
  BY DEF CInv, CountInv
<1>. QED BY <1>1, <1>2, <1>3, PTL DEF Spec

====
