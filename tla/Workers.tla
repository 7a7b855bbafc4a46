------------------------------ MODULE Workers ------------------------------
(***************************************************************************)
(* The Worker Aggregator behind GET /api/workers (api/workers.py,          *)
(* get_workers) and GET /api/system (api/system.py, get_system), with the  *)
(* Telemetry Source client they share (chimaera_client, not in this        *)
(* repository: modelled from the spec).                                    *)
(*                                                                         *)
(* Requests run concurrently, one handler thread each.  A request fetches  *)
(* a snapshot (container id -> report) with get_worker_stats, flattens     *)
(* it one container per step (a list is extended, a dict appended,         *)
(* anything else skipped) and sums three fields over the flattened list,   *)
(* one worker per step.                                                    *)
(* get_system first reads the client's connection flag and reports it     *)
(* when the fetch fails.                                                   *)
(***************************************************************************)
EXTENDS Integers, Sequences, FiniteSets, SequencesExt

CONSTANTS
  Requests,     \* concurrent HTTP requests (Flask handler threads)
  Containers,   \* container ids
  Records,      \* the worker dicts a container can report
  NotDict,      \* a list element that is not a dict
  None,         \* an absent field, or the absence of a response
  Snapshots     \* the raw dicts get_worker_stats can return

Fields == {"queued", "blocked", "processed"}

(* The fields the handlers read; a field may be absent.                    *)
RecordType == [Fields -> Nat \cup {None}]

Reports ==
  [shape: {"list"}, items: Seq(Records \cup {NotDict})]
    \cup [shape: {"dict"}, rec: Records]
    \cup [shape: {"other"}]

SnapshotType == Seq([cid: Containers, report: Reports])

ASSUME ConstantsAssumption ==
  /\ Records \subseteq RecordType
  /\ NotDict \notin Records
  /\ None \notin Nat
  /\ Snapshots \subseteq SnapshotType

VARIABLES
  connected,  \* chimaera_client.is_connected()
  pc,         \* per request: "idle", "fetch", "flatten", "done"
  endpoint,   \* per request: "workers" or "system"
  sawConn,    \* per request: get_system's local `connected` (line 12)
  raw,        \* per request: the fetched snapshot
  ci,         \* per request: index into raw.items()
  workers,    \* per request: the flattened list
  wi,         \* per request: index into workers of the summing loop
  totals,     \* per request: total_queued, total_blocked, total_processed
  resp        \* per request: the response, None while there is none

vars == <<connected, pc, endpoint, sawConn, raw, ci, workers, wi, totals, resp>>

(* w.get(f, 0); NotDict stands for an element on which .get raises.        *)
Get(w, f) == IF w[f] = None THEN 0 ELSE w[f]

(* The three totals before the first worker is summed.                    *)
NoTotals == [f \in Fields |-> 0]

Response(r) ==
  [status |-> 200,
   connected |-> IF endpoint[r] = "system" THEN TRUE ELSE None,
   list |-> IF endpoint[r] = "workers" THEN workers[r] ELSE << >>,
   count |-> Len(workers[r]),
   queued |-> totals[r]["queued"],
   blocked |-> totals[r]["blocked"],
   processed |-> totals[r]["processed"]]

-----------------------------------------------------------------------------
Init ==
  /\ connected = FALSE
  /\ pc = [r \in Requests |-> "idle"]
  /\ endpoint = [r \in Requests |-> "workers"]
  /\ sawConn = [r \in Requests |-> FALSE]
  /\ raw = [r \in Requests |-> << >>]
  /\ ci = [r \in Requests |-> 1]
  /\ workers = [r \in Requests |-> << >>]
  /\ wi = [r \in Requests |-> 1]
  /\ totals = [r \in Requests |-> NoTotals]
  /\ resp = [r \in Requests |-> None]

(* GET /api/workers arrives.                                               *)
StartWorkers(r) ==
  /\ pc[r] = "idle"
  /\ pc' = [pc EXCEPT ![r] = "fetch"]
  /\ endpoint' = [endpoint EXCEPT ![r] = "workers"]
  /\ UNCHANGED <<connected, sawConn, raw, ci, workers, wi, totals, resp>>

(* GET /api/system arrives and reads chimaera_client.is_connected().       *)
StartSystem(r) ==
  /\ pc[r] = "idle"
  /\ pc' = [pc EXCEPT ![r] = "fetch"]
  /\ endpoint' = [endpoint EXCEPT ![r] = "system"]
  /\ sawConn' = [sawConn EXCEPT ![r] = connected]
  /\ UNCHANGED <<connected, raw, ci, workers, wi, totals, resp>>

(* get_worker_stats() returns a snapshot; the client is (now) connected.   *)
FetchOk(r) ==
  /\ pc[r] = "fetch"
  /\ \E s \in Snapshots : raw' = [raw EXCEPT ![r] = s]
  /\ connected' = TRUE
  /\ pc' = [pc EXCEPT ![r] = "flatten"]
  /\ ci' = [ci EXCEPT ![r] = 1]
  /\ workers' = [workers EXCEPT ![r] = << >>]
  /\ wi' = [wi EXCEPT ![r] = 1]
  /\ totals' = [totals EXCEPT ![r] = NoTotals]
  /\ UNCHANGED <<endpoint, sawConn, resp>>

(* get_worker_stats() raises: 503.  get_system answers with the flag it    *)
(* read before the call (lines 22-33).                                     *)
FetchFail(r) ==
  /\ pc[r] = "fetch"
  /\ resp' = [resp EXCEPT ![r] =
                IF endpoint[r] = "system"
                THEN [status |-> 503, connected |-> sawConn[r]]
                ELSE [status |-> 503, connected |-> None]]
  /\ pc' = [pc EXCEPT ![r] = "done"]
  /\ UNCHANGED <<connected, endpoint, sawConn, raw, ci, workers, wi, totals>>

(* Mutant: workers.append(data) for a list, where the code extends.        *)
FlattenAppendList(r) ==
  /\ pc[r] = "flatten"
  /\ ci[r] <= Len(raw[r])
  /\ LET data == raw[r][ci[r]].report
     IN  workers' = [workers EXCEPT ![r] =
                       IF data.shape = "list" THEN Append(@, data.items)
                       ELSE IF data.shape = "dict" THEN Append(@, data.rec)
                       ELSE @]
  /\ ci' = [ci EXCEPT ![r] = @ + 1]
  /\ UNCHANGED <<connected, pc, endpoint, sawConn, raw, wi, totals, resp>>

(* Mutant: the `elif isinstance(data, dict)` branch is missing.           *)
FlattenNoDict(r) ==
  /\ pc[r] = "flatten"
  /\ ci[r] <= Len(raw[r])
  /\ LET data == raw[r][ci[r]].report
     IN  workers' = [workers EXCEPT ![r] =
                       IF data.shape = "list" THEN @ \o data.items ELSE @]
  /\ ci' = [ci EXCEPT ![r] = @ + 1]
  /\ UNCHANGED <<connected, pc, endpoint, sawConn, raw, wi, totals, resp>>

(* One (cid, data) pair of the flattening loop.                            *)
Flatten(r) ==
  /\ pc[r] = "flatten"
  /\ ci[r] <= Len(raw[r])
  /\ LET data == raw[r][ci[r]].report
     IN  workers' = [workers EXCEPT ![r] =
                       IF data.shape = "list" THEN @ \o data.items
                       ELSE IF data.shape = "dict" THEN Append(@, data.rec)
                       ELSE @]
  /\ ci' = [ci EXCEPT ![r] = @ + 1]
  /\ UNCHANGED <<connected, pc, endpoint, sawConn, raw, wi, totals, resp>>

(* Mutant: each total is assigned the worker's value instead of added to.  *)
TallyNoAccumulate(r) ==
  /\ pc[r] = "flatten"
  /\ ci[r] > Len(raw[r])
  /\ wi[r] <= Len(workers[r])
  /\ workers[r][wi[r]] # NotDict
  /\ totals' = [totals EXCEPT ![r] = [f \in Fields |-> Get(workers[r][wi[r]], f)]]
  /\ wi' = [wi EXCEPT ![r] = @ + 1]
  /\ UNCHANGED <<connected, pc, endpoint, sawConn, raw, ci, workers, resp>>

(* One worker of sum(w.get(f, 0) for w in workers), for the three fields. *)
(* The code runs one generator per field; the three totals are locals     *)
(* nobody else reads, so one pass stands for the three.                   *)
Tally(r) ==
  /\ pc[r] = "flatten"
  /\ ci[r] > Len(raw[r])
  /\ wi[r] <= Len(workers[r])
  /\ workers[r][wi[r]] # NotDict
  /\ totals' = [totals EXCEPT ![r] =
                  [f \in Fields |-> @[f] + Get(workers[r][wi[r]], f)]]
  /\ wi' = [wi EXCEPT ![r] = @ + 1]
  /\ UNCHANGED <<connected, pc, endpoint, sawConn, raw, ci, workers, resp>>

(* w.get on a list element that is not a dict raises AttributeError, which *)
(* neither handler catches: 500 (in the first of the three sums).          *)
GetFails(r) ==
  /\ pc[r] = "flatten"
  /\ ci[r] > Len(raw[r])
  /\ wi[r] <= Len(workers[r])
  /\ workers[r][wi[r]] = NotDict
  /\ resp' = [resp EXCEPT ![r] = [status |-> 500]]
  /\ pc' = [pc EXCEPT ![r] = "done"]
  /\ UNCHANGED <<connected, endpoint, sawConn, raw, ci, workers, wi, totals>>

(* The sums are done: the response.                                        *)
Respond(r) ==
  /\ pc[r] = "flatten"
  /\ ci[r] > Len(raw[r])
  /\ wi[r] > Len(workers[r])
  /\ resp' = [resp EXCEPT ![r] = Response(r)]
  /\ pc' = [pc EXCEPT ![r] = "done"]
  /\ UNCHANGED <<connected, endpoint, sawConn, raw, ci, workers, wi, totals>>

(* The handler returns; its locals are dropped.                            *)
Return(r) ==
  /\ pc[r] = "done"
  /\ pc' = [pc EXCEPT ![r] = "idle"]
  /\ sawConn' = [sawConn EXCEPT ![r] = FALSE]
  /\ raw' = [raw EXCEPT ![r] = << >>]
  /\ ci' = [ci EXCEPT ![r] = 1]
  /\ workers' = [workers EXCEPT ![r] = << >>]
  /\ wi' = [wi EXCEPT ![r] = 1]
  /\ totals' = [totals EXCEPT ![r] = NoTotals]
  /\ resp' = [resp EXCEPT ![r] = None]
  /\ UNCHANGED <<connected, endpoint>>

(* The runtime goes away and the client notices (spec section 5: the      *)
(* source may become unavailable at any time).                             *)
Disconnect ==
  /\ connected
  /\ connected' = FALSE
  /\ UNCHANGED <<pc, endpoint, sawConn, raw, ci, workers, wi, totals, resp>>

Next ==
  \/ Disconnect
  \/ \E r \in Requests :
       \/ StartWorkers(r) \/ StartSystem(r) \/ FetchOk(r) \/ FetchFail(r)
       \/ Flatten(r) \/ Tally(r) \/ GetFails(r) \/ Respond(r) \/ Return(r)

Spec == Init /\ [][Next]_vars

-----------------------------------------------------------------------------
(* Positions of the worker records of the i-th container: <<i, j>> for the *)
(* j-th element of its list, <<i, 0>> for a single dict.                   *)
ContainerPositions(s, i) ==
  IF s[i].report.shape = "list"
  THEN {<<i, j>> : j \in 1..Len(s[i].report.items)}
  ELSE IF s[i].report.shape = "dict" THEN {<<i, 0>>} ELSE {}

(* Positions of the worker records of a snapshot.                          *)
Positions(s) == UNION {ContainerPositions(s, i) : i \in 1..Len(s)}

RecAt(s, p) ==
  IF p[2] = 0 THEN s[p[1]].report.rec ELSE s[p[1]].report.items[p[2]]

ResponseType ==
  {None} \cup [status: {500}]
    \cup [status: {503}, connected: BOOLEAN \cup {None}]
    \cup [status: {200}, connected: BOOLEAN \cup {None},
          list: Seq(Records), count: Nat, queued: Nat, blocked: Nat, processed: Nat]

TypeOK ==
  /\ connected \in BOOLEAN
  /\ pc \in [Requests -> {"idle", "fetch", "flatten", "done"}]
  /\ endpoint \in [Requests -> {"workers", "system"}]
  /\ sawConn \in [Requests -> BOOLEAN]
  /\ raw \in [Requests -> SnapshotType]
  /\ ci \in [Requests -> Nat \ {0}]
  /\ workers \in [Requests -> Seq(Records \cup {NotDict})]
  /\ wi \in [Requests -> Nat \ {0}]
  /\ totals \in [Requests -> [Fields -> Nat]]
  /\ resp \in [Requests -> ResponseType]

(* Spec sections 4.3 and 8: a 200 response of either endpoint counts every *)
(* worker record of the snapshot it fetched once: list elements and single *)
(* dicts alike, other reports contributing nothing.  Counted here over the *)
(* set of record positions, not the handler's list.                       *)
CountMatchesSnapshot ==
  \A r \in Requests :
    resp[r] # None /\ resp[r].status = 200 =>
      resp[r].count = Cardinality(Positions(raw[r]))

(* Spec sections 4.3 and 8: each total of a 200 response is the sum of     *)
(* that field over the worker records of the snapshot it fetched, a        *)
(* missing field counting 0.  Summed here over the set of record           *)
(* positions, not the handler's list.                                      *)
TotalsMatchSnapshot ==
  \A r \in Requests :
    resp[r] # None /\ resp[r].status = 200 =>
      \A f \in Fields :
        resp[r][f] = MapThenSumSet(LAMBDA p : Get(RecAt(raw[r], p), f),
                                   Positions(raw[r]))

(* Spec section 4.4: when the fetch fails, GetSystemOverview answers        *)
(* connected = false with the error.  The handler answers with the flag    *)
(* it read before the fetch.                                                *)
FailureReportsDisconnected ==
  \A r \in Requests :
    resp[r] # None /\ resp[r].status = 503 /\ endpoint[r] = "system" =>
      resp[r].connected = FALSE

(* Spec sections 4.1 and 7: a malformed record contributes nothing and     *)
(* never fails the query.  Neither handler checks that a list element is   *)
(* a dict before calling .get on it.                                       *)
NoServerError ==
  \A r \in Requests : resp[r] # None => resp[r].status # 500

=============================================================================
