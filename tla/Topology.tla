------------------------------ MODULE Topology ------------------------------
(***************************************************************************)
(* The Node Reconciler behind GET /api/topology                            *)
(* (context_visualizer/api/topology.py, get_topology).                    *)
(*                                                                         *)
(* One handler at a time serves requests.  A request fetches a snapshot    *)
(* from the Telemetry Source (chimaera_client.get_system_stats_all), which *)
(* either fails (503) or returns a dict from container id to that          *)
(* container's report.  The handler then walks the dict in its iteration  *)
(* order, one record per step, keeping in `nodes` the latest record per   *)
(* node identity (the string form of node_id, or of the container id when *)
(* node_id is missing), and finally turns `nodes` into the response.       *)
(*                                                                         *)
(* Data is abstract: a record is a member of the constant set Records with *)
(* the fields the handler reads (node_id, event_id, hostname); every other *)
(* field is copied through and is represented by the record itself.        *)
(***************************************************************************)
EXTENDS Integers, Sequences

CONSTANTS
  Containers,   \* container ids, the keys of the dict the source returns
  NodeIdVals,   \* values a record's node_id field can carry
  Hostnames,    \* values a record's hostname field can carry
  EmptyString,  \* the hostname "", which is falsy like None
  Records,      \* the dict records a container can report
  NotDict,      \* a list element that is not a dict
  None,         \* a field that is absent (dict.get returns None)
  NotInt,       \* the outcome of int(x) raising ValueError/TypeError
  LocalHost,    \* socket.gethostname() of the API server
  Snapshots,    \* the raw dicts the source can return, as item sequences
  Str(_),       \* Python str() on a node_id or a container id
  ToInt(_)      \* Python int() on a node_id or an identity string

(* The fields of a record that the handler reads.                          *)
RecordType ==
  [node_id: NodeIdVals \cup {None}, event_id: Nat \cup {None},
   hostname: Hostnames \cup {None}]

(* A container's report: a list of items, a single dict, or anything else. *)
Reports ==
  [shape: {"list"}, items: Seq(Records \cup {NotDict})]
    \cup [shape: {"dict"}, rec: Records]
    \cup [shape: {"other"}]

(* One (cid, report) pair of raw.items().                                  *)
Pair == [cid: Containers, report: Reports]

(* raw.items(): the (cid, report) pairs in the dict's iteration order.     *)
SnapshotType == Seq(Pair)

Keys == {Str(x) : x \in NodeIdVals \cup Containers}

(* A node of the response: the fields the handler derives, and the record *)
(* standing for the fields it copies.                                       *)
OutputType ==
  [node_id: Int \cup {NotInt}, hostname: Hostnames, stats: Records]

ASSUME ConstantsAssumption ==
  /\ Records \subseteq RecordType
  /\ NotDict \notin Records
  /\ None \notin Records
  /\ None \notin NodeIdVals \cup Nat \cup Hostnames
  /\ EmptyString \in Hostnames
  /\ LocalHost \in Hostnames \ {EmptyString}
  /\ Snapshots \subseteq SnapshotType
  /\ \A c \in Containers : Str(c) = c
  /\ \A k \in Keys : ToInt(k) \in Int \cup {NotInt}
  /\ \A x \in NodeIdVals : ToInt(x) \in Int \cup {NotInt}
  /\ NotInt \notin Int
  /\ None \notin OutputType

VARIABLES
  pc,     \* "idle" between requests, "scan" while walking raw.items(),
          \* "done" once the response is sent
  raw,    \* the snapshot the current request fetched
  ci,     \* index of the current (cid, entries) pair in raw.items()
  ei,     \* index of the current entry in that container's list
  nodes,  \* the dict nodes: identity key -> latest record, None if absent
  resp    \* the response of the current request: None, or its status (and nodes)

vars == <<pc, raw, ci, ei, nodes, resp>>

NoNodes == [k \in Keys |-> None]

(* entry.get("event_id", 0)                                                 *)
EventId(e) == IF e.event_id = None THEN 0 ELSE e.event_id

(* Mutant: a tie on event_id replaces the stored record (>= for >).        *)
FresherOrEqual(e, prev) == prev = None \/ EventId(e) >= EventId(prev)

(* `prev is None or entry.get("event_id", 0) > prev.get("event_id", 0)`     *)
Fresher(e, prev) == prev = None \/ EventId(e) > EventId(prev)

(* nid = entry.get("node_id"); if nid is None: nid = cid; str(nid)          *)
NodeKey(cid, e) == Str(IF e.node_id = None THEN cid ELSE e.node_id)

(* The exposed numeric node_id: int(raw_nid), or int(nid_str) defaulting   *)
(* to 0; NotInt when int(raw_nid) raises, which the handler does not catch.*)
ExposedId(k, e) ==
  IF e.node_id # None THEN ToInt(e.node_id)
  ELSE IF ToInt(k) = NotInt THEN 0 ELSE ToInt(k)

(* Mutant: entry.get("hostname") without the local fallback.               *)
HostNoFallback(e) == e.hostname

(* entry.get("hostname") or local_hostname                                 *)
ExposedHost(e) == IF e.hostname \in {None, EmptyString} THEN LocalHost ELSE e.hostname

Output(k, e) == [node_id |-> ExposedId(k, e), hostname |-> ExposedHost(e), stats |-> e]

ResponseType ==
  {None} \cup [status: {503}] \cup [status: {500}]
    \cup [status: {200}, nodes: [Keys -> OutputType \cup {None}]]

-----------------------------------------------------------------------------
Init ==
  /\ pc = "idle"
  /\ raw = << >>
  /\ ci = 1
  /\ ei = 1
  /\ nodes = NoNodes
  /\ resp = None

(* chimaera_client.get_system_stats_all() raises: 503 with the error.       *)
FetchFail ==
  /\ pc = "idle"
  /\ resp' = [status |-> 503]
  /\ pc' = "done"
  /\ UNCHANGED <<raw, ci, ei, nodes>>

(* The fetch returns a snapshot; nodes = {} and the outer loop starts.     *)
Fetch ==
  /\ pc = "idle"
  /\ \E s \in Snapshots : raw' = s
  /\ pc' = "scan"
  /\ ci' = 1
  /\ ei' = 1
  /\ nodes' = NoNodes
  /\ UNCHANGED resp

(* `if not isinstance(entries, list): continue`                              *)
SkipReport ==
  /\ pc = "scan"
  /\ ci <= Len(raw)
  /\ raw[ci].report.shape # "list"
  /\ ci' = ci + 1
  /\ ei' = 1
  /\ UNCHANGED <<pc, raw, nodes, resp>>

(* Mutant: the inner loop's index is not reset for the next container.    *)
EndOfListNoReset ==
  /\ pc = "scan"
  /\ ci <= Len(raw)
  /\ raw[ci].report.shape = "list"
  /\ ei > Len(raw[ci].report.items)
  /\ ci' = ci + 1
  /\ UNCHANGED <<pc, raw, ei, nodes, resp>>

(* The inner loop has used up the container's list: on to the next pair.  *)
EndOfList ==
  /\ pc = "scan"
  /\ ci <= Len(raw)
  /\ raw[ci].report.shape = "list"
  /\ ei > Len(raw[ci].report.items)
  /\ ci' = ci + 1
  /\ ei' = 1
  /\ UNCHANGED <<pc, raw, nodes, resp>>

(* One entry of the inner loop: skip a non-dict; otherwise keep it if its   *)
(* identity is new or its event_id is strictly greater than the stored one.*)
ScanEntry ==
  /\ pc = "scan"
  /\ ci <= Len(raw)
  /\ raw[ci].report.shape = "list"
  /\ ei <= Len(raw[ci].report.items)
  /\ LET entry == raw[ci].report.items[ei]
         k     == NodeKey(raw[ci].cid, entry)
     IN  nodes' = IF entry # NotDict /\ Fresher(entry, nodes[k])
                  THEN [nodes EXCEPT ![k] = entry]
                  ELSE nodes
  /\ ei' = ei + 1
  /\ UNCHANGED <<pc, raw, ci, resp>>

(* The second loop: build one output per stored record.  int(raw_nid) on a *)
(* node_id that is not an integer raises outside any try: the request      *)
(* fails with 500.                                                          *)
Response(m) ==
  IF \E k \in Keys : m[k] # None /\ ExposedId(k, m[k]) = NotInt
  THEN [status |-> 500]
  ELSE [status |-> 200,
        nodes  |-> [k \in Keys |-> IF m[k] = None THEN None ELSE Output(k, m[k])]]

(* Mutant: the response is built once the loop reaches the last pair,     *)
(* before that pair's records are visited (an off-by-one in the loop end). *)
RespondEarly ==
  /\ pc = "scan"
  /\ ci >= Len(raw)
  /\ resp' = Response(nodes)
  /\ pc' = "done"
  /\ UNCHANGED <<raw, ci, ei, nodes>>

(* Mutant: int(raw_nid) failing no longer fails the request; the node   *)
(* keeps the unparsed id.                                                  *)
RespondNoRaise ==
  /\ pc = "scan"
  /\ ci > Len(raw)
  /\ resp' = [status |-> 200,
               nodes  |-> [k \in Keys |->
                             IF nodes[k] = None THEN None ELSE Output(k, nodes[k])]]
  /\ pc' = "done"
  /\ UNCHANGED <<raw, ci, ei, nodes>>

(* The loop is over: the response is built from nodes.                     *)
Respond ==
  /\ pc = "scan"
  /\ ci > Len(raw)
  /\ resp' = Response(nodes)
  /\ pc' = "done"
  /\ UNCHANGED <<raw, ci, ei, nodes>>

(* The handler returns: its locals (raw, nodes) are dropped and the next   *)
(* request starts from nothing, as every request does.                      *)
Return ==
  /\ pc = "done"
  /\ pc' = "idle"
  /\ raw' = << >>
  /\ ci' = 1
  /\ ei' = 1
  /\ nodes' = NoNodes
  /\ resp' = None

Next ==
  FetchFail \/ Fetch \/ SkipReport \/ EndOfList \/ ScanEntry \/ Respond \/ Return

Spec == Init /\ [][Next]_vars

-----------------------------------------------------------------------------
(* The indices of the dict entries of the i-th container's list, if any.   *)
DictIdx(s, i) ==
  IF s[i].report.shape = "list"
  THEN {j \in 1..Len(s[i].report.items) : s[i].report.items[j] # NotDict}
  ELSE {}

(* Positions of the dict records in raw.items(), in iteration order.       *)
Positions(s) == UNION {{<<i, j>> : j \in DictIdx(s, i)} : i \in 1..Len(s)}

RecAt(s, p) == s[p[1]].report.items[p[2]]

KeyAt(s, p) == NodeKey(s[p[1]].cid, RecAt(s, p))

Before(p, q) == p[1] < q[1] \/ (p[1] = q[1] /\ p[2] < q[2])

(* Among the positions P, the one that reconciliation keeps for key k: its  *)
(* event_id is the largest of k's, and no earlier record of k has it.       *)
IsWinner(s, P, k, p) ==
  /\ p \in P
  /\ KeyAt(s, p) = k
  /\ \A q \in P : KeyAt(s, q) = k =>
        /\ EventId(RecAt(s, q)) <= EventId(RecAt(s, p))
        /\ Before(q, p) => EventId(RecAt(s, q)) < EventId(RecAt(s, p))

(* The reconciled map over the records at positions P: one record per key  *)
(* that occurs, the freshest with first-seen winning ties (spec section 8). *)
Reconciled(s, P, m) ==
  \A k \in Keys :
    /\ (m[k] = None) <=> (\A p \in P : KeyAt(s, p) # k)
    /\ m[k] # None => \E p \in P : IsWinner(s, P, k, p) /\ RecAt(s, p) = m[k]

(* The records the loop has already visited.                               *)
Visited == {p \in Positions(raw) : Before(p, <<ci, ei>>)}

(* The record of identity k that reconciliation keeps, if s has one.     *)
Freshest(s, k) == CHOOSE p \in Positions(s) : IsWinner(s, Positions(s), k, p)

(* The freshest-wins map of snapshot s: per identity the winning record.  *)
FreshestMap(s) ==
  [k \in Keys |-> IF \E p \in Positions(s) : KeyAt(s, p) = k
                  THEN RecAt(s, Freshest(s, k)) ELSE None]

(* The handler seen as the atomic query of TopologyAtomic: the scan is    *)
(* internal, and the answer to a snapshot is the response built from its  *)
(* freshest-wins map.                                                      *)
Atomic == INSTANCE TopologyAtomic
            WITH phase  <- IF pc = "scan" THEN "busy" ELSE pc,
                 snap   <- raw,
                 answer <- resp,
                 Snapshots <- SnapshotType,
                 Answer <- LAMBDA s : Response(FreshestMap(s))

-----------------------------------------------------------------------------
TypeOK ==
  /\ pc \in {"idle", "scan", "done"}
  /\ raw \in SnapshotType
  /\ ci \in Nat \ {0}
  /\ ei \in Nat \ {0}
  /\ nodes \in [Keys -> Records \cup {None}]
  /\ resp \in ResponseType

(* The loop invariant of the reconciliation loop in get_topology: `nodes`  *)
(* is always the reconciliation of the records the loop has visited, so   *)
(* no step may lose, replace wrongly or double-count a visited record.     *)
ScanInv == Reconciled(raw, Visited, nodes)

(* Freshest wins (spec sections 3, 4.2 and 8): a 200 response holds, for   *)
(* every identity some dict record of the snapshot has, exactly one node,  *)
(* built from a record of that identity with the largest event_id, the     *)
(* first seen among equals; an identity no record has is absent.  Breaks if *)
(* the handler compares event_id the wrong way, lets a tie replace the     *)
(* stored record, or skips records.                                        *)
FreshestWins ==
  resp # None /\ resp.status = 200 =>
    \A k \in Keys :
      /\ (resp.nodes[k] = None) <=> (\A p \in Positions(raw) : KeyAt(raw, p) # k)
      /\ resp.nodes[k] # None =>
           \E p \in Positions(raw) :
              /\ IsWinner(raw, Positions(raw), k, p)
              /\ resp.nodes[k] = Output(k, RecAt(raw, p))


(* get_topology implements the atomic query: every step of the handler is *)
(* either a step of TopologyAtomic or invisible to it, and the response is *)
(* the one the whole snapshot determines, 500 included, as if no record    *)
(* were visited out of turn.                                              *)
ImplementsAtomic == Atomic!Spec

(* Spec section 7: an identity that does not parse as an integer is absorbed *)
(* by defaulting, never raised; the handler's int(raw_nid) in its second    *)
(* loop is not guarded, so a node_id such as "node-x" fails the request.    *)
NoServerError == resp # None => resp.status # 500

(* Spec sections 4.1 and 4.2: a container whose report is a single record   *)
(* is normalized to a one-record list, so its node is in the topology.      *)
(* The handler skips every report that is not a list.                       *)
SingleRecordReported ==
  resp # None /\ resp.status = 200 =>
    \A i \in 1..Len(raw) :
      raw[i].report.shape = "dict" =>
        resp.nodes[NodeKey(raw[i].cid, raw[i].report.rec)] # None

(* Spec section 4.2 step 5: the local host name stands in for a node only  *)
(* when every record of that node lacks a hostname.  The handler looks at  *)
(* the winning record alone.                                                *)
HostnameFromSomeRecord ==
  resp # None /\ resp.status = 200 =>
    \A k \in Keys :
      (resp.nodes[k] # None /\
       \E p \in Positions(raw) :
          KeyAt(raw, p) = k /\ RecAt(raw, p).hostname \notin {None, EmptyString})
        => \E p \in Positions(raw) :
             KeyAt(raw, p) = k /\ RecAt(raw, p).hostname = resp.nodes[k].hostname

=============================================================================
