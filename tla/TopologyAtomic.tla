--------------------------- MODULE TopologyAtomic ---------------------------
(***************************************************************************)
(* What GET /api/topology promises, with the reconciliation loop folded   *)
(* into one step: a request either fails to fetch (503) or takes one      *)
(* snapshot of the Telemetry Source and is answered, in a single step,    *)
(* with the answer the snapshot determines.  Answer(s) is the answer for  *)
(* snapshot s; the detailed module Topology says what it is (freshest     *)
(* record per identity) and implements this specification.               *)
(***************************************************************************)
CONSTANTS
  Snapshots,   \* the snapshots the source can return (any raw dict)
  Answer(_),   \* the response a snapshot determines
  None

VARIABLES
  phase,   \* "idle", "busy" (snapshot taken, no answer yet) or "done"
  snap,    \* the snapshot of the current request, << >> when there is none
  answer   \* the response, None while there is none

avars == <<phase, snap, answer>>

Init ==
  /\ phase = "idle"
  /\ snap = << >>
  /\ answer = None

(* The fetch raises: 503.                                                  *)
Fail ==
  /\ phase = "idle"
  /\ phase' = "done"
  /\ answer' = [status |-> 503]
  /\ UNCHANGED snap

(* The fetch returns a snapshot.                                           *)
Take ==
  /\ phase = "idle"
  /\ snap' \in Snapshots
  /\ phase' = "busy"
  /\ UNCHANGED answer

(* The request is answered from its snapshot, atomically.                  *)
Reply ==
  /\ phase = "busy"
  /\ phase' = "done"
  /\ answer' = Answer(snap)
  /\ UNCHANGED snap

(* The handler returns; nothing of the request is kept.                    *)
Finish ==
  /\ phase = "done"
  /\ phase' = "idle"
  /\ snap' = << >>
  /\ answer' = None

Next == Fail \/ Take \/ Reply \/ Finish

Spec == Init /\ [][Next]_avars
=============================================================================
