---------------------------- MODULE MCTuiReducer ----------------------------
(***************************************************************************)
(* TuiReducer against an adversarial engine.  The engine's events are all  *)
(* those a state can tell apart: every body with every field value, ids up *)
(* to the first one never used, and a number that is right, repeated, or   *)
(* one too far.  Other ids and numbers are refused just as these are.      *)
(***************************************************************************)
EXTENDS TuiReducer

CONSTANT MaxRequests     \* bound: ids the user may spend on key presses

(* Values the reducer does not distinguish are represented by one of them: *)
(* "unspecified" for both unnamed values, one valid rejection code, and    *)
(* for a verdict that names no control or no code, one state.              *)
MCMessage ==
  { m \in Message :
      /\ m.kind # "unrecognized" /\ m.state # "unrecognized"
      /\ m.code \in {Absent, "invalidState", "unspecified"}
      /\ m.kind = "unspecified" \/ m.code = "unspecified" => m.state = "idle" }

(* Ids no request has ever had are refused alike. *)
MCRequestId == {0, active.id, nextRequestId} \cup { p.id : p \in pending }

MCPressKey ==
  /\ nextRequestId <= MaxRequests
  /\ PressKey

MCEventInSequence ==
  \E n \in 0..1, r \in MCRequestId, m \in MCMessage :
    /\ n = 1 => m = ScanProgress
    /\ ReduceEngineEvent(Delivery(Event(lastEventSequence + 1 + n, r, m), n))

MCEventOutOfSequence ==
  \E n \in 0..1, s \in {lastEventSequence, lastEventSequence + 2},
     m \in {ScanProgress, EngineFailed} :
    /\ ~SequenceIsNext(Delivery(Event(s, active.id, m), n))
    /\ ReduceEngineEvent(Delivery(Event(s, active.id, m), n))

MCNext ==
  /\ ~ShouldExit
  /\ \/ MCPressKey
     \/ MCEventInSequence
     \/ MCEventOutOfSequence
     \/ DriverTakes
     \/ DriverLeaves
     \/ \E ok \in BOOLEAN : DriverExits(ok)

MCSpec == Init /\ [][MCNext]_vars
=============================================================================
