---------------------------- MODULE ScanProtocol ----------------------------
(***************************************************************************)
(* The vocabulary of diskplan.v1 that the engine and the terminal frontend *)
(* share: controls, scan states, rejection codes and the engine events     *)
(* (src/proto/diskplan/v1/ipc.proto).  Facts a progress report or a plan   *)
(* carries are left out: nothing but their layout on screen depends on     *)
(* them.  A plan is its identifier.                                        *)
(***************************************************************************)
EXTENDS Naturals, Sequences

SeqOps == INSTANCE SequencesExt

CONSTANTS
  MaxU64,     \* the largest value of a uint64 counter
  PlanId      \* the non-empty plan identifiers

(* The identifier an absent plan has in this model, and the empty string,  *)
(* which is the identifier of a plan message whose field was never set.    *)
NoPlan == "no plan"
EmptyPlanId == ""

ASSUME MaxU64Assumption == MaxU64 \in Nat \ {0, 1}
ASSUME PlanIdAssumption == NoPlan \notin PlanId /\ EmptyPlanId \notin PlanId

(* A field an event of this body does not have. *)
Absent == "-"

ControlKind == {"start", "pause", "resume", "build", "cancel"}

ScanState ==
  {"idle", "running", "paused", "building", "planReady",
   "cancelling", "cancelled", "finished", "failed"}

RejectCode == {"invalidState", "duplicateRequestID", "malformedRequest"}

(* An enumeration field of a decoded message also holds the proto3 default *)
(* or a number the decoder has no name for.                                *)
Unnamed == {"unspecified", "unrecognized"}
WireKind == ControlKind \cup Unnamed
WireState == ScanState \cup Unnamed
WireCode == RejectCode \cup Unnamed
WirePlanId == PlanId \cup {EmptyPlanId}

-----------------------------------------------------------------------------
(* Message bodies of EngineEvent.                                          *)

Body(b, k, s, c, p) ==
  [body |-> b, kind |-> k, state |-> s, code |-> c, plan |-> p]

ControlAccepted(k, s)    == Body("accepted", k, s, Absent, NoPlan)
ControlRejected(k, c, s) == Body("rejected", k, s, c, NoPlan)
ScanStateChanged(s)      == Body("stateChanged", Absent, s, Absent, NoPlan)
ScanProgress             == Body("progress", Absent, Absent, Absent, NoPlan)
PlanReady(p)             == Body("planReady", Absent, Absent, Absent, p)
PlanInvalidated(p)       == Body("planInvalidated", Absent, Absent, Absent, p)
ScanCancelled            == Body("scanCancelled", Absent, Absent, Absent, NoPlan)
ScanFinished             == Body("scanFinished", Absent, Absent, Absent, NoPlan)
EngineFailed             == Body("engineFailed", Absent, Absent, Absent, NoPlan)
EmptyBody                == Body("empty", Absent, Absent, Absent, NoPlan)

(* Every message the wire can carry. *)
Message ==
  { ControlAccepted(k, s) : k \in WireKind, s \in WireState }
    \cup { ControlRejected(k, c, s) : k \in WireKind, c \in WireCode, s \in WireState }
    \cup { ScanStateChanged(s) : s \in WireState }
    \cup { PlanReady(p) : p \in WirePlanId }
    \cup { PlanInvalidated(p) : p \in WirePlanId }
    \cup { ScanProgress, ScanCancelled, ScanFinished, EngineFailed, EmptyBody }

(* EngineEvent: event_sequence, request_id and the body. *)
Event(n, r, m) == [seq |-> n, req |-> r, msg |-> m]

(* What reaches the reducer: an event, and the number of progress events   *)
(* before it that the frontend's queue merged into it.                     *)
Delivery(e, n) == [event |-> e, skipped |-> n]

Acknowledgement == {"accepted", "rejected"}
TerminalBody == {"scanCancelled", "scanFinished", "engineFailed"}

(* The bodies that state the scan's state, in their `state` field. *)
StateBearing == Acknowledgement \cup {"stateChanged"}

-----------------------------------------------------------------------------
(* What one announcement may change the scan state to: the union of the    *)
(* transitions ScanSession.control announces and the frontend's reducer    *)
(* admits (accepted_transition_is_valid and the table below it).           *)
Advances ==
  { <<"idle", "running">>,
    <<"running", "paused">>, <<"paused", "running">>, <<"planReady", "running">>,
    <<"running", "building">>, <<"paused", "building">>, <<"building", "planReady">>,
    <<"running", "cancelling">>, <<"paused", "cancelling">>,
    <<"building", "cancelling">>, <<"planReady", "cancelling">>,
    <<"cancelling", "cancelled">> }

(* What a reader of the event stream knows: the scan state and the plan.   *)
View(s, p) == [scan |-> s, plan |-> p]

(* The view after one more event, read without any validation. *)
Observe(v, m) ==
  [ scan |-> IF m.body \in {"accepted", "stateChanged"} THEN m.state ELSE v.scan,
    plan |-> IF m.body \in {"planReady", "planInvalidated"}
             THEN IF m.body = "planReady" THEN m.plan ELSE NoPlan
             ELSE v.plan ]

(* The view after all the events of a sequence. *)
Replay(v, events) ==
  LET told[n \in 0..Len(events)] ==
        IF n = 0 THEN v ELSE Observe(told[n - 1], events[n].msg)
  IN told[Len(events)]

(* A legal walk: every state announced is the one before it or one step    *)
(* ahead of it, and a rejection cites the one before it.                   *)
WalksFrom(s, events) ==
  \A i \in DOMAIN events :
    events[i].msg.body \in StateBearing =>
      LET before == Replay(View(s, NoPlan), SubSeq(events, 1, i - 1)).scan IN
      \/ events[i].msg.state = before
      \/ events[i].msg.body # "rejected" /\ <<before, events[i].msg.state>> \in Advances
=============================================================================
