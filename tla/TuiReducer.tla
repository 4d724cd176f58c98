----------------------------- MODULE TuiReducer -----------------------------
(***************************************************************************)
(* The frontend's state and the function that moves it: AppState in        *)
(* tui/model.rs, reduce in tui/reducer.rs, and the part of the event loop  *)
(* in tui/app.rs that carries out the reducer's effects.  One step is one  *)
(* turn of that loop: an event is reduced and its effect performed, both   *)
(* on the one UI thread.                                                   *)
(*                                                                         *)
(* Left out because nothing but drawing reads them: the progress report,   *)
(* the banner, the facts of a plan.  Key releases and repeats, unbound     *)
(* keys and resizes change nothing, so they are no steps at all.           *)
(*                                                                         *)
(* Next pairs the reducer with any engine: events that are well formed on  *)
(* the wire, in any order and with any content.                            *)
(***************************************************************************)
EXTENDS ScanProtocol, FiniteSets

CONSTANT Keys      \* the keys the user presses, a subset of the bound ones

BoundKeys == {"?", "/", "q", "space", "p", "r"}

ASSUME KeysAssumption == Keys \subseteq BoundKeys

VARIABLES
  screen,             \* "scan" or "plan"
  scanState,          \* the engine's state as acknowledged to this side
  provisionalPlan,    \* the plan shown, or NoPlan
  pending,            \* controls sent and not yet answered: a set of [id, kind]
  active,             \* the acknowledged request the next events belong to
  helpVisible,
  cancelRequested,
  terminal,           \* how the session ended, "none" until it has
  driverExited,
  lastEventSequence,
  nextRequestId,
  commands,           \* the channel to the driver: what was sent, not yet taken
  driverListens       \* the driver's end of that channel exists

appVars ==
  <<screen, scanState, provisionalPlan, pending, active, helpVisible,
    cancelRequested, terminal, driverExited, lastEventSequence, nextRequestId>>

vars == <<appVars, commands, driverListens>>

Terminal == {"none", "cancelled", "finished", "failed"}

Phase ==
  {"awaitingStateConfirmation", "awaitingPlanReadyState", "awaitingPlanProjection",
   "awaitingInvalidation", "awaitingResumeState", "awaitingResumeProgress",
   "awaitingCancelledState", "awaitingCancelledTerminal", "steady"}

Active(i, k, p) == [id |-> i, kind |-> k, phase |-> p]
NoActive == Active(0, Absent, Absent)

Request(i, k) == [id |-> i, kind |-> k]

(* What goes down the command channel: DriverCommand of tui/driver.rs. *)
SendControl(i, k) == [command |-> "control", id |-> i, kind |-> k]
StopDriver == [command |-> "stop", id |-> 0, kind |-> Absent]

Init ==
  /\ screen = "scan"
  /\ scanState = "idle"
  /\ provisionalPlan = NoPlan
  /\ pending = {Request(1, "start")}
  /\ active = NoActive
  /\ helpVisible = FALSE
  /\ cancelRequested = FALSE
  /\ terminal = "none"
  /\ driverExited = FALSE
  /\ lastEventSequence = 0
  /\ nextRequestId = 2
  /\ commands = <<>>
  /\ driverListens = TRUE

ShouldExit == terminal # "none" /\ driverExited

-----------------------------------------------------------------------------
(* Effects.  A command is queued for the driver; if the driver's end of    *)
(* the channel is gone, run_application reduces DriverExited(Err) on the   *)
(* spot and the session has failed.                                        *)

PerformSend(c) ==
  \/ /\ driverListens
     /\ commands' = Append(commands, c)
     /\ UNCHANGED <<scanState, terminal, driverExited>>
  \/ /\ ~driverListens
     /\ scanState' = "failed"
     /\ terminal' = "failed"
     /\ driverExited' = TRUE
     /\ UNCHANGED commands

(* protocol_failure: the session has failed and the driver is told to stop. *)
ProtocolFailure ==
  /\ scanState' = "failed"
  /\ terminal' = "failed"
  /\ \/ /\ driverListens
        /\ commands' = Append(commands, StopDriver)
        /\ UNCHANGED driverExited
     \/ /\ ~driverListens
        /\ driverExited' = TRUE
        /\ UNCHANGED commands

-----------------------------------------------------------------------------
(* reduce_key and request_once *)

HasPending(k) == \E p \in pending : p.kind = k

MayRequest(k) ==
  /\ ~HasPending(k)
  /\ k = "cancel" => ~cancelRequested

MutantSendRequest(k) ==
  /\ MayRequest(k)
  /\ nextRequestId' = (nextRequestId + 1) % (MaxU64 + 1)
  /\ pending' = pending \cup {Request(nextRequestId, k)}
  /\ cancelRequested' = (cancelRequested \/ k = "cancel")
  /\ PerformSend(SendControl(nextRequestId, k))
  /\ UNCHANGED <<screen, provisionalPlan, active, helpVisible, lastEventSequence>>

(* try_next_control, then Effect::SendControl. *)
SendRequest(k) ==
  /\ MayRequest(k)
  /\ nextRequestId < MaxU64
  /\ nextRequestId' = nextRequestId + 1
  /\ pending' = pending \cup {Request(nextRequestId, k)}
  /\ cancelRequested' = (cancelRequested \/ k = "cancel")
  /\ PerformSend(SendControl(nextRequestId, k))
  /\ UNCHANGED <<screen, provisionalPlan, active, helpVisible, lastEventSequence>>

ExhaustRequestIds(k) ==
  /\ MayRequest(k)
  /\ nextRequestId = MaxU64
  /\ ProtocolFailure
  /\ UNCHANGED <<screen, provisionalPlan, pending, active, helpVisible, cancelRequested,
                 lastEventSequence, nextRequestId>>

(* The control a key asks for in the present state, if it asks for one. *)
Asks(key, k) ==
  \/ key = "q" /\ k = "cancel"
  \/ key = "space" /\ screen = "scan" /\ scanState = "running" /\ k = "pause"
  \/ key = "space" /\ screen = "scan" /\ scanState = "paused" /\ k = "resume"
  \/ key = "p" /\ screen = "scan" /\ scanState \in {"running", "paused"} /\ k = "build"
  \/ key = "r" /\ (screen = "plan" \/ scanState = "paused") /\ k = "resume"

PressControlKey(key) ==
  /\ terminal = "none"
  /\ \E k \in ControlKind :
       /\ Asks(key, k)
       /\ SendRequest(k) \/ ExhaustRequestIds(k)
  /\ UNCHANGED driverListens

PressHelpKey(key) ==
  /\ terminal = "none"
  /\ key = "?" \/ (key = "/" /\ screen = "scan")
  /\ helpVisible' = ~helpVisible
  /\ UNCHANGED <<screen, scanState, provisionalPlan, pending, active, cancelRequested, terminal,
                 driverExited, lastEventSequence, nextRequestId, commands, driverListens>>

PressKey == \E key \in Keys : PressControlKey(key) \/ PressHelpKey(key)

-----------------------------------------------------------------------------
(* reduce_engine_event: the sequence check.                                *)

SequenceIsNext(d) ==
  /\ d.skipped > 0 => d.event.msg.body = "progress"
  /\ lastEventSequence + 1 + d.skipped <= MaxU64
  /\ d.event.seq = lastEventSequence + 1 + d.skipped

-----------------------------------------------------------------------------
(* What makes an event of each body admissible, once its number is right.  *)

(* accepted_transition_is_valid *)
MutantAcceptedTransition(k, s, next) ==
  \/ k = "start" /\ s = "idle" /\ next = "running"
  \/ k = "pause" /\ s = "running" /\ next = "paused"
  \/ k = "resume" /\ next = "running"
  \/ k = "build" /\ s \in {"running", "paused"} /\ next = "building"
  \/ k = "cancel" /\ s \in {"running", "paused", "building", "planReady"} /\ next = "cancelling"

AcceptedTransition(k, s, next) ==
  \/ k = "start" /\ s = "idle" /\ next = "running"
  \/ k = "pause" /\ s = "running" /\ next = "paused"
  \/ k = "resume" /\ s \in {"paused", "planReady"} /\ next = "running"
  \/ k = "build" /\ s \in {"running", "paused"} /\ next = "building"
  \/ k = "cancel" /\ s \in {"running", "paused", "building", "planReady"} /\ next = "cancelling"

AdmitsAccepted(e) ==
  /\ Request(e.req, e.msg.kind) \in pending
  /\ AcceptedTransition(e.msg.kind, scanState, e.msg.state)

AdmitsRejected(e) ==
  /\ Request(e.req, e.msg.kind) \in pending
  /\ e.msg.code \in RejectCode
  /\ e.msg.state = scanState

(* Other events must name the request that was acknowledged last. *)
OfActiveRequest(e) ==
  /\ active # NoActive
  /\ e.req # 0
  /\ e.req = active.id

(* The table of reduce_origin_event: a request of this kind, in this phase *)
(* and this state, takes that next state and goes to that phase.           *)
MutantPhaseTable ==
  { <<"start",  "awaitingStateConfirmation", "running",    "running",    "steady">>,
    <<"pause",  "awaitingStateConfirmation", "paused",     "paused",     "steady">>,
    <<"build",  "awaitingStateConfirmation", "building",   "building",   "awaitingPlanReadyState">>,
    <<"build",  "awaitingPlanReadyState",    "building",   "planReady",  "steady">>,
    <<"resume", "awaitingResumeState",       "running",    "running",    "awaitingResumeProgress">>,
    <<"cancel", "awaitingStateConfirmation", "cancelling", "cancelling", "awaitingCancelledState">>,
    <<"cancel", "awaitingCancelledState",    "cancelling", "cancelled",  "awaitingCancelledTerminal">> }

PhaseTable ==
  { <<"start",  "awaitingStateConfirmation", "running",    "running",    "steady">>,
    <<"pause",  "awaitingStateConfirmation", "paused",     "paused",     "steady">>,
    <<"build",  "awaitingStateConfirmation", "building",   "building",   "awaitingPlanReadyState">>,
    <<"build",  "awaitingPlanReadyState",    "building",   "planReady",  "awaitingPlanProjection">>,
    <<"resume", "awaitingResumeState",       "running",    "running",    "awaitingResumeProgress">>,
    <<"cancel", "awaitingStateConfirmation", "cancelling", "cancelling", "awaitingCancelledState">>,
    <<"cancel", "awaitingCancelledState",    "cancelling", "cancelled",  "awaitingCancelledTerminal">> }

AdmitsStateChanged(e) ==
  /\ OfActiveRequest(e)
  /\ \E p \in Phase : <<active.kind, active.phase, scanState, e.msg.state, p>> \in PhaseTable

AdmitsProgress(e) ==
  /\ OfActiveRequest(e)
  /\ scanState = "running"
  /\ <<active.kind, active.phase>> \in
       {<<"start", "steady">>, <<"resume", "awaitingResumeProgress">>, <<"resume", "steady">>}

AdmitsPlanReady(e) ==
  /\ OfActiveRequest(e)
  /\ active.kind = "build" /\ active.phase = "awaitingPlanProjection"
  /\ scanState = "planReady"
  /\ provisionalPlan = NoPlan
  /\ e.msg.plan # EmptyPlanId

AdmitsPlanInvalidated(e) ==
  /\ OfActiveRequest(e)
  /\ provisionalPlan # NoPlan
  /\ active.kind = "resume" /\ active.phase = "awaitingInvalidation"
  /\ e.msg.plan = provisionalPlan

AdmitsScanCancelled(e) ==
  /\ OfActiveRequest(e)
  /\ active.kind = "cancel" /\ active.phase = "awaitingCancelledTerminal"
  /\ scanState = "cancelled"

AdmitsScanFinished(e) ==
  /\ OfActiveRequest(e)
  /\ active.kind \in {"start", "resume"} /\ active.phase = "steady"
  /\ scanState = "running"

Admits(e) ==
  \/ e.msg.body = "accepted" /\ AdmitsAccepted(e)
  \/ e.msg.body = "rejected" /\ AdmitsRejected(e)
  \/ e.msg.body = "stateChanged" /\ AdmitsStateChanged(e)
  \/ e.msg.body = "progress" /\ AdmitsProgress(e)
  \/ e.msg.body = "planReady" /\ AdmitsPlanReady(e)
  \/ e.msg.body = "planInvalidated" /\ AdmitsPlanInvalidated(e)
  \/ e.msg.body = "scanCancelled" /\ AdmitsScanCancelled(e)
  \/ e.msg.body = "scanFinished" /\ AdmitsScanFinished(e)
  \/ e.msg.body = "engineFailed" /\ OfActiveRequest(e)

-----------------------------------------------------------------------------
(* What an admissible event does.  Each handler leaves the sequence number *)
(* to ReduceEngineEvent.                                                   *)

(* A resume must first withdraw the plan, if there is one. *)
PhaseAfterAck(k) ==
  IF k = "resume"
  THEN IF provisionalPlan = NoPlan THEN "awaitingResumeState" ELSE "awaitingInvalidation"
  ELSE "awaitingStateConfirmation"

MutantReduceAccepted(e) ==
  /\ e.msg.body = "accepted" /\ AdmitsAccepted(e)
  /\ active' = Active(e.req, e.msg.kind, PhaseAfterAck(e.msg.kind))
  /\ scanState' = e.msg.state
  /\ UNCHANGED <<screen, provisionalPlan, pending, helpVisible, cancelRequested, terminal,
                 driverExited, commands>>

ReduceAccepted(e) ==
  /\ e.msg.body = "accepted" /\ AdmitsAccepted(e)
  /\ pending' = pending \ {Request(e.req, e.msg.kind)}
  /\ active' = Active(e.req, e.msg.kind, PhaseAfterAck(e.msg.kind))
  /\ scanState' = e.msg.state
  /\ UNCHANGED <<screen, provisionalPlan, helpVisible, cancelRequested, terminal, driverExited,
                 commands>>

MutantReduceRejected(e) ==
  /\ e.msg.body = "rejected" /\ AdmitsRejected(e)
  /\ pending' = pending \ {Request(e.req, e.msg.kind)}
  /\ UNCHANGED <<screen, scanState, provisionalPlan, active, helpVisible, cancelRequested,
                 terminal, driverExited, commands>>

(* A rejected cancellation may be requested again. *)
ReduceRejected(e) ==
  /\ e.msg.body = "rejected" /\ AdmitsRejected(e)
  /\ pending' = pending \ {Request(e.req, e.msg.kind)}
  /\ cancelRequested' = (cancelRequested /\ e.msg.kind # "cancel")
  /\ UNCHANGED <<screen, scanState, provisionalPlan, active, helpVisible, terminal,
                 driverExited, commands>>

ReduceStateChanged(e) ==
  /\ e.msg.body = "stateChanged" /\ OfActiveRequest(e)
  /\ \E p \in Phase :
       /\ <<active.kind, active.phase, scanState, e.msg.state, p>> \in PhaseTable
       /\ active' = [active EXCEPT !.phase = p]
  /\ scanState' = e.msg.state
  /\ UNCHANGED <<screen, provisionalPlan, pending, helpVisible, cancelRequested, terminal,
                 driverExited, commands>>

ReduceProgress(e) ==
  /\ e.msg.body = "progress" /\ AdmitsProgress(e)
  /\ active' = [active EXCEPT !.phase = "steady"]
  /\ UNCHANGED <<screen, scanState, provisionalPlan, pending, helpVisible, cancelRequested,
                 terminal, driverExited, commands>>

ReducePlanReady(e) ==
  /\ e.msg.body = "planReady" /\ AdmitsPlanReady(e)
  /\ provisionalPlan' = e.msg.plan
  /\ screen' = "plan"
  /\ helpVisible' = FALSE
  /\ active' = [active EXCEPT !.phase = "steady"]
  /\ UNCHANGED <<scanState, pending, cancelRequested, terminal, driverExited, commands>>

MutantReducePlanInvalidated(e) ==
  /\ e.msg.body = "planInvalidated" /\ AdmitsPlanInvalidated(e)
  /\ provisionalPlan' = NoPlan
  /\ helpVisible' = FALSE
  /\ active' = [active EXCEPT !.phase = "awaitingResumeState"]
  /\ UNCHANGED <<screen, scanState, pending, cancelRequested, terminal, driverExited, commands>>

ReducePlanInvalidated(e) ==
  /\ e.msg.body = "planInvalidated" /\ AdmitsPlanInvalidated(e)
  /\ provisionalPlan' = NoPlan
  /\ screen' = "scan"
  /\ helpVisible' = FALSE
  /\ active' = [active EXCEPT !.phase = "awaitingResumeState"]
  /\ UNCHANGED <<scanState, pending, cancelRequested, terminal, driverExited, commands>>

ReduceScanCancelled(e) ==
  /\ e.msg.body = "scanCancelled" /\ AdmitsScanCancelled(e)
  /\ terminal' = "cancelled"
  /\ UNCHANGED <<screen, scanState, provisionalPlan, pending, active, helpVisible,
                 cancelRequested, driverExited, commands>>

ReduceScanFinished(e) ==
  /\ e.msg.body = "scanFinished" /\ AdmitsScanFinished(e)
  /\ scanState' = "finished"
  /\ terminal' = "finished"
  /\ UNCHANGED <<screen, provisionalPlan, pending, active, helpVisible, cancelRequested,
                 driverExited, commands>>

(* The engine's own failure: the driver stops by itself on this event. *)
ReduceEngineFailed(e) ==
  /\ e.msg.body = "engineFailed" /\ OfActiveRequest(e)
  /\ scanState' = "failed"
  /\ terminal' = "failed"
  /\ UNCHANGED <<screen, provisionalPlan, pending, active, helpVisible, cancelRequested,
                 driverExited, commands>>

FailProtocol ==
  /\ ProtocolFailure
  /\ UNCHANGED <<screen, provisionalPlan, pending, active, helpVisible, cancelRequested>>

ReduceBody(e) ==
  \/ ReduceAccepted(e)
  \/ ReduceRejected(e)
  \/ ReduceStateChanged(e)
  \/ ReduceProgress(e)
  \/ ReducePlanReady(e)
  \/ ReducePlanInvalidated(e)
  \/ ReduceScanCancelled(e)
  \/ ReduceScanFinished(e)
  \/ ReduceEngineFailed(e)
  \/ ~Admits(e) /\ FailProtocol

(* An event is applied only while the session has no outcome; one with the *)
(* wrong number fails the session before its body is looked at.            *)
ReduceEngineEvent(d) ==
  /\ terminal = "none"
  /\ \/ /\ SequenceIsNext(d)
        /\ lastEventSequence' = d.event.seq
        /\ ReduceBody(d.event)
     \/ /\ ~SequenceIsNext(d)
        /\ FailProtocol
        /\ UNCHANGED lastEventSequence
  /\ UNCHANGED <<nextRequestId, driverListens>>

-----------------------------------------------------------------------------
(* The driver's last word.  An error overrides whatever outcome there was; *)
(* a clean exit without an outcome is a failure too.                       *)
MutantReduceDriverExited(ok) ==
  /\ driverExited' = TRUE
  /\ \/ /\ ok
        /\ UNCHANGED <<scanState, terminal>>
     \/ /\ ~ok
        /\ scanState' = "failed"
        /\ terminal' = "failed"
  /\ UNCHANGED <<screen, provisionalPlan, pending, active, helpVisible, cancelRequested,
                 lastEventSequence, nextRequestId, commands, driverListens>>

ReduceDriverExited(ok) ==
  /\ driverExited' = TRUE
  /\ \/ /\ ok /\ terminal # "none"
        /\ UNCHANGED <<scanState, terminal>>
     \/ /\ ~ok \/ terminal = "none"
        /\ scanState' = "failed"
        /\ terminal' = "failed"
  /\ UNCHANGED <<screen, provisionalPlan, pending, active, helpVisible, cancelRequested,
                 lastEventSequence, nextRequestId, commands, driverListens>>

-----------------------------------------------------------------------------
(* The other end of the channels, as far as the reducer can tell: a driver *)
(* that takes commands, may drop its end, and then reports its exit.       *)

DriverTakes ==
  /\ commands # <<>>
  /\ commands' = Tail(commands)
  /\ UNCHANGED <<appVars, driverListens>>

DriverLeaves ==
  /\ driverListens
  /\ driverListens' = FALSE
  /\ commands' = <<>>
  /\ UNCHANGED appVars

DriverExits(ok) ==
  /\ ~driverListens
  /\ ReduceDriverExited(ok)

(* run_application's loop ends as soon as the session is over. *)
Next ==
  /\ ~ShouldExit
  /\ \/ PressKey
     \/ \E s, r, n \in 0..MaxU64, m \in Message :
          ReduceEngineEvent(Delivery(Event(s, r, m), n))
     \/ DriverTakes
     \/ DriverLeaves
     \/ \E ok \in BOOLEAN : DriverExits(ok)

Spec == Init /\ [][Next]_vars

-----------------------------------------------------------------------------
Command == [command : {"control", "stop"}, id : 0..MaxU64, kind : ControlKind \cup {Absent}]

(* Each variable stays within its type. *)
TypeOK ==
  /\ screen \in {"scan", "plan"}
  /\ scanState \in ScanState
  /\ provisionalPlan \in PlanId \cup {NoPlan}
  /\ pending \subseteq [id : 1..MaxU64, kind : ControlKind]
  /\ active \in [id : 1..MaxU64, kind : ControlKind, phase : Phase] \cup {NoActive}
  /\ helpVisible \in BOOLEAN
  /\ cancelRequested \in BOOLEAN
  /\ terminal \in Terminal
  /\ driverExited \in BOOLEAN
  /\ lastEventSequence \in 0..MaxU64
  /\ nextRequestId \in 2..MaxU64
  /\ commands \in Seq(Command)
  /\ driverListens \in BOOLEAN

(* At most one request of each kind is unanswered, ids are never reused,   *)
(* and an answered request is not kept: this is what bounds the requests   *)
(* on their way to the engine, whatever the user presses.                  *)
RequestsDistinct ==
  /\ active.id < nextRequestId
  /\ \A p, q \in pending : p # q => p.id # q.id /\ p.kind # q.kind
  /\ \A p \in pending : p.id < nextRequestId /\ p.id # active.id

(* The cancellation flag means that a cancellation is under way, so the    *)
(* "cancel once" of the key q neither repeats nor blocks a request: it is  *)
(* set exactly while a cancellation is unanswered or acknowledged, and     *)
(* there are never two.                                                    *)
CancelFlagIsExact ==
  /\ cancelRequested <=> HasPending("cancel") \/ active.kind = "cancel"
  /\ HasPending("cancel") => active.kind # "cancel"

(* No engine can bring a live session to a position outside of these.      *)
Positions ==
  { <<Absent,   Absent,                      "idle">>,
    <<"start",  "awaitingStateConfirmation", "running">>,
    <<"start",  "steady",                    "running">>,
    <<"pause",  "awaitingStateConfirmation", "paused">>,
    <<"pause",  "steady",                    "paused">>,
    <<"build",  "awaitingStateConfirmation", "building">>,
    <<"build",  "awaitingPlanReadyState",    "building">>,
    <<"build",  "awaitingPlanProjection",    "planReady">>,
    <<"build",  "steady",                    "planReady">>,
    <<"resume", "awaitingInvalidation",      "running">>,
    <<"resume", "awaitingResumeState",       "running">>,
    <<"resume", "awaitingResumeProgress",    "running">>,
    <<"resume", "steady",                    "running">>,
    <<"cancel", "awaitingStateConfirmation", "cancelling">>,
    <<"cancel", "awaitingCancelledState",    "cancelling">>,
    <<"cancel", "awaitingCancelledTerminal", "cancelled">> }

(* Fail closed: while the session has no outcome, the request being        *)
(* served, its phase and the scan state fit together.                      *)
PositionIsLegal ==
  terminal = "none" => <<active.kind, active.phase, scanState>> \in Positions

(* The plan screen is up exactly while there is a plan, and a resumed scan *)
(* makes no progress on screen before the plan it outdates is withdrawn.   *)
PlanMatchesPosition ==
  /\ screen = "plan" <=> provisionalPlan # NoPlan
  /\ active.kind \in {Absent, "start"} => provisionalPlan = NoPlan
  /\ active.kind = "resume" =>
       (provisionalPlan # NoPlan <=> active.phase = "awaitingInvalidation")
  /\ active.kind = "build" /\ active.phase = "steady" => provisionalPlan # NoPlan

(* An outcome agrees with the scan state, "cancelled" is reported only to  *)
(* a user who asked for it, and a driver that is gone left an outcome.     *)
OutcomeIsJustified ==
  /\ terminal = "failed" <=> scanState = "failed"
  /\ terminal = "finished" <=> scanState = "finished"
  /\ terminal = "cancelled" => scanState = "cancelled" /\ cancelRequested
  /\ driverExited => terminal # "none"

(* Whatever the engine sends, the user sees a life of a scan.              *)
Lifecycle ==
  INSTANCE ScanLifecycle WITH scan <- scanState, plan <- provisionalPlan, outcome <- terminal

ShowsALifecycle == Lifecycle!Spec
=============================================================================
