---------------------------- MODULE ScanSession -----------------------------
(***************************************************************************)
(* The engine's scan session, swift/Sources/DiskplanCore/ScanSession.swift: *)
(* a struct that turns each request into the array of events to write.     *)
(* Every call is one step, as in the code: the struct is only ever used    *)
(* from the engine's single loop.  The profile string and the numbers of a *)
(* progress report are left out.                                           *)
(***************************************************************************)
EXTENDS ScanProtocol

CONSTANT FixturePlan     \* the identifier makeProvisionalPlan always uses

ASSUME FixturePlanAssumption == FixturePlan \in PlanId

VARIABLES
  state,                    \* the scan's state
  eventSequence,            \* number of the last event made
  requestIDHighWaterMark,   \* greatest request id consumed
  provisionalPlanID,        \* the plan in hand, or NoPlan
  returned,                 \* the events returned by the last call
  trapped                   \* eventSequence += 1 overflowed: the process is gone

sessionVars ==
  <<state, eventSequence, requestIDHighWaterMark, provisionalPlanID, returned, trapped>>

Init ==
  /\ state = "idle"
  /\ eventSequence = 0
  /\ requestIDHighWaterMark = 0
  /\ provisionalPlanID = NoPlan
  /\ returned = <<>>
  /\ trapped = FALSE

-----------------------------------------------------------------------------
(* `event`, once for each body: number the events of a reply.  UInt64's += *)
(* traps instead of wrapping, before anything of the reply is written.     *)

MutantNumbered(r, msgs) ==
  [i \in 1..Len(msgs) |-> Event(eventSequence + i - 1, r, msgs[i])]

Numbered(r, msgs) ==
  [i \in 1..Len(msgs) |-> Event(eventSequence + i, r, msgs[i])]

MutantReturn(r, msgs) ==
  /\ eventSequence' = eventSequence + Len(msgs)
  /\ returned' = Numbered(r, msgs)
  /\ UNCHANGED trapped

Return(r, msgs) ==
  \/ /\ eventSequence + Len(msgs) <= MaxU64
     /\ eventSequence' = eventSequence + Len(msgs)
     /\ returned' = Numbered(r, msgs)
     /\ UNCHANGED trapped
  \/ /\ eventSequence + Len(msgs) > MaxU64
     /\ trapped' = TRUE
     /\ UNCHANGED <<eventSequence, returned>>

(* consumeRequestID: the reason to refuse an id, if there is one; a fresh  *)
(* id raises the high-water mark whatever becomes of the request.          *)
IdFailure(r) ==
  IF r = 0 THEN "malformedRequest"
  ELSE IF r <= requestIDHighWaterMark THEN "duplicateRequestID"
  ELSE Absent

Consume(r) ==
  /\ IdFailure(r) = Absent
  /\ requestIDHighWaterMark' = r

(* `reject` reports the state the session is in. *)
Reject(r, k, c) ==
  /\ Return(r, <<ControlRejected(k, c, state)>>)
  /\ UNCHANGED <<state, provisionalPlanID>>

RejectUnusableId(r, k) ==
  /\ IdFailure(r) # Absent
  /\ Reject(r, k, IdFailure(r))
  /\ UNCHANGED requestIDHighWaterMark

-----------------------------------------------------------------------------
(* start *)

BeginScan(r) ==
  /\ Consume(r)
  /\ state = "idle"
  /\ state' = "running"
  /\ Return(r, <<ControlAccepted("start", "running"),
                 ScanStateChanged("running"),
                 ScanProgress>>)
  /\ UNCHANGED provisionalPlanID

RejectSecondStart(r) ==
  /\ Consume(r)
  /\ state # "idle"
  /\ Reject(r, "start", "invalidState")

Start(r) ==
  \/ RejectUnusableId(r, "start")
  \/ BeginScan(r)
  \/ RejectSecondStart(r)

-----------------------------------------------------------------------------
(* control *)

Pausable == {"running"}

MutantResumable == {"paused", "planReady", "cancelled"}

Resumable == {"paused", "planReady"}

Buildable == {"running", "paused"}
Cancellable == {"running", "paused", "building", "planReady"}

(* A control in the state `control`'s switch wants it in. *)
Serves(k) ==
  \/ k = "pause" /\ state \in Pausable
  \/ k = "resume" /\ state \in Resumable
  \/ k = "build" /\ state \in Buildable
  \/ k = "cancel" /\ state \in Cancellable

Pause(r) ==
  /\ Consume(r)
  /\ state \in Pausable
  /\ state' = "paused"
  /\ Return(r, <<ControlAccepted("pause", "paused"), ScanStateChanged("paused")>>)
  /\ UNCHANGED provisionalPlanID

MutantResumeMessages ==
  <<ControlAccepted("resume", "running"), ScanStateChanged("running"), ScanProgress>>

(* The resume of a ready plan announces the plan's invalidation first. *)
ResumeMessages ==
  IF provisionalPlanID = NoPlan
  THEN <<ControlAccepted("resume", "running"), ScanStateChanged("running"), ScanProgress>>
  ELSE <<ControlAccepted("resume", "running"), PlanInvalidated(provisionalPlanID),
         ScanStateChanged("running"), ScanProgress>>

MutantResume(r) ==
  /\ Consume(r)
  /\ state \in Resumable
  /\ state' = "running"
  /\ Return(r, ResumeMessages)
  /\ UNCHANGED provisionalPlanID

Resume(r) ==
  /\ Consume(r)
  /\ state \in Resumable
  /\ state' = "running"
  /\ provisionalPlanID' = NoPlan
  /\ Return(r, ResumeMessages)

(* The fixture builds the plan inside the call: "building" is announced    *)
(* but is never the state a later request finds.                           *)
BuildPlan(r) ==
  /\ Consume(r)
  /\ state \in Buildable
  /\ state' = "planReady"
  /\ provisionalPlanID' = FixturePlan
  /\ Return(r, <<ControlAccepted("build", "building"),
                 ScanStateChanged("building"),
                 ScanStateChanged("planReady"),
                 PlanReady(FixturePlan)>>)

Cancel(r) ==
  /\ Consume(r)
  /\ state \in Cancellable
  /\ state' = "cancelled"
  /\ Return(r, <<ControlAccepted("cancel", "cancelling"),
                 ScanStateChanged("cancelling"),
                 ScanStateChanged("cancelled"),
                 ScanCancelled>>)
  /\ UNCHANGED provisionalPlanID

(* Kinds that have no place in a ScanControlRequest, then the default arm. *)
RejectMisplacedKind(r, k) ==
  /\ Consume(r)
  /\ k \in {"start"} \cup Unnamed
  /\ Reject(r, k, "malformedRequest")

MutantRejectWrongState(r, k) ==
  /\ IdFailure(r) = Absent
  /\ k \in ControlKind \ {"start"}
  /\ ~Serves(k)
  /\ Reject(r, k, "invalidState")
  /\ UNCHANGED requestIDHighWaterMark

RejectWrongState(r, k) ==
  /\ Consume(r)
  /\ k \in ControlKind \ {"start"}
  /\ ~Serves(k)
  /\ Reject(r, k, "invalidState")

Control(r, k) ==
  \/ RejectUnusableId(r, k)
  \/ k = "pause" /\ Pause(r)
  \/ k = "resume" /\ Resume(r)
  \/ k = "build" /\ BuildPlan(r)
  \/ k = "cancel" /\ Cancel(r)
  \/ RejectMisplacedKind(r, k)
  \/ RejectWrongState(r, k)

(* rejectMalformed *)
RejectMalformed(r, k) ==
  \/ RejectUnusableId(r, k)
  \/ Consume(r) /\ Reject(r, k, "malformedRequest")

-----------------------------------------------------------------------------
(* A caller may send any request whatever, in any order. *)
Next ==
  /\ ~trapped
  /\ \E r \in 0..MaxU64 :
       \/ Start(r)
       \/ \E k \in WireKind : Control(r, k) \/ RejectMalformed(r, k)

Spec == Init /\ [][Next]_sessionVars

-----------------------------------------------------------------------------
(* Each variable stays within its type. *)
TypeOK ==
  /\ state \in ScanState
  /\ eventSequence \in 0..MaxU64
  /\ requestIDHighWaterMark \in 0..MaxU64
  /\ provisionalPlanID \in PlanId \cup {NoPlan}
  /\ returned \in Seq([seq : 0..MaxU64, req : 0..MaxU64, msg : Message])
  /\ trapped \in BOOLEAN

(* Between two calls the scan rests: the transient states "building" and   *)
(* "cancelling" are left before the call returns, and a plan is in hand    *)
(* when, and unless it was cancelled only when, the state says it is ready. *)
PlanMatchesState ==
  /\ state \in {"idle", "running", "paused", "planReady", "cancelled"}
  /\ state = "planReady" => provisionalPlanID # NoPlan
  /\ provisionalPlanID # NoPlan => state \in {"planReady", "cancelled"}

(* One request, one verdict: a reply opens with the acceptance or the      *)
(* rejection of its request, holds no other, and a rejection is all of it. *)
OneVerdictPerRequest ==
  returned # <<>> =>
    /\ returned[1].msg.body \in Acknowledgement
    /\ \A i \in 2..Len(returned) :
         /\ returned[i].msg.body \notin Acknowledgement
         /\ returned[1].msg.body = "accepted"

(* The stream tells the whole story: the numbers of a reply are contiguous *)
(* and end at the session's counter, all its events name one request, and  *)
(* the last state it mentions is the state the session is in, so that a    *)
(* client that only reads events always knows the engine's state.          *)
StreamIsComplete ==
  returned # <<>> /\ ~trapped =>
    /\ \A i \in 1..Len(returned) :
         /\ returned[i].seq = eventSequence - Len(returned) + i
         /\ returned[i].req = returned[1].req
    /\ \E i \in 1..Len(returned) :
         /\ returned[i].msg.body \in StateBearing
         /\ returned[i].msg.state = state
         /\ \A j \in (i + 1)..Len(returned) : returned[j].msg.body \notin StateBearing

(* The events of a reply are all a client needs: replaying them over what  *)
(* it knew before the call gives the state and the plan the session has    *)
(* after it.  A plan can not be lost or replaced silently.                 *)
ReplayReachesSession ==
  [][returned' # returned =>
       Replay(View(state, provisionalPlanID), returned') = View(state', provisionalPlanID')]_sessionVars

(* The states a reply mentions are a walk of the scan's life that starts   *)
(* where the session was; nothing revives a cancelled scan.                *)
RepliesFollowLifecycle ==
  [][returned' # returned => WalksFrom(state, returned')]_sessionVars

(* A request id is served at most once, and no request gets a second       *)
(* verdict: an id that was answered, with whatever verdict, lies behind    *)
(* the mark from then on, the mark never falls, and what is accepted lies  *)
(* beyond every id answered before, so a request that was refused can not  *)
(* be repeated under its id.  The events of all replies are numbered on    *)
(* and each names its request, so it is clear what they answer.            *)
RequestsAreServedOnce ==
  [][returned' # returned =>
       /\ OneVerdictPerRequest'
       /\ \A i \in DOMAIN returned' : /\ returned'[i].seq = eventSequence + i
                                      /\ returned'[i].req = returned'[1].req
       /\ returned'[1].req <= requestIDHighWaterMark'
       /\ requestIDHighWaterMark <= requestIDHighWaterMark'
       /\ \/ returned'[1].msg.body = "rejected"
          \/ returned'[1].req > requestIDHighWaterMark]_sessionVars
=============================================================================
