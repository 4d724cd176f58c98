-------------------------- MODULE TuiReducerProofs --------------------------
(***************************************************************************)
(* What the frontend guarantees against every engine: for every counter    *)
(* width, every set of keys and plans and every sequence of events, right  *)
(* or wrong.  UiInv joins the invariants that need one another: the        *)
(* position of the session says which acknowledgements can still come,     *)
(* and with that the cancellation flag, the plan and the outcome.          *)
(***************************************************************************)
EXTENDS TuiReducer, TLAPS

UiInv ==
  /\ TypeOK
  /\ RequestsDistinct
  /\ CancelFlagIsExact
  /\ PositionIsLegal
  /\ PlanMatchesPosition
  /\ OutcomeIsJustified

(* An event of the engine as the decoder hands it over. *)
WireEvent == [seq : 0..MaxU64, req : 0..MaxU64, msg : Message]

(* What a handler of reduce_engine_event may count on and leaves alone. *)
Handling(e) ==
  /\ UiInv
  /\ terminal = "none"
  /\ e \in WireEvent
  /\ lastEventSequence' \in 0..MaxU64
  /\ UNCHANGED <<nextRequestId, driverListens>>

USE DEF Absent, NoActive, Active, ControlKind, ScanState, Terminal, Phase

-----------------------------------------------------------------------------
(* Initially nothing but the start request is pending. *)
LEMMA UiInvInit == Init => UiInv
<1> SUFFICES ASSUME Init PROVE UiInv
  OBVIOUS
<1>1. TypeOK
  <2>1. 1 \in 1..MaxU64 /\ 2 \in 2..MaxU64 /\ 0 \in 0..MaxU64
    BY MaxU64Assumption
  <2>2. pending \subseteq [id : 1..MaxU64, kind : ControlKind]
    BY <2>1 DEF Init, Request
  <2>3. commands \in Seq(Command)
    BY DEF Init
  <2>4. QED
    BY <2>1, <2>2, <2>3 DEF Init, TypeOK
<1>2. RequestsDistinct
  BY DEF Init, RequestsDistinct, Request
<1>3. CancelFlagIsExact
  BY DEF Init, CancelFlagIsExact, HasPending, Request
<1>4. PositionIsLegal
  BY DEF Init, PositionIsLegal, Positions
<1>5. PlanMatchesPosition
  BY DEF Init, PlanMatchesPosition
<1>6. OutcomeIsJustified
  BY DEF Init, OutcomeIsJustified
<1>7. QED
  BY <1>1, <1>2, <1>3, <1>4, <1>5, <1>6 DEF UiInv

(* A session that fails keeps everything it knew about its requests. *)
LEMMA FailureKeepsInv ==
  ASSUME UiInv,
         scanState' = "failed", terminal' = "failed",
         driverExited' \in BOOLEAN, driverListens' \in BOOLEAN,
         commands' \in Seq(Command), lastEventSequence' \in 0..MaxU64,
         UNCHANGED <<screen, provisionalPlan, pending, active, helpVisible, cancelRequested,
                     nextRequestId>>
  PROVE  UiInv'
<1>1. TypeOK'
  BY DEF UiInv, TypeOK
<1>2. RequestsDistinct'
  BY DEF UiInv, RequestsDistinct
<1>3. CancelFlagIsExact'
  BY DEF UiInv, CancelFlagIsExact, HasPending
<1>4. PositionIsLegal'
  BY DEF PositionIsLegal
<1>5. PlanMatchesPosition'
  BY DEF UiInv, PlanMatchesPosition
<1>6. OutcomeIsJustified'
  BY DEF OutcomeIsJustified
<1>7. QED
  BY <1>1, <1>2, <1>3, <1>4, <1>5, <1>6 DEF UiInv

(* Telling the driver to stop keeps the channel well typed. *)
LEMMA StopIsCommand ==
  ASSUME TypeOK, ProtocolFailure
  PROVE  commands' \in Seq(Command) /\ driverExited' \in BOOLEAN
<1>1. StopDriver \in Command
  BY MaxU64Assumption DEF StopDriver, Command
<1>2. commands \in Seq(Command) /\ driverExited \in BOOLEAN
  BY DEF TypeOK
<1>3. Append(commands, StopDriver) \in Seq(Command)
  BY <1>1, <1>2
<1>4. QED
  BY <1>2, <1>3 DEF ProtocolFailure

-----------------------------------------------------------------------------
(* One lemma for each way the state can change. *)

(* A request in the channel, or, without a driver, a failed session. *)
LEMMA SendRequestKeepsInv ==
  ASSUME UiInv, terminal = "none", NEW k \in ControlKind, SendRequest(k),
         UNCHANGED driverListens
  PROVE  UiInv'
<1>1. nextRequestId \in 2..MaxU64 /\ nextRequestId + 1 \in 2..MaxU64
  BY MaxU64Assumption DEF UiInv, TypeOK, SendRequest
<1>2. SendControl(nextRequestId, k) \in Command
  BY <1>1 DEF SendControl, Command
<1>3. TypeOK'
  <2>1. commands' \in Seq(Command)
    BY <1>2 DEF UiInv, TypeOK, SendRequest, PerformSend
  <2>2. pending' \subseteq [id : 1..MaxU64, kind : ControlKind]
    BY <1>1 DEF UiInv, TypeOK, SendRequest, Request
  <2>3. scanState' \in ScanState /\ terminal' \in Terminal /\ driverExited' \in BOOLEAN
    BY DEF UiInv, TypeOK, SendRequest, PerformSend
  <2>4. QED
    BY <1>1, <2>1, <2>2, <2>3 DEF UiInv, TypeOK, SendRequest
<1>4. RequestsDistinct'
  BY <1>1 DEF UiInv, TypeOK, RequestsDistinct, SendRequest, MayRequest, HasPending, Request
<1>5. CancelFlagIsExact'
  <2>1. cancelRequested \in BOOLEAN
    BY DEF UiInv, TypeOK
  <2>2. active' = active /\ cancelRequested' = (cancelRequested \/ k = "cancel")
    BY DEF SendRequest
  <2>3. HasPending("cancel")' <=> (HasPending("cancel") \/ k = "cancel")
    <3>1. pending' = pending \cup {Request(nextRequestId, k)}
      BY DEF SendRequest
    <3>2. Request(nextRequestId, k).kind = k
      BY DEF Request
    <3>3. QED
      BY <3>1, <3>2 DEF HasPending
  <2>4. k = "cancel" => ~cancelRequested
    BY DEF SendRequest, MayRequest
  <2>5. QED
    BY <2>1, <2>2, <2>3, <2>4 DEF UiInv, CancelFlagIsExact
<1>6. PositionIsLegal'
  BY DEF UiInv, PositionIsLegal, SendRequest, PerformSend
<1>7. PlanMatchesPosition'
  BY DEF UiInv, PlanMatchesPosition, SendRequest
<1>8. OutcomeIsJustified'
  BY DEF UiInv, OutcomeIsJustified, SendRequest, PerformSend
<1>9. QED
  BY <1>3, <1>4, <1>5, <1>6, <1>7, <1>8 DEF UiInv

(* The acceptance of a pending request makes it the active one, or is a fault. *)
LEMMA AcceptedKeepsInv ==
  ASSUME NEW e, Handling(e), ReduceAccepted(e)
  PROVE  UiInv'
<1>1. /\ Request(e.req, e.msg.kind) \in pending
      /\ AcceptedTransition(e.msg.kind, scanState, e.msg.state)
      /\ e.msg.state \in ScanState
  BY DEF ReduceAccepted, AdmitsAccepted, AcceptedTransition
<1>2. TypeOK'
  BY <1>1 DEF Handling, UiInv, ReduceAccepted, TypeOK, Request, PhaseAfterAck
<1>3. RequestsDistinct'
  BY <1>1 DEF Handling, UiInv, ReduceAccepted, TypeOK, Request, RequestsDistinct
<1>4. CancelFlagIsExact'
  BY <1>1 DEF Handling, UiInv, ReduceAccepted, Request, RequestsDistinct, CancelFlagIsExact,
              HasPending, PositionIsLegal, Positions, AcceptedTransition
<1>5. PositionIsLegal'
  BY <1>1 DEF Handling, ReduceAccepted, PositionIsLegal, Positions, AcceptedTransition,
              PhaseAfterAck
<1>6. PlanMatchesPosition'
  BY <1>1 DEF Handling, UiInv, ReduceAccepted, PlanMatchesPosition, AcceptedTransition,
              PhaseAfterAck, PositionIsLegal, Positions
<1>7. OutcomeIsJustified'
  BY <1>1 DEF Handling, UiInv, ReduceAccepted, OutcomeIsJustified, AcceptedTransition
<1>8. QED
  BY <1>2, <1>3, <1>4, <1>5, <1>6, <1>7 DEF UiInv

(* A rejection forgets the request; that of the start or the cancellation ends the session. *)
LEMMA RejectedKeepsInv ==
  ASSUME NEW e, Handling(e), ReduceRejected(e)
  PROVE  UiInv'
<1>1. Request(e.req, e.msg.kind) \in pending
  BY DEF ReduceRejected, AdmitsRejected
<1>2. TypeOK'
  BY DEF Handling, UiInv, ReduceRejected, TypeOK
<1>3. RequestsDistinct'
  BY DEF Handling, UiInv, ReduceRejected, RequestsDistinct
<1>4. CancelFlagIsExact'
  <2>1. e.msg.kind = "cancel" => active.kind # "cancel" /\ ~HasPending("cancel")'
    BY <1>1 DEF Handling, UiInv, ReduceRejected, AdmitsRejected, Request, RequestsDistinct,
                CancelFlagIsExact, HasPending, PositionIsLegal, Positions
  <2>2. e.msg.kind # "cancel" => (HasPending("cancel")' <=> HasPending("cancel"))
    BY DEF ReduceRejected, HasPending, Request
  <2>3. QED
    BY <2>1, <2>2 DEF Handling, UiInv, ReduceRejected, CancelFlagIsExact, TypeOK
<1>5. PositionIsLegal' /\ PlanMatchesPosition'
  BY DEF Handling, UiInv, ReduceRejected, PositionIsLegal, PlanMatchesPosition
<1>6. OutcomeIsJustified'
  BY DEF Handling, UiInv, ReduceRejected, OutcomeIsJustified
<1>7. QED
  BY <1>2, <1>3, <1>4, <1>5, <1>6 DEF UiInv

(* Events of the acknowledged request only move its phase. *)
LEMMA StateChangedKeepsInv ==
  ASSUME NEW e, Handling(e), ReduceStateChanged(e)
  PROVE  UiInv'
<1>1. PICK p \in Phase :
        /\ <<active.kind, active.phase, scanState, e.msg.state, p>> \in PhaseTable
        /\ active' = [active EXCEPT !.phase = p]
  BY DEF ReduceStateChanged
<1>2. active \in [id : 1..MaxU64, kind : ControlKind, phase : Phase]
  BY DEF ReduceStateChanged, OfActiveRequest, Handling, UiInv, TypeOK
<1>3. /\ active'.id = active.id /\ active'.kind = active.kind /\ active'.phase = p
      /\ active' \in [id : 1..MaxU64, kind : ControlKind, phase : Phase]
  BY <1>1, <1>2
<1>4. scanState' = e.msg.state /\ e.msg.state \in ScanState
  BY <1>1 DEF ReduceStateChanged, PhaseTable
<1>5. TypeOK'
  BY <1>3, <1>4 DEF Handling, UiInv, ReduceStateChanged, TypeOK
<1>6. RequestsDistinct' /\ CancelFlagIsExact'
  BY <1>3 DEF Handling, UiInv, ReduceStateChanged, RequestsDistinct, CancelFlagIsExact, HasPending
<1>7. PositionIsLegal'
  BY <1>1, <1>3, <1>4 DEF PositionIsLegal, Positions, PhaseTable
<1>8. PlanMatchesPosition'
  BY <1>1, <1>3 DEF Handling, UiInv, ReduceStateChanged, PlanMatchesPosition, PhaseTable
<1>9. OutcomeIsJustified'
  BY <1>1, <1>4 DEF Handling, UiInv, ReduceStateChanged, OutcomeIsJustified, PhaseTable
<1>10. QED
  BY <1>5, <1>6, <1>7, <1>8, <1>9 DEF UiInv

(* Progress changes nothing but the event number. *)
LEMMA ProgressKeepsInv ==
  ASSUME NEW e, Handling(e), ReduceProgress(e)
  PROVE  UiInv'
<1>1. active \in [id : 1..MaxU64, kind : ControlKind, phase : Phase]
  BY DEF ReduceProgress, AdmitsProgress, OfActiveRequest, Handling, UiInv, TypeOK
<1>2. /\ active'.id = active.id /\ active'.kind = active.kind /\ active'.phase = "steady"
      /\ active' \in [id : 1..MaxU64, kind : ControlKind, phase : Phase]
  BY <1>1 DEF ReduceProgress
<1>3. TypeOK'
  BY <1>2 DEF Handling, UiInv, ReduceProgress, TypeOK
<1>4. RequestsDistinct' /\ CancelFlagIsExact'
  BY <1>2 DEF Handling, UiInv, ReduceProgress, RequestsDistinct, CancelFlagIsExact, HasPending
<1>5. PositionIsLegal' /\ PlanMatchesPosition'
  BY <1>2 DEF Handling, UiInv, ReduceProgress, AdmitsProgress, PositionIsLegal, Positions,
              PlanMatchesPosition
<1>6. OutcomeIsJustified'
  BY DEF Handling, UiInv, ReduceProgress, OutcomeIsJustified
<1>7. QED
  BY <1>3, <1>4, <1>5, <1>6 DEF UiInv

(* A plan appears only when one is awaited. *)
LEMMA PlanReadyKeepsInv ==
  ASSUME NEW e, Handling(e), ReducePlanReady(e)
  PROVE  UiInv'
<1>1. active \in [id : 1..MaxU64, kind : ControlKind, phase : Phase]
  BY DEF ReducePlanReady, AdmitsPlanReady, OfActiveRequest, Handling, UiInv, TypeOK
<1>2. /\ active'.id = active.id /\ active'.kind = active.kind /\ active'.phase = "steady"
      /\ active' \in [id : 1..MaxU64, kind : ControlKind, phase : Phase]
  BY <1>1 DEF ReducePlanReady
<1>3. e.msg.plan \in PlanId
  <2>1. e.msg \in Message /\ e.msg.body = "planReady" /\ e.msg.plan # EmptyPlanId
    BY DEF Handling, WireEvent, ReducePlanReady, AdmitsPlanReady
  <2>2. QED
    BY <2>1 DEF Message, WirePlanId, ControlAccepted, ControlRejected, ScanStateChanged, PlanReady,
                PlanInvalidated, ScanProgress, ScanCancelled, ScanFinished, EngineFailed,
                EmptyBody, Body
<1>4. TypeOK'
  BY <1>2, <1>3 DEF Handling, UiInv, ReducePlanReady, TypeOK
<1>5. RequestsDistinct' /\ CancelFlagIsExact'
  BY <1>2 DEF Handling, UiInv, ReducePlanReady, RequestsDistinct, CancelFlagIsExact, HasPending
<1>6. PositionIsLegal' /\ PlanMatchesPosition'
  BY <1>2, <1>3, PlanIdAssumption
  DEF Handling, UiInv, ReducePlanReady, AdmitsPlanReady, PositionIsLegal, Positions,
      PlanMatchesPosition
<1>7. OutcomeIsJustified'
  BY DEF Handling, UiInv, ReducePlanReady, OutcomeIsJustified
<1>8. QED
  BY <1>4, <1>5, <1>6, <1>7 DEF UiInv

(* A plan goes only when the resume that outdates it is active. *)
LEMMA PlanInvalidatedKeepsInv ==
  ASSUME NEW e, Handling(e), ReducePlanInvalidated(e)
  PROVE  UiInv'
<1>1. active \in [id : 1..MaxU64, kind : ControlKind, phase : Phase]
  BY DEF ReducePlanInvalidated, AdmitsPlanInvalidated, OfActiveRequest, Handling, UiInv, TypeOK
<1>2. /\ active'.id = active.id /\ active'.kind = active.kind
      /\ active'.phase = "awaitingResumeState"
      /\ active' \in [id : 1..MaxU64, kind : ControlKind, phase : Phase]
  BY <1>1 DEF ReducePlanInvalidated
<1>3. TypeOK'
  BY <1>2 DEF Handling, UiInv, ReducePlanInvalidated, TypeOK
<1>4. RequestsDistinct' /\ CancelFlagIsExact'
  BY <1>2 DEF Handling, UiInv, ReducePlanInvalidated, RequestsDistinct, CancelFlagIsExact, HasPending
<1>5. PositionIsLegal' /\ PlanMatchesPosition'
  BY <1>2
  DEF Handling, UiInv, ReducePlanInvalidated, AdmitsPlanInvalidated, PositionIsLegal, Positions,
      PlanMatchesPosition
<1>6. OutcomeIsJustified'
  BY DEF Handling, UiInv, ReducePlanInvalidated, OutcomeIsJustified
<1>7. QED
  BY <1>3, <1>4, <1>5, <1>6 DEF UiInv

(* The events that end a session. *)
LEMMA OutcomeKeepsInv ==
  ASSUME NEW e, Handling(e), ReduceScanCancelled(e) \/ ReduceScanFinished(e)
  PROVE  UiInv'
<1>1. TypeOK'
  BY DEF Handling, UiInv, ReduceScanCancelled, ReduceScanFinished, TypeOK
<1>2. RequestsDistinct' /\ CancelFlagIsExact' /\ PlanMatchesPosition'
  BY DEF Handling, UiInv, ReduceScanCancelled, ReduceScanFinished, RequestsDistinct,
         CancelFlagIsExact, HasPending, PlanMatchesPosition
<1>3. PositionIsLegal'
  BY DEF ReduceScanCancelled, ReduceScanFinished, PositionIsLegal
<1>4. OutcomeIsJustified'
  BY DEF Handling, UiInv, ReduceScanCancelled, AdmitsScanCancelled, ReduceScanFinished,
         OutcomeIsJustified, CancelFlagIsExact
<1>5. QED
  BY <1>1, <1>2, <1>3, <1>4 DEF UiInv

(* Whatever the engine sends, right or wrong. *)
LEMMA EngineEventKeepsInv ==
  ASSUME UiInv, NEW s \in 0..MaxU64, NEW r \in 0..MaxU64, NEW n \in 0..MaxU64, NEW m \in Message,
         ReduceEngineEvent(Delivery(Event(s, r, m), n))
  PROVE  UiInv'
<1> DEFINE e == Event(s, r, m)
<1>1. e \in WireEvent /\ e.seq = s /\ Delivery(e, n).event = e
  BY DEF Event, WireEvent, Delivery
<1>2. terminal = "none" /\ UNCHANGED <<nextRequestId, driverListens>>
  BY DEF ReduceEngineEvent
<1>3. lastEventSequence' \in 0..MaxU64
  BY <1>1 DEF ReduceEngineEvent, UiInv, TypeOK
<1>4. CASE FailProtocol
  <2>1. commands' \in Seq(Command) /\ driverExited' \in BOOLEAN
    BY <1>4, StopIsCommand DEF FailProtocol, UiInv
  <2>2. QED
    BY <1>2, <1>3, <1>4, <2>1, FailureKeepsInv
    DEF FailProtocol, ProtocolFailure, UiInv, TypeOK
<1>5. CASE ReduceBody(e)
  <2>1. Handling(e)
    BY <1>1, <1>2, <1>3 DEF Handling
  <2>2. CASE ReduceEngineFailed(e)
    BY <1>2, <1>3, <2>2, FailureKeepsInv DEF ReduceEngineFailed, UiInv, TypeOK
  <2>3. QED
    BY <1>4, <1>5, <2>1, <2>2, AcceptedKeepsInv, RejectedKeepsInv, StateChangedKeepsInv,
       ProgressKeepsInv, PlanReadyKeepsInv, PlanInvalidatedKeepsInv, OutcomeKeepsInv
    DEF ReduceBody
<1>6. QED
  BY <1>1, <1>4, <1>5 DEF ReduceEngineEvent

(* Every step of the user, the engine and the driver. *)
LEMMA UiInvStep == UiInv /\ [Next]_vars => UiInv'
<1> SUFFICES ASSUME UiInv, [Next]_vars PROVE UiInv'
  OBVIOUS
<1>1. CASE PressKey
  <2>1. PICK key \in Keys : PressControlKey(key) \/ PressHelpKey(key)
    BY <1>1 DEF PressKey
  <2>2. CASE PressControlKey(key)
    <3>1. PICK k \in ControlKind : SendRequest(k) \/ ExhaustRequestIds(k)
      BY <2>2 DEF PressControlKey
    <3>2. CASE SendRequest(k)
      BY <2>2, <3>2, SendRequestKeepsInv DEF PressControlKey
    <3>3. CASE ExhaustRequestIds(k)
      <4>1. commands' \in Seq(Command) /\ driverExited' \in BOOLEAN
        BY <3>3, StopIsCommand DEF ExhaustRequestIds, UiInv
      <4>2. QED
        BY <2>2, <3>3, <4>1, FailureKeepsInv
        DEF PressControlKey, ExhaustRequestIds, ProtocolFailure, UiInv, TypeOK
    <3>4. QED
      BY <3>1, <3>2, <3>3
  <2>3. CASE PressHelpKey(key)
    BY <2>3 DEF PressHelpKey, UiInv, TypeOK, RequestsDistinct, CancelFlagIsExact, HasPending,
                PositionIsLegal, PlanMatchesPosition, OutcomeIsJustified
  <2>4. QED
    BY <2>1, <2>2, <2>3
<1>2. ASSUME NEW s \in 0..MaxU64, NEW r \in 0..MaxU64, NEW n \in 0..MaxU64, NEW m \in Message,
             ReduceEngineEvent(Delivery(Event(s, r, m), n))
      PROVE  UiInv'
  BY <1>2, EngineEventKeepsInv
<1>3. CASE DriverTakes \/ DriverLeaves
  <2>1. commands' \in Seq(Command) /\ driverListens' \in BOOLEAN
    <3>1. commands \in Seq(Command) /\ driverListens \in BOOLEAN
      BY DEF UiInv, TypeOK
    <3>2. commands # <<>> => Tail(commands) \in Seq(Command)
      BY <3>1
    <3>3. <<>> \in Seq(Command)
      OBVIOUS
    <3>4. QED
      BY <1>3, <3>1, <3>2, <3>3 DEF DriverTakes, DriverLeaves
  <2>2. UNCHANGED appVars
    BY <1>3 DEF DriverTakes, DriverLeaves
  <2>3. QED
    BY <2>1, <2>2 DEF appVars, UiInv, TypeOK, RequestsDistinct, CancelFlagIsExact, HasPending,
                      PositionIsLegal, PlanMatchesPosition, OutcomeIsJustified
<1>4. ASSUME NEW ok \in BOOLEAN, DriverExits(ok)
      PROVE  UiInv'
  <2>1. CASE terminal' = "failed" /\ scanState' = "failed"
    BY <1>4, <2>1, FailureKeepsInv DEF DriverExits, ReduceDriverExited, UiInv, TypeOK
  <2>2. CASE terminal # "none" /\ UNCHANGED <<scanState, terminal>>
    BY <1>4, <2>2
    DEF DriverExits, ReduceDriverExited, UiInv, TypeOK, RequestsDistinct, CancelFlagIsExact,
        HasPending, PositionIsLegal, PlanMatchesPosition, OutcomeIsJustified
  <2>3. QED
    BY <1>4, <2>1, <2>2 DEF DriverExits, ReduceDriverExited
<1>5. CASE UNCHANGED vars
  BY <1>5 DEF vars, appVars, UiInv, TypeOK, RequestsDistinct, CancelFlagIsExact, HasPending,
              PositionIsLegal, PlanMatchesPosition, OutcomeIsJustified
<1>6. QED
  BY <1>1, <1>2, <1>3, <1>4, <1>5 DEF Next

(* It holds in every execution, against any engine. *)
LEMMA UiInvariant == Spec => []UiInv
  BY UiInvInit, UiInvStep, PTL DEF Spec

-----------------------------------------------------------------------------
(* AppState keeps its types; the counters never leave their width. *)
THEOREM UiTypeCorrect == Spec => []TypeOK
<1>1. UiInv => TypeOK
  BY DEF UiInv
<1>2. QED
  BY <1>1, UiInvariant, PTL

(* One outstanding request of a kind, and ids that are never reused. *)
THEOREM RequestsStayDistinct == Spec => []RequestsDistinct
<1>1. UiInv => RequestsDistinct
  BY DEF UiInv
<1>2. QED
  BY <1>1, UiInvariant, PTL

(* The flag behind "cancel once" says exactly that one is under way. *)
THEOREM CancelOnce == Spec => []CancelFlagIsExact
<1>1. UiInv => CancelFlagIsExact
  BY DEF UiInv
<1>2. QED
  BY <1>1, UiInvariant, PTL

(* Fail closed: no engine brings a live session to an illegal position. *)
THEOREM FailsClosed == Spec => []PositionIsLegal
<1>1. UiInv => PositionIsLegal
  BY DEF UiInv
<1>2. QED
  BY <1>1, UiInvariant, PTL

(* The plan on screen is the plan of the request being served. *)
THEOREM PlanStaysCurrent == Spec => []PlanMatchesPosition
<1>1. UiInv => PlanMatchesPosition
  BY DEF UiInv
<1>2. QED
  BY <1>1, UiInvariant, PTL

(* No outcome without its cause. *)
THEOREM OutcomesJustified == Spec => []OutcomeIsJustified
<1>1. UiInv => OutcomeIsJustified
  BY DEF UiInv
<1>2. QED
  BY <1>1, UiInvariant, PTL

-----------------------------------------------------------------------------
(* The first state shown is the first state of a scan's life. *)
LEMMA LifecycleInit == Init => Lifecycle!Init
  BY DEF Init, Lifecycle!Init, Lifecycle!NoPlan, NoPlan

(* A handler's step is a step of the scan's life, or shows nothing new. *)
LEMMA HandlerIsLifecycleStep ==
  ASSUME NEW e, Handling(e), ReduceBody(e)
  PROVE  Lifecycle!Next \/ UNCHANGED Lifecycle!lifecycleVars
<1> USE DEF Lifecycle!Next, Lifecycle!lifecycleVars
<1>1. terminal = "none"
  BY DEF Handling
<1>2. CASE ReduceAccepted(e)
  <2>1. <<scanState, scanState'>> \in Advances
    BY <1>2 DEF ReduceAccepted, AdmitsAccepted, AcceptedTransition, Advances
  <2>2. Lifecycle!Advance
    BY <1>1, <1>2, <2>1 DEF ReduceAccepted, Lifecycle!Advance, Lifecycle!Advances, Advances
  <2>3. QED
    BY <2>2
<1>3. CASE ReduceRejected(e) \/ ReduceProgress(e)
  BY <1>3 DEF ReduceRejected, ReduceProgress
<1>4. CASE ReduceStateChanged(e)
  <2>1. scanState' = scanState \/ <<scanState, scanState'>> \in Advances
    BY <1>4 DEF ReduceStateChanged, PhaseTable, Advances
  <2>2. UNCHANGED <<provisionalPlan, terminal>>
    BY <1>4 DEF ReduceStateChanged
  <2>3. QED
    BY <1>1, <2>1, <2>2 DEF Lifecycle!Advance, Lifecycle!Advances, Advances
<1>5. CASE ReducePlanReady(e)
  <2>1. e.msg.plan \in PlanId
    <3>1. e.msg \in Message /\ e.msg.body = "planReady" /\ e.msg.plan # EmptyPlanId
      BY <1>5 DEF Handling, WireEvent, ReducePlanReady, AdmitsPlanReady
    <3>2. QED
      BY <3>1 DEF Message, WirePlanId, ControlAccepted, ControlRejected, ScanStateChanged,
                  PlanReady, PlanInvalidated, ScanProgress, ScanCancelled, ScanFinished,
                  EngineFailed, EmptyBody, Body
  <2>2. Lifecycle!OfferPlan
    BY <1>1, <1>5, <2>1 DEF ReducePlanReady, AdmitsPlanReady, Lifecycle!OfferPlan,
                                   Lifecycle!NoPlan, NoPlan
  <2>3. QED
    BY <2>2
<1>6. CASE ReducePlanInvalidated(e)
  <2>1. scanState = "running"
    BY <1>1, <1>6 DEF Handling, UiInv, PositionIsLegal, Positions, ReducePlanInvalidated,
                      AdmitsPlanInvalidated
  <2>2. Lifecycle!WithdrawPlan
    BY <1>1, <1>6, <2>1
    DEF ReducePlanInvalidated, AdmitsPlanInvalidated, Lifecycle!WithdrawPlan, Lifecycle!NoPlan,
        NoPlan
  <2>3. QED
    BY <2>2
<1>7. CASE ReduceScanCancelled(e)
  BY <1>1, <1>7 DEF ReduceScanCancelled, AdmitsScanCancelled, Lifecycle!ReportCancelled
<1>8. CASE ReduceScanFinished(e)
  BY <1>1, <1>8 DEF ReduceScanFinished, AdmitsScanFinished, Lifecycle!ReportFinished
<1>9. CASE ReduceEngineFailed(e)
  BY <1>9 DEF ReduceEngineFailed, Lifecycle!Fail
<1>10. CASE FailProtocol
  BY <1>10 DEF FailProtocol, ProtocolFailure, Lifecycle!Fail
<1>11. QED
  BY <1>2, <1>3, <1>4, <1>5, <1>6, <1>7, <1>8, <1>9, <1>10 DEF ReduceBody

(* Each step of the frontend is a step of the abstract life of a scan, or none. *)
LEMMA StepIsLifecycleStep ==
  ASSUME UiInv, [Next]_vars
  PROVE  Lifecycle!Next \/ UNCHANGED Lifecycle!lifecycleVars
<1> USE DEF Lifecycle!Next, Lifecycle!lifecycleVars
<1>1. CASE PressKey
  <2>1. PICK key \in Keys : PressControlKey(key) \/ PressHelpKey(key)
    BY <1>1 DEF PressKey
  <2>2. CASE PressHelpKey(key)
    BY <2>2 DEF PressHelpKey
  <2>3. CASE PressControlKey(key)
    BY <2>3 DEF PressControlKey, SendRequest, PerformSend, ExhaustRequestIds, ProtocolFailure,
                Lifecycle!Fail
  <2>4. QED
    BY <2>1, <2>2, <2>3
<1>2. ASSUME NEW s \in 0..MaxU64, NEW r \in 0..MaxU64, NEW n \in 0..MaxU64, NEW m \in Message,
             ReduceEngineEvent(Delivery(Event(s, r, m), n))
      PROVE  Lifecycle!Next \/ UNCHANGED Lifecycle!lifecycleVars
  <2>1. /\ Event(s, r, m) \in WireEvent /\ Event(s, r, m).seq = s
        /\ Delivery(Event(s, r, m), n).event = Event(s, r, m)
    BY DEF Event, WireEvent, Delivery
  <2>2. CASE FailProtocol
    BY <2>2 DEF FailProtocol, ProtocolFailure, Lifecycle!Fail
  <2>3. CASE lastEventSequence' = s /\ ReduceBody(Event(s, r, m))
    <3>1. Handling(Event(s, r, m))
      BY <1>2, <2>1, <2>3 DEF Handling, ReduceEngineEvent
    <3>2. QED
      BY <2>3, <3>1, HandlerIsLifecycleStep
  <2>4. QED
    BY <1>2, <2>1, <2>2, <2>3 DEF ReduceEngineEvent
<1>3. CASE DriverTakes \/ DriverLeaves
  BY <1>3 DEF DriverTakes, DriverLeaves, appVars
<1>4. ASSUME NEW ok \in BOOLEAN, DriverExits(ok)
      PROVE  Lifecycle!Next \/ UNCHANGED Lifecycle!lifecycleVars
  BY <1>4 DEF DriverExits, ReduceDriverExited, Lifecycle!Fail
<1>5. CASE UNCHANGED vars
  BY <1>5 DEF vars, appVars
<1>6. QED
  BY <1>1, <1>2, <1>3, <1>4, <1>5 DEF Next

(* Against every engine, what the user is shown is the life of one scan:   *)
(* states follow the graph, plans come and go where they may, and the      *)
(* outcome is reached once, except that a failure may still replace it.    *)
THEOREM ShowsOnlyLifecycles == Spec => ShowsALifecycle
<1>1. UiInv /\ [Next]_vars => [Lifecycle!Next]_(Lifecycle!lifecycleVars)
  BY StepIsLifecycleStep
<1>2. QED
  BY <1>1, LifecycleInit, UiInvariant, PTL DEF Spec, ShowsALifecycle, Lifecycle!Spec
=============================================================================
