----------------------------- MODULE ScanControl ----------------------------
(***************************************************************************)
(* The running program: the UI thread (tui/mod.rs, tui/app.rs and the      *)
(* reducer), the driver thread (tui/driver.rs over the EngineSession of    *)
(* lib.rs) and the engine process (DiskplanEngine/main.swift over          *)
(* ScanSession), joined by the command channel, the event queue and the    *)
(* engine's two pipes.                                                     *)
(*                                                                         *)
(* Abstracted: the handshake is part of connecting; the decoder thread and *)
(* its channel are part of the stdout pipe; a pipe never fills up, which   *)
(* RequestsAreAccountedFor justifies; the queue's locks are EventQueue's.  *)
(* EngineSession checks the numbers of events a second time; that check,   *)
(* like the queue's merging of progress, never has anything to do here     *)
(* (StreamConverges) and is left out.                                      *)
(***************************************************************************)
EXTENDS DeliveryQueue

CONSTANTS
  FixturePlan,
  Keys,
  MaxRequests,   \* bound: the last request id the user's keys may take
  Faults         \* what goes wrong: a subset of the four below

(* The engine can not be started, it crashes, it hangs, or the UI's        *)
(* terminal reports an I/O error.                                          *)
ASSUME FaultsAssumption == Faults \subseteq {"connect", "crash", "hang", "io"}
ASSUME FixturePlanAssumption == FixturePlan \in PlanId

VARIABLES
  (* the UI thread: TuiReducer *)
  screen, scanState, provisionalPlan, pending, active, helpVisible, cancelRequested,
  terminal, driverExited, lastEventSequence, nextRequestId,
  commands, driverListens,
  ui,              \* where `run` of tui/mod.rs is
  guard,           \* of the terminal
  forsaken,        \* history: the guard has left a change it did not try to undo
  (* the driver thread *)
  driver,          \* where run_engine is
  held,            \* the event it is sending
  driverOk,        \* run_engine has met no error
  (* the queue between them *)
  queue, receiverClosed,
  (* the pipes *)
  stdin, stdinOpen, stdout,
  (* the engine process: ScanSession, and the process itself *)
  state, eventSequence, requestIDHighWaterMark, provisionalPlanID,
  returned,        \* events of the last reply still to be written
  trapped,
  engine

Ui == INSTANCE TuiReducer
Engine == INSTANCE ScanSession
Terminal == INSTANCE TerminalGuard

uiVars ==
  <<screen, scanState, provisionalPlan, pending, active, helpVisible, cancelRequested,
    terminal, driverExited, lastEventSequence, nextRequestId>>
channelVars == <<commands, driverListens>>
guardVars == <<guard, forsaken>>
queueVars == <<queue, receiverClosed>>
driverVars == <<driver, held, driverOk>>
pipeVars == <<stdin, stdinOpen, stdout>>
engineVars ==
  <<state, eventSequence, requestIDHighWaterMark, provisionalPlanID, returned, trapped>>

vars ==
  <<uiVars, channelVars, ui, guardVars, driverVars, queueVars, pipeVars, engineVars, engine>>

NoEvent == Event(0, 0, EmptyBody)

Init ==
  /\ Ui!Init
  /\ Engine!Init
  /\ ui = "entering"
  /\ guard = Terminal!NoGuard /\ forsaken = FALSE
  /\ driver = "connecting" /\ held = NoEvent /\ driverOk = TRUE
  /\ queue = <<>> /\ receiverClosed = FALSE
  /\ stdin = <<>> /\ stdinOpen = TRUE /\ stdout = <<>>
  /\ engine = "absent"

-----------------------------------------------------------------------------
(* The UI thread.                                                          *)

(* What a guard may become by a restore. *)
Restorations(g) ==
  { r \in Terminal!Restored(g) : "io" \in Faults \/ r.refused = {} }

(* The driver thread is under way already.  If the terminal can not be set *)
(* up, the guard is dropped on the way out.                                *)
EnterTerminal ==
  /\ ui = "entering"
  /\ \/ guard' = Terminal!Entered /\ ui' = "running" /\ UNCHANGED forsaken
     \/ /\ "io" \in Faults
        /\ \E half \in Terminal!HalfEntered : \E left \in Restorations(half) :
             forsaken' = Terminal!Forsakes(left)
        /\ ui' = "leaving" /\ UNCHANGED guard
  /\ UNCHANGED <<uiVars, channelVars, driverVars, queueVars, pipeVars, engineVars, engine>>

PressKey ==
  /\ ui = "running" /\ ~Ui!ShouldExit
  /\ nextRequestId <= MaxRequests
  /\ Ui!PressKey
  /\ UNCHANGED <<ui, guardVars, driverVars, queueVars, pipeVars, engineVars, engine>>

(* Events that come after the outcome are taken and ignored. *)
HandleItem ==
  /\ ui = "running" /\ ~Ui!ShouldExit
  /\ queue # <<>>
  /\ queue' = Tail(queue)
  /\ LET item == Head(queue) IN
     \/ /\ item.type = "engine"
        /\ IF terminal = "none" THEN Ui!ReduceEngineEvent(item.delivery)
           ELSE UNCHANGED <<uiVars, channelVars>>
     \/ /\ item.type = "exited"
        /\ Ui!ReduceDriverExited(item.ok)
  /\ UNCHANGED <<ui, guardVars, receiverClosed, driverVars, pipeVars, engineVars, engine>>

LeaveLoop ==
  /\ ui = "running" /\ Ui!ShouldExit
  /\ ui' = "leaving"
  /\ UNCHANGED <<uiVars, channelVars, guardVars, driverVars, queueVars, pipeVars, engineVars,
                 engine>>

(* Drawing or reading keys fails: run_application returns the error. *)
TerminalIoError ==
  /\ "io" \in Faults
  /\ ui = "running"
  /\ ui' = "leaving"
  /\ UNCHANGED <<uiVars, channelVars, guardVars, driverVars, queueVars, pipeVars, engineVars,
                 engine>>

(* guard.restore(), and the guard's drop, which tries what failed again. *)
GiveTerminalBack ==
  /\ guard' = Terminal!NoGuard
  /\ \E g \in Restorations(guard) : \E left \in Restorations(g) :
       forsaken' = (forsaken \/ Terminal!Forsakes(left))

MutantDropSource ==
  /\ ui = "leaving"
  /\ ui' = "stopping"
  /\ GiveTerminalBack
  /\ UNCHANGED <<uiVars, channelVars, queue, receiverClosed, driverVars, pipeVars, engineVars,
                 engine>>

(* The terminal is restored and the locals of `run` are dropped in reverse *)
(* order: the event source, which frees a driver that is blocked on the    *)
(* queue, the guard, ...                                                   *)
DropSource ==
  /\ ui = "leaving"
  /\ receiverClosed' = TRUE
  /\ GiveTerminalBack
  /\ ui' = "stopping"
  /\ UNCHANGED <<uiVars, channelVars, queue, driverVars, pipeVars, engineVars, engine>>

(* ... then the EngineDriver, which tells its thread to stop ... *)
DropDriver ==
  /\ ui = "stopping"
  /\ commands' = IF driverListens THEN Append(commands, Ui!StopDriver) ELSE commands
  /\ ui' = "joining"
  /\ UNCHANGED <<uiVars, driverListens, guardVars, driverVars, queueVars, pipeVars, engineVars,
                 engine>>

(* ... and waits for it. *)
JoinDriver ==
  /\ ui = "joining" /\ driver = "done"
  /\ ui' = "done"
  /\ UNCHANGED <<uiVars, channelVars, guardVars, driverVars, queueVars, pipeVars, engineVars,
                 engine>>

-----------------------------------------------------------------------------
(* The driver thread: run_engine.                                          *)

GoTo(pc) == driver' = pc /\ UNCHANGED <<held, driverOk>>
FailTo(pc) == driver' = pc /\ driverOk' = FALSE /\ UNCHANGED held

Connect ==
  /\ driver = "connecting"
  /\ engine' = "running"
  /\ GoTo("starting")
  /\ UNCHANGED <<uiVars, channelVars, ui, guardVars, queueVars, pipeVars, engineVars>>

(* No engine, or one that fails the handshake: connect cleans up itself. *)
ConnectFails ==
  /\ "connect" \in Faults
  /\ driver = "connecting"
  /\ FailTo("leaving")
  /\ UNCHANGED <<uiVars, channelVars, ui, guardVars, queueVars, pipeVars, engineVars, engine>>

(* write_envelope: a pipe nobody reads any more is an error. *)
WriteRequest(r, next) ==
  \/ /\ engine = "running"
     /\ stdin' = Append(stdin, r)
     /\ GoTo(next)
  \/ /\ engine # "running"
     /\ FailTo("closing")
     /\ UNCHANGED stdin

SendStart ==
  /\ driver = "starting"
  /\ WriteRequest(Ui!Request(1, "start"), "draining")
  /\ UNCHANGED <<uiVars, channelVars, ui, guardVars, queueVars, stdinOpen, stdout, engineVars,
                 engine>>

TakeCommand ==
  /\ driver = "draining" /\ commands # <<>>
  /\ Ui!DriverTakes
  /\ \/ /\ Head(commands).command = "control"
        /\ WriteRequest(Ui!Request(Head(commands).id, Head(commands).kind), "draining")
     \/ /\ Head(commands).command = "stop"
        /\ GoTo("closing")
        /\ UNCHANGED stdin
  /\ UNCHANGED <<ui, guardVars, queueVars, stdinOpen, stdout, engineVars, engine>>

FindNoCommand ==
  /\ driver = "draining" /\ commands = <<>>
  /\ GoTo("reading")
  /\ UNCHANGED <<uiVars, channelVars, ui, guardVars, queueVars, pipeVars, engineVars, engine>>

ReadEvent ==
  /\ driver = "reading" /\ stdout # <<>>
  /\ held' = Head(stdout)
  /\ stdout' = Tail(stdout)
  /\ driver' = "sending"
  /\ UNCHANGED <<uiVars, channelVars, ui, guardVars, driverOk, queueVars, stdin, stdinOpen,
                 engineVars,
                 engine>>

MutantReadTimesOut ==
  /\ driver = "reading" /\ stdout = <<>> /\ engine = "running"
  /\ GoTo("reading")
  /\ UNCHANGED <<uiVars, channelVars, ui, guardVars, queueVars, pipeVars, engineVars, engine>>

ReadTimesOut ==
  /\ driver = "reading" /\ stdout = <<>> /\ engine = "running"
  /\ GoTo("draining")
  /\ UNCHANGED <<uiVars, channelVars, ui, guardVars, queueVars, pipeVars, engineVars, engine>>

(* End of file where an event was due. *)
ReadFails ==
  /\ driver = "reading" /\ stdout = <<>> /\ engine # "running"
  /\ FailTo("closing")
  /\ UNCHANGED <<uiVars, channelVars, ui, guardVars, queueVars, pipeVars, engineVars, engine>>

HasRoom(i) == IsProgress(i) \/ SemanticCount(queue) < SemanticCapacity

(* The queue has room, or its receiver is gone; otherwise the thread       *)
(* blocks here.  A terminal event is the last one the driver reads.        *)
SendEvent ==
  /\ driver = "sending"
  /\ \/ /\ ~receiverClosed /\ HasRoom(EngineItem(held, 0))
        /\ queue' = Enqueued(queue, EngineItem(held, 0))
        /\ driver' = IF held.msg.body \in TerminalBody THEN "closing" ELSE "draining"
     \/ /\ receiverClosed
        /\ driver' = "closing"
        /\ UNCHANGED queue
  /\ held' = NoEvent
  /\ UNCHANGED <<uiVars, channelVars, ui, guardVars, driverOk, receiverClosed, pipeVars,
                 engineVars, engine>>

(* shutdown, or the drop of the session after an error: close stdin, ... *)
CloseStdin ==
  /\ driver = "closing"
  /\ stdinOpen' = FALSE
  /\ GoTo("waiting")
  /\ UNCHANGED <<uiVars, channelVars, ui, guardVars, queueVars, stdin, stdout, engineVars, engine>>

MutantReap ==
  /\ driver = "waiting" /\ engine # "running"
  /\ driver' = "leaving"
  /\ UNCHANGED <<held, driverOk>>
  /\ UNCHANGED <<uiVars, channelVars, ui, guardVars, queueVars, pipeVars, engineVars, engine>>

(* ... wait for the process, and insist on its success and on a stdout     *)
(* with nothing left in it.                                                *)
Reap ==
  /\ driver = "waiting" /\ engine # "running"
  /\ driver' = "leaving"
  /\ driverOk' = (driverOk /\ engine = "exited" /\ stdout = <<>>)
  /\ UNCHANGED <<uiVars, channelVars, ui, guardVars, held, queueVars, pipeVars, engineVars, engine>>

(* wait_or_terminate: an engine that outlives the grace period is killed. *)
KillEngine ==
  /\ "hang" \in Faults
  /\ driver = "waiting" /\ engine = "running"
  /\ engine' = "killed"
  /\ UNCHANGED <<uiVars, channelVars, ui, guardVars, driverVars, queueVars, pipeVars, engineVars>>

(* run_engine returns: its end of the command channel is dropped. *)
Leave ==
  /\ driver = "leaving"
  /\ Ui!DriverLeaves
  /\ GoTo("reporting")
  /\ UNCHANGED <<ui, guardVars, queueVars, pipeVars, engineVars, engine>>

(* send_driver_exited, whose error is ignored; then the thread is over. *)
Report ==
  /\ driver = "reporting"
  /\ \/ /\ ~receiverClosed /\ HasRoom(ExitItem(driverOk))
        /\ queue' = Enqueued(queue, ExitItem(driverOk))
     \/ receiverClosed /\ UNCHANGED queue
  /\ GoTo("done")
  /\ UNCHANGED <<uiVars, channelVars, ui, guardVars, receiverClosed, pipeVars, engineVars, engine>>

-----------------------------------------------------------------------------
(* The engine process: runReadyLoop.                                       *)

Idle == engine = "running" /\ returned = <<>>

(* An overflow of the event counter traps before anything is written. *)
ServeRequest ==
  /\ Idle /\ state # "cancelled"
  /\ stdin # <<>>
  /\ stdin' = Tail(stdin)
  /\ LET r == Head(stdin) IN
     \/ r.kind = "start" /\ Engine!Start(r.id)
     \/ r.kind # "start" /\ Engine!Control(r.id, r.kind)
  /\ engine' = IF trapped' THEN "died" ELSE engine
  /\ UNCHANGED <<uiVars, channelVars, ui, guardVars, driverVars, queueVars, stdinOpen, stdout>>

WriteEvent ==
  /\ engine = "running" /\ returned # <<>>
  /\ stdout' = Append(stdout, Head(returned))
  /\ returned' = Tail(returned)
  /\ UNCHANGED <<uiVars, channelVars, ui, guardVars, driverVars, queueVars, stdin, stdinOpen, state,
                 eventSequence, requestIDHighWaterMark, provisionalPlanID, trapped, engine>>

(* The loop ends after a cancellation, or at the end of the input. *)
Exit ==
  /\ Idle
  /\ state = "cancelled" \/ (stdin = <<>> /\ ~stdinOpen)
  /\ engine' = "exited"
  /\ UNCHANGED <<uiVars, channelVars, ui, guardVars, driverVars, queueVars, pipeVars, engineVars>>

Crash ==
  /\ "crash" \in Faults
  /\ engine = "running"
  /\ engine' = "died"
  /\ UNCHANGED <<uiVars, channelVars, ui, guardVars, driverVars, queueVars, pipeVars, engineVars>>

-----------------------------------------------------------------------------
UiContinues == EnterTerminal \/ HandleItem \/ LeaveLoop \/ DropSource \/ DropDriver \/ JoinDriver

DriverContinues ==
  \/ Connect \/ SendStart
  \/ TakeCommand \/ FindNoCommand
  \/ ReadEvent \/ ReadTimesOut \/ ReadFails \/ SendEvent
  \/ CloseStdin \/ Reap \/ KillEngine \/ Leave \/ Report

EngineContinues == ServeRequest \/ WriteEvent \/ Exit

Next ==
  \/ PressKey
  \/ UiContinues
  \/ DriverContinues
  \/ EngineContinues
  \/ ConnectFails
  \/ TerminalIoError
  \/ Crash
  \/ ui = "done" /\ UNCHANGED vars

(* Both threads are scheduled.  The engine may stop making progress,       *)
(* nobody has to press a key and nothing has to fail.                      *)
Fairness == WF_vars(UiContinues) /\ WF_vars(DriverContinues)

Spec == Init /\ [][Next]_vars /\ Fairness

-----------------------------------------------------------------------------
(* What the engine has said and the user has not yet been shown.  Nothing  *)
(* is queued behind the driver's last word.                                *)
Queued ==
  IF queue # <<>> /\ SeqOps!Last(queue).type = "exited" THEN SeqOps!Front(queue) ELSE queue
InFlight ==
  [i \in DOMAIN Queued |-> Queued[i].delivery.event]
  \o (IF driver = "sending" THEN <<held>> ELSE <<>>) \o stdout \o returned

(* The two sides never drift apart: at every moment the user will have     *)
(* been shown exactly the engine's state and plan once the events on their *)
(* way are reduced, and those are numbered on from the last one reduced up *)
(* to the engine's own counter.                                            *)
StreamConverges ==
  terminal = "none" /\ ~receiverClosed /\ ~trapped =>
    /\ Replay(View(scanState, provisionalPlan), InFlight) = View(state, provisionalPlanID)
    /\ Len(InFlight) = eventSequence - lastEventSequence
    /\ \A i \in DOMAIN InFlight : InFlight[i].seq = lastEventSequence + i

(* No false alarm: keys pressed against a stale state, requests that cross *)
(* the engine's replies and whatever dies in between never make the        *)
(* reducer take this engine for one that violates the protocol: the only   *)
(* failures are those the driver reports, and a user who has used up the   *)
(* request ids.                                                            *)
NoFalseAlarm == terminal = "failed" => driverExited \/ nextRequestId = MaxU64

Verdicts == { i \in DOMAIN InFlight : InFlight[i].msg.body \in Acknowledgement }
Sent == { i \in DOMAIN commands : commands[i].command = "control" }

(* Each request the UI counts as pending is in exactly one place: in the   *)
(* command channel, in the engine's stdin, or on its way back as a         *)
(* verdict; and nothing else is in those places.  So the pipes hold five   *)
(* requests at most, and no request is lost, answered twice or repeated.   *)
RequestsAreAccountedFor ==
  terminal = "none" /\ ~trapped
  /\ driver \in {"connecting", "starting", "draining", "reading", "sending"} =>
    /\ pending =
         (IF driver \in {"connecting", "starting"} THEN {Ui!Request(1, "start")} ELSE {})
         \cup { Ui!Request(commands[i].id, commands[i].kind) : i \in Sent }
         \cup { stdin[i] : i \in DOMAIN stdin }
         \cup { Ui!Request(InFlight[i].req, InFlight[i].msg.kind) : i \in Verdicts }
    /\ driver \notin {"connecting", "starting"} =>
         Cardinality(pending) = Cardinality(Sent) + Len(stdin) + Cardinality(Verdicts)

(* When `run` returns, the engine process is gone and has been reaped.     *)
(* A cancellation is reported, with the driver's consent, only when the    *)
(* engine ended by itself and everything it said was reduced.              *)
EndIsClean ==
  /\ ui = "done" => engine # "running" /\ driver = "done"
  /\ terminal = "cancelled" /\ driverExited =>
       /\ engine = "exited" /\ state = "cancelled"
       /\ lastEventSequence = eventSequence

(* A cancellation ends the program, however the requests cross, if only    *)
(* the engine is scheduled: the wait for its verdicts has no deadline.     *)
CancelEnds == WF_vars(EngineContinues) => (cancelRequested ~> ui = "done")

(* Once the session has an outcome, the driver has left, or the UI has an  *)
(* I/O error, the program ends: no thread waits for another for ever, nor  *)
(* for an engine that hangs.                                               *)
TeardownEnds ==
  \/ terminal # "none"
  \/ ui \notin {"entering", "running"}
  \/ driver \in {"closing", "leaving"}
  ~> ui = "done"

(* The user gets the terminal back before the program waits for the        *)
(* driver's thread, which may take its time: no change is left in force    *)
(* whose undoing was not tried until the end.                              *)
TerminalIsGivenBack ==
  ~forsaken /\ (ui \in {"stopping", "joining", "done"} => guard.inForce = {})

(* README: "q sends one cancellation and waits for the engine's terminal   *)
(* event and for the process to be reaped".                                *)
QuitWaitsForTerminal == ui = "done" /\ cancelRequested => terminal = "cancelled"

(* README: the queue is lossless for "acknowledgement, state, plan and     *)
(* terminal events".  When the driver has sent the engine's terminal event *)
(* and ended without an error, that should be the outcome the user is      *)
(* given.  It breaks QuitWaitsForTerminal, too, when it is not.            *)
TerminalEventIsDelivered ==
  ui = "done" /\ driverOk /\ state = "cancelled" => terminal = "cancelled"
=============================================================================
