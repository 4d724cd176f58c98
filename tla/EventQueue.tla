----------------------------- MODULE EventQueue -----------------------------
(***************************************************************************)
(* The queue between the engine driver's thread and the UI task,           *)
(* tui/event.rs, down to its locks and wakeups.  The producer blocks on a  *)
(* condition variable (space_available); the consumer is a future that     *)
(* awaits a tokio Notify (event_available) inside a select! and is dropped *)
(* whenever a key wins.  Each step is one critical section or one wakeup   *)
(* made outside of it.                                                     *)
(*                                                                         *)
(* A poisoned lock (a panic of the other side inside a critical section)   *)
(* is left out: nothing in those sections panics.                          *)
(***************************************************************************)
EXTENDS DeliveryQueue

CONSTANTS
  MaxEvents,     \* bound: events the producer offers
  MaxKeys        \* bound: keys that interrupt the consumer

ASSUME EventQueueBounds == MaxEvents \in Nat /\ MaxKeys \in Nat

VARIABLES
  events, semanticEvents, producerClosed, receiverClosed,  \* EventQueueState
  producer,     \* where the driver's thread is
  offer,        \* the item its blocked `send` holds
  consumer,     \* where the UI task is
  permit,       \* event_available: the stored permit of notify_one
  notified,     \* the Notified future of the next_event under way
  offered,      \* number of the last event offered
  keys,         \* keys pressed
  sent,         \* history: the items accepted, in order
  received      \* history: the items handed to the reducer, in order

queueVars == <<events, semanticEvents, producerClosed, receiverClosed>>
producerVars == <<producer, offer, offered, sent>>
consumerVars == <<consumer, keys, received>>
notifyVars == <<permit, notified>>

vars == <<queueVars, producerVars, consumerVars, notifyVars>>

Nothing == ExitItem(FALSE)     \* fills `offer` while no send is blocked

Init ==
  /\ events = <<>> /\ semanticEvents = 0
  /\ producerClosed = FALSE /\ receiverClosed = FALSE
  /\ producer = "running" /\ offer = Nothing /\ offered = 0 /\ sent = <<>>
  /\ consumer = "running" /\ keys = 0 /\ received = <<>>
  /\ permit = FALSE /\ notified = "none"

-----------------------------------------------------------------------------
(* tokio::sync::Notify.  A future that was created already hears           *)
(* notify_waiters; only one that is enrolled hears notify_one, otherwise   *)
(* the permit is stored.  Dropping a future that was woken by notify_one   *)
(* passes the notification on.                                             *)

NotifyOne ==
  IF notified = "enrolled"
  THEN notified' = "wokenOne" /\ UNCHANGED permit
  ELSE permit' = TRUE /\ UNCHANGED notified

NotifyWaiters ==
  /\ notified' = IF notified \in {"created", "enrolled"} THEN "wokenAll" ELSE notified
  /\ UNCHANGED permit

DropNotified ==
  /\ notified' = "none"
  /\ permit' = (permit \/ notified = "wokenOne")

(* std::sync::Condvar: there is one waiter at most, the producer. *)
WakeProducer == producer' = IF producer = "waiting" THEN "woken" ELSE producer

-----------------------------------------------------------------------------
(* The producer: `send`, first its critical section.                       *)

MutantMustWait(i) == ~IsProgress(i) /\ semanticEvents > SemanticCapacity /\ ~receiverClosed

MustWait(i) == ~IsProgress(i) /\ semanticEvents >= SemanticCapacity /\ ~receiverClosed

BlockSend(i) ==
  /\ MustWait(i)
  /\ producer' = "waiting"
  /\ offer' = i
  /\ UNCHANGED <<queueVars, sent>>

(* Err: the receiver is gone, or the progress run would have a gap.  The   *)
(* driver sends nothing but its last word after an error.                  *)
RefuseSend(i) ==
  /\ ~MustWait(i)
  /\ receiverClosed \/ Refuses(events, i)
  /\ producer' = IF i.type = "exited" THEN "reported" ELSE "refused"
  /\ offer' = Nothing
  /\ UNCHANGED <<queueVars, sent>>

AcceptSend(i) ==
  /\ ~MustWait(i)
  /\ ~receiverClosed /\ ~Refuses(events, i)
  /\ events' = Enqueued(events, i)
  /\ semanticEvents' = semanticEvents + IF IsProgress(i) THEN 0 ELSE 1
  /\ sent' = Append(sent, i)
  /\ producer' = IF i.type = "exited" THEN "pushedLast" ELSE "pushed"
  /\ offer' = Nothing
  /\ UNCHANGED <<producerClosed, receiverClosed>>

Send(i) ==
  /\ BlockSend(i) \/ RefuseSend(i) \/ AcceptSend(i)
  /\ UNCHANGED <<consumerVars, notifyVars>>

(* The driver offers events in sequence.  A gap is something the queue     *)
(* itself refuses to merge, so it is offered too.                          *)
OfferEvent ==
  /\ producer = "running"
  /\ \E n \in {offered + 1, offered + 2}, m \in {ScanProgress, ScanStateChanged("running")} :
       /\ n <= MaxEvents
       /\ offered' = n
       /\ Send(EngineItem(Event(n, 1, m), 0))

(* The last thing the driver's thread sends, whatever happened before. *)
OfferExit ==
  /\ producer \in {"running", "refused"}
  /\ \E ok \in BOOLEAN : Send(ExitItem(ok))
  /\ UNCHANGED offered

(* A waiter that was woken takes the lock and looks again. *)
RetrySend ==
  /\ producer = "woken"
  /\ Send(offer)
  /\ UNCHANGED offered

SpuriousWakeup ==
  /\ producer = "waiting"
  /\ WakeProducer
  /\ UNCHANGED <<queueVars, offer, offered, sent, consumerVars, notifyVars>>

(* After the lock is released. *)
AnnounceEvent ==
  /\ producer \in {"pushed", "pushedLast"}
  /\ NotifyOne
  /\ producer' = IF producer = "pushed" THEN "running" ELSE "reported"
  /\ UNCHANGED <<queueVars, offer, offered, sent, consumerVars>>

(* Drop for EngineEventIngress *)
CloseProducer ==
  /\ producer = "reported"
  /\ producerClosed' = TRUE
  /\ producer' = "closed"
  /\ UNCHANGED <<events, semanticEvents, receiverClosed, offer, offered, sent, consumerVars,
                 notifyVars>>

AnnounceEnd ==
  /\ producer = "closed"
  /\ NotifyWaiters
  /\ producer' = "gone"
  /\ UNCHANGED <<queueVars, offer, offered, sent, consumerVars>>

-----------------------------------------------------------------------------
(* The consumer: next_event.                                               *)

MutantArm ==
  /\ consumer = "running"
  /\ consumer' = "armed"
  /\ UNCHANGED <<queueVars, producerVars, keys, received, notifyVars>>

(* The Notified future is made before the queue is looked at. *)
Arm ==
  /\ consumer = "running"
  /\ notified' = "created"
  /\ consumer' = "armed"
  /\ UNCHANGED <<queueVars, producerVars, keys, received, permit>>

MutantPop ==
  /\ consumer = "armed"
  /\ events # <<>>
  /\ events' = Tail(events)
  /\ received' = Append(received, Head(events))
  /\ semanticEvents' = semanticEvents - IF IsProgress(Head(events)) THEN 0 ELSE 1
  /\ UNCHANGED producer
  /\ DropNotified
  /\ consumer' = "running"
  /\ UNCHANGED <<producerClosed, receiverClosed, offer, offered, sent, keys>>

Pop ==
  /\ consumer = "armed"
  /\ events # <<>>
  /\ events' = Tail(events)
  /\ received' = Append(received, Head(events))
  /\ \/ /\ IsProgress(Head(events))
        /\ UNCHANGED <<semanticEvents, producer>>
     \/ /\ ~IsProgress(Head(events))
        /\ semanticEvents' = semanticEvents - 1
        /\ WakeProducer
  /\ DropNotified
  /\ consumer' = "running"
  /\ UNCHANGED <<producerClosed, receiverClosed, offer, offered, sent, keys>>

FindEnd ==
  /\ consumer = "armed"
  /\ events = <<>> /\ producerClosed
  /\ DropNotified
  /\ consumer' = "ended"
  /\ UNCHANGED <<queueVars, producerVars, keys, received>>

FindNothing ==
  /\ consumer = "armed"
  /\ events = <<>> /\ ~producerClosed
  /\ consumer' = "awaiting"
  /\ UNCHANGED <<queueVars, producerVars, keys, received, notifyVars>>

(* The first poll of the Notified future. *)
Await ==
  /\ consumer = "awaiting"
  /\ \/ /\ notified = "wokenAll"
        /\ DropNotified
        /\ consumer' = "running"
     \/ /\ notified # "wokenAll" /\ permit
        /\ permit' = FALSE /\ notified' = "none"
        /\ consumer' = "running"
     \/ /\ notified # "wokenAll" /\ ~permit
        /\ notified' = "enrolled"
        /\ consumer' = "asleep"
        /\ UNCHANGED permit
  /\ UNCHANGED <<queueVars, producerVars, keys, received>>

Wake ==
  /\ consumer = "asleep"
  /\ notified \in {"wokenOne", "wokenAll"}
  /\ notified' = "none"
  /\ consumer' = "running"
  /\ UNCHANGED <<queueVars, producerVars, keys, received, permit>>

(* A key wins the select!: the future of next_event is dropped where it    *)
(* sleeps, and the next call starts over.                                  *)
KeyWins ==
  /\ consumer = "asleep"
  /\ keys < MaxKeys
  /\ keys' = keys + 1
  /\ DropNotified
  /\ consumer' = "running"
  /\ UNCHANGED <<queueVars, producerVars, received>>

(* Drop for EngineEventStream, once the UI's loop is over for any reason. *)
CloseReceiver ==
  /\ consumer \in {"running", "ended"}
  /\ receiverClosed' = TRUE
  /\ consumer' = "closed"
  /\ UNCHANGED <<events, semanticEvents, producerClosed, producerVars, keys, received, notifyVars>>

AnnounceReceiverGone ==
  /\ consumer = "closed"
  /\ WakeProducer
  /\ consumer' = "gone"
  /\ UNCHANGED <<queueVars, offer, offered, sent, keys, received, notifyVars>>

-----------------------------------------------------------------------------
Finished == producer = "gone" /\ consumer = "gone"

(* What a thread that is inside a call goes on to do. *)
ProducerContinues == RetrySend \/ AnnounceEvent \/ CloseProducer \/ AnnounceEnd
ConsumerContinues ==
  Arm \/ Pop \/ FindEnd \/ FindNothing \/ Await \/ Wake \/ AnnounceReceiverGone

Next ==
  \/ ProducerContinues
  \/ ConsumerContinues
  \/ OfferEvent
  \/ OfferExit
  \/ SpuriousWakeup
  \/ KeyWins
  \/ CloseReceiver
  \/ Finished /\ UNCHANGED vars

(* Both threads are scheduled; nothing forces the driver to send, the user *)
(* to press a key, the UI to stop or the platform to wake a waiter early.  *)
Fairness == WF_vars(ProducerContinues) /\ WF_vars(ConsumerContinues)

Spec == Init /\ [][Next]_vars /\ Fairness

-----------------------------------------------------------------------------
Item ==
  { EngineItem(Event(n, 1, m), k) :
      n \in 1..MaxEvents, k \in 0..MaxEvents,
      m \in {ScanProgress, ScanStateChanged("running")} }
  \cup { ExitItem(ok) : ok \in BOOLEAN }

(* Each variable stays within its type. *)
TypeOK ==
  /\ events \in Seq(Item) /\ sent \in Seq(Item) /\ received \in Seq(Item)
  /\ semanticEvents \in Nat
  /\ producerClosed \in BOOLEAN /\ receiverClosed \in BOOLEAN
  /\ producer \in {"running", "waiting", "woken", "refused", "pushed", "pushedLast",
                    "reported", "closed", "gone"}
  /\ offer \in Item
  /\ consumer \in {"running", "armed", "awaiting", "asleep", "ended", "closed", "gone"}
  /\ permit \in BOOLEAN
  /\ notified \in {"none", "created", "enrolled", "wokenOne", "wokenAll"}
  /\ offered \in 0..MaxEvents /\ keys \in 0..MaxKeys

(* event.rs: "a progress run is one queue entry and every two runs are     *)
(* separated by a semantic event, so the total queue stays bounded by      *)
(* 2 * capacity + 1", however long the engine only reports progress; and   *)
(* the counter that carries the back pressure is exact.                    *)
QueueIsBounded ==
  /\ semanticEvents = SemanticCount(events)
  /\ semanticEvents <= SemanticCapacity
  /\ Len(events) <= 2 * SemanticCapacity + 1
  /\ \A i \in 1..(Len(events) - 1) : ~(IsProgress(events[i]) /\ IsProgress(events[i + 1]))

(* The items of a sequence that are not progress, in order. *)
Semantic(q) ==
  LET kept[n \in 0..Len(q)] ==
        IF n = 0 THEN <<>>
        ELSE IF IsProgress(q[n]) THEN kept[n - 1] ELSE Append(kept[n - 1], q[n])
  IN kept[Len(q)]

Covered(q) == UNION { Covers(q[i]) : i \in DOMAIN q }

(* README: the queue is lossless for everything but progress.  What the    *)
(* reducer got and what it will get are exactly what was accepted: no      *)
(* semantic event is lost, repeated or overtaken, the numbers stay in      *)
(* order, and a merged progress event accounts for each one it replaced.   *)
NothingIsLost ==
  LET handed == received \o events IN
  /\ Semantic(handed) = Semantic(sent)
  /\ Covered(handed) = Covered(sent)
  /\ \A i, j \in DOMAIN handed : i < j =>
       \A m \in Covers(handed[i]), n \in Covers(handed[j]) : m < n

(* Nobody sleeps on something that has already happened: a consumer that   *)
(* waits for its Notify has an empty, open queue, or a producer about to   *)
(* notify it; a producer that waits has a full queue, or a consumer about  *)
(* to notify it.                                                           *)
NobodyIsStranded ==
  /\ notified = "enrolled" /\ (events # <<>> \/ producerClosed) =>
       producer \in {"pushed", "pushedLast", "closed"}
  /\ producer = "waiting" /\ (semanticEvents < SemanticCapacity \/ receiverClosed) =>
       consumer = "closed"

(* Whatever the driver sent, the reducer gets, and then it hears that the  *)
(* driver is gone; keys that interrupt it in between change nothing.       *)
EverythingArrives ==
  /\ \A n \in 1..MaxEvents : n \in Covered(sent) ~> n \in Covered(received) \/ receiverClosed
  /\ producerClosed ~> consumer = "ended" \/ receiverClosed
=============================================================================
