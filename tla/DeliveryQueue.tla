--------------------------- MODULE DeliveryQueue ----------------------------
(***************************************************************************)
(* What the queue of tui/event.rs does with one item, apart from locks and *)
(* wakeups: an item is an engine delivery or the driver's last word, a     *)
(* progress event is merged into a progress event at the back, everything  *)
(* else is kept, and only what is not progress counts against the          *)
(* capacity.                                                               *)
(***************************************************************************)
EXTENDS ScanProtocol, FiniteSets

CONSTANT SemanticCapacity

ASSUME SemanticCapacityAssumption == SemanticCapacity \in Nat \ {0}

(* UiEvent::Engine and UiEvent::DriverExited *)
EngineItem(e, n) == [type |-> "engine", delivery |-> Delivery(e, n)]
ExitItem(ok) == [type |-> "exited", ok |-> ok]

(* is_progress_event *)
IsProgress(i) == i.type = "engine" /\ i.delivery.event.msg.body = "progress"

SemanticCount(q) == Cardinality({ n \in DOMAIN q : ~IsProgress(q[n]) })

(* The item meets a progress run at the back of the queue. *)
JoinsRun(q, i) == IsProgress(i) /\ q # <<>> /\ IsProgress(SeqOps!Last(q))

(* `send` refuses to merge across a gap; a run that ends at the greatest   *)
(* number there is can not be continued either.                            *)
Contiguous(q, i) == i.delivery.event.seq = SeqOps!Last(q).delivery.event.seq + 1

Refuses(q, i) == JoinsRun(q, i) /\ ~Contiguous(q, i)

MutantEnqueued(q, i) ==
  IF JoinsRun(q, i)
  THEN SeqOps!Front(q) \o <<EngineItem(i.delivery.event, 1)>>
  ELSE Append(q, i)

Enqueued(q, i) ==
  IF JoinsRun(q, i)
  THEN SeqOps!Front(q) \o <<EngineItem(i.delivery.event, SeqOps!Last(q).delivery.skipped + 1)>>
  ELSE Append(q, i)

(* The numbers of the events an item stands for. *)
Covers(i) ==
  IF i.type = "engine"
  THEN (i.delivery.event.seq - i.delivery.skipped) .. i.delivery.event.seq
  ELSE {}
=============================================================================
