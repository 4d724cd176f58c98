# A formal model of diskplan's scan control

diskplan is two processes: a Swift engine that scans, and a Rust frontend that
shows a terminal UI, starts the engine as its child and controls it over the
engine's stdin and stdout with length-prefixed protobuf messages
(`proto/diskplan/v1/ipc.proto`). At this commit the scan itself is a fixture; what is
real is the protocol, the two state machines at its ends, the threads and
queues between them, the life of the child process, and, beside them, the
macOS evidence probes and the repository's publication tool.

This directory models the protocol end to end, down to the bytes in the pipe, the boundary
probe, the canonical encoding of evidence and the publication tool: TLA+ modules, TLC
configurations and proofs for TLAPS. Paths below are relative to `src/`; `tui/` is
`rust/crates/diskplan-cli/src/tui/`, `lib.rs` is `rust/crates/diskplan-cli/src/lib.rs`.

## 1. Inventory

### The scan protocol (modelled)

**Scan session** (`swift/Sources/DiskplanCore/ScanSession.swift`). State: the scan
state, the number of the last event, the greatest request id consumed, the
provisional plan. Operations: `start`, `control` (pause, resume, build a provisional
plan, cancel) and `rejectMalformed`; each turns one request into an array of
events. Hard: several numbered events per request that together must tell a
reader everything; ids consumed by rejected requests; the overflow of the event
counter inside a reply. Correct when every request gets one verdict, ids are
never served twice, and the events add up to the change of state.

**Engine process** (`swift/Sources/DiskplanEngine/main.swift`). One loop: read a
request, let the session serve it, write its events, end after a cancellation
or at the end of the input. Hard: it exits on its own after a cancellation while
requests may still be on their way.

**Reducer** (`tui/reducer.rs`, `tui/model.rs`). State: what is on screen, the engine's
state as acknowledged, pending requests, the active request and its phase, the
outcome, counters. Operations: a key, an engine event, the driver's exit.
Hard: it validates every event against where it believes the engine to be, while
the user's next requests are already under way. Correct when it shows the life
of one scan whatever arrives, and never takes a correct engine for a faulty one.

**Event loop** (`tui/app.rs`, `tui/mod.rs`). Draws, waits for a key or an item of the
queue, reduces it, performs the effect (a command to the driver). At its end the
event source, then the driver are dropped; the latter joins the driver's thread.

**Driver thread** (`tui/driver.rs`). Takes commands, writes requests, reads one
event with a timeout, sends it to the queue, shuts the engine down after a
terminal event, a stop or an error, and sends its result as its last word. Hard:
it blocks on a full queue, its commands wait while it reads, it can fail with
events unread.

**Event queue** (`tui/event.rs`). A mutex, a condition variable for the producer, a
tokio `Notify` for the consumer. Semantic events are kept and bounded; runs of
progress events merge into one. Hard: lost wakeups, futures dropped in a
`select!`, both ends dropped at any time. Correct when bounded, lossless, and
nobody sleeps on what has already happened.

**Engine process session** (`lib.rs`). Owns the child: spawns it in a process group,
with a decoder thread over its stdout; at the end closes stdin, waits, signals
the group, kills the child, hands a child that survives even that to a reaper
thread, cleans up the group, and insists on an empty stdout. Hard: the decoder holds
one frame in a channel of capacity one, so four things can block at once (engine,
decoder, driver, reaper). Correct when nobody waits for ever for somebody who waits
for him, and when what the client is given is what the engine wrote.

**Framing** (`diskplan-core/src/framing.rs`, `DiskplanCore/Framing.swift`). A length, then as
much payload. Hard: a read returns any part of it, the engine dies in the middle, the
length is nonsense. Correct when frames arrive whole and in order, and the end of the
stream is clean only between two of them.

**Terminal guard** (`tui/mod.rs`). Three flags for three changes to the terminal. Hard: entering
and restoring can fail half way, and a command that failed may have reached the
terminal. Correct when nothing is left in force whose undoing was not tried.

How they interact:

    keys -> [reducer + event loop] --commands--> [driver thread] --stdin--> [engine]
                     ^                                 |  ^                    |
                     +------- [event queue] <----------+  +------ stdout ------+

### Beside the protocol

**Handshake** (`handshake.rs`, `Handshake.swift`). Stateless: `negotiate` twice, in two languages,
and the client's `validate_accepted`. Hard: the two must agree about every pair of
hellos, and the answer may come from a program that is no engine.

**File Provider evidence** (`FileProviderEvidence.swift`, `MaterializationPolicy.swift`,
`ItemEvidence.swift`). The probe asks a framework, which takes paths and answers when it likes, about an item it
holds by descriptor. State: the item as first seen, the path derived from the held
parent, a one-shot result box with a deadline. Hard: late, repeated and missing
answers; slots replaced between check and question; a process-wide policy that other code
can change. Correct when a descent has a reason that was true of this item.

**Canonical binary** (`canonical.rs`, `CanonicalBinary.swift`). An encoder and a strict decoder in each
language. Hard: one value must have one encoding, and both verifiers the same verdict
about any bytes.

**Source publisher** (`rust/tools/generated-source-publish`). Leases, staged files, seals; stage,
publish, roll back, finish. Hard: a failure or a crash between any two system calls,
and others who ignore the lease.

### Left out

| component | why |
|---|---|
| Item and volume evidence, C shims | they decode platform buffers; nothing interacts |
| Rendering, argument parsing | functions to text |
| Bounded probe (`scripts/ci/bounded_probe.py`) | a CI helper; the order it must keep (signal the group before its leader is reaped) is `EngineCleanup`'s, for the product's code |
| Generated protobuf, build and CI scripts | generated, or glue |

`PROJECT.json` lists every component with its sources, and under "hazards" what in
this code is hard to test, at its line, with the property that covers it.

## 2. Modules

| module | models |
|---|---|
| `ScanProtocol` | the vocabulary both sides share: controls, states, messages, events, the graph of legal state changes, and what replaying events tells |
| `ScanLifecycle` | abstract specification: the life of one scan as any observer may see it |
| `ScanSession` | the engine's session, one action per call |
| `TuiReducer` | the frontend's `AppState`, reducer and effects, against any engine |
| `DeliveryQueue` | what the event queue does with one item |
| `EventQueue` | the same queue down to its critical sections and wakeups |
| `ScanControl` | the running program: `TuiReducer` and `ScanSession` by `INSTANCE`, `DeliveryQueue`'s and `TerminalGuard`'s operators, the driver, the pipes, the process, the teardown |
| `TerminalGuard` | the guard of the terminal as functions from a guard to those it may become |
| `EngineChannel` | frames, the pipes that fill up, the decoder thread, its channel, and the session that waits on it |
| `EngineCleanup` | how the driver's session rids itself of the engine process: grace period, signals, reaper, process group |
| `Handshake` | both implementations of the negotiation and the client's check of the answer |
| `Publication` | abstract specification: several files are installed together or not at all |
| `SourcePublish` | `generated-source-publish publish`, one step per rename, unlink and check |
| `FileProviderProbe` | the boundary probe, the provider's thread, the result box, and the machine that renames and evicts meanwhile |
| `CanonicalBinary` | both encoders and both strict decoders as functions of the input, each with its checks in its own order, for integers of any width |
| `ScanSessionProofs`, `TuiReducerProofs`, `EventQueueProofs`, `ScanControlProofs`, `EngineSessionProofs`, `HandshakeProofs`, `SourcePublishProofs`, `EvidenceProofs` | theorems about these modules |
| `MC...` | what TLC needs beside constants: bounds and representative inputs |

Correspondence with the code. Variables carry the names of the fields they stand
for (`eventSequence`, `requestIDHighWaterMark`, `scanState`, `cancelRequested`, ...), actions
the names of the methods or of the arm of the `switch` they translate. `PROJECT.json`
"map" gives the lines of each definition.

* A call of `ScanSession` is one step, since the struct is used by one loop only; its
  events are the variable `returned`. In `ScanControl` they are written to stdout one
  by one, so a crash can fall between two of them.
* A turn of the UI loop, that is reducing one event and performing its effect,
  is one step: both happen on one thread and the effect only appends to an
  unbounded channel. A send to a driver that is gone is the other branch of
  `PerformSend`.
* Each read, write, send and wait of the driver is a step.
* `EventQueue` has one step per critical section and one per notification made
  outside of it. tokio's `Notify` (a stored permit, `notify_waiters` reaching futures
  that exist but were not polled, a dropped future passing its notification on)
  and the condition variable (spurious wakeups included) are external and modelled
  from how the code uses them.

* `SourcePublish` has one variable for each kind of name (destination, stage,
  quarantine) and treats a file as an object that a name is bound to. `job`, `index` and `pc` say which method of
  `Target` runs, for which target, and where in it; `Call` is the control flow of `run`. Every
  state is one that a crash of the process can leave behind.

* `EngineChannel` has one step per read, write, send and receive; a read or a write takes
  any number of bytes the pipe allows. It is the layer below `ScanControl`, where the decoder is part of the pipe.
* `FileProviderProbe` has one step per access to the file system and one for the check of the policy
  before it, since something can happen in between. `Complete` and `Signal` are the two halves of the box's `complete`: under its lock and
  after it. The file system is two directories, two paths that may lead to them, and one name in each.
* `CanonicalBinary` is the table of checks of each decoder; the first that fails is its answer. An input grows
  by a byte or is the encoding of a binding, and then both verifiers give their verdict. Whether Foundation drops a leading U+FEFF
  when it decodes UTF-8 is not in the code, so both are tried.

Abstracted. Progress figures, the profile, banners, plan facts and layout: nothing
but drawing depends on them. Numbers keep their order and their limit: `MaxU64` is the
largest 64-bit value, and what the code does at it (trap in Swift, `checked_add` in
Rust) is modelled. In `ScanControl` the decoder thread is part of the stdout pipe
and pipes do not fill; `RequestsAreAccountedFor` bounds the requests
they hold to five, and the events to those of five replies, which is far below the
capacity of a pipe. `EngineChannel` shows what holds when the stdout pipe fills all the same, with
the same bound on requests as its `Window`. In `SourcePublish` the chain of directory leases is a check that
can fail, and the lock on them nothing at all: of interest are others who ignore it. The hash over canonical bytes is left out. Those who ignore the lease
know the destinations and can find a stage; they edit or replace, but do not touch
quarantined files. A power failure that loses unsynced renames is not modelled.
`verify` only reads. What the last check of `publish` reads is compared in content and identity at once, where `verify` of the code
compares the content and the rename or unlink that follows checks the identity again. One `Negotiate` stands for the
two implementations of the negotiation: Rust sorts capabilities by their bytes and Swift by its own order of strings, which are the same order
for names in ASCII, and there are no others. `FileProviderProbe` has one refusal for a policy
that is not in force, where the code may name another one by the `errno`.

## 3. Runs

| run | question | properties |
|---|---|---|
| `scan_session` | Does the event stream tell the truth about the session, whatever is requested, and is no id served twice? | `ReplayReachesSession`, `RepliesFollowLifecycle`, `RequestsAreServedOnce` |
| `tui_reducer` | Does the reducer stay sane against an engine that may send anything? | `CancelFlagIsExact`, `PlanMatchesPosition`, `OutcomeIsJustified`, `ShowsALifecycle` |
| `tui_limits` | The same at the end of the ranges of ids and event numbers | `RequestsDistinct` |
| `event_queue` | Is the queue bounded, lossless and free of lost wakeups? | `QueueIsBounded`, `NothingIsLost`, `NobodyIsStranded`, `EverythingArrives` |
| `scan_control` | Do the two sides ever disagree when keys, requests and replies cross, and does the program end cleanly, and give the terminal back, when the engine or the terminal fails, or the engine hangs? | `StreamConverges`, `NoFalseAlarm`, `RequestsAreAccountedFor`, `EndIsClean`, `TerminalIsGivenBack`, `CancelEnds`, `TeardownEnds` |
| `engine_channel` | Do frames arrive whole, and does nobody wait for ever, when pipes fill up, the engine dies in the middle of a frame or leaves its stdout to somebody else? | `FramesArriveWhole`, `NobodyHangs` |
| `engine_cleanup` | Is the engine accounted for and honestly reported whatever fails, does the cleanup end even if the kernel hangs, and is the engine killed and reaped, whatever it does, if it does not? | `ChildIsAccountedFor`, `ReportIsHonest`, `CleanupEnds`, `EngineIsReaped` |
| `handshake` | Do any two builds agree on a session, or both end without one, and what can a client be led into by a program that answers anything? | `AnswersAreAcceptable`, `SidesAgree`, `FailsClosed`, `HandshakeEnds` |
| `file_provider` | Has every descent a reason, whatever is renamed and evicted and whenever the provider answers? Is content never downloaded but by an access already checked? Does the probe end? | `DescentIsJustified`, `OneAccessPerLoss`, `FirstAnswerInTime`, `ProbeEnds` |
| `canonical` | Do the two verifiers give one verdict about any input, and read what an engine writes? | `WritersAreRead`, `VerifiersAgree` |
| `source_publish` | Are three files published together or not at all, is each state a crash may leave whole and recoverable, whichever system calls fail, those of the rollback included, is the work of somebody who ignores the lease safe, and the report true all the same? | `ReadersSeeWholeFiles`, `BackupsOutlivePublication`, `OthersWorkIsKept`, `ReportIsTrue`, `PublishesAsAWhole` |
| `quit_waits` | Does `q` wait for the engine's terminal event? It does not, see section 6. | `QuitWaitsForTerminal` (violated) |

### Bounds and why they are enough

* `scan_session`: ids and event numbers from `0..12`. Eleven events start a scan, build a
  plan and resume with it, so each reply occurs in each state, replies of two to
  four events straddle the overflow, and every id can be used up. Larger ranges
  repeat these cases.
* `tui_reducer`: four ids, hence a start and three requests of the user in every
  order, two plans (so a plan can be invalidated under the wrong name), every body
  with every field value that the reducer can tell apart. `MCMessage` and `MCRequestId` say which
  values represent which others. `tui_limits` lets ids and numbers reach their end.
* `event_queue`: a capacity of two with five events reaches the full queue, merged
  runs between semantic events, a gap in the numbers, and one interruption by a
  key at every point where the consumer sleeps.
* `scan_control`: five requests of the user after the start, any key at any time, a
  queue of four (so the whole reply to a cancellation can wait in it, and the driver still finds it full), every fault, and an event counter of fifteen, so the engine may also
  trap. Five requests allow two pauses, a plan, its invalidation and a cancellation.
* `engine_channel`: prefixes of two bytes (so one can be cut), payloads empty or of one
  byte, a pipe of three bytes, four events: more than the pipe, the decoder and the channel
  hold together, so that every one of them is full at times. The stdin pipe holds as many requests as may wait.
* `engine_cleanup`: no bound; the model is finite, and the run visits all of it
  under every combination of faults.
* `handshake`: two major and two minor versions, so each number can be equal,
  less or greater on either side; two capabilities, each required, optional, both
  or unknown on either side, one of them the capability the UI needs.
* `file_provider`: a directory and a file that a provider owns and a directory of nobody's;
  two renames, evictions or losses of the policy at any point, since two renames are
  what it takes to deceive the probe, and two answers.
* `canonical`: three byte values (a letter, the mark, a byte no text holds), integers of one
  byte, every input of up to thirteen bytes that is not refused before its end, which reaches records with a
  time or with two labels, and every encoding of bindings of up to three labels in any order. Integers of several bytes,
  where their order would matter, are left to the proofs.
* `source_publish`: three targets, so there is a first, a middle and a last one, each with or without
  a previous file; no bound on the failures; two files put in place by
  others at any time, so both a target of the current step and an earlier one can be disturbed, and
  any number of edits.

Deadlock is checked in the runs of `EventQueue`, `ScanControl`, `EngineChannel`, `EngineCleanup`, `Handshake` and `SourcePublish`, whose next-state
relation allows stuttering only at the end; `ScanSession` and `TuiReducer` stop for good
when the process has trapped or the session is over, `FileProviderProbe` when the probe has
returned and `CanonicalBinary` at the bound, so there it is not.

## 4. Fairness

`EventQueue` and `ScanControl` assume weak fairness of each of the program's threads as a whole: a
thread that can continue is scheduled. No fairness is assumed of the user, of faults, of
spurious wakeups or, in the specification, of the engine: `TeardownEnds` says that once
the session has an outcome or the UI has an I/O error, the program ends by what its own threads
do, an engine that hangs notwithstanding. `CancelEnds` is an implication: if the engine is scheduled, a
cancellation ends the program. Without that it need not: the driver reads
for as long as the engine lives, one timeout after the other, and a cancellation has no deadline.
`WF` of a thread is enough since each thread is sequential: a step of it
that is enabled stays so, with one exception, the driver's choice between `ReadEvent`
and `ReadTimesOut`, which is a choice within the thread's own steps.

`EngineChannel` assumes that the session's thread and the decoder's are scheduled, and nothing of the
engine: it may read or not, and its helper may keep stdout open for ever. `FileProviderProbe` assumes that the probe's thread runs and that its
deadline passes, and nothing of the provider.

`EngineCleanup` assumes that the session's thread and the reaper's are scheduled; no process has to
end, killed or not. `EngineIsReaped` is again an implication, from the kernel's carrying
out a SIGKILL some time. `Handshake` assumes
that both processes run until they end; a crash or a timeout is always possible
and never assumed. `SourcePublish` is sequential and has safety properties only; that it ends
follows from its loops over a fixed list, and nothing is assumed of it.

## 5. Proofs

Checked by TLAPS for every value of the constants (`MaxU64`, `PlanId`, `Keys`, `Faults`, `SemanticCapacity`,
the number of targets and of events, ...), from the assumptions named in the modules: `MaxU64` is a natural
number above one, the names for an absent and an empty plan are no plan identifiers, the engine's
plan is one, capacities are positive, `Faults` is a subset of the faults there are; for `CanonicalBinary`, that widths are positive, that the magic
bytes, the version, the limits and the greatest variants fit into their fields, and that what an engine writes are values of `EvidenceBinding` (`WidthsAssumption`,
`FormatAssumption`, `BindingsAssumption`). TLC found `PublishInv`
and, with a finite form of the parts that speak of a way and of the places where frames begin, `ControlInv` and
`ChannelInv` to hold with the constants of `source_publish`, `scan_control` and `engine_channel`, too.

`ScanSessionProofs`. The inductive invariant `SessionInv` joins the type invariant,
`PlanMatchesState` (a ready plan is there just in the state that has one), `OneVerdictPerRequest` and `StreamIsComplete`. The last needs the others: the
state the last state-bearing event of a reply mentions is the state of the
session only because the transient states "building" and "cancelling" never
survive a call. Lemmas give the shape of each reply; the step lemma has one case
per call. `FreshIdsOnly` proves `RequestsAreServedOnce`, an action property, from the shape of replies and from what
`EveryCallReplies` says of the mark: no call lowers it or leaves the id it answers beyond it. `RepliesAreEnough` and `RepliesWalk` are about what a reader makes of a
reply: `Story` gives the views along it, one legal step after the other, and there is a lemma for each reply
a handler can make. That a reader who replays the events, a recursive function of their number, sees just these
views takes an induction along the reply; it is done by taking the least place at which the two could
differ (`LeastNumber`, `TellsOneStory`, `StoryNarrates`).

`TuiReducerProofs`. `UiInv` joins type correctness, the distinctness of requests,
`CancelFlagIsExact`, `PositionIsLegal`, `PlanMatchesPosition` and `OutcomeIsJustified`. `CancelFlagIsExact`
needs `PositionIsLegal` (a cancellation is acknowledged only out of a
state no cancellation leads to) and `RequestsDistinct` (the pending cancellation that an answer
removes was the only one). The step lemma has one case per handler. `ShowsOnlyLifecycles` proves that the reducer implements
`ScanLifecycle`: each handler maps to an action of it or a stutter, for any engine.

`EngineSessionProofs` has two halves. The first is about `EngineChannel`. Its `ChannelInv` says, while the decoder is in
step, what all the bytes between the two processes are: those in the decoder's hands, followed by those in the pipe, are the
frames behind the ones it has made, one after the other, the last one perhaps in part (`NothingElse`, by means of
`Layout`, which tells where each frame begins). So once the decoder has as many bytes as the prefix tells, they are the next frame
and nothing of the one behind it. Four lemmas on sequences tell what happens to a layout: `FirstBytes` reads its beginning,
`MoreBytes` and `AnotherFrame` are the engine's writes, `FrameGone` the decoder's cut. `InOrder` carries
a frame on from there, through the decoder's result and the channel, to the session; `LastWord` says that an error or an end is the last result
there is, and `Reported` that the session never finds the order wrong. `WholeFrames` holds for every greatest length
and every size of prefix and pipe, and needs no fairness. `RoomInv` counts: the requests that wait are those in stdin, the one in the
engine's hands and those whose verdict is under way (`Waiting`), and the verdict is the first event of an answer
(`Answering`). So a write to a running engine always finds room (`WritesNeverWait`, the safety part of `NobodyHangs`), which the types (`ChannelTypeCorrect`)
rest on as well (both from `RoomAssumption`, that stdin holds a window of requests, which `ScanControl`'s `RequestsAreAccountedFor` bounds): without the count nothing keeps `outstanding` from falling below zero.

The second half is about `EngineCleanup`, whose names are chosen so that both modules can be extended together. `CleanupInv` adds to type correctness and `ChildIsAccountedFor` two parts.
`Ownership` relates where the session is to who has the child and what the result of
`wait_or_terminate` stands for: "exited" means reaped, and outside of the
group's cleanup also that nobody is left in the group. `Attempts` counts failed
handoffs: a shutdown that failed once is still followed by the drop's attempt,
so two refusals are needed before a live child is let go. The theorems hold for
every subset of the faults.

`HandshakeProofs`. First the negotiation as a function: the verdict is symmetric, and what it
grants passes the other side's strict check (`GrantIsValid`). `Checked` then says that a client is
ready only with an answer it has checked, whoever answers; `Honest`, where the answer is this engine's
own, that the one answer under way is the verdict on the
two hellos and is what the engine keeps. Both hold for every set of versions and
capabilities.

`EvidenceProofs` has two halves. The first is about `FileProviderProbe`: three arguments over any set of objects and any number of renames, losses and answers.
`LossInv` counts: an exposed access and a check whose access is still to come are paid for by a loss of the policy each.
`BoxInv` follows the box: while it is open it holds the first answer, if there is one, and
it is open just while the probe waits. `DescentInv` is about the evidence: at each place of the second round `Explained` says
what can still be behind a wrong "known": before it, a moved parent or a changed name;
after the item was read again, a moved parent only; after the comparison of the parents,
nothing but a second rename. It needs `Undisturbed` (without a rename, what was seen is what is
there, so a framework that resolves the path finds this item) and `BoxInv` (no answer is left over from before the question).

The second half is about `CanonicalBinary`, for inputs of any length, integers of any width and bindings with any number of labels. The
definitions recurse over the input, so the lemmas begin with what the library's theorems cannot be instantiated for: that a
recursive function over numbers has its equations (`Recursion`), and induction along a number (`Induction`), both from the least number of a set. On them
rest the integers (`NumberReads`, `WrittenAsRead`, `ReadAsWritten`, and the two's complement in `SignedReadAsWritten`), the order of byte strings, which is total,
the sorting and the removal of repetitions (`SortedProperties`, `DeduplicatedProperties`: the labels written are the same set and ascend; labels that
ascend are left alone), and the places of the fields (`LayoutProperties`). `Holds` says that the input has given bytes at a place;
`RecordParts` splits a record into its parts, and `RecordRead` and `RecordWritten` show that to hold a record is to be
read as its binding, field by field, and to end there. The two verifiers are taken apart into the same groups of checks.
`FrontGroups` shows that up to the last three they throw the same, although the client tells the variants apart by comparisons and the engine by
a switch; `FrontMeans` that these checks leave exactly `Sound` to be said of the input, the count of labels the input has room for included. Then the
binding read is writable (`BindingWritable`) and its record is the input (`ReadIsEncoded`), so the comparison with the encoded value, the
last check on both sides, finds nothing; the only thing that can make a difference is a dropped mark (`PlainReading`), and what the
engine still accepts it has read without one (`AcceptedIsPlain`), since the record of the shorter text is another. `CanonicalInv` joins the types, `WrittenFrom` (the input is
the encoding of the authored binding) and the two invariants; `VerdictsAreOne` and `EncodingsAreRead` follow. `AcceptedExactly` and
`OneBinding` say the same without the machine: the client accepts the encodings of bindings and nothing else, and no two
bindings share one, but for the order and the repetitions of their labels.

`EventQueueProofs`. `QueueInv` has four parts beside the types: `NobodyIsStranded` itself and three more. `Counted` says that the counter is the
number of semantic items and that no two runs of progress touch, so there are at most
one more of them than semantic items, which gives the bound of the whole queue. `Wakeups` is what
`NobodyIsStranded` needs to be inductive: a consumer that has looked and is about to enroll, without a
permit stored for it, has missed nothing but what the producer is about to announce. `Lossless`
says that what was handed over and what waits hold the same semantic items and cover the same numbers as what was
accepted, that those ascend and lie below the next one offered, and that a blocked offer carries the greatest. The count of semantic items is a
recursive function; what it does to an item at either end is proved by taking the least
length at which two such functions could differ.

`SourcePublishProofs`. `PublishInv` keeps three kinds of books: which object is under which name, and
that it is under no other; what the flags of a target say about its names; and what has been
achieved, as long as nothing went wrong in the clean-up. `OthersWorkIsKept` needs the first kind most: an
object somebody else put in place has one name (`BoundOnce`), and an exchange that
moved it left it under another (`Moved`), so deleting what was checked to be ours never deletes it. For
`PublishesAsAWhole` each of the thirteen kinds of step, and the steps of others, maps to one
step of `Publication` or to a stutter.

`ScanControlProofs`. The central idea of `ControlInv` is a way: the events in flight, taken one after the
other, lead what the reducer knows through legal readers to one that knows the engine's
state and plan (`Followed`). `Takes` says which events a strict reader takes and what it knows
next. That turns `NoFalseAlarm` from a property of two machines far apart into one of the next event: if there is a way
on, the reducer admits its first step. `InOrder` says that the ids under way ascend from the verdicts in
flight over the engine's stdin to the command channel, so no verdict answers a request that is not pending and none answers one twice;
`NoneForgotten` that each pending request is under way. These hold while the conversation is alive (`Connected`: nobody has
dropped an event yet, or nobody will reduce any); the rest of the invariant (`Places`, `TerminalKept`, `Outcome`) is about its end.
Each of the engine's replies is proved to be a way (`Replies`), with one lemma per control and state;
each action of the program is proved to be, for the two sides of the conversation, one of eleven kinds of step: nothing is said, a request is pressed, written,
answered, an event reduced, and so on; and each kind keeps the invariant.
`StreamConverges` then follows because a way determines what `Replay`, a recursive function, shows at its end;
`RequestsAreAccountedFor` because ascending ids are distinct, so the places share nothing and each
request counts once.

Only model-checked: liveness (`NobodyHangs` beyond its safety part, `CancelEnds` and the others under fairness), which is out of the prover's reach. The other way
round, `StreamIsComplete`, `OneVerdictPerRequest`, `PlanMatchesState`, `PositionIsLegal`, the symmetry of the negotiation and the type invariants of
all modules with proofs are proved and need no run.

## 6. Finding

`quit_waits` shows a divergence between the documentation and the code.
`README.md:47-48`, the help line in `tui/render.rs:294` and the project journal of
2026-08-28 say that `q` requests one cancellation and waits for the engine's terminal event. After `q`
the other control keys stay live until the cancellation is acknowledged. If the user then presses, say, space,
the engine may have served the cancellation and exited before the driver
writes that request; the write fails, `run_engine` returns the error with the
engine's `ScanCancelled` still unread in the pipe, and the session ends as
failed. Everything is still cleaned up (`EndIsClean`, `CancelEnds`): it is the report that is lost.

There is another way to break the same promise, in which nothing has failed, and the lossless queue of `README.md:48-49` with it. The driver can have read the whole reply to the cancellation, put it into the queue,
shut the engine down without an error and left `run_engine`, which drops its end of the command channel, before the UI has reduced the first of those events. A key
that asks for a control just then can not be sent; `app.rs:46-49` records a failed session and an exited driver on the spot, the loop
ends, and the `ScanCancelled` in the queue is never reduced. For this the queue must hold the four events of that
reply, which the sixteen of the code (`driver.rs:15`) allow; the run has four. TLC reports the first way, which is shorter; with
`TerminalEventIsDelivered` as the invariant of `MCScanQuit.cfg` it reports this one.

## 7. Plan and limits

Done: sections 2 to 5. Every invariant, action property and refinement the runs check is proved; the liveness properties are
model-checked. To come, for liveness: safety parts beside `WritesNeverWait`, namely that nobody is stuck where its thread is the
only one that could go on (`EngineCleanup`, `Handshake`, `ScanControl`).

Not modelled, beside the components listed under "Left out": a second run of the publisher after a crash, which finds stages and quarantined
files under random names it knows nothing of, and so begins like a first; a power failure; `request_business` of the
engine session, which only tests use; the reuse of a process group's id after the child was
reaped (`lib.rs:525`), for which the code has no means and the model no ids.
