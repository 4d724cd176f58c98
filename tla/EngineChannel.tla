---------------------------- MODULE EngineChannel ----------------------------
(***************************************************************************)
(* The way of an event from the engine's stdout to the client, byte by     *)
(* byte: the engine writes frames into a pipe that fills up, the decoder   *)
(* thread that spawn_command starts reads them in pieces and hands them    *)
(* through a channel of capacity one to the EngineSession, which waits     *)
(* with a deadline.  A frame is a prefix that tells a length, and as much  *)
(* payload (framing.rs and Framing.swift).                                 *)
(*                                                                         *)
(* Requests go the other way through a pipe of their own, here one unit    *)
(* each.  Of the engine it is kept that it serves one request after the    *)
(* other and answers each with some events, of the end of a session that   *)
(* it closes stdin, waits, kills, drains and is dropped (EngineCleanup has *)
(* the details).                                                           *)
(***************************************************************************)
EXTENDS Naturals, Sequences

CONSTANTS
  PrefixBytes,   \* four in the program
  MaxLength,     \* the greatest payload length a frame may have
  PipeBytes,     \* what the stdout pipe holds
  RequestRoom,   \* the requests the stdin pipe holds
  Window,        \* the requests that may wait for their first event at once
  MaxEvents,     \* bound: the events the engine sends
  Faults         \* a subset of the three below

ASSUME SizesAssumption ==
  /\ PrefixBytes \in Nat \ {0} /\ MaxLength \in Nat
  /\ PipeBytes \in Nat \ {0} /\ MaxEvents \in Nat

(* ScanControl's RequestsAreAccountedFor bounds what waits; a request is   *)
(* a few bytes and a pipe holds thousands.                                 *)
ASSUME RoomAssumption == RequestRoom \in Nat /\ Window \in 1..RequestRoom

(* The engine crashes; the prefix it sends is too large; a descendant of   *)
(* the engine keeps stdout open after it.                                  *)
ASSUME FaultsAssumption == Faults \subseteq {"crash", "corrupt", "helper"}

VARIABLES
  (* the engine *)
  engine,       \* "running", "exited" by itself or "died"
  due,          \* the events still to be written for the request it serves
  fresh,        \* none of them has been begun
  events,       \* the events written, the last one perhaps in part
  cursor,       \* the bytes written of the event it is writing
  helper,       \* somebody else has stdout open
  (* the pipes *)
  stdin, stdinOpen,
  stdout,       \* the bytes: <<event, position>>
  (* the decoder thread *)
  decoder,      \* "reading", "sending" or "ended"
  partial,      \* the bytes of the frame it is reading
  result,       \* what read_frame returned
  (* the channel *)
  frames,
  (* the session *)
  pc,           \* where the client is in its session
  outstanding,  \* the requests whose first event it has not seen
  taken,        \* the frames it has accepted
  report        \* how the session ended

engineVars == <<engine, due, fresh, events, cursor, helper>>
pipeVars == <<stdin, stdinOpen, stdout>>
decoderVars == <<decoder, partial, result>>
sessionVars == <<pc, outstanding, taken, report>>

vars == <<engineVars, pipeVars, decoderVars, frames, sessionVars>>

Oversized == MaxLength + 1
FrameCapacity == 1

NoResult == [type |-> "none"]
CleanEof == [type |-> "eof"]
Frame(bytes) == [type |-> "frame", bytes |-> bytes]
Failure(why) == [type |-> "error", why |-> why]

(* An event: the length its prefix tells, and whether it is the verdict on *)
(* a request, which comes before anything else about it.                   *)
Event(length, verdict) == [length |-> length, verdict |-> verdict]

(* The bytes of an event's frame. *)
Bytes(n) == [i \in 1..(PrefixBytes + events[n].length) |-> <<n, i>>]

Init ==
  /\ engine = "running" /\ due = 0 /\ fresh = FALSE /\ events = <<>> /\ cursor = 0
  /\ helper = ("helper" \in Faults)
  /\ stdin = 0 /\ stdinOpen = TRUE /\ stdout = <<>>
  /\ decoder = "reading" /\ partial = <<>> /\ result = NoResult
  /\ frames = <<>>
  /\ pc = "idle" /\ outstanding = 0 /\ taken = <<>> /\ report = "none"

-----------------------------------------------------------------------------
(* The engine's only thread: runReadyLoop and FrameCodec.write.            *)

(* It is in the middle of a frame, or between two of them. *)
Writing == cursor > 0
Current == Len(events)

ServeRequest ==
  /\ engine = "running" /\ due = 0 /\ stdin > 0
  /\ stdin' = stdin - 1
  /\ due' \in 1..2 /\ fresh' = TRUE
  /\ Len(events) + due' <= MaxEvents
  /\ UNCHANGED <<engine, events, cursor, helper, stdinOpen, stdout, decoderVars, frames,
                 sessionVars>>

(* An event is encoded: its length is known before the first byte goes. *)
BeginFrame ==
  /\ engine = "running" /\ due > 0 /\ ~Writing /\ decoder # "ended"
  /\ \E n \in 0..MaxLength \cup (IF "corrupt" \in Faults THEN {Oversized} ELSE {}) :
       events' = Append(events, Event(n, fresh))
  /\ fresh' = FALSE
  /\ stdout' = Append(stdout, <<Len(events'), 1>>)
  /\ Len(stdout') <= PipeBytes
  /\ cursor' = 1
  /\ UNCHANGED <<engine, due, helper, stdin, stdinOpen, decoderVars, frames, sessionVars>>

(* A write takes as much as fits; a full pipe blocks the engine. *)
WriteBytes ==
  /\ engine = "running" /\ Writing /\ decoder # "ended"
  /\ \E k \in 1..(PipeBytes - Len(stdout)) :
       /\ cursor + k <= Len(Bytes(Current))
       /\ stdout' = stdout \o SubSeq(Bytes(Current), cursor + 1, cursor + k)
       /\ cursor' = cursor + k
  /\ UNCHANGED <<engine, due, fresh, events, helper, stdin, stdinOpen, decoderVars, frames,
                 sessionVars>>

EndFrame ==
  /\ engine = "running" /\ Writing /\ cursor = Len(Bytes(Current))
  /\ cursor' = 0 /\ due' = due - 1
  /\ UNCHANGED <<engine, fresh, events, helper, pipeVars, decoderVars, frames, sessionVars>>

EngineEnds(how) ==
  /\ engine = "running"
  /\ engine' = how
  /\ UNCHANGED <<due, fresh, events, cursor, helper, pipeVars, decoderVars, frames>>

(* The end of its input, or of a scan that was cancelled. *)
Exit ==
  /\ due = 0 /\ ((stdin = 0 /\ ~stdinOpen) \/ events # <<>>)
  /\ EngineEnds("exited") /\ UNCHANGED sessionVars

(* It crashes, or writes to a pipe that nobody reads any more. *)
Die ==
  /\ "crash" \in Faults \/ (decoder = "ended" /\ due > 0)
  /\ EngineEnds("died") /\ UNCHANGED sessionVars

HelperEnds ==
  /\ helper
  /\ helper' = FALSE
  /\ UNCHANGED <<engine, due, fresh, events, cursor, pipeVars, decoderVars, frames, sessionVars>>

StdoutClosed == engine # "running" /\ ~helper

-----------------------------------------------------------------------------
(* The decoder thread: read_frame in a loop.                               *)

(* What the prefix at hand tells. *)
Told == events[partial[1][1]].length

(* read_until_eof fills the prefix first, then a buffer of its length. *)
Missing ==
  IF Len(partial) < PrefixBytes THEN PrefixBytes - Len(partial)
  ELSE PrefixBytes + Told - Len(partial)

TooLong == Len(partial) >= PrefixBytes /\ Told > MaxLength

ReadBytes ==
  /\ decoder = "reading" /\ stdout # <<>> /\ ~TooLong
  /\ \E k \in 1..Missing :
       /\ k <= Len(stdout)
       /\ partial' = partial \o SubSeq(stdout, 1, k)
       /\ stdout' = SubSeq(stdout, k + 1, Len(stdout))
  /\ UNCHANGED <<engineVars, stdin, stdinOpen, decoder, result, frames, sessionVars>>

MutantAtEof ==
  IF Len(partial) < PrefixBytes THEN CleanEof ELSE Failure("truncatedPayload")

(* The end of the file is clean only where a frame would begin. *)
AtEof ==
  IF partial = <<>> THEN CleanEof
  ELSE IF Len(partial) < PrefixBytes THEN Failure("truncatedPrefix")
  ELSE Failure("truncatedPayload")

ReadFrame ==
  /\ decoder = "reading"
  /\ \/ TooLong /\ result' = Failure("oversized")
     \/ ~TooLong /\ partial # <<>> /\ Missing = 0 /\ result' = Frame(partial)
     \/ ~TooLong /\ Missing > 0 /\ stdout = <<>> /\ StdoutClosed /\ result' = AtEof
  /\ decoder' = "sending" /\ partial' = <<>>
  /\ UNCHANGED <<engineVars, pipeVars, frames, sessionVars>>

MutantSendResult ==
  /\ decoder = "sending" /\ Len(frames) < FrameCapacity
  /\ frames' = Append(frames, result)
  /\ decoder' = IF result.type = "frame" /\ pc # "dropped" THEN "reading" ELSE "ended"
  /\ result' = NoResult
  /\ UNCHANGED <<engineVars, pipeVars, partial, sessionVars>>

(* The send blocks until there is room or the session is gone. *)
SendResult ==
  /\ decoder = "sending"
  /\ \/ /\ pc # "dropped" /\ Len(frames) < FrameCapacity
        /\ frames' = Append(frames, result)
        /\ decoder' = IF result.type = "frame" THEN "reading" ELSE "ended"
     \/ pc = "dropped" /\ decoder' = "ended" /\ UNCHANGED frames
  /\ result' = NoResult
  /\ UNCHANGED <<engineVars, pipeVars, partial, sessionVars>>

-----------------------------------------------------------------------------
(* The session.                                                            *)

Fail(why) == pc' = "closing" /\ report' = why /\ UNCHANGED <<outstanding, taken>>

(* write_envelope, which has no deadline. *)
BeginWrite ==
  /\ pc = "idle" /\ outstanding < Window
  /\ pc' = "writing"
  /\ UNCHANGED <<engineVars, pipeVars, decoderVars, frames, outstanding, taken, report>>

Write ==
  /\ pc = "writing"
  /\ \/ /\ engine = "running" /\ stdin < RequestRoom
        /\ stdin' = stdin + 1
        /\ pc' = "idle" /\ outstanding' = outstanding + 1
        /\ UNCHANGED <<taken, report>>
     \/ engine # "running" /\ Fail("brokenPipe") /\ UNCHANGED stdin
  /\ UNCHANGED <<engineVars, stdinOpen, stdout, decoderVars, frames>>

(* read_engine_event_with_timeout *)
BeginRead ==
  /\ pc = "idle"
  /\ pc' = "receiving"
  /\ UNCHANGED <<engineVars, pipeVars, decoderVars, frames, outstanding, taken, report>>

(* Events are numbered on from the last one; no error leaves the session   *)
(* in use.                                                                 *)
Receive ==
  /\ pc = "receiving" /\ frames # <<>>
  /\ frames' = Tail(frames)
  /\ LET received == Head(frames) IN
     \/ /\ received.type = "frame"
        /\ received.bytes[1][1] = Len(taken) + 1
        /\ taken' = Append(taken, received.bytes)
        /\ outstanding' = IF events[Len(taken')].verdict THEN outstanding - 1 ELSE outstanding
        /\ pc' = "idle" /\ UNCHANGED report
     \/ /\ received.type = "frame" /\ received.bytes[1][1] # Len(taken) + 1
        /\ Fail("eventSequenceMismatch")
     \/ received.type = "error" /\ Fail(received.why)
     \/ received.type = "eof" /\ Fail(IF engine = "running" THEN "cleanEof" ELSE "engineFailure")
  /\ UNCHANGED <<engineVars, pipeVars, decoderVars>>

(* The caller tries again later; nothing is lost by it. *)
ReceiveTimesOut ==
  /\ pc = "receiving" /\ frames = <<>> /\ decoder # "ended"
  /\ pc' = "idle"
  /\ UNCHANGED <<engineVars, pipeVars, decoderVars, frames, outstanding, taken, report>>

(* shutdown *)
Shutdown ==
  /\ pc = "idle"
  /\ pc' = "closing"
  /\ UNCHANGED <<engineVars, pipeVars, decoderVars, frames, outstanding, taken, report>>

CloseStdin ==
  /\ pc = "closing"
  /\ stdinOpen' = FALSE /\ pc' = "reaping"
  /\ UNCHANGED <<engineVars, stdin, stdout, decoderVars, frames, outstanding, taken, report>>

(* wait_or_terminate.  A session that failed is only dropped. *)
Reap ==
  /\ pc = "reaping" /\ engine # "running"
  /\ pc' = IF report = "none" THEN "draining" ELSE "dropped"
  /\ UNCHANGED <<engineVars, pipeVars, decoderVars, frames, outstanding, taken, report>>

Kill ==
  /\ pc = "reaping"
  /\ EngineEnds("died") /\ UNCHANGED sessionVars

(* drain_stdout *)
Drained ==
  IF frames = <<>> THEN "drainTimeout"
  ELSE IF Head(frames).type = "frame" THEN "extraFrame"
  ELSE IF Head(frames).type = "error" THEN Head(frames).why
  ELSE "clean"

(* The last word of shutdown: stdout must end, and the engine must have    *)
(* ended well.                                                             *)
Drain ==
  /\ pc = "draining"
  /\ pc' = "dropped" /\ frames' = <<>>
  /\ report' = IF Drained # "clean" THEN Drained
               ELSE IF engine = "exited" THEN "ok" ELSE "engineFailure"
  /\ UNCHANGED <<engineVars, pipeVars, decoderVars, outstanding, taken>>

-----------------------------------------------------------------------------
SessionContinues ==
  Write \/ Receive \/ ReceiveTimesOut \/ CloseStdin \/ Reap \/ Kill \/ Drain

DecoderContinues == ReadBytes \/ ReadFrame \/ SendResult

EngineStep ==
  ServeRequest \/ BeginFrame \/ WriteBytes \/ EndFrame \/ Exit \/ Die \/ HelperEnds

Next ==
  \/ BeginWrite \/ BeginRead \/ Shutdown
  \/ SessionContinues
  \/ DecoderContinues
  \/ EngineStep
  \/ pc = "dropped" /\ UNCHANGED vars

(* A call that has begun goes on, and so does the decoder; nobody has to   *)
(* make a call, and the engine may hang.                                   *)
Spec == Init /\ [][Next]_vars /\ WF_vars(SessionContinues) /\ WF_vars(DecoderContinues)

-----------------------------------------------------------------------------
(* Each variable stays within its type. *)
Byte == (1..MaxEvents) \X (1..(PrefixBytes + Oversized))
Results ==
  [type : {"none", "eof"}] \cup [type : {"frame"}, bytes : Seq(Byte)]
  \cup [type : {"error"}, why : {"oversized", "truncatedPrefix", "truncatedPayload"}]

TypeOK ==
  /\ engine \in {"running", "exited", "died"} /\ due \in 0..2 /\ fresh \in BOOLEAN
  /\ events \in Seq([length : 0..Oversized, verdict : BOOLEAN])
  /\ cursor \in 0..(PrefixBytes + Oversized) /\ helper \in BOOLEAN
  /\ stdin \in 0..RequestRoom /\ stdinOpen \in BOOLEAN
  /\ stdout \in Seq(Byte) /\ Len(stdout) <= PipeBytes
  /\ decoder \in {"reading", "sending", "ended"}
  /\ partial \in Seq(Byte) /\ result \in Results
  /\ frames \in Seq(Results) /\ Len(frames) <= FrameCapacity
  /\ pc \in {"idle", "writing", "receiving", "closing", "reaping", "draining", "dropped"}
  /\ outstanding \in 0..Window /\ taken \in Seq(Seq(Byte))

(* What the decoder has made of the bytes and the session may yet see.     *)
Decoded ==
  IF pc = "dropped" THEN <<>>
  ELSE frames \o (IF decoder = "sending" THEN <<result>> ELSE <<>>)

(* However the bytes are cut on their way and wherever the engine dies,    *)
(* the client gets the first frames the engine wrote, whole and in order,  *)
(* and a clean end only behind the last byte of the last one.  A shutdown  *)
(* that succeeds has seen all the engine ever said, and the engine ended   *)
(* of its own accord.                                                      *)
FramesArriveWhole ==
  /\ Len(taken) <= Len(events)
  /\ \A n \in DOMAIN taken : taken[n] = Bytes(n)
  /\ \A i \in DOMAIN Decoded :
       LET n == Len(taken) + i IN
       /\ Decoded[i].type = "frame" => n <= Len(events) /\ Decoded[i].bytes = Bytes(n)
       /\ Decoded[i] = CleanEof => StdoutClosed /\ n = Len(events) + 1
  /\ report # "eventSequenceMismatch"
  /\ report = "ok" => engine = "exited" /\ Len(taken) = Len(events) /\ stdout = <<>>

(* No call of the session hangs, neither on an engine that hangs nor on    *)
(* one that is itself blocked on a client that does not read: a write      *)
(* finds room because only few requests wait for their verdict.  And the   *)
(* decoder's thread ends with its session, be it in the middle of a frame, *)
(* blocked on the full channel or waiting for bytes, once everybody has    *)
(* closed stdout.                                                          *)
NobodyHangs ==
  /\ pc \notin {"idle", "dropped"} ~> pc \in {"idle", "dropped"}
  /\ pc = "dropped" /\ StdoutClosed ~> decoder = "ended"
=============================================================================
