-------------------------- MODULE ScanControlProofs --------------------------
(***************************************************************************)
(* The running program, for any keys pressed at any time, any capacity of  *)
(* the queue and any subset of the faults: requests and replies cross in   *)
(* the pipes, yet the two sides never drift apart, no correct engine is    *)
(* taken for a faulty one, no request is lost or answered twice, and what  *)
(* the end reports is so.                                                  *)
(***************************************************************************)
EXTENDS ScanControl, SequenceTheorems, FiniteSetTheorems, TLAPS

-----------------------------------------------------------------------------
(* What is under way.                                                      *)

(* The driver has met neither an error, nor the end, nor a stop.           *)
Live == {"connecting", "starting", "draining", "reading", "sending"}

(* Whoever is still to reduce them, no event has been dropped.             *)
Connected == ~receiverClosed \/ driver \in Live

Resting == {"idle", "running", "paused", "planReady", "cancelled"}

Plans == PlanId \cup {NoPlan}
Bodies ==
  {"accepted", "rejected", "stateChanged", "progress", "planReady", "planInvalidated",
   "scanCancelled", "empty"}
Messages ==
  [body : Bodies, kind : ControlKind \cup {Absent}, state : ScanState \cup {Absent},
   code : RejectCode \cup {Absent}, plan : Plans]
Events == [seq : 0..MaxU64, req : 0..MaxU64, msg : Messages]
Requests == [id : 1..MaxU64, kind : ControlKind]
Commands == [command : {"control"}, id : 1..MaxU64, kind : ControlKind] \cup {Ui!StopDriver}
Items ==
  [type : {"engine"}, delivery : [event : Events, skipped : {0}]]
  \cup [type : {"exited"}, ok : BOOLEAN]

IsVerdict(e) == e.msg.body \in Acknowledgement
IsControl(c) == c.command = "control"

(* The request an event is the verdict on, and the one a command carries.  *)
Answered(e) == Ui!Request(e.req, e.msg.kind)
Carried(c) == Ui!Request(c.id, c.kind)

(* The requests whose verdict is in f, that are in the pipe q, and that    *)
(* are in the channel c.                                                   *)
AnsweredIn(f) == { Answered(f[i]) : i \in { j \in 1..Len(f) : IsVerdict(f[j]) } }
WrittenIn(q) == { q[i] : i \in 1..Len(q) }
CarriedIn(c) == { Carried(c[i]) : i \in { j \in 1..Len(c) : IsControl(c[j]) } }

(* Requests are served first in, first out: their ids ascend.              *)
AscendingVerdicts(f) ==
  \A i, j \in 1..Len(f) : i < j /\ IsVerdict(f[i]) /\ IsVerdict(f[j]) => f[i].req < f[j].req
AscendingRequests(q) ==
  \A i, j \in 1..Len(q) : i < j => q[i].id < q[j].id
AscendingCommands(c) ==
  \A i, j \in 1..Len(c) : i < j /\ IsControl(c[i]) /\ IsControl(c[j]) => c[i].id < c[j].id
Before(R, S) == \A r \in R, s \in S : r.id < s.id

Ascending(f, q, c) ==
  /\ AscendingVerdicts(f) /\ AscendingRequests(q) /\ AscendingCommands(c)
  /\ Before(AnsweredIn(f), WrittenIn(q))
  /\ Before(AnsweredIn(f), CarriedIn(c))
  /\ Before(WrittenIn(q), CarriedIn(c))

UnderWay(f, q, c) == AnsweredIn(f) \cup WrittenIn(q) \cup CarriedIn(c)

(* What the reducer knows of the scan, and what an event tells it.         *)
Reader(a, s, p) == [active |-> a, scan |-> s, plan |-> p]
Actives ==
  [id : 0..MaxU64, kind : ControlKind \cup {Absent}, phase : Ui!Phase \cup {Absent}]
Readers ==
  [active : Actives, scan : ScanState, plan : Plans]
Shown == Reader(active, scanState, provisionalPlan)

InPhase(v, p) == [v.active EXCEPT !.phase = p]
IsOwn(v, e) == v.active # Ui!NoActive /\ e.req # 0 /\ e.req = v.active.id

PhaseOnceAccepted(k, p) ==
  IF k = "resume"
  THEN IF p = NoPlan THEN "awaitingResumeState" ELSE "awaitingInvalidation"
  ELSE "awaitingStateConfirmation"

Takes(v, e, w) ==
  \/ /\ e.msg.body = "accepted"
     /\ Ui!AcceptedTransition(e.msg.kind, v.scan, e.msg.state)
     /\ w = Reader(Ui!Active(e.req, e.msg.kind, PhaseOnceAccepted(e.msg.kind, v.plan)),
                   e.msg.state, v.plan)
  \/ /\ e.msg.body = "rejected" /\ e.msg.code \in RejectCode /\ e.msg.state = v.scan
     /\ w = v
  \/ /\ e.msg.body = "stateChanged" /\ IsOwn(v, e)
     /\ \E p \in Ui!Phase :
          /\ <<v.active.kind, v.active.phase, v.scan, e.msg.state, p>> \in Ui!PhaseTable
          /\ w = Reader(InPhase(v, p), e.msg.state, v.plan)
  \/ /\ e.msg.body = "progress" /\ IsOwn(v, e) /\ v.scan = "running"
     /\ <<v.active.kind, v.active.phase>> \in
          {<<"start", "steady">>, <<"resume", "awaitingResumeProgress">>, <<"resume", "steady">>}
     /\ w = Reader(InPhase(v, "steady"), v.scan, v.plan)
  \/ /\ e.msg.body = "planReady" /\ IsOwn(v, e)
     /\ v.active.kind = "build" /\ v.active.phase = "awaitingPlanProjection"
     /\ v.scan = "planReady" /\ v.plan = NoPlan /\ e.msg.plan # EmptyPlanId
     /\ w = Reader(InPhase(v, "steady"), v.scan, e.msg.plan)
  \/ /\ e.msg.body = "planInvalidated" /\ IsOwn(v, e)
     /\ v.active.kind = "resume" /\ v.active.phase = "awaitingInvalidation"
     /\ v.plan # NoPlan /\ e.msg.plan = v.plan
     /\ w = Reader(InPhase(v, "awaitingResumeState"), v.scan, NoPlan)
  \/ /\ e.msg.body = "scanCancelled" /\ IsOwn(v, e)
     /\ v.active.kind = "cancel" /\ v.active.phase = "awaitingCancelledTerminal"
     /\ v.scan = "cancelled"
     /\ w = v

(* The events f, one after the other, lead a reader from v to w.           *)
Leads(f, v, w) ==
  \E p \in [0..Len(f) -> Readers] :
    /\ p[0] = v /\ p[Len(f)] = w
    /\ \A i \in 1..Len(f) : Takes(p[i - 1], f[i], p[i])

(* f is numbered from m + 1 to n. *)
Numbers(f, m, n) == Len(f) = n - m /\ \A i \in 1..Len(f) : f[i].seq = m + i

(* No two events of progress in a row. *)
Progress(e) == e.msg.body = "progress"
Unmerged(f) == \A i \in 1..Len(f) : i + 1 \in 1..Len(f) => ~(Progress(f[i]) /\ Progress(f[i + 1]))

-----------------------------------------------------------------------------
(* The invariant.                                                          *)

TypeOK ==
  /\ scanState \in ScanState /\ provisionalPlan \in Plans
  /\ active \in Actives
  /\ pending \in SUBSET Requests /\ nextRequestId \in 2..MaxU64
  /\ terminal \in Ui!Terminal /\ driverExited \in BOOLEAN
  /\ lastEventSequence \in 0..MaxU64
  /\ commands \in Seq(Commands) /\ driverListens \in BOOLEAN
  /\ ui \in {"entering", "running", "leaving", "stopping", "joining", "done"}
  /\ driver \in Live \cup {"closing", "waiting", "leaving", "reporting", "done"}
  /\ held \in Events /\ driverOk \in BOOLEAN
  /\ queue \in Seq(Items) /\ receiverClosed \in BOOLEAN
  /\ stdin \in Seq(Requests) /\ stdout \in Seq(Events)
  /\ state \in Resting /\ eventSequence \in 0..MaxU64 /\ provisionalPlanID \in Plans
  /\ returned \in Seq(Events) /\ trapped \in BOOLEAN
  /\ engine \in {"absent", "running", "exited", "died", "killed"}

(* Where the two threads and the process are. *)
Places ==
  /\ receiverClosed <=> ui \in {"stopping", "joining", "done"}
  /\ ui = "done" => driver = "done"
  /\ driver \in {"connecting", "leaving", "reporting", "done"} => engine # "running"
  /\ driver = "connecting" => engine = "absent"
  /\ driverListens <=> driver \notin {"reporting", "done"}
  /\ trapped => engine = "died"
  /\ driver \in {"leaving", "reporting"} /\ driverOk => engine = "exited"
  /\ \A n \in 1..Len(queue) : queue[n].type = "exited" =>
       n = Len(queue) /\ driver = "done" /\ (queue[n].ok => engine = "exited")

TerminalKept ==
  /\ guard \in {Terminal!NoGuard, Terminal!Entered} /\ forsaken = FALSE
  /\ receiverClosed => guard = Terminal!NoGuard

(* Each request under way is pending, in the order of the ids; ... *)
InOrder ==
  /\ \A r \in pending : r.id < nextRequestId
  /\ Connected => /\ Ascending(InFlight, stdin, commands)
                  /\ UnderWay(InFlight, stdin, commands) \subseteq pending

(* ... each pending one is under way, or still to be sent; ... *)
Unsent == IF driver \in {"connecting", "starting"} THEN {Ui!Request(1, "start")} ELSE {}
NoneForgotten ==
  /\ terminal = "none" /\ ~trapped /\ driver \in Live =>
       pending = Unsent \cup UnderWay(InFlight, stdin, commands)
  /\ driver \in {"connecting", "starting"} =>
       /\ InFlight = <<>> /\ stdin = <<>>
       /\ Unsent \subseteq pending /\ Before(Unsent, CarriedIn(commands))

(* ... and what is in flight leads the reader to where the engine is. *)
Followed ==
  /\ Connected => Unmerged(InFlight)
  /\ Connected /\ terminal = "none" =>
       /\ Numbers(InFlight, lastEventSequence, eventSequence)
       /\ \E end \in Readers :
            /\ Leads(InFlight, Shown, end)
            /\ ~trapped => end.scan = state /\ end.plan = provisionalPlanID
       /\ \A i \in 1..Len(InFlight) : InFlight[i].msg.body = "scanCancelled" =>
            i = Len(InFlight) /\ state = "cancelled" /\ ~trapped

PlanAtRest == provisionalPlanID # NoPlan => state \in {"planReady", "cancelled"}

Outcome ==
  /\ terminal \in {"none", "cancelled", "failed"}
  /\ driverExited => terminal # "none"
  /\ terminal = "failed" => driverExited \/ nextRequestId = MaxU64
  /\ terminal = "cancelled" =>
       state = "cancelled" /\ InFlight = <<>> /\ lastEventSequence = eventSequence
  /\ terminal = "cancelled" /\ driverExited => engine = "exited"

ControlInv ==
  /\ TypeOK /\ Places /\ TerminalKept /\ InOrder /\ NoneForgotten
  /\ Followed /\ PlanAtRest /\ Outcome

-----------------------------------------------------------------------------
(* Sequences, as the lemmas below use them.                                *)

(* All that is needed of a sequence's tail. *)
LEMMA TailAt ==
  ASSUME NEW S, NEW q \in Seq(S), q # <<>>
  PROVE  /\ Head(q) \in S /\ Head(q) = q[1] /\ Tail(q) \in Seq(S)
         /\ Len(q) \in Nat /\ Len(q) >= 1
         /\ Len(Tail(q)) = Len(q) - 1
         /\ \A i \in 1..(Len(q) - 1) : Tail(q)[i] = q[i + 1]
<1>1. Len(q) \in Nat /\ Len(q) >= 1
  BY EmptySeq, LenProperties
<1>2. QED
  BY <1>1, HeadTailProperties

(* All that is needed of a concatenation. *)
LEMMA ConcatAt ==
  ASSUME NEW S, NEW q \in Seq(S), NEW r \in Seq(S)
  PROVE  /\ q \o r \in Seq(S)
         /\ Len(q) \in Nat /\ Len(r) \in Nat
         /\ Len(q \o r) = Len(q) + Len(r)
         /\ \A i \in 1..Len(q) : (q \o r)[i] = q[i]
         /\ \A i \in 1..Len(r) : (q \o r)[Len(q) + i] = r[i]
<1>1. Len(q) \in Nat /\ Len(r) \in Nat
  BY LenProperties
<1>2. q \o r \in Seq(S) /\ Len(q \o r) = Len(q) + Len(r)
  BY ConcatProperties
<1>3. \A i \in 1..(Len(q) + Len(r)) :
        (q \o r)[i] = IF i <= Len(q) THEN q[i] ELSE r[i - Len(q)]
  BY ConcatProperties
<1>4. ASSUME NEW i \in 1..Len(r) PROVE (q \o r)[Len(q) + i] = r[i]
  <2>1. Len(q) + i \in 1..(Len(q) + Len(r)) /\ ~(Len(q) + i <= Len(q))
    BY <1>1
  <2>2. Len(q) + i - Len(q) = i
    BY <1>1
  <2>3. QED
    BY <1>3, <2>1, <2>2
<1>5. ASSUME NEW i \in 1..Len(q) PROVE (q \o r)[i] = q[i]
  BY <1>1, <1>3
<1>6. QED
  BY <1>1, <1>2, <1>4, <1>5

(* A sequence followed by one element. *)
LEMMA AppendAt ==
  ASSUME NEW S, NEW q \in Seq(S), NEW x \in S
  PROVE  /\ Append(q, x) \in Seq(S) /\ Append(q, x) = q \o <<x>>
         /\ Len(q) \in Nat /\ Len(Append(q, x)) = Len(q) + 1
         /\ \A i \in 1..Len(q) : Append(q, x)[i] = q[i]
         /\ Append(q, x)[Len(q) + 1] = x
  BY AppendProperties, LenProperties, AppendIsConcat

(* The first element goes with the rest. *)
LEMMA HeadAndTail ==
  ASSUME NEW S, NEW q \in Seq(S), q # <<>>
  PROVE  q = <<Head(q)>> \o Tail(q)
  BY TailAt, HeadTailProperties, ConcatProperties

(* What is taken off the front of a concatenation. *)
LEMMA TailOfConcat ==
  ASSUME NEW S, NEW q \in Seq(S), NEW r \in Seq(S), q # <<>>
  PROVE  /\ Head(q \o r) = Head(q) /\ Tail(q \o r) = Tail(q) \o r
         /\ q \o r # <<>>
<1>1. q = <<Head(q)>> \o Tail(q) /\ Tail(q) \in Seq(S) /\ Head(q) \in S
  BY HeadAndTail, TailAt
<1>2. <<Head(q)>> \in Seq(S)
  BY <1>1
<1>3. q \o r = <<Head(q)>> \o (Tail(q) \o r)
  BY <1>1, <1>2, ConcatAssociative
<1>4. Tail(q) \o r \in Seq(S)
  BY <1>1, ConcatAt
<1> DEFINE t == Tail(q) \o r
           h == Head(q)
<1>5. h \in S /\ t \in Seq(S)
  BY <1>1, <1>4
<1> HIDE DEF t, h
<1>6. Head(<<h>> \o t) = h /\ Tail(<<h>> \o t) = t /\ <<h>> \o t # <<>>
  BY <1>5
<1>7. QED
  BY <1>3, <1>6 DEF t, h


-----------------------------------------------------------------------------
(* The requests under way, as events and commands come and go.             *)

(* An event that leaves takes the request it answers along. *)
LEMMA AnsweredOnce ==
  ASSUME NEW f \in Seq(Events), f # <<>>
  PROVE  /\ IsVerdict(Head(f)) => AnsweredIn(f) = {Answered(Head(f))} \cup AnsweredIn(Tail(f))
         /\ ~IsVerdict(Head(f)) => AnsweredIn(f) = AnsweredIn(Tail(f))
         /\ AscendingVerdicts(f) =>
              /\ AscendingVerdicts(Tail(f))
              /\ IsVerdict(Head(f)) => Before({Answered(Head(f))}, AnsweredIn(Tail(f)))
<1> DEFINE g == Tail(f)
           n == Len(f)
<1>1. /\ Head(f) = f[1] /\ n \in Nat /\ n >= 1 /\ Len(g) = n - 1
      /\ \A i \in 1..(n - 1) : g[i] = f[i + 1]
  BY TailAt
<1> HIDE DEF g, n
<1>2. ASSUME NEW r
      PROVE  r \in AnsweredIn(f) <=>
               r \in AnsweredIn(g) \/ (IsVerdict(f[1]) /\ r = Answered(f[1]))
  <2>1. ASSUME r \in AnsweredIn(f)
        PROVE  r \in AnsweredIn(g) \/ (IsVerdict(f[1]) /\ r = Answered(f[1]))
    <3>1. PICK i \in 1..n : IsVerdict(f[i]) /\ r = Answered(f[i])
      BY <2>1 DEF AnsweredIn, n
    <3>2. CASE i = 1
      BY <3>1, <3>2
    <3>3. CASE i # 1
      <4>1. i - 1 \in 1..(n - 1) /\ i - 1 + 1 = i
        BY <1>1, <3>3
      <4>2. g[i - 1] = f[i]
        BY <1>1, <4>1
      <4>3. QED
        BY <1>1, <3>1, <4>1, <4>2 DEF AnsweredIn
    <3>4. QED
      BY <3>2, <3>3
  <2>2. ASSUME r \in AnsweredIn(g) PROVE r \in AnsweredIn(f)
    <3>1. PICK i \in 1..(n - 1) : IsVerdict(g[i]) /\ r = Answered(g[i])
      BY <1>1, <2>2 DEF AnsweredIn
    <3>2. i + 1 \in 1..n /\ g[i] = f[i + 1]
      BY <1>1
    <3>3. QED
      BY <3>1, <3>2 DEF AnsweredIn, n
  <2>3. ASSUME IsVerdict(f[1]), r = Answered(f[1]) PROVE r \in AnsweredIn(f)
    <3>1. 1 \in 1..n
      BY <1>1
    <3>2. QED
      BY <2>3, <3>1 DEF AnsweredIn, n
  <2>4. QED
    BY <2>1, <2>2, <2>3
<1>3. ASSUME AscendingVerdicts(f)
      PROVE  /\ AscendingVerdicts(g)
             /\ IsVerdict(f[1]) => Before({Answered(f[1])}, AnsweredIn(g))
  <2>1. ASSUME NEW i \in 1..(n - 1), NEW j \in 1..(n - 1), i < j, IsVerdict(g[i]), IsVerdict(g[j])
        PROVE  g[i].req < g[j].req
    <3>1. i + 1 \in 1..n /\ j + 1 \in 1..n /\ i + 1 < j + 1 /\ g[i] = f[i + 1] /\ g[j] = f[j + 1]
      BY <1>1, <2>1
    <3>2. QED
      BY <1>3, <2>1, <3>1 DEF AscendingVerdicts, n
  <2>2. ASSUME IsVerdict(f[1]), NEW r \in AnsweredIn(g) PROVE Answered(f[1]).id < r.id
    <3>1. PICK i \in 1..(n - 1) : IsVerdict(g[i]) /\ r = Answered(g[i])
      BY <1>1, <2>2 DEF AnsweredIn
    <3>2. 1 \in 1..n /\ i + 1 \in 1..n /\ 1 < i + 1 /\ g[i] = f[i + 1]
      BY <1>1
    <3>3. f[1].req < f[i + 1].req
      BY <1>3, <2>2, <3>1, <3>2 DEF AscendingVerdicts, n
    <3>4. r.id = f[i + 1].req /\ Answered(f[1]).id = f[1].req
      BY <3>1, <3>2 DEF Answered, Ui!Request
    <3>5. QED
      BY <3>3, <3>4
  <2>3. QED
    BY <1>1, <2>1, <2>2 DEF AscendingVerdicts, Before
<1>4. QED
  BY <1>1, <1>2, <1>3 DEF g

(* A reply adds its one verdict. *)
LEMMA AnsweredMore ==
  ASSUME NEW f \in Seq(Events), NEW g \in Seq(Events), g # <<>>,
         IsVerdict(g[1]), \A i \in 2..Len(g) : ~IsVerdict(g[i])
  PROVE  /\ AnsweredIn(f \o g) = AnsweredIn(f) \cup {Answered(g[1])}
         /\ AscendingVerdicts(f) /\ Before(AnsweredIn(f), {Answered(g[1])}) =>
              AscendingVerdicts(f \o g)
<1> DEFINE h == f \o g
           m == Len(f)
           n == Len(g)
<1>1. /\ m \in Nat /\ n \in Nat /\ n >= 1 /\ Len(h) = m + n
      /\ \A i \in 1..m : h[i] = f[i]
      /\ \A i \in 1..n : h[m + i] = g[i]
  BY ConcatAt, TailAt
<1>2. \A i \in 2..n : ~IsVerdict(g[i])
  OBVIOUS
<1> HIDE DEF h, m, n
<1>3. ASSUME NEW i \in 1..Len(h), IsVerdict(h[i])
      PROVE  i \in 1..m + 1 /\ (i \in 1..m => h[i] = f[i]) /\ (i = m + 1 => h[i] = g[1])
  <2>1. CASE i \in 1..m
    BY <1>1, <2>1
  <2>2. CASE i \notin 1..m
    <3>1. i - m \in 1..n /\ m + (i - m) = i
      BY <1>1, <2>2
    <3>2. h[i] = g[i - m]
      BY <1>1, <3>1
    <3>3. i - m = 1
      <4>1. i - m \notin 2..n
        BY <1>2, <1>3, <3>2
      <4>2. QED
        BY <3>1, <4>1, <1>1
    <3>4. QED
      BY <1>1, <3>2, <3>3
  <2>3. QED
    BY <2>1, <2>2
<1>4. ASSUME NEW r
      PROVE  r \in AnsweredIn(h) <=> r \in AnsweredIn(f) \/ r = Answered(g[1])
  <2>1. ASSUME r \in AnsweredIn(h) PROVE r \in AnsweredIn(f) \/ r = Answered(g[1])
    <3>1. PICK i \in 1..Len(h) : IsVerdict(h[i]) /\ r = Answered(h[i])
      BY <2>1 DEF AnsweredIn
    <3>2. i \in 1..m \/ i = m + 1
      BY <1>1, <1>3, <3>1
    <3>3. QED
      BY <1>3, <3>1, <3>2 DEF AnsweredIn, m
  <2>2. ASSUME r \in AnsweredIn(f) PROVE r \in AnsweredIn(h)
    <3>1. PICK i \in 1..m : IsVerdict(f[i]) /\ r = Answered(f[i])
      BY <2>2 DEF AnsweredIn, m
    <3>2. i \in 1..Len(h) /\ h[i] = f[i]
      BY <1>1
    <3>3. QED
      BY <3>1, <3>2 DEF AnsweredIn
  <2>3. ASSUME r = Answered(g[1]) PROVE r \in AnsweredIn(h)
    <3>1. m + 1 \in 1..Len(h) /\ 1 \in 1..n
      BY <1>1
    <3>2. h[m + 1] = g[1]
      BY <1>1, <3>1
    <3>3. QED
      BY <2>3, <3>1, <3>2 DEF AnsweredIn
  <2>4. QED
    BY <2>1, <2>2, <2>3
<1>5. ASSUME AscendingVerdicts(f), Before(AnsweredIn(f), {Answered(g[1])})
      PROVE  AscendingVerdicts(h)
  <2> SUFFICES ASSUME NEW i \in 1..Len(h), NEW j \in 1..Len(h), i < j,
                      IsVerdict(h[i]), IsVerdict(h[j])
               PROVE  h[i].req < h[j].req
    BY DEF AscendingVerdicts
  <2>1. i \in 1..m + 1 /\ j \in 1..m + 1 /\ i \in 1..m
    BY <1>1, <1>3
  <2>2. h[i] = f[i]
    BY <1>3, <2>1
  <2>3. CASE j \in 1..m
    <3>1. h[j] = f[j]
      BY <1>3, <2>3
    <3>2. QED
      BY <1>5, <2>1, <2>2, <2>3, <3>1 DEF AscendingVerdicts, m
  <2>4. CASE j = m + 1
    <3>1. h[j] = g[1]
      BY <1>3, <2>4
    <3>2. Answered(f[i]) \in AnsweredIn(f)
      BY <2>1, <2>2 DEF AnsweredIn, m
    <3>3. Answered(f[i]).id < Answered(g[1]).id
      BY <1>5, <3>2 DEF Before
    <3>4. Answered(f[i]).id = f[i].req /\ Answered(g[1]).id = g[1].req
      BY DEF Answered, Ui!Request
    <3>5. QED
      BY <2>2, <3>1, <3>3, <3>4
  <2>5. QED
    BY <1>1, <2>1, <2>3, <2>4
<1>6. QED
  BY <1>4, <1>5 DEF h

(* A request is read from the pipe, ... *)
LEMMA WrittenOnce ==
  ASSUME NEW q \in Seq(Requests), q # <<>>
  PROVE  /\ WrittenIn(q) = {Head(q)} \cup WrittenIn(Tail(q))
         /\ AscendingRequests(q) =>
              AscendingRequests(Tail(q)) /\ Before({Head(q)}, WrittenIn(Tail(q)))
<1> DEFINE t == Tail(q)
           n == Len(q)
<1>1. /\ Head(q) = q[1] /\ n \in Nat /\ n >= 1 /\ Len(t) = n - 1
      /\ \A i \in 1..(n - 1) : t[i] = q[i + 1]
  BY TailAt
<1> HIDE DEF t, n
<1>2. ASSUME NEW r PROVE r \in WrittenIn(q) <=> r = q[1] \/ r \in WrittenIn(t)
  <2>1. ASSUME r \in WrittenIn(q) PROVE r = q[1] \/ r \in WrittenIn(t)
    <3>1. PICK i \in 1..n : r = q[i]
      BY <2>1 DEF WrittenIn, n
    <3>2. CASE i # 1
      <4>1. i - 1 \in 1..(n - 1) /\ i - 1 + 1 = i
        BY <1>1, <3>2
      <4>2. t[i - 1] = q[i]
        BY <1>1, <4>1
      <4>3. QED
        BY <1>1, <3>1, <4>1, <4>2 DEF WrittenIn
    <3>3. QED
      BY <3>1, <3>2
  <2>2. ASSUME r \in WrittenIn(t) PROVE r \in WrittenIn(q)
    <3>1. PICK i \in 1..(n - 1) : r = t[i]
      BY <1>1, <2>2 DEF WrittenIn
    <3>2. i + 1 \in 1..n /\ t[i] = q[i + 1]
      BY <1>1
    <3>3. QED
      BY <3>1, <3>2 DEF WrittenIn, n
  <2>3. 1 \in 1..n
    BY <1>1
  <2>4. QED
    BY <2>1, <2>2, <2>3 DEF WrittenIn, n
<1>3. ASSUME AscendingRequests(q)
      PROVE  AscendingRequests(t) /\ Before({q[1]}, WrittenIn(t))
  <2>1. ASSUME NEW i \in 1..(n - 1), NEW j \in 1..(n - 1), i < j PROVE t[i].id < t[j].id
    <3>1. i + 1 \in 1..n /\ j + 1 \in 1..n /\ i + 1 < j + 1 /\ t[i] = q[i + 1] /\ t[j] = q[j + 1]
      BY <1>1, <2>1
    <3>2. QED
      BY <1>3, <3>1 DEF AscendingRequests, n
  <2>2. ASSUME NEW r \in WrittenIn(t) PROVE q[1].id < r.id
    <3>1. PICK i \in 1..(n - 1) : r = t[i]
      BY <1>1 DEF WrittenIn
    <3>2. 1 \in 1..n /\ i + 1 \in 1..n /\ 1 < i + 1 /\ t[i] = q[i + 1]
      BY <1>1
    <3>3. QED
      BY <1>3, <3>1, <3>2 DEF AscendingRequests, n
  <2>3. QED
    BY <1>1, <2>1, <2>2 DEF AscendingRequests, Before
<1>4. QED
  BY <1>1, <1>2, <1>3 DEF t

(* ... or written to it behind the others. *)
LEMMA WrittenMore ==
  ASSUME NEW q \in Seq(Requests), NEW r \in Requests
  PROVE  /\ WrittenIn(Append(q, r)) = WrittenIn(q) \cup {r}
         /\ AscendingRequests(q) /\ Before(WrittenIn(q), {r}) => AscendingRequests(Append(q, r))
<1> DEFINE s == Append(q, r)
           n == Len(q)
<1>1. /\ n \in Nat /\ Len(s) = n + 1 /\ s[n + 1] = r
      /\ \A i \in 1..n : s[i] = q[i]
  BY AppendAt
<1> HIDE DEF s, n
<1>2. WrittenIn(s) = WrittenIn(q) \cup {r}
  <2>1. ASSUME NEW i \in 1..Len(s) PROVE i \in 1..n \/ i = n + 1
    BY <1>1
  <2>2. 1..n \subseteq 1..Len(s) /\ n + 1 \in 1..Len(s)
    BY <1>1
  <2>3. ASSUME NEW x PROVE x \in WrittenIn(s) <=> x \in WrittenIn(q) \cup {r}
    <3>1. x \in WrittenIn(s) <=> \E i \in 1..Len(s) : x = s[i]
      BY DEF WrittenIn
    <3>2. x \in WrittenIn(q) <=> \E i \in 1..n : x = q[i]
      BY DEF WrittenIn, n
    <3>3. QED
      BY <1>1, <2>1, <2>2, <3>1, <3>2
  <2>4. QED
    BY <2>3
<1>3. ASSUME AscendingRequests(q), Before(WrittenIn(q), {r}),
             NEW i \in 1..Len(s), NEW j \in 1..Len(s), i < j
      PROVE  s[i].id < s[j].id
  <2>1. i \in 1..n /\ s[i] = q[i]
    BY <1>1, <1>3
  <2>2. CASE j \in 1..n
    BY <1>1, <1>3, <2>1, <2>2 DEF AscendingRequests, n
  <2>3. CASE j = n + 1
    BY <1>1, <1>3, <2>1, <2>3 DEF Before, WrittenIn, n
  <2>4. QED
    BY <1>1, <2>2, <2>3
<1>4. QED
  BY <1>2, <1>3 DEF AscendingRequests, s

(* A command is sent to the driver, ... *)
LEMMA CarriedMore ==
  ASSUME NEW c \in Seq(Commands), NEW x \in Commands
  PROVE  /\ ~IsControl(x) =>
              /\ CarriedIn(Append(c, x)) = CarriedIn(c)
              /\ AscendingCommands(c) => AscendingCommands(Append(c, x))
         /\ IsControl(x) =>
              /\ CarriedIn(Append(c, x)) = CarriedIn(c) \cup {Carried(x)}
              /\ AscendingCommands(c) /\ Before(CarriedIn(c), {Carried(x)}) =>
                   AscendingCommands(Append(c, x))
<1> DEFINE s == Append(c, x)
           n == Len(c)
<1>1. /\ n \in Nat /\ Len(s) = n + 1 /\ s[n + 1] = x
      /\ \A i \in 1..n : s[i] = c[i]
  BY AppendAt
<1> HIDE DEF s, n
<1>2. ASSUME NEW i \in 1..Len(s) PROVE i \in 1..n \/ i = n + 1
  BY <1>1
<1>3. 1..n \subseteq 1..Len(s) /\ n + 1 \in 1..Len(s)
  BY <1>1
<1>4. \A y : y \in CarriedIn(s) <=> \E i \in 1..Len(s) : IsControl(s[i]) /\ y = Carried(s[i])
  BY DEF CarriedIn
<1>5. \A y : y \in CarriedIn(c) <=> \E i \in 1..n : IsControl(c[i]) /\ y = Carried(c[i])
  BY DEF CarriedIn, n
<1>6. ASSUME NEW y
      PROVE  y \in CarriedIn(s) <=> y \in CarriedIn(c) \/ (IsControl(x) /\ y = Carried(x))
  BY <1>1, <1>2, <1>3, <1>4, <1>5
<1>7. ASSUME AscendingCommands(c), IsControl(x) => Before(CarriedIn(c), {Carried(x)}),
             NEW i \in 1..Len(s), NEW j \in 1..Len(s), i < j, IsControl(s[i]), IsControl(s[j])
      PROVE  s[i].id < s[j].id
  <2>1. i \in 1..n /\ s[i] = c[i]
    BY <1>1, <1>7
  <2>2. CASE j \in 1..n
    BY <1>1, <1>7, <2>1, <2>2 DEF AscendingCommands, n
  <2>3. CASE j = n + 1
    <3>1. s[j] = x /\ Carried(c[i]) \in CarriedIn(c)
      BY <1>1, <1>5, <1>7, <2>1, <2>3
    <3>2. Carried(c[i]).id < Carried(x).id
      BY <1>7, <3>1 DEF Before
    <3>3. Carried(c[i]).id = c[i].id /\ Carried(x).id = x.id
      BY DEF Carried, Ui!Request
    <3>4. QED
      BY <2>1, <3>1, <3>2, <3>3
  <2>4. QED
    BY <1>2, <2>2, <2>3
<1>8. ASSUME AscendingCommands(c), IsControl(x) => Before(CarriedIn(c), {Carried(x)})
      PROVE  AscendingCommands(s)
  BY <1>7, <1>8 DEF AscendingCommands
<1>9. QED
  BY <1>6, <1>8 DEF s

(* ... and taken by it. *)
LEMMA CarriedOnce ==
  ASSUME NEW c \in Seq(Commands), c # <<>>
  PROVE  /\ ~IsControl(Head(c)) => CarriedIn(c) = CarriedIn(Tail(c))
         /\ IsControl(Head(c)) => CarriedIn(c) = {Carried(Head(c))} \cup CarriedIn(Tail(c))
         /\ AscendingCommands(c) =>
              /\ AscendingCommands(Tail(c))
              /\ IsControl(Head(c)) => Before({Carried(Head(c))}, CarriedIn(Tail(c)))
<1> DEFINE t == Tail(c)
           n == Len(c)
<1>1. /\ Head(c) = c[1] /\ n \in Nat /\ n >= 1 /\ Len(t) = n - 1
      /\ \A i \in 1..(n - 1) : t[i] = c[i + 1]
  BY TailAt
<1> HIDE DEF t, n
<1>2. \A y : y \in CarriedIn(c) <=> \E i \in 1..n : IsControl(c[i]) /\ y = Carried(c[i])
  BY DEF CarriedIn, n
<1>3. \A y : y \in CarriedIn(t) <=> \E i \in 1..(n - 1) : IsControl(t[i]) /\ y = Carried(t[i])
  BY <1>1 DEF CarriedIn
<1>4. ASSUME NEW i \in 1..(n - 1) PROVE i + 1 \in 1..n /\ t[i] = c[i + 1] /\ 1 < i + 1
  BY <1>1
<1>5. ASSUME NEW i \in 1..n, i # 1 PROVE i - 1 \in 1..(n - 1) /\ t[i - 1] = c[i]
  <2>1. i - 1 \in 1..(n - 1) /\ i - 1 + 1 = i
    BY <1>1, <1>5
  <2>2. QED
    BY <1>1, <2>1
<1>6. 1 \in 1..n
  BY <1>1
<1>7. ASSUME NEW y
      PROVE  y \in CarriedIn(c) <=> y \in CarriedIn(t) \/ (IsControl(c[1]) /\ y = Carried(c[1]))
  <2>1. ASSUME y \in CarriedIn(c)
        PROVE  y \in CarriedIn(t) \/ (IsControl(c[1]) /\ y = Carried(c[1]))
    <3>1. PICK i \in 1..n : IsControl(c[i]) /\ y = Carried(c[i])
      BY <1>2, <2>1
    <3>2. CASE i # 1
      BY <1>3, <1>5, <3>1, <3>2
    <3>3. QED
      BY <3>1, <3>2
  <2>2. ASSUME y \in CarriedIn(t) PROVE y \in CarriedIn(c)
    BY <1>2, <1>3, <1>4, <2>2
  <2>3. QED
    BY <1>2, <1>6, <2>1, <2>2
<1>8. ASSUME AscendingCommands(c)
      PROVE  /\ AscendingCommands(t)
             /\ IsControl(c[1]) => Before({Carried(c[1])}, CarriedIn(t))
  <2>1. ASSUME NEW i \in 1..(n - 1), NEW j \in 1..(n - 1), i < j, IsControl(t[i]), IsControl(t[j])
        PROVE  t[i].id < t[j].id
    <3>1. i + 1 \in 1..n /\ j + 1 \in 1..n /\ i + 1 < j + 1 /\ t[i] = c[i + 1] /\ t[j] = c[j + 1]
      BY <1>1, <2>1
    <3>2. QED
      BY <1>8, <2>1, <3>1 DEF AscendingCommands, n
  <2>2. ASSUME IsControl(c[1]), NEW y \in CarriedIn(t) PROVE Carried(c[1]).id < y.id
    <3>1. PICK i \in 1..(n - 1) : IsControl(t[i]) /\ y = Carried(t[i])
      BY <1>3
    <3>2. c[1].id < c[i + 1].id
      BY <1>4, <1>6, <1>8, <2>2, <3>1 DEF AscendingCommands, n
    <3>3. y.id = c[i + 1].id /\ Carried(c[1]).id = c[1].id
      BY <1>4, <3>1 DEF Carried, Ui!Request
    <3>4. QED
      BY <3>2, <3>3
  <2>3. QED
    BY <1>1, <2>1, <2>2 DEF AscendingCommands, Before
<1>9. QED
  BY <1>1, <1>7, <1>8 DEF t

(* Nothing is under way in empty channels. *)
LEMMA NothingUnderWay ==
  /\ AnsweredIn(<<>>) = {} /\ WrittenIn(<<>>) = {} /\ CarriedIn(<<>>) = {}
  /\ AscendingVerdicts(<<>>) /\ AscendingRequests(<<>>) /\ AscendingCommands(<<>>)
<1>1. Len(<<>>) = 0 /\ 1..0 = {}
  OBVIOUS
<1>2. QED
  BY <1>1 DEF AnsweredIn, WrittenIn, CarriedIn, AscendingVerdicts, AscendingRequests,
              AscendingCommands

-----------------------------------------------------------------------------
(* How events lead a reader on.                                            *)

(* No event leads nowhere. *)
LEMMA LeadsNowhere ==
  ASSUME NEW v \in Readers
  PROVE  Leads(<<>>, v, v)
<1> DEFINE p == [i \in 0..0 |-> v]
<1>1. p \in [0..Len(<<>>) -> Readers] /\ p[0] = v /\ p[Len(<<>>)] = v
  OBVIOUS
<1>2. \A i \in 1..Len(<<>>) : Takes(p[i - 1], <<>>[i], p[i])
  OBVIOUS
<1>3. QED
  BY <1>1, <1>2 DEF Leads

(* The first event leads to where the others start from. *)
LEMMA LeadsFirst ==
  ASSUME NEW f \in Seq(Events), f # <<>>, NEW v, NEW w, Leads(f, v, w)
  PROVE  \E u \in Readers : Takes(v, Head(f), u) /\ Leads(Tail(f), u, w)
<1> DEFINE g == Tail(f)
           n == Len(f)
<1>1. /\ Head(f) = f[1] /\ n \in Nat /\ n >= 1 /\ Len(g) = n - 1
      /\ \A i \in 1..(n - 1) : g[i] = f[i + 1]
  BY TailAt
<1>2. PICK p \in [0..n -> Readers] :
        /\ p[0] = v /\ p[n] = w
        /\ \A i \in 1..n : Takes(p[i - 1], f[i], p[i])
  BY DEF Leads
<1> HIDE DEF g, n
<1> DEFINE q == [i \in 0..(n - 1) |-> p[i + 1]]
<1>3. q \in [0..(n - 1) -> Readers]
  BY <1>1
<1>4. q[0] = p[1] /\ q[n - 1] = w
  <2>1. 0 \in 0..(n - 1) /\ n - 1 \in 0..(n - 1) /\ n - 1 + 1 = n
    BY <1>1
  <2>2. QED
    BY <1>2, <2>1
<1>5. ASSUME NEW i \in 1..(n - 1) PROVE Takes(q[i - 1], g[i], q[i])
  <2>1. i + 1 \in 1..n /\ i + 1 - 1 = i /\ i - 1 \in 0..(n - 1) /\ i \in 0..(n - 1) /\ i - 1 + 1 = i
    BY <1>1
  <2>2. Takes(p[i], f[i + 1], p[i + 1])
    BY <1>2, <2>1
  <2>3. q[i - 1] = p[i] /\ q[i] = p[i + 1] /\ g[i] = f[i + 1]
    BY <1>1, <2>1
  <2>4. QED
    BY <2>2, <2>3
<1>6. p[1] \in Readers /\ Takes(v, f[1], p[1])
  <2>1. 1 \in 1..n /\ 1 \in 0..n /\ 1 - 1 = 0
    BY <1>1
  <2>2. QED
    BY <1>2, <2>1
<1>7. Leads(g, p[1], w)
  BY <1>1, <1>3, <1>4, <1>5 DEF Leads
<1>8. QED
  BY <1>1, <1>6, <1>7 DEF g

(* One leg after another. *)
LEMMA LeadsFurther ==
  ASSUME NEW f \in Seq(Events), NEW g \in Seq(Events), NEW v, NEW u, NEW w,
         Leads(f, v, u), Leads(g, u, w)
  PROVE  Leads(f \o g, v, w)
<1> DEFINE h == f \o g
           m == Len(f)
           n == Len(g)
<1>1. /\ m \in Nat /\ n \in Nat /\ Len(h) = m + n
      /\ \A i \in 1..m : h[i] = f[i]
      /\ \A i \in 1..n : h[m + i] = g[i]
  BY ConcatAt
<1>2. PICK p \in [0..m -> Readers] :
        /\ p[0] = v /\ p[m] = u
        /\ \A i \in 1..m : Takes(p[i - 1], f[i], p[i])
  BY DEF Leads
<1>3. PICK q \in [0..n -> Readers] :
        /\ q[0] = u /\ q[n] = w
        /\ \A i \in 1..n : Takes(q[i - 1], g[i], q[i])
  BY DEF Leads
<1> HIDE DEF h, m, n
<1> DEFINE r == [i \in 0..(m + n) |-> IF i <= m THEN p[i] ELSE q[i - m]]
<1>a. \A i \in 0..(m + n) : r[i] = IF i <= m THEN p[i] ELSE q[i - m]
  OBVIOUS
<1>b. r = [i \in 0..(m + n) |-> r[i]]
  OBVIOUS
<1> HIDE DEF r
<1>4. ASSUME NEW i \in 0..m PROVE i \in 0..(m + n) /\ r[i] = p[i]
  BY <1>1, <1>a
<1>5. ASSUME NEW i \in 0..n PROVE m + i \in 0..(m + n) /\ r[m + i] = q[i]
  <2> DEFINE k == m + i
  <2>1. k \in 0..(m + n) /\ k - m = i
    BY <1>1
  <2> HIDE DEF k
  <2>2. CASE i = 0
    <3>1. m \in 0..m /\ k = m
      BY <1>1, <2>2 DEF k
    <3>2. QED
      BY <1>2, <1>3, <1>4, <2>1, <2>2, <3>1 DEF k
  <2>3. CASE i # 0
    <3>1. ~(k <= m)
      BY <1>1, <2>3 DEF k
    <3>2. r[k] = q[k - m]
      BY <1>a, <2>1, <3>1
    <3>3. QED
      BY <2>1, <3>2 DEF k
  <2>4. QED
    BY <2>1, <2>2, <2>3
<1>6. r \in [0..(m + n) -> Readers]
  <2>1. ASSUME NEW i \in 0..(m + n) PROVE r[i] \in Readers
    <3>1. CASE i <= m
      <4>1. i \in 0..m
        BY <1>1, <3>1
      <4>2. p[i] \in Readers /\ r[i] = p[i]
        BY <1>4, <4>1
      <4>3. QED
        BY <4>2
    <3>2. CASE ~(i <= m)
      <4>1. i - m \in 0..n /\ r[i] = q[i - m]
        BY <1>1, <1>a, <3>2
      <4>2. q[i - m] \in Readers
        BY <4>1
      <4>3. QED
        BY <4>1, <4>2
    <3>3. QED
      BY <3>1, <3>2
  <2>2. QED
    BY <1>b, <2>1
<1>7. r[0] = v /\ r[m + n] = w
  <2>1. 0 \in 0..m /\ n \in 0..n
    BY <1>1
  <2>2. QED
    BY <1>2, <1>3, <1>4, <1>5, <2>1
<1>8. ASSUME NEW i \in 1..(m + n) PROVE Takes(r[i - 1], h[i], r[i])
  <2>1. CASE i <= m
    <3>1. i \in 1..m /\ i \in 0..m /\ i - 1 \in 0..m
      BY <1>1, <2>1
    <3>2. r[i] = p[i] /\ r[i - 1] = p[i - 1] /\ h[i] = f[i]
      BY <1>1, <1>4, <3>1
    <3>3. QED
      BY <1>2, <3>1, <3>2
  <2>2. CASE ~(i <= m)
    <3> DEFINE j == i - m
    <3>1. j \in 1..n /\ j \in 0..n /\ j - 1 \in 0..n /\ m + j = i /\ m + (j - 1) = i - 1
      BY <1>1, <2>2
    <3> HIDE DEF j
    <3>2. r[i] = q[j] /\ r[i - 1] = q[j - 1] /\ h[i] = g[j]
      BY <1>1, <1>5, <3>1
    <3>3. QED
      BY <1>3, <3>1, <3>2
  <2>3. QED
    BY <2>1, <2>2
<1>9. Leads(h, v, w)
  BY <1>1, <1>6, <1>7, <1>8 DEF Leads
<1>10. QED
  BY <1>9 DEF h

(* A single event. *)
LEMMA LeadsOn ==
  ASSUME NEW e, NEW v \in Readers, NEW w \in Readers, Takes(v, e, w)
  PROVE  Leads(<<e>>, v, w)
<1> DEFINE p == [i \in 0..1 |-> IF i = 0 THEN v ELSE w]
<1>1. p \in [0..1 -> Readers] /\ p[0] = v /\ p[1] = w
  OBVIOUS
<1> HIDE DEF p
<1>2. Len(<<e>>) = 1 /\ <<e>>[1] = e
  OBVIOUS
<1>3. ASSUME NEW i \in 1..1 PROVE Takes(p[i - 1], <<e>>[i], p[i])
  <2>1. i = 1 /\ i - 1 = 0
    OBVIOUS
  <2>2. QED
    BY <1>1, <1>2, <2>1
<1>4. QED
  BY <1>1, <1>2, <1>3 DEF Leads

-----------------------------------------------------------------------------
(* Runs of progress.                                                       *)

(* What is left of a stream without runs has none. *)
LEMMA UnmergedRest ==
  ASSUME NEW f \in Seq(Events), f # <<>>, Unmerged(f)
  PROVE  Unmerged(Tail(f))
<1> DEFINE g == Tail(f)
           n == Len(f)
<1>1. /\ n \in Nat /\ n >= 1 /\ Len(g) = n - 1
      /\ \A i \in 1..(n - 1) : g[i] = f[i + 1]
  BY TailAt
<1>2. \A i \in 1..n : i + 1 \in 1..n => ~(Progress(f[i]) /\ Progress(f[i + 1]))
  BY DEF Unmerged
<1> HIDE DEF g, n
<1>3. ASSUME NEW i \in 1..(n - 1), i + 1 \in 1..(n - 1)
      PROVE  ~(Progress(g[i]) /\ Progress(g[i + 1]))
  <2>1. i + 1 \in 1..n /\ i + 1 + 1 \in 1..n /\ g[i] = f[i + 1] /\ g[i + 1] = f[i + 1 + 1]
    BY <1>1, <1>3
  <2>2. QED
    BY <1>2, <2>1
<1>4. QED
  BY <1>1, <1>3 DEF Unmerged, g

(* A reply, which opens with its verdict, starts no run. *)
LEMMA UnmergedMore ==
  ASSUME NEW f \in Seq(Events), NEW g \in Seq(Events), g # <<>>, Unmerged(f), ~Progress(g[1]),
         \A i \in 1..Len(g) : Progress(g[i]) => i = Len(g)
  PROVE  Unmerged(f \o g)
<1> DEFINE h == f \o g
           m == Len(f)
           n == Len(g)
<1>1. /\ m \in Nat /\ n \in Nat /\ n >= 1 /\ Len(h) = m + n
      /\ \A i \in 1..m : h[i] = f[i]
      /\ \A i \in 1..n : h[m + i] = g[i]
  BY ConcatAt, TailAt
<1>2. \A i \in 1..m : i + 1 \in 1..m => ~(Progress(f[i]) /\ Progress(f[i + 1]))
  BY DEF Unmerged
<1>3. \A i \in 1..n : Progress(g[i]) => i = n
  OBVIOUS
<1> HIDE DEF h, m, n
<1>4. ASSUME NEW i \in 1..(m + n), i + 1 \in 1..(m + n), Progress(h[i]), Progress(h[i + 1])
      PROVE  FALSE
  <2>1. CASE i + 1 \in 1..m
    <3>1. i \in 1..m /\ h[i] = f[i] /\ h[i + 1] = f[i + 1]
      BY <1>1, <2>1
    <3>2. QED
      BY <1>2, <1>4, <2>1, <3>1
  <2>2. CASE i = m
    <3>1. h[i + 1] = g[1]
      BY <1>1, <2>2
    <3>2. QED
      BY <1>4, <3>1
  <2>3. CASE i > m
    <3> DEFINE j == i - m
    <3>1. j \in 1..n /\ m + j = i /\ j # n
      BY <1>1, <1>4, <2>3
    <3> HIDE DEF j
    <3>2. h[i] = g[j]
      BY <1>1, <3>1
    <3>3. QED
      BY <1>3, <1>4, <3>1, <3>2
  <2>4. QED
    BY <1>1, <2>1, <2>2, <2>3
<1>5. QED
  BY <1>1, <1>4 DEF Unmerged, h

(* A way through the readers ws. *)
LEMMA LeadsThrough ==
  ASSUME NEW f, NEW v \in Readers, NEW ws \in Seq(Readers), Len(f) = Len(ws), ws # <<>>,
         Takes(v, f[1], ws[1]),
         \A i \in 2..Len(ws) : Takes(ws[i - 1], f[i], ws[i])
  PROVE  Leads(f, v, ws[Len(ws)]) /\ ws[Len(ws)] \in Readers
<1> DEFINE n == Len(ws)
<1>1. n \in Nat /\ n >= 1 /\ Len(f) = n /\ \A i \in 1..n : ws[i] \in Readers
  BY TailAt
<1>2. \A i \in 2..n : Takes(ws[i - 1], f[i], ws[i])
  OBVIOUS
<1> HIDE DEF n
<1> DEFINE p == [i \in 0..n |-> IF i = 0 THEN v ELSE ws[i]]
<1>3. \A i \in 0..n : p[i] = IF i = 0 THEN v ELSE ws[i]
  OBVIOUS
<1>4. p \in [0..n -> Readers]
  BY <1>1
<1> HIDE DEF p
<1>5. p[0] = v /\ p[n] = ws[n] /\ ws[n] \in Readers
  BY <1>1, <1>3
<1>6. ASSUME NEW i \in 1..n PROVE Takes(p[i - 1], f[i], p[i])
  <2>1. p[i] = ws[i]
    BY <1>1, <1>3
  <2>2. CASE i = 1
    <3>1. p[i - 1] = v
      BY <1>1, <1>3, <2>2
    <3>2. QED
      BY <2>1, <2>2, <3>1
  <2>3. CASE i # 1
    <3>1. i \in 2..n /\ i - 1 \in 0..n /\ i - 1 # 0
      BY <1>1, <2>3
    <3>2. p[i - 1] = ws[i - 1]
      BY <1>3, <3>1
    <3>3. QED
      BY <1>2, <2>1, <3>1, <3>2
  <2>4. QED
    BY <2>2, <2>3
<1>7. QED
  BY <1>1, <1>4, <1>5, <1>6 DEF Leads, n

-----------------------------------------------------------------------------
(* The engine's replies.                                                   *)

(* A reader who knew the state and the plan knows them afterwards. *)
Tells(msgs, s, p, s2, p2) ==
  \A r \in 1..MaxU64, v \in Readers : \A f :
    /\ v.scan = s /\ v.plan = p /\ Len(f) = Len(msgs)
    /\ \A i \in 1..Len(msgs) : f[i].msg = msgs[i] /\ f[i].req = r
    => \E w \in Readers : Leads(f, v, w) /\ w.scan = s2 /\ w.plan = p2

(* One verdict, first; progress and the end of the scan only last.  The    *)
(* session was in state s with plan p before and is in s2 with p2 after.   *)
IsReply(k, msgs, s, p, s2, p2) ==
  /\ msgs \in Seq(Messages) /\ msgs # <<>>
  /\ msgs[1].body \in Acknowledgement /\ msgs[1].kind = k
  /\ \A i \in 2..Len(msgs) : msgs[i].body \notin Acknowledgement
  /\ \A i \in 1..Len(msgs) : msgs[i].body \in {"progress", "scanCancelled"} => i = Len(msgs)
  /\ \A i \in 1..Len(msgs) : msgs[i].body = "scanCancelled" => s2 = "cancelled"
  /\ s2 \in Resting /\ p2 \in Plans /\ (p2 # NoPlan => s2 \in {"planReady", "cancelled"})
  /\ Tells(msgs, s, p, s2, p2)

(* Replies are well formed. *)
LEMMA ReplyBodies ==
  /\ \A k \in ControlKind, s \in ScanState : ControlAccepted(k, s) \in Messages
  /\ \A k \in ControlKind, c \in RejectCode, s \in ScanState : ControlRejected(k, c, s) \in Messages
  /\ \A s \in ScanState : ScanStateChanged(s) \in Messages
  /\ \A p \in PlanId : PlanReady(p) \in Messages /\ PlanInvalidated(p) \in Messages
  /\ ScanProgress \in Messages /\ ScanCancelled \in Messages
<1> USE DEF Messages, Bodies, Body, Plans
<1>1. \A k \in ControlKind, s \in ScanState : ControlAccepted(k, s) \in Messages
  BY DEF ControlAccepted, ControlKind, ScanState
<1>2. \A k \in ControlKind, c \in RejectCode, s \in ScanState : ControlRejected(k, c, s) \in Messages
  BY DEF ControlRejected, ControlKind, RejectCode, ScanState
<1>3. \A s \in ScanState : ScanStateChanged(s) \in Messages
  BY DEF ScanStateChanged, ScanState, Absent
<1>4. \A p \in PlanId : PlanReady(p) \in Messages /\ PlanInvalidated(p) \in Messages
  BY DEF PlanReady, PlanInvalidated, Absent
<1>5. ScanProgress \in Messages /\ ScanCancelled \in Messages
  BY DEF ScanProgress, ScanCancelled, Absent
<1>6. QED
  BY <1>1, <1>2, <1>3, <1>4, <1>5

(* A rejection changes nothing. *)
LEMMA RejectionReplies ==
  ASSUME NEW k \in ControlKind, NEW c \in RejectCode, NEW s \in Resting, NEW p \in Plans,
         p # NoPlan => s \in {"planReady", "cancelled"}
  PROVE  IsReply(k, <<ControlRejected(k, c, s)>>, s, p, s, p)
<1> DEFINE m == ControlRejected(k, c, s)
           msgs == <<m>>
<1>1. m \in Messages
  BY ReplyBodies DEF Resting, ScanState
<1>2. m.body = "rejected" /\ m.kind = k /\ m.code = c /\ m.state = s
  BY DEF ControlRejected, Body
<1> HIDE DEF m
<1>3. /\ msgs \in Seq(Messages) /\ msgs # <<>> /\ Len(msgs) = 1 /\ msgs[1] = m
  BY <1>1
<1> HIDE DEF msgs
<1>4. Tells(msgs, s, p, s, p)
  <2> SUFFICES ASSUME NEW r \in 1..MaxU64, NEW v \in Readers, NEW f,
                      v.scan = s, v.plan = p, Len(f) = Len(msgs),
                      \A i \in 1..Len(msgs) : f[i].msg = msgs[i] /\ f[i].req = r
               PROVE  \E w \in Readers : Leads(f, v, w) /\ w.scan = s /\ w.plan = p
    BY DEF Tells
  <2>1. f[1].msg = m
    BY <1>3
  <2>2. Takes(v, f[1], v)
    BY <1>2, <2>1 DEF Takes
  <2> DEFINE ws == <<v>>
  <2>3. ws \in Seq(Readers) /\ Len(ws) = 1 /\ ws # <<>> /\ ws[1] = v /\ 2..1 = {}
    OBVIOUS
  <2> HIDE DEF ws
  <2>4. Leads(f, v, ws[Len(ws)])
    BY <1>3, <2>2, <2>3, LeadsThrough
  <2>5. QED
    BY <2>3, <2>4
<1>5. QED
  BY <1>2, <1>3, <1>4 DEF IsReply, Acknowledgement, msgs, m

(* The reader while request r, a control k, is in a phase of its own. *)
At(r, k, ph, s, p) == Reader(Ui!Active(r, k, ph), s, p)

(* It is a reader, of that state and that plan. *)
LEMMA ReadersAt ==
  ASSUME NEW r \in 1..MaxU64, NEW k \in ControlKind, NEW ph \in Ui!Phase,
         NEW s \in ScanState, NEW p \in Plans
  PROVE  At(r, k, ph, s, p) \in Readers /\ At(r, k, ph, s, p).scan = s /\ At(r, k, ph, s, p).plan = p
  BY MaxU64Assumption DEF At, Readers, Actives, Reader, Ui!Active

(* Each event in turn: an acceptance starts the phases of its request, ... *)
LEMMA OnceAccepted ==
  ASSUME NEW v \in Readers, NEW e, NEW r, NEW k, NEW s,
         e.req = r, e.msg = ControlAccepted(k, s), Ui!AcceptedTransition(k, v.scan, s)
  PROVE  Takes(v, e, At(r, k, PhaseOnceAccepted(k, v.plan), s, v.plan))
<1>1. e.msg.body = "accepted" /\ e.msg.kind = k /\ e.msg.state = s
  BY DEF ControlAccepted, Body
<1>2. QED
  BY <1>1 DEF Takes, At

(* ... a state it waits for moves it to the phase after, ... *)
LEMMA OnceStateChanged ==
  ASSUME NEW r \in 1..MaxU64, NEW k \in ControlKind, NEW ph, NEW ph2 \in Ui!Phase,
         NEW s, NEW s2, NEW p, NEW e, e.req = r, e.msg = ScanStateChanged(s2),
         <<k, ph, s, s2, ph2>> \in Ui!PhaseTable
  PROVE  Takes(At(r, k, ph, s, p), e, At(r, k, ph2, s2, p))
<1> DEFINE v == At(r, k, ph, s, p)
           w == At(r, k, ph2, s2, p)
<1>1. e.msg.body = "stateChanged" /\ e.msg.state = s2
  BY DEF ScanStateChanged, Body
<1>2. IsOwn(v, e)
  BY MaxU64Assumption DEF IsOwn, At, Reader, Ui!Active, Ui!NoActive
<1>3. w = Reader(InPhase(v, ph2), s2, v.plan)
  BY DEF At, Reader, InPhase, Ui!Active
<1>4. v.active.kind = k /\ v.active.phase = ph /\ v.scan = s
  BY DEF At, Reader, Ui!Active
<1> HIDE DEF v, w
<1>5. Takes(v, e, w)
  BY <1>1, <1>2, <1>3, <1>4 DEF Takes
<1>6. QED
  BY <1>5 DEF v, w

(* ... progress to the last phase of a control that sets the scan going,   *)
(* ...                                                                     *)
LEMMA OnceProgress ==
  ASSUME NEW r \in 1..MaxU64, NEW k, NEW ph, NEW p, NEW e, e.req = r, e.msg = ScanProgress,
         <<k, ph>> \in {<<"start", "steady">>, <<"resume", "awaitingResumeProgress">>}
  PROVE  Takes(At(r, k, ph, "running", p), e, At(r, k, "steady", "running", p))
<1> DEFINE v == At(r, k, ph, "running", p)
           w == At(r, k, "steady", "running", p)
<1>1. e.msg.body = "progress"
  BY DEF ScanProgress, Body
<1>2. IsOwn(v, e)
  BY MaxU64Assumption DEF IsOwn, At, Reader, Ui!Active, Ui!NoActive
<1>3. w = Reader(InPhase(v, "steady"), v.scan, v.plan)
  BY DEF At, Reader, InPhase, Ui!Active
<1>4. v.active.kind = k /\ v.active.phase = ph /\ v.scan = "running"
  BY DEF At, Reader, Ui!Active
<1> HIDE DEF v, w
<1>5. Takes(v, e, w)
  BY <1>1, <1>2, <1>3, <1>4 DEF Takes
<1>6. QED
  BY <1>5 DEF v, w

(* ... the plan to the last phase of a build, ... *)
LEMMA OncePlanReady ==
  ASSUME NEW r \in 1..MaxU64, NEW e, e.req = r, e.msg = PlanReady(FixturePlan)
  PROVE  Takes(At(r, "build", "awaitingPlanProjection", "planReady", NoPlan), e,
               At(r, "build", "steady", "planReady", FixturePlan))
<1> DEFINE v == At(r, "build", "awaitingPlanProjection", "planReady", NoPlan)
           w == At(r, "build", "steady", "planReady", FixturePlan)
<1>1. e.msg.body = "planReady" /\ e.msg.plan = FixturePlan /\ FixturePlan # EmptyPlanId
  BY PlanIdAssumption, FixturePlanAssumption DEF PlanReady, Body
<1>2. IsOwn(v, e)
  BY MaxU64Assumption DEF IsOwn, At, Reader, Ui!Active, Ui!NoActive
<1>3. w = Reader(InPhase(v, "steady"), v.scan, FixturePlan)
  BY DEF At, Reader, InPhase, Ui!Active
<1>4. /\ v.active.kind = "build" /\ v.active.phase = "awaitingPlanProjection"
      /\ v.scan = "planReady" /\ v.plan = NoPlan
  BY DEF At, Reader, Ui!Active
<1> HIDE DEF v, w
<1>5. Takes(v, e, w)
  BY <1>1, <1>2, <1>3, <1>4 DEF Takes
<1>6. QED
  BY <1>5 DEF v, w

(* ... its withdrawal to waiting for the scan to run again, ... *)
LEMMA OncePlanInvalidated ==
  ASSUME NEW r \in 1..MaxU64, NEW p, p # NoPlan, NEW e, e.req = r, e.msg = PlanInvalidated(p)
  PROVE  Takes(At(r, "resume", "awaitingInvalidation", "running", p), e,
               At(r, "resume", "awaitingResumeState", "running", NoPlan))
<1> DEFINE v == At(r, "resume", "awaitingInvalidation", "running", p)
           w == At(r, "resume", "awaitingResumeState", "running", NoPlan)
<1>1. e.msg.body = "planInvalidated" /\ e.msg.plan = p
  BY DEF PlanInvalidated, Body
<1>2. IsOwn(v, e)
  BY MaxU64Assumption DEF IsOwn, At, Reader, Ui!Active, Ui!NoActive
<1>3. w = Reader(InPhase(v, "awaitingResumeState"), v.scan, NoPlan)
  BY DEF At, Reader, InPhase, Ui!Active
<1>4. v.active.kind = "resume" /\ v.active.phase = "awaitingInvalidation" /\ v.plan = p
  BY DEF At, Reader, Ui!Active
<1> HIDE DEF v, w
<1>5. Takes(v, e, w)
  BY <1>1, <1>2, <1>3, <1>4 DEF Takes
<1>6. QED
  BY <1>5 DEF v, w

(* ... and the end of the scan leaves it as it is. *)
LEMMA OnceCancelled ==
  ASSUME NEW r \in 1..MaxU64, NEW p, NEW e, e.req = r, e.msg = ScanCancelled
  PROVE  Takes(At(r, "cancel", "awaitingCancelledTerminal", "cancelled", p), e,
               At(r, "cancel", "awaitingCancelledTerminal", "cancelled", p))
<1> DEFINE v == At(r, "cancel", "awaitingCancelledTerminal", "cancelled", p)
<1>1. e.msg.body = "scanCancelled"
  BY DEF ScanCancelled, Body
<1>2. IsOwn(v, e)
  BY MaxU64Assumption DEF IsOwn, At, Reader, Ui!Active, Ui!NoActive
<1>3. /\ v.active.kind = "cancel" /\ v.active.phase = "awaitingCancelledTerminal"
      /\ v.scan = "cancelled"
  BY DEF At, Reader, Ui!Active
<1> HIDE DEF v
<1>4. Takes(v, e, v)
  BY <1>1, <1>2, <1>3 DEF Takes
<1>5. QED
  BY <1>4 DEF v

(* start *)
LEMMA StartReplies ==
  IsReply("start",
           <<ControlAccepted("start", "running"), ScanStateChanged("running"), ScanProgress>>,
           "idle", NoPlan, "running", NoPlan)
<1> DEFINE m1 == ControlAccepted("start", "running")
           m2 == ScanStateChanged("running")
           m3 == ScanProgress
           msgs == <<m1, m2, m3>>
<1>1. m1 \in Messages /\ m2 \in Messages /\ m3 \in Messages
  BY ReplyBodies DEF ControlKind, ScanState, Plans, Resting
<1>2. /\ m1.kind = "start"
      /\ m1.body = "accepted"
      /\ m2.body = "stateChanged"
      /\ m3.body = "progress"
  BY DEF ControlAccepted, ScanStateChanged, ScanProgress, PlanReady, PlanInvalidated,
         ScanCancelled, Body
<1> HIDE DEF m1, m2, m3
<1>3. /\ msgs \in Seq(Messages) /\ msgs # <<>> /\ Len(msgs) = 3
      /\ msgs[1] = m1 /\ msgs[2] = m2 /\ msgs[3] = m3
  BY <1>1
<1> HIDE DEF msgs
<1>4. Tells(msgs, "idle", NoPlan, "running", NoPlan)
  <2> SUFFICES ASSUME NEW r \in 1..MaxU64, NEW v \in Readers, NEW f,
                      v.scan = "idle", v.plan = NoPlan, Len(f) = Len(msgs),
                      \A i \in 1..Len(msgs) : f[i].msg = msgs[i] /\ f[i].req = r
               PROVE  \E w \in Readers : Leads(f, v, w) /\ w.scan = "running" /\ w.plan = NoPlan
    BY DEF Tells
  <2> DEFINE w1 == At(r, "start", "awaitingStateConfirmation", "running", NoPlan)
             w2 == At(r, "start", "steady", "running", NoPlan)
             w3 == At(r, "start", "steady", "running", NoPlan)
  <2>1. /\ f[1].msg = m1 /\ f[2].msg = m2 /\ f[3].msg = m3
        /\ f[1].req = r /\ f[2].req = r /\ f[3].req = r
    BY <1>3
  <2>2. w1 \in Readers /\ w2 \in Readers /\ w3 \in Readers
    BY ReadersAt DEF ControlKind, ScanState, Ui!Phase, Plans, Resting
  <2>3. w3.scan = "running" /\ w3.plan = NoPlan
    BY DEF At, Reader
  <2>4. Takes(v, f[1], w1)
    <3>1. /\ Ui!AcceptedTransition("start", v.scan, "running")
          /\ PhaseOnceAccepted("start", v.plan) = "awaitingStateConfirmation"
      BY DEF Ui!AcceptedTransition, PhaseOnceAccepted
    <3>2. QED
      BY <2>1, <3>1, OnceAccepted DEF m1
  <2>5. Takes(w1, f[2], w2)
    <3>1. /\ <<"start", "awaitingStateConfirmation", "running", "running", "steady">> \in Ui!PhaseTable
          /\ "steady" \in Ui!Phase /\ "start" \in ControlKind
      BY DEF Ui!PhaseTable, Ui!Phase, ControlKind
    <3>2. QED
      BY <2>1, <3>1, OnceStateChanged DEF m2
  <2>6. Takes(w2, f[3], w3)
    BY <2>1, OnceProgress DEF m3
  <2> HIDE DEF w1, w2, w3
  <2> DEFINE ws == <<w1, w2, w3>>
  <2>7. /\ ws \in Seq(Readers) /\ Len(ws) = 3 /\ ws # <<>>
        /\ ws[1] = w1 /\ ws[2] = w2 /\ ws[3] = w3
    BY <2>2
  <2> HIDE DEF ws
  <2>8. \A i \in 2..Len(ws) : Takes(ws[i - 1], f[i], ws[i])
    <3>1. \A i \in 2..3 : (i = 2 /\ i - 1 = 1) \/ (i = 3 /\ i - 1 = 2)
      OBVIOUS
    <3>2. QED
      BY <2>5, <2>6, <2>7, <3>1
  <2>9. Leads(f, v, ws[Len(ws)])
    BY <1>3, <2>4, <2>7, <2>8, LeadsThrough
  <2>10. QED
    BY <2>2, <2>3, <2>7, <2>9
<1>5. QED
  <2>1. \A i \in 1..3 : i = 1 \/ i = 2 \/ i = 3
    OBVIOUS
  <2>2. \A i \in 2..3 : i = 2 \/ i = 3
    OBVIOUS
  <2>3. NoPlan \in Plans /\ "running" \in Resting
    BY DEF Plans, Resting
  <2>4. IsReply("start", msgs, "idle", NoPlan, "running", NoPlan)
    BY <1>2, <1>3, <1>4, <2>1, <2>2, <2>3 DEF IsReply, Acknowledgement
  <2>5. QED
    BY <2>4 DEF msgs, m1, m2, m3

(* pause *)
LEMMA PauseReplies ==
  IsReply("pause",
           <<ControlAccepted("pause", "paused"), ScanStateChanged("paused")>>,
           "running", NoPlan, "paused", NoPlan)
<1> DEFINE m1 == ControlAccepted("pause", "paused")
           m2 == ScanStateChanged("paused")
           msgs == <<m1, m2>>
<1>1. m1 \in Messages /\ m2 \in Messages
  BY ReplyBodies DEF ControlKind, ScanState, Plans, Resting
<1>2. /\ m1.kind = "pause"
      /\ m1.body = "accepted"
      /\ m2.body = "stateChanged"
  BY DEF ControlAccepted, ScanStateChanged, ScanProgress, PlanReady, PlanInvalidated,
         ScanCancelled, Body
<1> HIDE DEF m1, m2
<1>3. /\ msgs \in Seq(Messages) /\ msgs # <<>> /\ Len(msgs) = 2
      /\ msgs[1] = m1 /\ msgs[2] = m2
  BY <1>1
<1> HIDE DEF msgs
<1>4. Tells(msgs, "running", NoPlan, "paused", NoPlan)
  <2> SUFFICES ASSUME NEW r \in 1..MaxU64, NEW v \in Readers, NEW f,
                      v.scan = "running", v.plan = NoPlan, Len(f) = Len(msgs),
                      \A i \in 1..Len(msgs) : f[i].msg = msgs[i] /\ f[i].req = r
               PROVE  \E w \in Readers : Leads(f, v, w) /\ w.scan = "paused" /\ w.plan = NoPlan
    BY DEF Tells
  <2> DEFINE w1 == At(r, "pause", "awaitingStateConfirmation", "paused", NoPlan)
             w2 == At(r, "pause", "steady", "paused", NoPlan)
  <2>1. /\ f[1].msg = m1 /\ f[2].msg = m2
        /\ f[1].req = r /\ f[2].req = r
    BY <1>3
  <2>2. w1 \in Readers /\ w2 \in Readers
    BY ReadersAt DEF ControlKind, ScanState, Ui!Phase, Plans, Resting
  <2>3. w2.scan = "paused" /\ w2.plan = NoPlan
    BY DEF At, Reader
  <2>4. Takes(v, f[1], w1)
    <3>1. /\ Ui!AcceptedTransition("pause", v.scan, "paused")
          /\ PhaseOnceAccepted("pause", v.plan) = "awaitingStateConfirmation"
      BY DEF Ui!AcceptedTransition, PhaseOnceAccepted
    <3>2. QED
      BY <2>1, <3>1, OnceAccepted DEF m1
  <2>5. Takes(w1, f[2], w2)
    <3>1. /\ <<"pause", "awaitingStateConfirmation", "paused", "paused", "steady">> \in Ui!PhaseTable
          /\ "steady" \in Ui!Phase /\ "pause" \in ControlKind
      BY DEF Ui!PhaseTable, Ui!Phase, ControlKind
    <3>2. QED
      BY <2>1, <3>1, OnceStateChanged DEF m2
  <2> HIDE DEF w1, w2
  <2> DEFINE ws == <<w1, w2>>
  <2>6. /\ ws \in Seq(Readers) /\ Len(ws) = 2 /\ ws # <<>>
        /\ ws[1] = w1 /\ ws[2] = w2
    BY <2>2
  <2> HIDE DEF ws
  <2>7. \A i \in 2..Len(ws) : Takes(ws[i - 1], f[i], ws[i])
    <3>1. \A i \in 2..2 : (i = 2 /\ i - 1 = 1)
      OBVIOUS
    <3>2. QED
      BY <2>5, <2>6, <3>1
  <2>8. Leads(f, v, ws[Len(ws)])
    BY <1>3, <2>4, <2>6, <2>7, LeadsThrough
  <2>9. QED
    BY <2>2, <2>3, <2>6, <2>8
<1>5. QED
  <2>1. \A i \in 1..2 : i = 1 \/ i = 2
    OBVIOUS
  <2>2. \A i \in 2..2 : i = 2
    OBVIOUS
  <2>3. NoPlan \in Plans /\ "paused" \in Resting
    BY DEF Plans, Resting
  <2>4. IsReply("pause", msgs, "running", NoPlan, "paused", NoPlan)
    BY <1>2, <1>3, <1>4, <2>1, <2>2, <2>3 DEF IsReply, Acknowledgement
  <2>5. QED
    BY <2>4 DEF msgs, m1, m2

(* resume, with no plan in hand ... *)
LEMMA ResumeReplies ==
  ASSUME NEW s \in {"paused", "planReady"}
  PROVE  IsReply("resume",
           <<ControlAccepted("resume", "running"), ScanStateChanged("running"), ScanProgress>>,
           s, NoPlan, "running", NoPlan)
<1> DEFINE m1 == ControlAccepted("resume", "running")
           m2 == ScanStateChanged("running")
           m3 == ScanProgress
           msgs == <<m1, m2, m3>>
<1>1. m1 \in Messages /\ m2 \in Messages /\ m3 \in Messages
  BY ReplyBodies DEF ControlKind, ScanState, Plans, Resting
<1>2. /\ m1.kind = "resume"
      /\ m1.body = "accepted"
      /\ m2.body = "stateChanged"
      /\ m3.body = "progress"
  BY DEF ControlAccepted, ScanStateChanged, ScanProgress, PlanReady, PlanInvalidated,
         ScanCancelled, Body
<1> HIDE DEF m1, m2, m3
<1>3. /\ msgs \in Seq(Messages) /\ msgs # <<>> /\ Len(msgs) = 3
      /\ msgs[1] = m1 /\ msgs[2] = m2 /\ msgs[3] = m3
  BY <1>1
<1> HIDE DEF msgs
<1>4. Tells(msgs, s, NoPlan, "running", NoPlan)
  <2> SUFFICES ASSUME NEW r \in 1..MaxU64, NEW v \in Readers, NEW f,
                      v.scan = s, v.plan = NoPlan, Len(f) = Len(msgs),
                      \A i \in 1..Len(msgs) : f[i].msg = msgs[i] /\ f[i].req = r
               PROVE  \E w \in Readers : Leads(f, v, w) /\ w.scan = "running" /\ w.plan = NoPlan
    BY DEF Tells
  <2> DEFINE w1 == At(r, "resume", "awaitingResumeState", "running", NoPlan)
             w2 == At(r, "resume", "awaitingResumeProgress", "running", NoPlan)
             w3 == At(r, "resume", "steady", "running", NoPlan)
  <2>1. /\ f[1].msg = m1 /\ f[2].msg = m2 /\ f[3].msg = m3
        /\ f[1].req = r /\ f[2].req = r /\ f[3].req = r
    BY <1>3
  <2>2. w1 \in Readers /\ w2 \in Readers /\ w3 \in Readers
    BY ReadersAt DEF ControlKind, ScanState, Ui!Phase, Plans, Resting
  <2>3. w3.scan = "running" /\ w3.plan = NoPlan
    BY DEF At, Reader
  <2>4. Takes(v, f[1], w1)
    <3>1. /\ Ui!AcceptedTransition("resume", v.scan, "running")
          /\ PhaseOnceAccepted("resume", v.plan) = "awaitingResumeState"
      BY DEF Ui!AcceptedTransition, PhaseOnceAccepted
    <3>2. QED
      BY <2>1, <3>1, OnceAccepted DEF m1
  <2>5. Takes(w1, f[2], w2)
    <3>1. /\ <<"resume", "awaitingResumeState", "running", "running", "awaitingResumeProgress">> \in Ui!PhaseTable
          /\ "awaitingResumeProgress" \in Ui!Phase /\ "resume" \in ControlKind
      BY DEF Ui!PhaseTable, Ui!Phase, ControlKind
    <3>2. QED
      BY <2>1, <3>1, OnceStateChanged DEF m2
  <2>6. Takes(w2, f[3], w3)
    BY <2>1, OnceProgress DEF m3
  <2> HIDE DEF w1, w2, w3
  <2> DEFINE ws == <<w1, w2, w3>>
  <2>7. /\ ws \in Seq(Readers) /\ Len(ws) = 3 /\ ws # <<>>
        /\ ws[1] = w1 /\ ws[2] = w2 /\ ws[3] = w3
    BY <2>2
  <2> HIDE DEF ws
  <2>8. \A i \in 2..Len(ws) : Takes(ws[i - 1], f[i], ws[i])
    <3>1. \A i \in 2..3 : (i = 2 /\ i - 1 = 1) \/ (i = 3 /\ i - 1 = 2)
      OBVIOUS
    <3>2. QED
      BY <2>5, <2>6, <2>7, <3>1
  <2>9. Leads(f, v, ws[Len(ws)])
    BY <1>3, <2>4, <2>7, <2>8, LeadsThrough
  <2>10. QED
    BY <2>2, <2>3, <2>7, <2>9
<1>5. QED
  <2>1. \A i \in 1..3 : i = 1 \/ i = 2 \/ i = 3
    OBVIOUS
  <2>2. \A i \in 2..3 : i = 2 \/ i = 3
    OBVIOUS
  <2>3. NoPlan \in Plans /\ "running" \in Resting
    BY DEF Plans, Resting
  <2>4. IsReply("resume", msgs, s, NoPlan, "running", NoPlan)
    BY <1>2, <1>3, <1>4, <2>1, <2>2, <2>3 DEF IsReply, Acknowledgement
  <2>5. QED
    BY <2>4 DEF msgs, m1, m2, m3

(* ... and with one, which is withdrawn first. *)
LEMMA WithdrawalReplies ==
  ASSUME NEW s \in {"paused", "planReady"}, NEW p \in PlanId
  PROVE  IsReply("resume",
           <<ControlAccepted("resume", "running"), PlanInvalidated(p), ScanStateChanged("running"), ScanProgress>>,
           s, p, "running", NoPlan)
<1> DEFINE m1 == ControlAccepted("resume", "running")
           m2 == PlanInvalidated(p)
           m3 == ScanStateChanged("running")
           m4 == ScanProgress
           msgs == <<m1, m2, m3, m4>>
<1>1. m1 \in Messages /\ m2 \in Messages /\ m3 \in Messages /\ m4 \in Messages
  BY ReplyBodies DEF ControlKind, ScanState, Plans, Resting
<1>2. /\ m1.kind = "resume"
      /\ m1.body = "accepted"
      /\ m2.body = "planInvalidated"
      /\ m3.body = "stateChanged"
      /\ m4.body = "progress"
  BY DEF ControlAccepted, ScanStateChanged, ScanProgress, PlanReady, PlanInvalidated,
         ScanCancelled, Body
<1> HIDE DEF m1, m2, m3, m4
<1>3. /\ msgs \in Seq(Messages) /\ msgs # <<>> /\ Len(msgs) = 4
      /\ msgs[1] = m1 /\ msgs[2] = m2 /\ msgs[3] = m3 /\ msgs[4] = m4
  BY <1>1
<1> HIDE DEF msgs
<1>4. Tells(msgs, s, p, "running", NoPlan)
  <2> SUFFICES ASSUME NEW r \in 1..MaxU64, NEW v \in Readers, NEW f,
                      v.scan = s, v.plan = p, Len(f) = Len(msgs),
                      \A i \in 1..Len(msgs) : f[i].msg = msgs[i] /\ f[i].req = r
               PROVE  \E w \in Readers : Leads(f, v, w) /\ w.scan = "running" /\ w.plan = NoPlan
    BY DEF Tells
  <2> DEFINE w1 == At(r, "resume", "awaitingInvalidation", "running", p)
             w2 == At(r, "resume", "awaitingResumeState", "running", NoPlan)
             w3 == At(r, "resume", "awaitingResumeProgress", "running", NoPlan)
             w4 == At(r, "resume", "steady", "running", NoPlan)
  <2>1. /\ f[1].msg = m1 /\ f[2].msg = m2 /\ f[3].msg = m3 /\ f[4].msg = m4
        /\ f[1].req = r /\ f[2].req = r /\ f[3].req = r /\ f[4].req = r
    BY <1>3
  <2>2. w1 \in Readers /\ w2 \in Readers /\ w3 \in Readers /\ w4 \in Readers
    BY ReadersAt DEF ControlKind, ScanState, Ui!Phase, Plans, Resting
  <2>3. w4.scan = "running" /\ w4.plan = NoPlan
    BY DEF At, Reader
  <2>4. Takes(v, f[1], w1)
    <3>1. /\ Ui!AcceptedTransition("resume", v.scan, "running")
          /\ PhaseOnceAccepted("resume", v.plan) = "awaitingInvalidation"
      BY PlanIdAssumption DEF Ui!AcceptedTransition, PhaseOnceAccepted
    <3>2. QED
      BY <2>1, <3>1, OnceAccepted DEF m1
  <2>5. Takes(w1, f[2], w2)
    BY <2>1, OncePlanInvalidated, PlanIdAssumption DEF m2
  <2>6. Takes(w2, f[3], w3)
    <3>1. /\ <<"resume", "awaitingResumeState", "running", "running", "awaitingResumeProgress">> \in Ui!PhaseTable
          /\ "awaitingResumeProgress" \in Ui!Phase /\ "resume" \in ControlKind
      BY DEF Ui!PhaseTable, Ui!Phase, ControlKind
    <3>2. QED
      BY <2>1, <3>1, OnceStateChanged DEF m3
  <2>7. Takes(w3, f[4], w4)
    BY <2>1, OnceProgress DEF m4
  <2> HIDE DEF w1, w2, w3, w4
  <2> DEFINE ws == <<w1, w2, w3, w4>>
  <2>8. /\ ws \in Seq(Readers) /\ Len(ws) = 4 /\ ws # <<>>
        /\ ws[1] = w1 /\ ws[2] = w2 /\ ws[3] = w3 /\ ws[4] = w4
    BY <2>2
  <2> HIDE DEF ws
  <2>9. \A i \in 2..Len(ws) : Takes(ws[i - 1], f[i], ws[i])
    <3>1. \A i \in 2..4 : (i = 2 /\ i - 1 = 1) \/ (i = 3 /\ i - 1 = 2) \/ (i = 4 /\ i - 1 = 3)
      OBVIOUS
    <3>2. QED
      BY <2>5, <2>6, <2>7, <2>8, <3>1
  <2>10. Leads(f, v, ws[Len(ws)])
    BY <1>3, <2>4, <2>8, <2>9, LeadsThrough
  <2>11. QED
    BY <2>2, <2>3, <2>8, <2>10
<1>5. QED
  <2>1. \A i \in 1..4 : i = 1 \/ i = 2 \/ i = 3 \/ i = 4
    OBVIOUS
  <2>2. \A i \in 2..4 : i = 2 \/ i = 3 \/ i = 4
    OBVIOUS
  <2>3. NoPlan \in Plans /\ "running" \in Resting
    BY  DEF Plans, Resting
  <2>4. IsReply("resume", msgs, s, p, "running", NoPlan)
    BY <1>2, <1>3, <1>4, <2>1, <2>2, <2>3 DEF IsReply, Acknowledgement
  <2>5. QED
    BY <2>4 DEF msgs, m1, m2, m3, m4

(* build *)
LEMMA BuildReplies ==
  ASSUME NEW s \in {"running", "paused"}
  PROVE  IsReply("build",
           <<ControlAccepted("build", "building"), ScanStateChanged("building"), ScanStateChanged("planReady"), PlanReady(FixturePlan)>>,
           s, NoPlan, "planReady", FixturePlan)
<1> DEFINE m1 == ControlAccepted("build", "building")
           m2 == ScanStateChanged("building")
           m3 == ScanStateChanged("planReady")
           m4 == PlanReady(FixturePlan)
           msgs == <<m1, m2, m3, m4>>
<1>1. m1 \in Messages /\ m2 \in Messages /\ m3 \in Messages /\ m4 \in Messages
  BY ReplyBodies, FixturePlanAssumption DEF ControlKind, ScanState, Plans, Resting
<1>2. /\ m1.kind = "build"
      /\ m1.body = "accepted"
      /\ m2.body = "stateChanged"
      /\ m3.body = "stateChanged"
      /\ m4.body = "planReady"
  BY DEF ControlAccepted, ScanStateChanged, ScanProgress, PlanReady, PlanInvalidated,
         ScanCancelled, Body
<1> HIDE DEF m1, m2, m3, m4
<1>3. /\ msgs \in Seq(Messages) /\ msgs # <<>> /\ Len(msgs) = 4
      /\ msgs[1] = m1 /\ msgs[2] = m2 /\ msgs[3] = m3 /\ msgs[4] = m4
  BY <1>1
<1> HIDE DEF msgs
<1>4. Tells(msgs, s, NoPlan, "planReady", FixturePlan)
  <2> SUFFICES ASSUME NEW r \in 1..MaxU64, NEW v \in Readers, NEW f,
                      v.scan = s, v.plan = NoPlan, Len(f) = Len(msgs),
                      \A i \in 1..Len(msgs) : f[i].msg = msgs[i] /\ f[i].req = r
               PROVE  \E w \in Readers : Leads(f, v, w) /\ w.scan = "planReady" /\ w.plan = FixturePlan
    BY DEF Tells
  <2> DEFINE w1 == At(r, "build", "awaitingStateConfirmation", "building", NoPlan)
             w2 == At(r, "build", "awaitingPlanReadyState", "building", NoPlan)
             w3 == At(r, "build", "awaitingPlanProjection", "planReady", NoPlan)
             w4 == At(r, "build", "steady", "planReady", FixturePlan)
  <2>1. /\ f[1].msg = m1 /\ f[2].msg = m2 /\ f[3].msg = m3 /\ f[4].msg = m4
        /\ f[1].req = r /\ f[2].req = r /\ f[3].req = r /\ f[4].req = r
    BY <1>3
  <2>2. w1 \in Readers /\ w2 \in Readers /\ w3 \in Readers /\ w4 \in Readers
    <3>1. /\ "build" \in ControlKind /\ "building" \in ScanState /\ "planReady" \in ScanState
          /\ NoPlan \in Plans /\ FixturePlan \in Plans
      BY FixturePlanAssumption DEF ControlKind, ScanState, Plans
    <3>2. {"awaitingStateConfirmation", "awaitingPlanReadyState", "awaitingPlanProjection",
           "steady"} \subseteq Ui!Phase
      BY DEF Ui!Phase
    <3>3. QED
      BY <3>1, <3>2, ReadersAt
  <2>3. w4.scan = "planReady" /\ w4.plan = FixturePlan
    BY DEF At, Reader
  <2>4. Takes(v, f[1], w1)
    <3>1. /\ Ui!AcceptedTransition("build", v.scan, "building")
          /\ PhaseOnceAccepted("build", v.plan) = "awaitingStateConfirmation"
      BY DEF Ui!AcceptedTransition, PhaseOnceAccepted
    <3>2. QED
      BY <2>1, <3>1, OnceAccepted DEF m1
  <2>5. Takes(w1, f[2], w2)
    <3>1. /\ <<"build", "awaitingStateConfirmation", "building", "building", "awaitingPlanReadyState">> \in Ui!PhaseTable
          /\ "awaitingPlanReadyState" \in Ui!Phase /\ "build" \in ControlKind
      BY DEF Ui!PhaseTable, Ui!Phase, ControlKind
    <3>2. QED
      BY <2>1, <3>1, OnceStateChanged DEF m2
  <2>6. Takes(w2, f[3], w3)
    <3>1. /\ <<"build", "awaitingPlanReadyState", "building", "planReady", "awaitingPlanProjection">> \in Ui!PhaseTable
          /\ "awaitingPlanProjection" \in Ui!Phase /\ "build" \in ControlKind
      BY DEF Ui!PhaseTable, Ui!Phase, ControlKind
    <3>2. QED
      BY <2>1, <3>1, OnceStateChanged DEF m3
  <2>7. Takes(w3, f[4], w4)
    BY <2>1, OncePlanReady DEF m4
  <2> HIDE DEF w1, w2, w3, w4
  <2> DEFINE ws == <<w1, w2, w3, w4>>
  <2>8. /\ ws \in Seq(Readers) /\ Len(ws) = 4 /\ ws # <<>>
        /\ ws[1] = w1 /\ ws[2] = w2 /\ ws[3] = w3 /\ ws[4] = w4
    BY <2>2
  <2> HIDE DEF ws
  <2>9. \A i \in 2..Len(ws) : Takes(ws[i - 1], f[i], ws[i])
    <3>1. \A i \in 2..4 : (i = 2 /\ i - 1 = 1) \/ (i = 3 /\ i - 1 = 2) \/ (i = 4 /\ i - 1 = 3)
      OBVIOUS
    <3>2. QED
      BY <2>5, <2>6, <2>7, <2>8, <3>1
  <2>10. Leads(f, v, ws[Len(ws)])
    BY <1>3, <2>4, <2>8, <2>9, LeadsThrough
  <2>11. QED
    BY <2>2, <2>3, <2>8, <2>10
<1>5. QED
  <2>1. \A i \in 1..4 : i = 1 \/ i = 2 \/ i = 3 \/ i = 4
    OBVIOUS
  <2>2. \A i \in 2..4 : i = 2 \/ i = 3 \/ i = 4
    OBVIOUS
  <2>3. FixturePlan \in Plans /\ "planReady" \in Resting
    BY FixturePlanAssumption DEF Plans, Resting
  <2>4. IsReply("build", msgs, s, NoPlan, "planReady", FixturePlan)
    BY <1>2, <1>3, <1>4, <2>1, <2>2, <2>3 DEF IsReply, Acknowledgement
  <2>5. QED
    BY <2>4 DEF msgs, m1, m2, m3, m4

(* cancel *)
LEMMA CancelReplies ==
  ASSUME NEW s \in {"running", "paused", "building", "planReady"}, NEW p \in Plans
  PROVE  IsReply("cancel",
           <<ControlAccepted("cancel", "cancelling"), ScanStateChanged("cancelling"), ScanStateChanged("cancelled"), ScanCancelled>>,
           s, p, "cancelled", p)
<1> DEFINE m1 == ControlAccepted("cancel", "cancelling")
           m2 == ScanStateChanged("cancelling")
           m3 == ScanStateChanged("cancelled")
           m4 == ScanCancelled
           msgs == <<m1, m2, m3, m4>>
<1>1. m1 \in Messages /\ m2 \in Messages /\ m3 \in Messages /\ m4 \in Messages
  BY ReplyBodies DEF ControlKind, ScanState, Plans, Resting
<1>2. /\ m1.kind = "cancel"
      /\ m1.body = "accepted"
      /\ m2.body = "stateChanged"
      /\ m3.body = "stateChanged"
      /\ m4.body = "scanCancelled"
  BY DEF ControlAccepted, ScanStateChanged, ScanProgress, PlanReady, PlanInvalidated,
         ScanCancelled, Body
<1> HIDE DEF m1, m2, m3, m4
<1>3. /\ msgs \in Seq(Messages) /\ msgs # <<>> /\ Len(msgs) = 4
      /\ msgs[1] = m1 /\ msgs[2] = m2 /\ msgs[3] = m3 /\ msgs[4] = m4
  BY <1>1
<1> HIDE DEF msgs
<1>4. Tells(msgs, s, p, "cancelled", p)
  <2> SUFFICES ASSUME NEW r \in 1..MaxU64, NEW v \in Readers, NEW f,
                      v.scan = s, v.plan = p, Len(f) = Len(msgs),
                      \A i \in 1..Len(msgs) : f[i].msg = msgs[i] /\ f[i].req = r
               PROVE  \E w \in Readers : Leads(f, v, w) /\ w.scan = "cancelled" /\ w.plan = p
    BY DEF Tells
  <2> DEFINE w1 == At(r, "cancel", "awaitingStateConfirmation", "cancelling", p)
             w2 == At(r, "cancel", "awaitingCancelledState", "cancelling", p)
             w3 == At(r, "cancel", "awaitingCancelledTerminal", "cancelled", p)
             w4 == At(r, "cancel", "awaitingCancelledTerminal", "cancelled", p)
  <2>1. /\ f[1].msg = m1 /\ f[2].msg = m2 /\ f[3].msg = m3 /\ f[4].msg = m4
        /\ f[1].req = r /\ f[2].req = r /\ f[3].req = r /\ f[4].req = r
    BY <1>3
  <2>2. w1 \in Readers /\ w2 \in Readers /\ w3 \in Readers /\ w4 \in Readers
    BY ReadersAt DEF ControlKind, ScanState, Ui!Phase, Plans, Resting
  <2>3. w4.scan = "cancelled" /\ w4.plan = p
    BY DEF At, Reader
  <2>4. Takes(v, f[1], w1)
    <3>1. /\ Ui!AcceptedTransition("cancel", v.scan, "cancelling")
          /\ PhaseOnceAccepted("cancel", v.plan) = "awaitingStateConfirmation"
      BY DEF Ui!AcceptedTransition, PhaseOnceAccepted
    <3>2. QED
      BY <2>1, <3>1, OnceAccepted DEF m1
  <2>5. Takes(w1, f[2], w2)
    <3>1. /\ <<"cancel", "awaitingStateConfirmation", "cancelling", "cancelling", "awaitingCancelledState">> \in Ui!PhaseTable
          /\ "awaitingCancelledState" \in Ui!Phase /\ "cancel" \in ControlKind
      BY DEF Ui!PhaseTable, Ui!Phase, ControlKind
    <3>2. QED
      BY <2>1, <3>1, OnceStateChanged DEF m2
  <2>6. Takes(w2, f[3], w3)
    <3>1. /\ <<"cancel", "awaitingCancelledState", "cancelling", "cancelled", "awaitingCancelledTerminal">> \in Ui!PhaseTable
          /\ "awaitingCancelledTerminal" \in Ui!Phase /\ "cancel" \in ControlKind
      BY DEF Ui!PhaseTable, Ui!Phase, ControlKind
    <3>2. QED
      BY <2>1, <3>1, OnceStateChanged DEF m3
  <2>7. Takes(w3, f[4], w4)
    BY <2>1, OnceCancelled DEF m4
  <2> HIDE DEF w1, w2, w3, w4
  <2> DEFINE ws == <<w1, w2, w3, w4>>
  <2>8. /\ ws \in Seq(Readers) /\ Len(ws) = 4 /\ ws # <<>>
        /\ ws[1] = w1 /\ ws[2] = w2 /\ ws[3] = w3 /\ ws[4] = w4
    BY <2>2
  <2> HIDE DEF ws
  <2>9. \A i \in 2..Len(ws) : Takes(ws[i - 1], f[i], ws[i])
    <3>1. \A i \in 2..4 : (i = 2 /\ i - 1 = 1) \/ (i = 3 /\ i - 1 = 2) \/ (i = 4 /\ i - 1 = 3)
      OBVIOUS
    <3>2. QED
      BY <2>5, <2>6, <2>7, <2>8, <3>1
  <2>10. Leads(f, v, ws[Len(ws)])
    BY <1>3, <2>4, <2>8, <2>9, LeadsThrough
  <2>11. QED
    BY <2>2, <2>3, <2>8, <2>10
<1>5. QED
  <2>1. \A i \in 1..4 : i = 1 \/ i = 2 \/ i = 3 \/ i = 4
    OBVIOUS
  <2>2. \A i \in 2..4 : i = 2 \/ i = 3 \/ i = 4
    OBVIOUS
  <2>3. p \in Plans /\ "cancelled" \in Resting
    BY DEF Plans, Resting
  <2>4. IsReply("cancel", msgs, s, p, "cancelled", p)
    BY <1>2, <1>3, <1>4, <2>1, <2>2, <2>3 DEF IsReply, Acknowledgement
  <2>5. QED
    BY <2>4 DEF msgs, m1, m2, m3, m4


(* Whatever the session is asked, and whatever it makes of it, its reply   *)
(* is one.                                                                 *)
LEMMA Replies ==
  ASSUME state \in Resting, provisionalPlanID \in Plans, PlanAtRest,
         NEW r \in Requests,
         (r.kind = "start" /\ Engine!Start(r.id)) \/ (r.kind # "start" /\ Engine!Control(r.id, r.kind))
  PROVE  \E msgs :
           /\ Engine!Return(r.id, msgs)
           /\ IsReply(r.kind, msgs, state, provisionalPlanID, state', provisionalPlanID')
<1> DEFINE k == r.kind
           Replied(msgs) ==
             /\ Engine!Return(r.id, msgs)
             /\ IsReply(k, msgs, state, provisionalPlanID, state', provisionalPlanID')
<1> SUFFICES \E msgs : Replied(msgs)
  OBVIOUS
<1>1. k \in ControlKind
  BY DEF Requests
<1>2. \A c \in RejectCode : Engine!Reject(r.id, k, c) =>
        Replied(<<ControlRejected(k, c, state)>>)
  <2> SUFFICES ASSUME NEW c \in RejectCode, Engine!Reject(r.id, k, c)
               PROVE  Replied(<<ControlRejected(k, c, state)>>)
    OBVIOUS
  <2>1. /\ Engine!Return(r.id, <<ControlRejected(k, c, state)>>)
        /\ state' = state /\ provisionalPlanID' = provisionalPlanID
    BY DEF Engine!Reject, Engine!ControlRejected, ControlRejected, Engine!Body, Body, Engine!NoPlan, NoPlan
  <2>2. IsReply(k, <<ControlRejected(k, c, state)>>, state, provisionalPlanID,
                state, provisionalPlanID)
    BY <1>1, RejectionReplies DEF PlanAtRest
  <2>3. QED
    BY <2>1, <2>2
<1> HIDE DEF Replied, k
<1>3. Engine!RejectUnusableId(r.id, k) => \E msgs : Replied(msgs)
  <2> SUFFICES ASSUME Engine!RejectUnusableId(r.id, k) PROVE \E msgs : Replied(msgs)
    OBVIOUS
  <2>1. Engine!IdFailure(r.id) \in RejectCode
    BY DEF Engine!RejectUnusableId, Engine!IdFailure, Engine!Absent, RejectCode
  <2>2. QED
    BY <1>2, <2>1 DEF Engine!RejectUnusableId
<1>4. Engine!RejectSecondStart(r.id) /\ k = "start" => \E msgs : Replied(msgs)
  BY <1>2 DEF Engine!RejectSecondStart, RejectCode
<1>5. Engine!RejectWrongState(r.id, k) => \E msgs : Replied(msgs)
  BY <1>2 DEF Engine!RejectWrongState, RejectCode
<1>6. Engine!RejectMisplacedKind(r.id, k) => \E msgs : Replied(msgs)
  BY <1>2 DEF Engine!RejectMisplacedKind, RejectCode
<1>7. Engine!BeginScan(r.id) /\ k = "start" => \E msgs : Replied(msgs)
  <2> SUFFICES ASSUME Engine!BeginScan(r.id), k = "start" PROVE \E msgs : Replied(msgs)
    OBVIOUS
  <2> DEFINE msgs == <<ControlAccepted("start", "running"), ScanStateChanged("running"), ScanProgress>>
  <2>1. state = "idle" /\ provisionalPlanID = NoPlan
    BY DEF Engine!BeginScan, PlanAtRest
  <2>2. state' = "running" /\ provisionalPlanID' = provisionalPlanID
    BY DEF Engine!BeginScan
  <2>3. Engine!Return(r.id, msgs)
    BY DEF Engine!BeginScan, Engine!ControlAccepted, ControlAccepted, Engine!ScanStateChanged,
           ScanStateChanged, Engine!ScanProgress, ScanProgress, Engine!Body, Body, Engine!NoPlan,
           NoPlan, Engine!Absent, Absent
  <2>4. IsReply("start", msgs, "idle", NoPlan, "running", NoPlan)
    BY StartReplies
  <2>5. QED
    BY <2>1, <2>2, <2>3, <2>4 DEF Replied
<1>8. Engine!Pause(r.id) /\ k = "pause" => \E msgs : Replied(msgs)
  <2> SUFFICES ASSUME Engine!Pause(r.id), k = "pause" PROVE \E msgs : Replied(msgs)
    OBVIOUS
  <2> DEFINE msgs == <<ControlAccepted("pause", "paused"), ScanStateChanged("paused")>>
  <2>1. state = "running" /\ provisionalPlanID = NoPlan
    BY DEF Engine!Pause, Engine!Pausable, PlanAtRest
  <2>2. state' = "paused" /\ provisionalPlanID' = provisionalPlanID
    BY DEF Engine!Pause
  <2>3. Engine!Return(r.id, msgs)
    BY DEF Engine!Pause, Engine!ControlAccepted, ControlAccepted, Engine!ScanStateChanged,
           ScanStateChanged, Engine!Body, Body, Engine!NoPlan, NoPlan, Engine!Absent, Absent
  <2>4. IsReply("pause", msgs, "running", NoPlan, "paused", NoPlan)
    BY PauseReplies
  <2>5. QED
    BY <2>1, <2>2, <2>3, <2>4 DEF Replied
<1>9. Engine!Resume(r.id) /\ k = "resume" => \E msgs : Replied(msgs)
  <2> SUFFICES ASSUME Engine!Resume(r.id), k = "resume" PROVE \E msgs : Replied(msgs)
    OBVIOUS
  <2>1. state \in {"paused", "planReady"} /\ state' = "running" /\ provisionalPlanID' = NoPlan
    BY DEF Engine!Resume, Engine!Resumable, Engine!NoPlan, NoPlan
  <2>2. Engine!Return(r.id, Engine!ResumeMessages)
    BY DEF Engine!Resume
  <2>3. CASE provisionalPlanID = NoPlan
    <3> DEFINE msgs ==
          <<ControlAccepted("resume", "running"), ScanStateChanged("running"), ScanProgress>>
    <3>1. Engine!ResumeMessages = msgs
      BY <2>3 DEF Engine!ResumeMessages, Engine!ControlAccepted, ControlAccepted,
           Engine!ScanStateChanged, ScanStateChanged, Engine!ScanProgress, ScanProgress, Engine!Body,
           Body, Engine!NoPlan, NoPlan, Engine!Absent, Absent
    <3>2. IsReply("resume", msgs, state, NoPlan, "running", NoPlan)
      BY <2>1, ResumeReplies
    <3> HIDE DEF msgs
    <3>3. QED
      BY <2>1, <2>2, <2>3, <3>1, <3>2 DEF Replied
  <2>4. CASE provisionalPlanID # NoPlan
    <3> DEFINE p == provisionalPlanID
               msgs == <<ControlAccepted("resume", "running"), PlanInvalidated(p),
                         ScanStateChanged("running"), ScanProgress>>
    <3>1. Engine!ResumeMessages = msgs
      BY <2>4 DEF Engine!ResumeMessages, Engine!ControlAccepted, ControlAccepted,
           Engine!ScanStateChanged, ScanStateChanged, Engine!ScanProgress, ScanProgress, Engine!Body,
           Body, Engine!NoPlan, NoPlan, Engine!Absent, Absent, Engine!PlanInvalidated, PlanInvalidated
    <3>2. IsReply("resume", msgs, state, p, "running", NoPlan)
      <4>1. p \in PlanId
        BY <2>4 DEF Plans
      <4> HIDE DEF p
      <4>2. QED
        BY <2>1, <4>1, WithdrawalReplies
    <3> HIDE DEF msgs
    <3>3. QED
      BY <2>1, <2>2, <2>4, <3>1, <3>2 DEF Replied
  <2>5. QED
    BY <2>3, <2>4
<1>10. Engine!BuildPlan(r.id) /\ k = "build" => \E msgs : Replied(msgs)
  <2> SUFFICES ASSUME Engine!BuildPlan(r.id), k = "build" PROVE \E msgs : Replied(msgs)
    OBVIOUS
  <2> DEFINE msgs == <<ControlAccepted("build", "building"), ScanStateChanged("building"),
                       ScanStateChanged("planReady"), PlanReady(FixturePlan)>>
  <2>1. state \in {"running", "paused"} /\ provisionalPlanID = NoPlan
    BY DEF Engine!BuildPlan, Engine!Buildable, PlanAtRest
  <2>2. state' = "planReady" /\ provisionalPlanID' = FixturePlan
    BY DEF Engine!BuildPlan
  <2>3. Engine!Return(r.id, msgs)
    BY DEF Engine!BuildPlan, Engine!ControlAccepted, ControlAccepted, Engine!ScanStateChanged,
           ScanStateChanged, Engine!PlanReady, PlanReady, Engine!Body, Body, Engine!NoPlan, NoPlan,
           Engine!Absent, Absent
  <2>4. IsReply("build", msgs, state, NoPlan, "planReady", FixturePlan)
    BY <2>1, BuildReplies
  <2> HIDE DEF msgs
  <2>5. QED
    BY <2>1, <2>2, <2>3, <2>4 DEF Replied
<1>11. Engine!Cancel(r.id) /\ k = "cancel" => \E msgs : Replied(msgs)
  <2> SUFFICES ASSUME Engine!Cancel(r.id), k = "cancel" PROVE \E msgs : Replied(msgs)
    OBVIOUS
  <2> DEFINE msgs == <<ControlAccepted("cancel", "cancelling"), ScanStateChanged("cancelling"),
                       ScanStateChanged("cancelled"), ScanCancelled>>
  <2>1. state \in {"running", "paused", "building", "planReady"}
    BY DEF Engine!Cancel, Engine!Cancellable
  <2>2. state' = "cancelled" /\ provisionalPlanID' = provisionalPlanID
    BY DEF Engine!Cancel
  <2>3. Engine!Return(r.id, msgs)
    BY DEF Engine!Cancel, Engine!ControlAccepted, ControlAccepted, Engine!ScanStateChanged,
           ScanStateChanged, Engine!ScanCancelled, ScanCancelled, Engine!Body, Body, Engine!NoPlan,
           NoPlan, Engine!Absent, Absent
  <2>4. IsReply("cancel", msgs, state, provisionalPlanID, "cancelled", provisionalPlanID)
    BY <2>1, CancelReplies
  <2> HIDE DEF msgs
  <2>5. QED
    BY <2>2, <2>3, <2>4 DEF Replied
<1>12. CASE k = "start" /\ Engine!Start(r.id)
  BY <1>3, <1>4, <1>7, <1>12 DEF Engine!Start
<1>13. CASE k # "start" /\ Engine!Control(r.id, k)
  BY <1>3, <1>5, <1>6, <1>8, <1>9, <1>10, <1>11, <1>13 DEF Engine!Control
<1>14. QED
  BY <1>12, <1>13 DEF k

-----------------------------------------------------------------------------
(* What is in flight, as it moves.                                         *)

(* The engine's events in the queue q, the one the driver holds, and all   *)
(* that are in flight.                                                     *)
Engines(q) == IF q # <<>> /\ SeqOps!Last(q).type = "exited" THEN SeqOps!Front(q) ELSE q
Told(q) == [i \in DOMAIN Engines(q) |-> Engines(q)[i].delivery.event]
Holding(pc, e) == IF pc = "sending" THEN <<e>> ELSE <<>>
Flight(q, pc, e, out, ret) == Told(q) \o (Holding(pc, e) \o (out \o ret))

(* The driver's last word is the last item. *)
LastWord(q) == \A n \in 1..Len(q) : q[n].type = "exited" => n = Len(q)
NoLastWord(q) == \A n \in 1..Len(q) : q[n].type # "exited"

(* An item is one or the other. *)
LEMMA ItemAt ==
  ASSUME NEW x \in Items
  PROVE  /\ x.type \in {"engine", "exited"}
         /\ x.type = "engine" =>
              x.delivery.event \in Events /\ x = EngineItem(x.delivery.event, 0)
<1>1. CASE x \in [type : {"engine"}, delivery : [event : Events, skipped : {0}]]
  <2>1. x.type = "engine" /\ x.delivery.event \in Events /\ x.delivery.skipped = 0
    BY <1>1
  <2>2. x.delivery = [event |-> x.delivery.event, skipped |-> 0]
    BY <1>1
  <2>3. x = [type |-> "engine", delivery |-> x.delivery]
    BY <1>1
  <2>4. QED
    BY <2>1, <2>2, <2>3 DEF EngineItem, Delivery
<1>2. CASE x \in [type : {"exited"}, ok : BOOLEAN]
  BY <1>2
<1>3. QED
  BY <1>1, <1>2 DEF Items

(* What the events of a queue are. *)
LEMMA ToldAt ==
  ASSUME NEW q \in Seq(Items), LastWord(q)
  PROVE  /\ Told(q) \in Seq(Events)
         /\ q # <<>> /\ q[Len(q)].type = "exited" => Len(Told(q)) = Len(q) - 1
         /\ ~(q # <<>> /\ q[Len(q)].type = "exited") => Len(Told(q)) = Len(q) /\ NoLastWord(q)
         /\ \A i \in 1..Len(Told(q)) :
              i \in 1..Len(q) /\ q[i].type = "engine" /\ Told(q)[i] = q[i].delivery.event
<1> DEFINE n == Len(q)
           m == IF q # <<>> /\ q[n].type = "exited" THEN n - 1 ELSE n
           g == Engines(q)
<1>1. n \in Nat /\ q \in [1..n -> Items] /\ DOMAIN q = 1..n /\ (q # <<>> => n >= 1)
  BY LenProperties, EmptySeq
<1>2. m \in Nat /\ m <= n
  BY <1>1
<1>3. DOMAIN g = 1..m /\ \A i \in 1..m : g[i] = q[i]
  <2>1. CASE q # <<>> /\ q[n].type = "exited"
    <3>1. g = SubSeq(q, 1, n - 1)
      BY <2>1 DEF Engines, SeqOps!Last, SeqOps!Front
    <3>2. /\ SubSeq(q, 1, n - 1) \in Seq(Items) /\ Len(SubSeq(q, 1, n - 1)) = n - 1
          /\ \A i \in 1..(n - 1) : SubSeq(q, 1, n - 1)[i] = q[i]
      <4> DEFINE k == n - 1
      <4>1. k \in Nat /\ \A i \in 1..k : q[i] \in Items
        BY <1>1, <2>1
      <4> HIDE DEF k
      <4>2. SubSeq(q, 1, k) = [i \in 1..k |-> q[i]]
        BY <1>1, <4>1
      <4>3. [i \in 1..k |-> q[i]] \in Seq(Items) /\ Len([i \in 1..k |-> q[i]]) = k
        BY <4>1
      <4>4. QED
        BY <4>2, <4>3 DEF k
    <3>3. DOMAIN SubSeq(q, 1, n - 1) = 1..(n - 1)
      BY <3>2, LenProperties
    <3>4. QED
      BY <2>1, <3>1, <3>2, <3>3
  <2>2. CASE ~(q # <<>> /\ q[n].type = "exited")
    BY <1>1, <2>2 DEF Engines, SeqOps!Last
  <2>3. QED
    BY <2>1, <2>2
<1>9. /\ q # <<>> /\ q[n].type = "exited" => m = n - 1
      /\ ~(q # <<>> /\ q[n].type = "exited") => m = n
  OBVIOUS
<1>n. n = Len(q)
  OBVIOUS
<1> HIDE DEF g, m, n
<1>4. ASSUME NEW i \in 1..m
      PROVE  i \in 1..n /\ q[i].type = "engine" /\ q[i].delivery.event \in Events
  <2>1. i \in 1..n /\ q[i] \in Items
    BY <1>1, <1>2
  <2>2. q[i].type # "exited"
    <3>1. CASE q # <<>> /\ q[n].type = "exited"
      <4>1. m = n - 1
        BY <1>9, <3>1
      <4>2. i # n
        BY <1>1, <4>1
      <4>3. QED
        BY <1>n, <2>1, <4>2 DEF LastWord
    <3>2. CASE q = <<>>
      <4>1. n = 0
        BY <1>n, <3>2
      <4>2. m = 0 /\ 1..0 = {}
        BY <1>9, <3>2, <4>1
      <4>3. QED
        BY <4>2
    <3>3. CASE q[n].type # "exited"
      BY <1>n, <2>1, <3>3 DEF LastWord
    <3>4. QED
      BY <3>1, <3>2, <3>3
  <2>3. QED
    BY <2>1, <2>2, ItemAt
<1>5. Told(q) = [i \in 1..m |-> q[i].delivery.event]
  BY <1>3 DEF Told, g
<1>6. Told(q) \in Seq(Events) /\ Len(Told(q)) = m
  BY <1>2, <1>4, <1>5
<1>7. \A i \in 1..m : Told(q)[i] = q[i].delivery.event
  BY <1>5
<1>8. m = n /\ ~(q # <<>> /\ q[n].type = "exited") => NoLastWord(q)
  BY <1>4, <1>n DEF NoLastWord
<1>10. QED
  BY <1>4, <1>6, <1>7, <1>8, <1>9, <1>n

(* The UI takes an item. *)
LEMMA ToldLess ==
  ASSUME NEW q \in Seq(Items), LastWord(q), q # <<>>
  PROVE  /\ Tail(q) \in Seq(Items) /\ LastWord(Tail(q)) /\ Head(q) \in Items
         /\ Head(q).type = "engine" =>
              /\ Told(q) # <<>> /\ Head(Told(q)) = Head(q).delivery.event
              /\ Tail(Told(q)) = Told(Tail(q))
         /\ Head(q).type = "exited" => Told(q) = <<>> /\ Told(Tail(q)) = <<>> /\ Tail(q) = <<>>
<1> DEFINE t == Tail(q)
           n == Len(q)
<1>1. /\ Head(q) = q[1] /\ n \in Nat /\ n >= 1 /\ Len(t) = n - 1 /\ t \in Seq(Items)
      /\ \A i \in 1..(n - 1) : t[i] = q[i + 1]
      /\ Head(q) \in Items
  BY TailAt
<1> HIDE DEF t, n
<1>2. LastWord(t)
  <2> SUFFICES ASSUME NEW i \in 1..(n - 1), t[i].type = "exited" PROVE i = n - 1
    BY <1>1 DEF LastWord
  <2>1. i + 1 \in 1..n /\ t[i] = q[i + 1]
    BY <1>1
  <2>2. i + 1 = n
    BY <2>1 DEF LastWord, n
  <2>3. QED
    BY <1>1, <2>2
<1>3. ASSUME q[1].type = "exited" PROVE n = 1 /\ t = <<>>
  <2>1. 1 \in 1..n
    BY <1>1
  <2>2. n = 1
    BY <1>3, <2>1 DEF LastWord, n
  <2>3. QED
    BY <1>1, <2>2, EmptySeq
<1>4. ASSUME q[1].type = "exited" PROVE Told(q) = <<>> /\ Told(t) = <<>>
  <2>1. Len(Told(q)) = 0 /\ Told(q) \in Seq(Events)
    BY <1>3, <1>4, <1>1, ToldAt DEF n
  <2>2. Len(t) = 0
    BY <1>1, <1>3, <1>4
  <2>3. Len(Told(t)) = 0 /\ Told(t) \in Seq(Events)
    BY <1>1, <1>2, <1>3, <1>4, <2>2, ToldAt
  <2>4. QED
    BY <2>1, <2>3, EmptySeq
<1>5. ASSUME q[1].type = "engine"
      PROVE  /\ Told(q) # <<>> /\ Head(Told(q)) = q[1].delivery.event
             /\ Tail(Told(q)) = Told(t)
  <2> DEFINE f == Told(q)
             g == Told(t)
  <2>1. f \in Seq(Events) /\ g \in Seq(Events)
    BY <1>1, <1>2, ToldAt
  <2>2. Len(g) = Len(f) - 1 /\ Len(f) >= 1 /\ Len(f) \in Nat
    <3>1. CASE q[n].type = "exited"
      <4>1. n # 1 /\ n - 1 \in 1..(n - 1) /\ n - 1 + 1 = n
        BY <1>1, <1>5, <3>1
      <4>2. t[n - 1] = q[n]
        BY <1>1, <4>1
      <4>3. t # <<>>
        BY <1>1, <4>1
      <4>4. Len(f) = n - 1
        BY <3>1, ToldAt DEF n
      <4>5. Len(g) = n - 2
        BY <1>1, <1>2, <3>1, <4>2, <4>3, ToldAt
      <4>6. QED
        BY <1>1, <4>1, <4>4, <4>5
    <3>2. CASE q[n].type # "exited"
      <4>1. Len(f) = n
        BY <3>2, ToldAt DEF n
      <4>2. t # <<>> => t[n - 1].type # "exited"
        <5>1. t # <<>> => n - 1 \in 1..(n - 1) /\ n - 1 + 1 = n
          BY <1>1, EmptySeq
        <5>2. QED
          BY <1>1, <3>2, <5>1
      <4>3. Len(g) = n - 1
        BY <1>1, <1>2, <4>2, ToldAt
      <4>4. QED
        BY <1>1, <4>1, <4>3
    <3>3. QED
      BY <3>1, <3>2
  <2>3. f # <<>>
    BY <2>2
  <2>4. \A i \in 1..Len(f) : f[i] = q[i].delivery.event
    BY ToldAt
  <2>5. \A i \in 1..Len(g) : i \in 1..Len(t) /\ g[i] = t[i].delivery.event
    BY <1>1, <1>2, ToldAt
  <2> HIDE DEF f, g
  <2>6. Head(f) = q[1].delivery.event
    <3>1. Head(f) = f[1] /\ 1 \in 1..Len(f)
      BY <2>1, <2>2, <2>3, TailAt
    <3>2. QED
      BY <2>4, <3>1
  <2>7. Tail(f) = g
    <3>1. /\ Tail(f) \in Seq(Events) /\ Len(Tail(f)) = Len(g)
          /\ \A i \in 1..(Len(f) - 1) : Tail(f)[i] = f[i + 1]
      BY <2>1, <2>2, <2>3, TailAt
    <3>2. ASSUME NEW i \in 1..Len(g) PROVE Tail(f)[i] = g[i]
      <4>1. i \in 1..(Len(f) - 1) /\ i + 1 \in 1..Len(f)
        BY <2>2
      <4>2. Tail(f)[i] = q[i + 1].delivery.event
        BY <2>4, <3>1, <4>1
      <4>3. g[i] = t[i].delivery.event /\ i \in 1..(n - 1)
        BY <1>1, <2>5
      <4>4. QED
        BY <1>1, <4>2, <4>3
    <3>3. QED
      BY <2>1, <3>1, <3>2, SeqEqual
  <2>8. QED
    BY <2>3, <2>6, <2>7 DEF f, g
<1>6. QED
  BY <1>1, <1>2, <1>3, <1>4, <1>5 DEF t

(* The driver adds one. *)
LEMMA ToldMore ==
  ASSUME NEW q \in Seq(Items), NoLastWord(q), NEW x \in Items
  PROVE  /\ Append(q, x) \in Seq(Items) /\ LastWord(Append(q, x))
         /\ x.type = "engine" => Told(Append(q, x)) = Told(q) \o <<x.delivery.event>>
         /\ x.type = "exited" => Told(Append(q, x)) = Told(q)
<1> DEFINE s == Append(q, x)
           n == Len(q)
           f == Told(q)
           g == Told(s)
<1>1. /\ s \in Seq(Items) /\ n \in Nat /\ Len(s) = n + 1
      /\ \A i \in 1..n : s[i] = q[i]
      /\ s[n + 1] = x /\ s # <<>>
  BY AppendAt
<1> HIDE DEF s, n
<1>2. LastWord(s)
  <2> SUFFICES ASSUME NEW i \in 1..(n + 1), s[i].type = "exited" PROVE i = n + 1
    BY <1>1 DEF LastWord
  <2>1. i \notin 1..n
    BY <1>1 DEF NoLastWord, n
  <2>2. QED
    BY <1>1, <2>1
<1>3. LastWord(q) /\ ~(q # <<>> /\ q[n].type = "exited")
  <2>1. q # <<>> => n \in 1..n
    BY <1>1, EmptySeq DEF n
  <2>2. QED
    BY <2>1 DEF LastWord, NoLastWord, n
<1>4. /\ f \in Seq(Events) /\ Len(f) = n
      /\ \A i \in 1..n : f[i] = q[i].delivery.event
  BY <1>3, ToldAt DEF n
<1>5. /\ g \in Seq(Events)
      /\ \A i \in 1..Len(g) : g[i] = s[i].delivery.event
      /\ x.type = "exited" => Len(g) = n
      /\ x.type # "exited" => Len(g) = n + 1
  <2>1. Len(s) - 1 = n
    BY <1>1
  <2>2. QED
    BY <1>1, <1>2, <2>1, ToldAt
<1> HIDE DEF f, g
<1>6. ASSUME x.type = "exited" PROVE g = f
  <2>1. \A i \in 1..n : g[i] = f[i]
    BY <1>1, <1>4, <1>5, <1>6
  <2>2. QED
    BY <1>4, <1>5, <1>6, <2>1, SeqEqual
<1>7. ASSUME x.type = "engine" PROVE g = f \o <<x.delivery.event>>
  <2> DEFINE e == x.delivery.event
  <2>1. e \in Events
    BY <1>7, ItemAt
  <2> HIDE DEF e
  <2>2. /\ Append(f, e) \in Seq(Events) /\ Append(f, e) = f \o <<e>> /\ Len(Append(f, e)) = n + 1
        /\ \A i \in 1..n : Append(f, e)[i] = f[i]
        /\ Append(f, e)[n + 1] = e
    BY <1>4, <2>1, AppendAt
  <2>3. Len(g) = n + 1
    BY <1>5, <1>7
  <2>4. ASSUME NEW i \in 1..Len(g) PROVE g[i] = Append(f, e)[i]
    <3>1. CASE i \in 1..n
      BY <1>1, <1>4, <1>5, <2>2, <3>1
    <3>2. CASE i = n + 1
      BY <1>1, <1>5, <2>2, <3>2 DEF e
    <3>3. i \in 1..n \/ i = n + 1
      BY <1>1, <2>3
    <3>4. QED
      BY <3>1, <3>2, <3>3
  <2>5. g = Append(f, e)
    BY <1>5, <2>2, <2>3, <2>4, SeqEqual
  <2>6. QED
    BY <2>2, <2>5 DEF e
<1>8. QED
  BY <1>1, <1>2, <1>6, <1>7 DEF s, f, g

(* The parts, ... *)
LEMMA FlightParts ==
  ASSUME NEW q \in Seq(Items), LastWord(q), NEW pc, NEW e \in Events,
         NEW out \in Seq(Events), NEW ret \in Seq(Events)
  PROVE  /\ Told(q) \in Seq(Events) /\ Holding(pc, e) \in Seq(Events)
         /\ Holding(pc, e) \o (out \o ret) \in Seq(Events)
         /\ Flight(q, pc, e, out, ret) \in Seq(Events)
<1>1. Told(q) \in Seq(Events)
  BY ToldAt
<1>2. Holding(pc, e) \in Seq(Events)
  BY DEF Holding
<1>3. out \o ret \in Seq(Events)
  BY ConcatProperties
<1>4. Holding(pc, e) \o (out \o ret) \in Seq(Events)
  BY <1>2, <1>3, ConcatProperties
<1>5. Told(q) \o (Holding(pc, e) \o (out \o ret)) \in Seq(Events)
  BY <1>1, <1>4, ConcatProperties
<1>6. QED
  BY <1>1, <1>2, <1>4, <1>5 DEF Flight

(* ... an event is read from the pipe, ... *)
LEMMA FlightRead ==
  ASSUME NEW q, NEW pc, pc # "sending", NEW e,
         NEW out \in Seq(Events), out # <<>>, NEW ret \in Seq(Events)
  PROVE  Flight(q, "sending", Head(out), Tail(out), ret) = Flight(q, pc, e, out, ret)
<1> DEFINE h == <<Head(out)>>
           o == Tail(out)
<1>1. h \in Seq(Events) /\ o \in Seq(Events) /\ out \o ret \in Seq(Events)
  BY TailAt, ConcatProperties
<1>2. out = h \o o
  BY HeadAndTail
<1>3. Holding("sending", Head(out)) = h /\ Holding(pc, e) = <<>>
  BY DEF Holding
<1> HIDE DEF h, o
<1>4. (h \o o) \o ret = h \o (o \o ret)
  BY <1>1, ConcatAssociative
<1>5. <<>> \o (out \o ret) = out \o ret
  BY <1>1, ConcatEmptySeq
<1>6. QED
  BY <1>2, <1>3, <1>4, <1>5 DEF Flight, o

(* ... or written to it, ... *)
LEMMA FlightWritten ==
  ASSUME NEW q, NEW pc, NEW e, NEW out \in Seq(Events), NEW ret \in Seq(Events), ret # <<>>
  PROVE  Flight(q, pc, e, Append(out, Head(ret)), Tail(ret)) = Flight(q, pc, e, out, ret)
<1> DEFINE h == <<Head(ret)>>
           r == Tail(ret)
<1>1. h \in Seq(Events) /\ r \in Seq(Events) /\ Head(ret) \in Events
  BY TailAt
<1>2. ret = h \o r /\ Append(out, Head(ret)) = out \o h
  BY <1>1, HeadAndTail, AppendAt
<1> HIDE DEF h, r
<1>3. (out \o h) \o r = out \o (h \o r)
  BY <1>1, ConcatAssociative
<1>4. QED
  BY <1>2, <1>3 DEF Flight, r

(* ... or put into the queue, ... *)
LEMMA FlightSent ==
  ASSUME NEW q \in Seq(Items), NoLastWord(q), NEW pc, pc # "sending", NEW e \in Events, NEW e2,
         NEW out \in Seq(Events), NEW ret \in Seq(Events)
  PROVE  /\ Append(q, EngineItem(e, 0)) \in Seq(Items) /\ LastWord(Append(q, EngineItem(e, 0)))
         /\ Flight(Append(q, EngineItem(e, 0)), pc, e2, out, ret) = Flight(q, "sending", e, out, ret)
<1> DEFINE x == EngineItem(e, 0)
           s == Append(q, x)
           t == Told(q)
           h == <<e>>
           r == out \o ret
<1>1. x \in Items /\ x.type = "engine" /\ x.delivery.event = e
  BY DEF Items, EngineItem, Delivery
<1> HIDE DEF x
<1>2. s \in Seq(Items) /\ LastWord(s) /\ Told(s) = t \o h
  BY <1>1, ToldMore
<1>3. t \in Seq(Events) /\ h \in Seq(Events) /\ r \in Seq(Events)
  <2>1. LastWord(q)
    BY DEF LastWord, NoLastWord
  <2>2. QED
    BY <2>1, ToldAt, ConcatProperties
<1>4. Holding(pc, e2) = <<>> /\ Holding("sending", e) = h
  BY DEF Holding
<1> HIDE DEF s, t, h, r
<1>5. <<>> \o r = r
  BY <1>3, ConcatEmptySeq
<1>6. (t \o h) \o r = t \o (h \o r)
  BY <1>3, ConcatAssociative
<1>7. QED
  BY <1>2, <1>4, <1>5, <1>6 DEF Flight, x, s, t, r

(* ... and followed there by the driver's last word; ... *)
LEMMA FlightOver ==
  ASSUME NEW q \in Seq(Items), NoLastWord(q), NEW ok \in BOOLEAN, NEW pc, NEW e, NEW out, NEW ret
  PROVE  /\ Append(q, ExitItem(ok)) \in Seq(Items) /\ LastWord(Append(q, ExitItem(ok)))
         /\ Flight(Append(q, ExitItem(ok)), pc, e, out, ret) = Flight(q, pc, e, out, ret)
<1>1. ExitItem(ok) \in Items /\ ExitItem(ok).type = "exited"
  BY DEF Items, ExitItem
<1>2. QED
  BY <1>1, ToldMore DEF Flight

(* ... the UI takes the first one, or the last word; ... *)
LEMMA FlightTaken ==
  ASSUME NEW q \in Seq(Items), LastWord(q), q # <<>>, NEW pc, NEW e \in Events,
         NEW out \in Seq(Events), NEW ret \in Seq(Events)
  PROVE  /\ Tail(q) \in Seq(Items) /\ LastWord(Tail(q)) /\ Head(q) \in Items
         /\ Head(q).type = "engine" =>
              /\ Flight(q, pc, e, out, ret) # <<>>
              /\ Head(Flight(q, pc, e, out, ret)) = Head(q).delivery.event
              /\ Tail(Flight(q, pc, e, out, ret)) = Flight(Tail(q), pc, e, out, ret)
         /\ Head(q).type = "exited" =>
              Flight(q, pc, e, out, ret) = Flight(Tail(q), pc, e, out, ret)
<1> DEFINE r == Holding(pc, e) \o (out \o ret)
           t == Tail(q)
<1>1. /\ t \in Seq(Items) /\ LastWord(t) /\ Head(q) \in Items
      /\ Head(q).type = "engine" =>
           /\ Told(q) # <<>> /\ Head(Told(q)) = Head(q).delivery.event
           /\ Tail(Told(q)) = Told(t)
      /\ Head(q).type = "exited" => Told(q) = <<>> /\ Told(t) = <<>>
  BY ToldLess
<1>2. r \in Seq(Events) /\ Told(q) \in Seq(Events)
  BY FlightParts
<1>3. Flight(q, pc, e, out, ret) = Told(q) \o r /\ Flight(t, pc, e, out, ret) = Told(t) \o r
  BY DEF Flight
<1> HIDE DEF r, t
<1>4. Told(q) # <<>> =>
        /\ Told(q) \o r # <<>> /\ Head(Told(q) \o r) = Head(Told(q))
        /\ Tail(Told(q) \o r) = Tail(Told(q)) \o r
  BY <1>2, TailOfConcat
<1>5. QED
  BY <1>1, <1>3, <1>4 DEF t

(* ... and a reply comes last. *)
LEMMA FlightReplied ==
  ASSUME NEW q \in Seq(Items), LastWord(q), NEW pc, NEW e \in Events,
         NEW out \in Seq(Events), NEW ret \in Seq(Events)
  PROVE  Flight(q, pc, e, out, ret) = Flight(q, pc, e, out, <<>>) \o ret
<1> DEFINE t == Told(q)
           h == Holding(pc, e)
<1>1. t \in Seq(Events) /\ h \in Seq(Events)
  BY FlightParts
<1> HIDE DEF t, h
<1>2. out \o <<>> = out
  BY ConcatEmptySeq
<1> DEFINE u == h \o out
<1>3. (h \o out) \o ret = h \o (out \o ret)
  BY <1>1, ConcatAssociative
<1>4. u \in Seq(Events)
  BY <1>1, ConcatProperties
<1> HIDE DEF u
<1>5. t \in Seq(Events) /\ u \in Seq(Events) /\ ret \in Seq(Events)
  BY <1>1, <1>4
<1>6. (t \o u) \o ret = t \o (u \o ret)
  BY <1>5, ConcatAssociative, SMTT(30)
<1>7. QED
  BY <1>2, <1>3, <1>6 DEF Flight, t, h, u

-----------------------------------------------------------------------------
(* What a step can be, to the two sides of the conversation.               *)

Early == {"connecting", "starting"}

Meaning == InOrder /\ NoneForgotten /\ Followed /\ PlanAtRest /\ Outcome

uiSide ==
  <<pending, nextRequestId, active, scanState, provisionalPlan, lastEventSequence, terminal,
    driverExited>>
engineSide == <<stdin, state, eventSequence, provisionalPlanID, trapped>>

(* Nothing is said: at most the driver gives up and drops commands. *)
Idles ==
  /\ UNCHANGED uiSide /\ UNCHANGED engineSide
  /\ InFlight' = InFlight
  /\ Connected' => Connected
  /\ driver' \in Live =>
       driver \in Live /\ CarriedIn(commands') = CarriedIn(commands) /\ (driver' \in Early <=> driver \in Early)
  /\ CarriedIn(commands') \subseteq CarriedIn(commands)
  /\ AscendingCommands(commands) => AscendingCommands(commands')
  /\ engine = "exited" => engine' = "exited"

(* A request is pressed. *)
Asks(k) ==
  /\ k \in ControlKind /\ terminal = "none"
  /\ nextRequestId' = nextRequestId + 1
  /\ pending' = pending \cup {Ui!Request(nextRequestId, k)}
  /\ commands' = Append(commands, Ui!SendControl(nextRequestId, k))
  /\ InFlight' = InFlight
  /\ UNCHANGED <<active, scanState, provisionalPlan, lastEventSequence, terminal, driverExited>>
  /\ UNCHANGED engineSide
  /\ UNCHANGED <<driver, receiverClosed, engine>>

(* The session fails. *)
Fails ==
  /\ terminal' = "failed" /\ (driverExited' \/ nextRequestId' = MaxU64)
  /\ pending \subseteq pending' /\ \A r \in pending' : r.id < nextRequestId'
  /\ CarriedIn(commands') = CarriedIn(commands)
  /\ AscendingCommands(commands) => AscendingCommands(commands')
  /\ InFlight' = InFlight
  /\ UNCHANGED engineSide
  /\ UNCHANGED <<driver, receiverClosed, engine>>

(* The start is written, ... *)
Starts ==
  /\ driver = "starting" /\ driver' = "draining"
  /\ stdin' = Append(stdin, Ui!Request(1, "start"))
  /\ InFlight' = InFlight
  /\ UNCHANGED uiSide
  /\ UNCHANGED <<commands, receiverClosed, state, eventSequence, provisionalPlanID, trapped, engine>>

(* ... or a command. *)
Writes ==
  /\ driver = "draining" /\ driver' = driver
  /\ commands # <<>> /\ IsControl(Head(commands))
  /\ commands' = Tail(commands)
  /\ stdin' = Append(stdin, Carried(Head(commands)))
  /\ InFlight' = InFlight
  /\ UNCHANGED uiSide
  /\ UNCHANGED <<receiverClosed, state, eventSequence, provisionalPlanID, trapped, engine>>

(* An event is dropped, since nobody is left to reduce it. *)
Loses ==
  /\ InFlight # <<>>
  /\ ~Connected' /\ driver' \notin Live
  /\ UNCHANGED uiSide /\ UNCHANGED engineSide
  /\ UNCHANGED <<commands, receiverClosed, engine>>

(* A request is served. *)
Serves(msgs) ==
  /\ stdin # <<>> /\ stdin' = Tail(stdin)
  /\ state # "cancelled" /\ ~trapped
  /\ IsReply(Head(stdin).kind, msgs, state, provisionalPlanID, state', provisionalPlanID')
  /\ UNCHANGED uiSide
  /\ UNCHANGED <<commands, driver, receiverClosed>>

Answers(msgs) ==
  /\ Serves(msgs)
  /\ eventSequence' = eventSequence + Len(msgs) /\ eventSequence' <= MaxU64
  /\ InFlight' = InFlight \o Engine!Numbered(Head(stdin).id, msgs)
  /\ ~trapped'

Overflows(msgs) ==
  /\ Serves(msgs)
  /\ UNCHANGED eventSequence /\ InFlight' = InFlight
  /\ trapped' = TRUE

(* An event is reduced, ... *)
Reduces(u) ==
  /\ terminal = "none" /\ Connected
  /\ InFlight # <<>> /\ InFlight' = Tail(InFlight)
  /\ Shown' = u
  /\ lastEventSequence' = lastEventSequence + 1
  /\ pending' = IF IsVerdict(Head(InFlight)) THEN pending \ {Answered(Head(InFlight))} ELSE pending
  /\ terminal' = IF Head(InFlight).msg.body = "scanCancelled" THEN "cancelled" ELSE "none"
  /\ UNCHANGED <<nextRequestId, driverExited, commands>>
  /\ UNCHANGED engineSide
  /\ UNCHANGED <<driver, receiverClosed, engine>>

(* ... or ignored, after the session has an outcome. *)
Ignores ==
  /\ terminal # "none"
  /\ InFlight # <<>> /\ InFlight' = Tail(InFlight)
  /\ UNCHANGED uiSide /\ UNCHANGED engineSide
  /\ UNCHANGED <<commands, driver, receiverClosed, engine>>

(* The driver has come to a good end. *)
Ends ==
  /\ terminal # "none" /\ engine = "exited"
  /\ driverExited'
  /\ InFlight' = InFlight
  /\ UNCHANGED <<pending, nextRequestId, active, scanState, provisionalPlan, lastEventSequence, terminal>>
  /\ UNCHANGED engineSide
  /\ UNCHANGED <<commands, driver, receiverClosed, engine>>

-----------------------------------------------------------------------------
(* What each kind of step keeps.                                           *)

(* A step in which nothing is said. *)
LEMMA IdlesKeeps ==
  ASSUME ControlInv, Idles
  PROVE  Meaning'
<1> USE DEF ControlInv
<1>1. InOrder'
  <2>1. \A r \in pending' : r.id < nextRequestId'
    BY DEF InOrder, Idles, uiSide
  <2>2. ASSUME Connected' PROVE Ascending(InFlight', stdin', commands')
    BY <2>2 DEF InOrder, Idles, engineSide, Ascending, Before
  <2>3. ASSUME Connected' PROVE UnderWay(InFlight', stdin', commands') \subseteq pending'
    BY <2>3 DEF InOrder, Idles, engineSide, uiSide, UnderWay
  <2>4. QED
    BY <2>1, <2>2, <2>3 DEF InOrder
<1>2. NoneForgotten'
  <2>1. ASSUME terminal' = "none", ~trapped', driver' \in Live
        PROVE  pending' = Unsent' \cup UnderWay(InFlight', stdin', commands')
    <3>1. Unsent' = Unsent
      BY <2>1 DEF Idles, Unsent, Early
    <3>2. UnderWay(InFlight', stdin', commands') = UnderWay(InFlight, stdin, commands)
      BY <2>1 DEF Idles, UnderWay, engineSide
    <3>3. terminal = "none" /\ ~trapped /\ driver \in Live /\ pending' = pending
      BY <2>1 DEF Idles, uiSide, engineSide
    <3>4. QED
      BY <3>1, <3>2, <3>3 DEF NoneForgotten
  <2>2. ASSUME driver' \in Early
        PROVE  /\ InFlight' = <<>> /\ stdin' = <<>>
               /\ Unsent' \subseteq pending' /\ Before(Unsent', CarriedIn(commands'))
    <3>1. driver' \in Live /\ driver \in Early
      BY <2>2 DEF Idles, Live, Early
    <3>2. Unsent' = Unsent
      BY <2>2, <3>1 DEF Unsent, Early
    <3>3. QED
      BY <3>1, <3>2 DEF Idles, NoneForgotten, Early, uiSide, engineSide
  <2>3. QED
    BY <2>1, <2>2 DEF NoneForgotten, Early
<1>3. Followed'
  <2>1. Connected' => Connected
    BY DEF Idles
  <2>2. InFlight' = InFlight /\ Shown' = Shown /\ UNCHANGED uiSide /\ UNCHANGED engineSide
    BY DEF Idles, Shown, uiSide
  <2>3. QED
    BY <2>1, <2>2 DEF Followed, uiSide, engineSide
<1>4. PlanAtRest'
  BY DEF PlanAtRest, Idles, engineSide
<1>5. Outcome'
  BY DEF Outcome, Idles, uiSide, engineSide
<1>6. QED
  BY <1>1, <1>2, <1>3, <1>4, <1>5 DEF Meaning

(* A request that is pressed takes the next id, above all those under      *)
(* way.                                                                    *)
LEMMA AsksKeeps ==
  ASSUME ControlInv, NEW k, Asks(k)
  PROVE  Meaning'
<1> USE DEF ControlInv
<1> DEFINE x == Ui!SendControl(nextRequestId, k)
           r == Ui!Request(nextRequestId, k)
<1>1. /\ x \in Commands /\ IsControl(x) /\ Carried(x) = r /\ r.id = nextRequestId
      /\ nextRequestId \in Nat /\ nextRequestId >= 2
  BY MaxU64Assumption
     DEF TypeOK, Asks, Commands, IsControl, Carried, Ui!SendControl, Ui!Request
<1>2. /\ pending' = pending \cup {r} /\ commands' = Append(commands, x)
      /\ nextRequestId' = nextRequestId + 1
      /\ InFlight' = InFlight /\ stdin' = stdin
      /\ UNCHANGED <<active, scanState, provisionalPlan, lastEventSequence, terminal, driverExited>>
      /\ UNCHANGED engineSide
      /\ UNCHANGED <<driver, receiverClosed, engine>>
  BY DEF Asks, engineSide
<1> HIDE DEF x, r
<1>3. commands \in Seq(Commands)
  BY DEF TypeOK
<1>4. /\ CarriedIn(commands') = CarriedIn(commands) \cup {r}
      /\ AscendingCommands(commands) /\ Before(CarriedIn(commands), {r}) =>
           AscendingCommands(commands')
  BY <1>1, <1>2, <1>3, CarriedMore
<1>5. Before(pending, {r})
  BY <1>1 DEF Before, InOrder
<1>6. Connected' = Connected /\ Unsent' = Unsent /\ Shown' = Shown
  BY <1>2 DEF Connected, Unsent, Shown
<1>7. UnderWay(InFlight', stdin', commands') = UnderWay(InFlight, stdin, commands) \cup {r}
  BY <1>2, <1>4 DEF UnderWay
<1>8. InOrder'
  <2>1. ASSUME NEW p \in pending' PROVE p.id < nextRequestId'
    <3>1. p \in pending => p.id \in Nat /\ p.id < nextRequestId
      BY DEF TypeOK, Requests, InOrder
    <3>2. QED
      BY <1>1, <1>2, <3>1
  <2>2. ASSUME Connected' PROVE Ascending(InFlight', stdin', commands')
    <3>1. Ascending(InFlight, stdin, commands) /\ UnderWay(InFlight, stdin, commands) \subseteq pending
      BY <1>6, <2>2 DEF InOrder
    <3>2. Before(UnderWay(InFlight, stdin, commands), {r})
      BY <1>5, <3>1 DEF Before
    <3>3. QED
      BY <1>2, <1>4, <3>1, <3>2 DEF Ascending, Before, UnderWay
  <2>3. ASSUME Connected' PROVE UnderWay(InFlight', stdin', commands') \subseteq pending'
    BY <1>2, <1>6, <1>7, <2>3 DEF InOrder
  <2>4. QED
    BY <2>1, <2>2, <2>3 DEF InOrder
<1>9. NoneForgotten'
  <2>1. ASSUME terminal' = "none", ~trapped', driver' \in Live
        PROVE  pending' = Unsent' \cup UnderWay(InFlight', stdin', commands')
    BY <1>2, <1>6, <1>7, <2>1 DEF NoneForgotten, engineSide
  <2>2. ASSUME driver' \in Early
        PROVE  /\ InFlight' = <<>> /\ stdin' = <<>>
               /\ Unsent' \subseteq pending' /\ Before(Unsent', CarriedIn(commands'))
    <3>1. Before(Unsent, {r})
      BY <1>1 DEF Unsent, Before, Ui!Request
    <3>2. QED
      BY <1>2, <1>4, <1>6, <2>2, <3>1 DEF NoneForgotten, Early, Before
  <2>3. QED
    BY <2>1, <2>2 DEF NoneForgotten, Early
<1>10. Followed'
  BY <1>2, <1>6 DEF Followed, engineSide
<1>11. PlanAtRest'
  BY <1>2 DEF PlanAtRest, engineSide
<1>12. Outcome'
  BY <1>2 DEF Asks, Outcome, engineSide
<1>13. QED
  BY <1>8, <1>9, <1>10, <1>11, <1>12 DEF Meaning

(* A failure ends the reducer's interest in the stream. *)
LEMMA FailsKeeps ==
  ASSUME ControlInv, Fails
  PROVE  Meaning'
<1> USE DEF ControlInv
<1>1. Connected' = Connected /\ Unsent' = Unsent /\ terminal' = "failed"
  BY DEF Fails, Connected, Unsent
<1>2. UnderWay(InFlight', stdin', commands') = UnderWay(InFlight, stdin, commands)
  BY DEF Fails, UnderWay, engineSide
<1>3. InOrder'
  <2>1. ASSUME Connected' PROVE Ascending(InFlight', stdin', commands')
    BY <1>1, <2>1 DEF Fails, InOrder, Ascending, engineSide
  <2>2. ASSUME Connected' PROVE UnderWay(InFlight', stdin', commands') \subseteq pending'
    BY <1>1, <1>2, <2>2 DEF Fails, InOrder
  <2>3. QED
    BY <2>1, <2>2 DEF InOrder, Fails
<1>4. NoneForgotten'
  BY <1>1 DEF NoneForgotten, Fails, engineSide
<1>5. Followed'
  BY <1>1 DEF Followed, Fails
<1>6. PlanAtRest'
  BY DEF PlanAtRest, Fails, engineSide
<1>7. Outcome'
  BY DEF Outcome, Fails
<1>8. QED
  BY <1>3, <1>4, <1>5, <1>6, <1>7 DEF Meaning

(* The start, pending from the beginning, is under way from now on. *)
LEMMA StartsKeeps ==
  ASSUME ControlInv, Starts
  PROVE  Meaning'
<1> USE DEF ControlInv
<1> DEFINE r == Ui!Request(1, "start")
<1>1. r \in Requests
  BY MaxU64Assumption DEF Requests, Ui!Request, ControlKind
<1>2. /\ driver = "starting" /\ driver' = "draining" /\ stdin' = Append(stdin, r)
      /\ InFlight' = InFlight /\ commands' = commands
      /\ UNCHANGED uiSide
      /\ UNCHANGED <<receiverClosed, state, eventSequence, provisionalPlanID, trapped, engine>>
  BY DEF Starts
<1>3. Unsent = {r} /\ Unsent' = {}
  BY <1>2 DEF Unsent
<1> HIDE DEF r
<1>4. /\ InFlight = <<>> /\ stdin = <<>> /\ r \in pending /\ Before({r}, CarriedIn(commands))
      /\ terminal = "none" /\ ~trapped => pending = {r} \cup UnderWay(InFlight, stdin, commands)
  BY <1>2, <1>3 DEF NoneForgotten, Live
<1>5. WrittenIn(stdin') = WrittenIn(stdin) \cup {r}
      /\ (AscendingRequests(stdin) /\ Before(WrittenIn(stdin), {r}) => AscendingRequests(stdin'))
  BY <1>1, <1>2, WrittenMore DEF TypeOK
<1>6. Connected /\ Connected'
  BY <1>2 DEF Connected, Live
<1>7. UnderWay(InFlight', stdin', commands') = {r} \cup UnderWay(InFlight, stdin, commands)
  BY <1>2, <1>5 DEF UnderWay
<1>8. InOrder'
  <2>1. Ascending(InFlight', stdin', commands')
    <3>1. Before(WrittenIn(stdin), {r}) /\ Before(AnsweredIn(InFlight), {r})
      BY <1>4, NothingUnderWay DEF Before
    <3>2. Ascending(InFlight, stdin, commands)
      BY <1>6 DEF InOrder
    <3>3. QED
      BY <1>2, <1>4, <1>5, <3>1, <3>2 DEF Ascending, Before
  <2>2. UnderWay(InFlight', stdin', commands') \subseteq pending'
    BY <1>2, <1>4, <1>6, <1>7 DEF InOrder, uiSide
  <2>3. \A p \in pending' : p.id < nextRequestId'
    BY <1>2 DEF InOrder, uiSide
  <2>4. QED
    BY <2>1, <2>2, <2>3 DEF InOrder
<1>9. NoneForgotten'
  BY <1>2, <1>3, <1>4, <1>7 DEF NoneForgotten, uiSide
<1>10. Followed'
  <2>1. Shown' = Shown
    BY <1>2 DEF Shown, uiSide
  <2>2. QED
    BY <1>2, <1>6, <2>1 DEF Followed, uiSide
<1>11. PlanAtRest'
  BY <1>2 DEF PlanAtRest
<1>12. Outcome'
  BY <1>2 DEF Outcome, uiSide
<1>13. QED
  BY <1>8, <1>9, <1>10, <1>11, <1>12 DEF Meaning

(* The first command in the channel becomes the last request in the pipe. *)
LEMMA WritesKeeps ==
  ASSUME ControlInv, Writes
  PROVE  Meaning'
<1> USE DEF ControlInv
<1> DEFINE x == Head(commands)
           r == Carried(x)
<1>1. commands \in Seq(Commands) /\ stdin \in Seq(Requests)
  BY DEF TypeOK
<1>2. /\ commands # <<>> /\ IsControl(x) /\ commands' = Tail(commands) /\ stdin' = Append(stdin, r)
      /\ InFlight' = InFlight
      /\ driver = "draining" /\ driver' = driver
      /\ UNCHANGED uiSide
      /\ UNCHANGED <<receiverClosed, state, eventSequence, provisionalPlanID, trapped, engine>>
  BY DEF Writes
<1>3. r \in Requests
  <2>1. x \in Commands
    BY <1>1, <1>2, TailAt
  <2>2. x \in [command : {"control"}, id : 1..MaxU64, kind : ControlKind]
    BY <1>2, <2>1 DEF Commands, IsControl, Ui!StopDriver
  <2>3. QED
    BY <2>2 DEF Requests, Carried, Ui!Request
<1> HIDE DEF x, r
<1>4. /\ CarriedIn(commands) = {r} \cup CarriedIn(commands')
      /\ AscendingCommands(commands) =>
           AscendingCommands(commands') /\ Before({r}, CarriedIn(commands'))
  BY <1>1, <1>2, CarriedOnce DEF r, x
<1>5. WrittenIn(stdin') = WrittenIn(stdin) \cup {r}
      /\ (AscendingRequests(stdin) /\ Before(WrittenIn(stdin), {r}) => AscendingRequests(stdin'))
  BY <1>1, <1>2, <1>3, WrittenMore
<1>6. Connected /\ Connected'
  BY <1>2 DEF Connected, Live
<1>7. UnderWay(InFlight', stdin', commands') = UnderWay(InFlight, stdin, commands)
  BY <1>2, <1>4, <1>5 DEF UnderWay
<1>8. InOrder'
  <2>1. Ascending(InFlight', stdin', commands')
    <3>1. Ascending(InFlight, stdin, commands)
      BY <1>6 DEF InOrder
    <3>2. Before(WrittenIn(stdin), {r}) /\ Before(AnsweredIn(InFlight), {r})
      BY <1>4, <3>1 DEF Ascending, Before
    <3>3. QED
      BY <1>2, <1>4, <1>5, <3>1, <3>2 DEF Ascending, Before
  <2>2. UnderWay(InFlight', stdin', commands') \subseteq pending'
    BY <1>2, <1>6, <1>7 DEF InOrder, uiSide
  <2>3. \A p \in pending' : p.id < nextRequestId'
    BY <1>2 DEF InOrder, uiSide
  <2>4. QED
    BY <2>1, <2>2, <2>3 DEF InOrder
<1>9. NoneForgotten'
  <2>1. Unsent' = Unsent /\ driver' \notin Early
    BY <1>2 DEF Unsent, Early
  <2>2. QED
    BY <1>2, <1>7, <2>1 DEF NoneForgotten, uiSide, Early
<1>10. Followed'
  <2>1. Shown' = Shown
    BY <1>2 DEF Shown, uiSide
  <2>2. QED
    BY <1>2, <1>6, <2>1 DEF Followed, uiSide
<1>11. PlanAtRest'
  BY <1>2 DEF PlanAtRest
<1>12. Outcome'
  BY <1>2 DEF Outcome, uiSide
<1>13. QED
  BY <1>8, <1>9, <1>10, <1>11, <1>12 DEF Meaning

(* What is dropped after the driver has given up concerns nobody. *)
LEMMA LosesKeeps ==
  ASSUME ControlInv, Loses
  PROVE  Meaning'
<1> USE DEF ControlInv
<1>1. InOrder'
  BY DEF InOrder, Loses, uiSide
<1>2. NoneForgotten'
  BY DEF NoneForgotten, Loses, Live
<1>3. Followed'
  BY DEF Followed, Loses
<1>4. PlanAtRest'
  BY DEF PlanAtRest, Loses, engineSide
<1>5. Outcome'
  BY DEF Outcome, Loses, uiSide, engineSide
<1>6. QED
  BY <1>1, <1>2, <1>3, <1>4, <1>5 DEF Meaning

(* The driver's good end is reported of an engine that has exited. *)
LEMMA EndsKeeps ==
  ASSUME ControlInv, Ends
  PROVE  Meaning'
<1> USE DEF ControlInv
<1>1. /\ InFlight' = InFlight
      /\ UNCHANGED <<pending, nextRequestId, active, scanState, provisionalPlan, lastEventSequence,
                     terminal>>
      /\ UNCHANGED engineSide
      /\ UNCHANGED <<commands, driver, receiverClosed, engine>>
      /\ terminal # "none" /\ engine = "exited" /\ driverExited'
  BY DEF Ends
<1>2. Connected' = Connected /\ Unsent' = Unsent
  BY <1>1 DEF Connected, Unsent
<1>3. InOrder'
  BY <1>1, <1>2 DEF InOrder, engineSide
<1>4. NoneForgotten'
  BY <1>1, <1>2 DEF NoneForgotten, engineSide
<1>5. Followed'
  BY <1>1, <1>2 DEF Followed
<1>6. PlanAtRest'
  BY <1>1 DEF PlanAtRest, engineSide
<1>7. Outcome'
  BY <1>1 DEF Outcome, engineSide
<1>8. QED
  BY <1>3, <1>4, <1>5, <1>6, <1>7 DEF Meaning

(* After the outcome an event is taken and changes nothing. *)
LEMMA IgnoresKeeps ==
  ASSUME ControlInv, InFlight \in Seq(Events), Ignores
  PROVE  Meaning'
<1> USE DEF ControlInv
<1> DEFINE f == InFlight
           g == Tail(InFlight)
<1>1. /\ f # <<>> /\ InFlight' = g /\ terminal # "none"
      /\ UNCHANGED uiSide /\ UNCHANGED engineSide
      /\ UNCHANGED <<commands, driver, receiverClosed, engine>>
  BY DEF Ignores
<1>2. /\ AnsweredIn(g) \subseteq AnsweredIn(f)
      /\ AscendingVerdicts(f) => AscendingVerdicts(g)
  BY <1>1, AnsweredOnce
<1>3. Connected' = Connected /\ Unsent' = Unsent
  BY <1>1 DEF Connected, Unsent
<1>4. InOrder'
  <2>1. ASSUME Connected' PROVE Ascending(g, stdin', commands')
    BY <1>1, <1>2, <1>3, <2>1 DEF InOrder, Ascending, Before, engineSide
  <2>2. ASSUME Connected' PROVE UnderWay(g, stdin', commands') \subseteq pending'
    BY <1>1, <1>2, <1>3, <2>2 DEF InOrder, UnderWay, engineSide, uiSide
  <2>3. \A p \in pending' : p.id < nextRequestId'
    BY <1>1 DEF InOrder, uiSide
  <2>4. QED
    BY <1>1, <2>1, <2>2, <2>3 DEF InOrder
<1>5. NoneForgotten'
  BY <1>1, <1>3 DEF NoneForgotten, uiSide
<1>6. Followed'
  <2>1. Unmerged(f) => Unmerged(g)
    BY <1>1, UnmergedRest
  <2>2. QED
    BY <1>1, <1>3, <2>1 DEF Followed, uiSide
<1>7. PlanAtRest'
  BY <1>1 DEF PlanAtRest, engineSide
<1>8. Outcome'
  BY <1>1 DEF Outcome, uiSide, engineSide
<1>9. QED
  BY <1>4, <1>5, <1>6, <1>7, <1>8 DEF Meaning

(* The first event in flight is where the reader goes next. *)
LEMMA ReducesKeeps ==
  ASSUME ControlInv, InFlight \in Seq(Events),
         NEW u \in Readers, Reduces(u),
         \A end \in Readers : Leads(InFlight, Shown, end) => Leads(Tail(InFlight), u, end)
  PROVE  Meaning'
<1> USE DEF ControlInv
<1> DEFINE f == InFlight
           g == Tail(InFlight)
           e == Head(InFlight)
           a == Answered(Head(InFlight))
<1>1. /\ f # <<>> /\ InFlight' = g /\ terminal = "none" /\ Connected
      /\ Shown' = u
      /\ lastEventSequence' = lastEventSequence + 1
      /\ pending' = IF IsVerdict(e) THEN pending \ {a} ELSE pending
      /\ terminal' = IF e.msg.body = "scanCancelled" THEN "cancelled" ELSE "none"
      /\ UNCHANGED <<nextRequestId, driverExited, commands>>
      /\ UNCHANGED engineSide
      /\ UNCHANGED <<driver, receiverClosed, engine>>
  BY DEF Reduces
<1>2. /\ IsVerdict(e) => AnsweredIn(f) = {a} \cup AnsweredIn(g)
      /\ ~IsVerdict(e) => AnsweredIn(f) = AnsweredIn(g)
      /\ AscendingVerdicts(f) =>
           /\ AscendingVerdicts(g)
           /\ IsVerdict(e) => Before({a}, AnsweredIn(g))
  BY <1>1, AnsweredOnce
<1>3. Connected' = Connected /\ Unsent' = Unsent
  BY <1>1 DEF Connected, Unsent
<1>4. f \in Seq(Events) /\ e = f[1] /\ Len(f) \in Nat /\ Len(f) >= 1 /\ Len(g) = Len(f) - 1
      /\ g \in Seq(Events) /\ \A i \in 1..(Len(f) - 1) : g[i] = f[i + 1]
  BY <1>1, TailAt
<1> HIDE DEF f, g, e, a
<1>5. Ascending(f, stdin, commands) /\ UnderWay(f, stdin, commands) \subseteq pending
  BY <1>1 DEF InOrder, f
<1>6. Ascending(g, stdin, commands)
  BY <1>2, <1>5 DEF Ascending, Before
<1>7. ASSUME IsVerdict(e) PROVE a \notin UnderWay(g, stdin, commands)
  <2>1. Before({a}, UnderWay(g, stdin, commands))
    BY <1>2, <1>5, <1>7 DEF Ascending, Before, UnderWay
  <2>2. a.id \in Nat
    <3>1. a \in pending
      BY <1>2, <1>5, <1>7 DEF UnderWay
    <3>2. QED
      BY <3>1 DEF TypeOK, Requests
  <2>3. QED
    BY <2>1, <2>2 DEF Before
<1>8. UnderWay(g, stdin, commands) =
        IF IsVerdict(e) THEN UnderWay(f, stdin, commands) \ {a} ELSE UnderWay(f, stdin, commands)
  BY <1>2, <1>7 DEF UnderWay
<1>9. InOrder'
  <2>1. \A p \in pending' : p.id < nextRequestId'
    BY <1>1 DEF InOrder
  <2>2. UnderWay(g, stdin', commands') \subseteq pending'
    BY <1>1, <1>5, <1>8 DEF engineSide
  <2>3. Ascending(g, stdin', commands')
    BY <1>1, <1>6 DEF engineSide
  <2>4. QED
    BY <1>1, <2>1, <2>2, <2>3 DEF InOrder
<1>10. driver \notin Early
  BY <1>1 DEF NoneForgotten, Early, f
<1>11. NoneForgotten'
  <2>1. Unsent = {} /\ driver' \notin Early
    BY <1>1, <1>10 DEF Unsent, Early
  <2>2. ASSUME ~trapped', driver' \in Live PROVE pending' = UnderWay(g, stdin', commands')
    <3>1. pending = UnderWay(f, stdin, commands)
      BY <1>1, <2>1, <2>2 DEF NoneForgotten, engineSide, f
    <3>2. QED
      BY <1>1, <1>8, <3>1 DEF engineSide
  <2>3. QED
    BY <1>1, <1>3, <2>1, <2>2 DEF NoneForgotten, Early
<1>12. /\ Unmerged(f) /\ Numbers(f, lastEventSequence, eventSequence)
       /\ \A i \in 1..Len(f) : f[i].msg.body = "scanCancelled" =>
            i = Len(f) /\ state = "cancelled" /\ ~trapped
  BY <1>1 DEF Followed, f
<1>13. PICK end \in Readers :
         /\ Leads(f, Shown, end)
         /\ ~trapped => end.scan = state /\ end.plan = provisionalPlanID
  BY <1>1 DEF Followed, f
<1>14. lastEventSequence \in Nat /\ eventSequence \in Nat
  BY DEF TypeOK
<1>15. Numbers(g, lastEventSequence', eventSequence')
  <2>1. Len(g) = eventSequence - (lastEventSequence + 1)
    BY <1>4, <1>12, <1>14 DEF Numbers
  <2>2. ASSUME NEW i \in 1..Len(g) PROVE g[i].seq = lastEventSequence + 1 + i
    <3>1. i + 1 \in 1..Len(f) /\ g[i] = f[i + 1]
      BY <1>4
    <3>2. f[i + 1].seq = lastEventSequence + (i + 1)
      BY <1>12, <3>1 DEF Numbers
    <3>3. QED
      BY <1>14, <3>1, <3>2
  <2>3. QED
    BY <1>1, <2>1, <2>2 DEF Numbers, engineSide
<1>16. Followed'
  <2>1. Unmerged(g)
    BY <1>1, <1>12, UnmergedRest DEF f, g
  <2>2. Leads(g, u, end)
    BY <1>13 DEF f, g
  <2>3. ASSUME NEW i \in 1..Len(g), g[i].msg.body = "scanCancelled"
        PROVE  i = Len(g) /\ state = "cancelled" /\ ~trapped
    <3>1. i + 1 \in 1..Len(f) /\ g[i] = f[i + 1]
      BY <1>4
    <3>2. i + 1 = Len(f) /\ state = "cancelled" /\ ~trapped
      BY <1>12, <2>3, <3>1
    <3>3. QED
      BY <1>4, <3>2
  <2>4. \E w \in Readers :
          /\ Leads(g, Shown', w)
          /\ ~trapped' => w.scan = state' /\ w.plan = provisionalPlanID'
    BY <1>1, <1>13, <2>2 DEF engineSide
  <2>5. QED
    BY <1>1, <1>15, <2>1, <2>3, <2>4 DEF Followed, engineSide
<1>17. PlanAtRest'
  BY <1>1 DEF PlanAtRest, engineSide
<1>18. Outcome'
  <2>1. ~driverExited
    BY <1>1 DEF Outcome
  <2>2. ASSUME terminal' = "cancelled"
        PROVE  state = "cancelled" /\ g = <<>> /\ lastEventSequence + 1 = eventSequence
    <3>1. 1 \in 1..Len(f) /\ f[1].msg.body = "scanCancelled"
      BY <1>1, <1>4, <2>2
    <3>2. Len(f) = 1 /\ state = "cancelled"
      BY <1>12, <3>1
    <3>3. g = <<>>
      BY <1>4, <3>2, EmptySeq
    <3>4. lastEventSequence + 1 = eventSequence
      <4>1. Len(f) = eventSequence - lastEventSequence
        BY <1>12 DEF Numbers
      <4>2. eventSequence - lastEventSequence = 1
        BY <3>2, <4>1
      <4>3. QED
        BY <1>14, <4>2
    <3>5. QED
      BY <3>2, <3>3, <3>4
  <2>3. QED
    BY <1>1, <2>1, <2>2 DEF Outcome, engineSide
<1>19. QED
  BY <1>9, <1>11, <1>16, <1>17, <1>18 DEF Meaning

(* A reply's events are numbered on from the session's counter. *)
LEMMA NumberedReply ==
  ASSUME NEW r \in 1..MaxU64, NEW msgs \in Seq(Messages),
         eventSequence \in 0..MaxU64, eventSequence + Len(msgs) <= MaxU64
  PROVE  /\ Engine!Numbered(r, msgs) \in Seq(Events)
         /\ Len(Engine!Numbered(r, msgs)) = Len(msgs)
         /\ \A i \in 1..Len(msgs) :
              /\ Engine!Numbered(r, msgs)[i].seq = eventSequence + i
              /\ Engine!Numbered(r, msgs)[i].req = r
              /\ Engine!Numbered(r, msgs)[i].msg = msgs[i]
<1> DEFINE n == Len(msgs)
           m == eventSequence
           x(i) == Event(m + i, r, msgs[i])
<1>1. n \in Nat /\ m \in Nat /\ m + n <= MaxU64 /\ MaxU64 \in Nat /\ \A i \in 1..n : msgs[i] \in Messages
  BY MaxU64Assumption, LenProperties
<1>2. Engine!Numbered(r, msgs) = [i \in 1..n |-> x(i)]
  BY DEF Engine!Numbered, Engine!Event, Event
<1> HIDE DEF n, m
<1>3. ASSUME NEW i \in 1..n
      PROVE  x(i) \in Events /\ x(i).seq = m + i /\ x(i).req = r /\ x(i).msg = msgs[i]
  <2>1. m + i \in 0..MaxU64
    BY <1>1
  <2>2. r \in 0..MaxU64 /\ msgs[i] \in Messages
    BY <1>1
  <2>3. QED
    BY <2>1, <2>2 DEF Events, Event
<1> HIDE DEF x
<1>4. [i \in 1..n |-> x(i)] \in Seq(Events) /\ Len([i \in 1..n |-> x(i)]) = n
  BY <1>1, <1>3
<1>5. \A i \in 1..n : [j \in 1..n |-> x(j)][i] = x(i)
  OBVIOUS
<1>6. QED
  BY <1>2, <1>3, <1>4, <1>5 DEF n, m

(* What a served request leaves behind it: it is answered, or the session  *)
(* is lost.                                                                *)
LEMMA AnswersKeeps ==
  ASSUME ControlInv, InFlight \in Seq(Events), NEW msgs, Answers(msgs)
  PROVE  Meaning'
<1> USE DEF ControlInv
<1> DEFINE f == InFlight
           r == Head(stdin)
           g == Engine!Numbered(r.id, msgs)
           rest == Tail(stdin)
<1>1. /\ stdin # <<>> /\ stdin' = rest /\ state # "cancelled" /\ ~trapped
      /\ IsReply(r.kind, msgs, state, provisionalPlanID, state', provisionalPlanID')
      /\ eventSequence' = eventSequence + Len(msgs) /\ eventSequence' <= MaxU64
      /\ InFlight' = f \o g /\ ~trapped'
      /\ UNCHANGED uiSide /\ UNCHANGED <<commands, driver, receiverClosed>>
  BY DEF Answers, Serves
<1>2. /\ stdin \in Seq(Requests) /\ r \in Requests /\ r.id \in 1..MaxU64
      /\ eventSequence \in 0..MaxU64 /\ lastEventSequence \in 0..MaxU64
  <2>1. stdin \in Seq(Requests) /\ eventSequence \in 0..MaxU64 /\ lastEventSequence \in 0..MaxU64
    BY DEF TypeOK
  <2>2. r \in Requests
    BY <1>1, <2>1, TailAt
  <2>3. QED
    BY <2>1, <2>2 DEF Requests
<1>3. /\ msgs \in Seq(Messages) /\ msgs # <<>> /\ Len(msgs) \in Nat /\ Len(msgs) >= 1
      /\ msgs[1].body \in Acknowledgement /\ msgs[1].kind = r.kind
      /\ \A i \in 2..Len(msgs) : msgs[i].body \notin Acknowledgement
      /\ \A i \in 1..Len(msgs) : msgs[i].body \in {"progress", "scanCancelled"} => i = Len(msgs)
      /\ \A i \in 1..Len(msgs) : msgs[i].body = "scanCancelled" => state' = "cancelled"
      /\ (provisionalPlanID' # NoPlan => state' \in {"planReady", "cancelled"})
      /\ Tells(msgs, state, provisionalPlanID, state', provisionalPlanID')
  <2>1. msgs \in Seq(Messages) /\ msgs # <<>>
    BY <1>1 DEF IsReply
  <2>2. Len(msgs) \in Nat /\ Len(msgs) >= 1
    BY <2>1, TailAt
  <2>3. QED
    BY <1>1, <2>1, <2>2 DEF IsReply
<1>4. /\ g \in Seq(Events) /\ Len(g) = Len(msgs)
      /\ \A i \in 1..Len(msgs) :
           g[i].seq = eventSequence + i /\ g[i].req = r.id /\ g[i].msg = msgs[i]
  <2>1. eventSequence + Len(msgs) <= MaxU64
    BY <1>1
  <2> DEFINE k == r.id
  <2>2. k \in 1..MaxU64
    BY <1>2
  <2> HIDE DEF k
  <2>3. /\ Engine!Numbered(k, msgs) \in Seq(Events) /\ Len(Engine!Numbered(k, msgs)) = Len(msgs)
        /\ \A i \in 1..Len(msgs) :
             /\ Engine!Numbered(k, msgs)[i].seq = eventSequence + i
             /\ Engine!Numbered(k, msgs)[i].req = k
             /\ Engine!Numbered(k, msgs)[i].msg = msgs[i]
    BY <1>2, <1>3, <2>1, <2>2, NumberedReply
  <2>4. QED
    BY <2>3 DEF k
<1> HIDE DEF f, r, g, rest
<1>5. /\ 1 \in 1..Len(g) /\ g # <<>> /\ IsVerdict(g[1]) /\ ~Progress(g[1]) /\ Answered(g[1]) = r
      /\ \A i \in 2..Len(g) : ~IsVerdict(g[i])
      /\ \A i \in 1..Len(g) : Progress(g[i]) => i = Len(g)
  <2>1. 1 \in 1..Len(msgs) /\ 2..Len(msgs) \subseteq 1..Len(msgs)
    BY <1>3
  <2>2. g[1].msg = msgs[1] /\ g[1].req = r.id
    BY <1>4, <2>1
  <2>3. Answered(g[1]) = r
    <3>1. r = [id |-> r.id, kind |-> r.kind]
      BY <1>2 DEF Requests
    <3>2. QED
      BY <1>3, <2>2, <3>1 DEF Answered, Ui!Request
  <2>4. g # <<>>
    BY <1>3, <1>4
  <2>5. IsVerdict(g[1]) /\ ~Progress(g[1])
    BY <1>3, <2>2 DEF IsVerdict, Progress, Acknowledgement
  <2>6. \A i \in 2..Len(g) : ~IsVerdict(g[i])
    BY <1>3, <1>4, <2>1 DEF IsVerdict
  <2>7. \A i \in 1..Len(g) : Progress(g[i]) => i = Len(g)
    BY <1>3, <1>4 DEF Progress
  <2>8. QED
    BY <1>4, <2>1, <2>3, <2>4, <2>5, <2>6, <2>7
<1>6. /\ AnsweredIn(f \o g) = AnsweredIn(f) \cup {r}
      /\ AscendingVerdicts(f) /\ Before(AnsweredIn(f), {r}) => AscendingVerdicts(f \o g)
  BY <1>4, <1>5, AnsweredMore DEF f
<1>7. /\ WrittenIn(stdin) = {r} \cup WrittenIn(rest)
      /\ AscendingRequests(stdin) => AscendingRequests(rest) /\ Before({r}, WrittenIn(rest))
  BY <1>1, <1>2, WrittenOnce DEF r, rest
<1>8. Connected' = Connected /\ driver \notin Early /\ Unsent = {} /\ Unsent' = {}
  <2>1. driver \notin Early
    BY <1>1 DEF NoneForgotten, Early
  <2>2. QED
    BY <1>1, <2>1 DEF Connected, Unsent, Early
<1>9. UnderWay(f \o g, rest, commands) = UnderWay(f, stdin, commands)
  BY <1>6, <1>7 DEF UnderWay
<1>10. InOrder'
  <2>1. \A p \in pending' : p.id < nextRequestId'
    BY <1>1 DEF InOrder, uiSide
  <2>2. ASSUME Connected' PROVE Ascending(InFlight', stdin', commands')
    <3>1. Ascending(f, stdin, commands)
      BY <1>8, <2>2 DEF InOrder, f
    <3>2. Ascending(f \o g, rest, commands)
      BY <1>6, <1>7, <3>1 DEF Ascending, Before
    <3>3. QED
      BY <1>1, <3>2
  <2>3. ASSUME Connected' PROVE UnderWay(InFlight', stdin', commands') \subseteq pending'
    <3>1. UnderWay(f, stdin, commands) \subseteq pending
      BY <1>8, <2>3 DEF InOrder, f
    <3>2. QED
      BY <1>1, <1>9, <3>1 DEF uiSide
  <2>4. QED
    BY <2>1, <2>2, <2>3 DEF InOrder
<1>11. NoneForgotten'
  <2>1. ASSUME terminal' = "none", driver' \in Live
        PROVE  pending' = UnderWay(InFlight', stdin', commands')
    <3>1. pending = UnderWay(f, stdin, commands)
      BY <1>1, <1>8, <2>1 DEF NoneForgotten, f, uiSide
    <3>2. QED
      BY <1>1, <1>9, <3>1 DEF uiSide
  <2>2. QED
    BY <1>1, <1>8, <2>1 DEF NoneForgotten, Early
<1>12. Followed'
  <2>1. ASSUME Connected' PROVE Unmerged(InFlight')
    <3>1. Unmerged(f)
      BY <1>8, <2>1 DEF Followed, f
    <3>2. Unmerged(f \o g)
      BY <1>4, <1>5, <3>1, UnmergedMore DEF f
    <3>3. QED
      BY <1>1, <3>2
  <2>2. ASSUME Connected', terminal' = "none"
        PROVE  /\ Numbers(InFlight', lastEventSequence', eventSequence')
               /\ \E end \in Readers :
                    /\ Leads(InFlight', Shown', end)
                    /\ end.scan = state' /\ end.plan = provisionalPlanID'
               /\ \A i \in 1..Len(InFlight') : InFlight'[i].msg.body = "scanCancelled" =>
                    i = Len(InFlight') /\ state' = "cancelled"
    <3>1. /\ Numbers(f, lastEventSequence, eventSequence)
          /\ \A i \in 1..Len(f) : f[i].msg.body = "scanCancelled" => state = "cancelled"
      BY <1>1, <1>8, <2>2 DEF Followed, f, uiSide
    <3>2. PICK mid \in Readers :
            Leads(f, Shown, mid) /\ mid.scan = state /\ mid.plan = provisionalPlanID
      BY <1>1, <1>8, <2>2 DEF Followed, f, uiSide
    <3>3. PICK end \in Readers :
            Leads(g, mid, end) /\ end.scan = state' /\ end.plan = provisionalPlanID'
      <4> DEFINE k == r.id
      <4>1. \A i \in 1..Len(msgs) : g[i].msg = msgs[i] /\ g[i].req = k
        BY <1>4
      <4>2. k \in 1..MaxU64
        BY <1>2
      <4> HIDE DEF k
      <4>3. \E w \in Readers : Leads(g, mid, w) /\ w.scan = state' /\ w.plan = provisionalPlanID'
        BY <1>3, <1>4, <3>2, <4>1, <4>2 DEF Tells
      <4>4. QED
        BY <4>3
    <3>4. Leads(f \o g, Shown', end)
      <4>1. Shown' = Shown
        BY <1>1 DEF Shown, uiSide
      <4>2. Leads(f \o g, Shown, end)
        BY <1>4, <3>2, <3>3, LeadsFurther DEF f
      <4>3. QED
        BY <4>1, <4>2
    <3> DEFINE h == f \o g
               m == Len(f)
               n == Len(g)
    <3>5. /\ m \in Nat /\ n \in Nat /\ n >= 1 /\ Len(h) = m + n
          /\ \A i \in 1..m : h[i] = f[i]
          /\ \A i \in 1..n : h[m + i] = g[i]
      <4>1. f \in Seq(Events) /\ g \in Seq(Events)
        BY <1>4 DEF f
      <4>2. n >= 1
        BY <1>3, <1>4
      <4>3. QED
        BY <4>1, <4>2, ConcatAt
    <3>a. n = Len(msgs) /\ m = Len(f) /\ n = Len(g)
      BY <1>4
    <3> HIDE DEF h, m, n
    <3>6. ASSUME NEW i \in 1..(m + n)
          PROVE  i \in 1..m \/ (i - m \in 1..n /\ h[i] = g[i - m] /\ i = m + (i - m))
      <4>1. CASE i <= m
        BY <3>5, <4>1
      <4>2. CASE ~(i <= m)
        <5> DEFINE j == i - m
        <5>1. j \in 1..n /\ m + j = i
          BY <3>5, <4>2
        <5> HIDE DEF j
        <5>2. h[i] = g[j]
          BY <3>5, <5>1
        <5>3. QED
          BY <5>1, <5>2 DEF j
      <4>3. QED
        BY <4>1, <4>2
    <3>7. m = eventSequence - lastEventSequence /\ \A i \in 1..m : f[i].seq = lastEventSequence + i
      BY <3>1, <3>a DEF Numbers
    <3>8. Numbers(h, lastEventSequence, eventSequence + n)
      <4> DEFINE k == eventSequence + n
      <4>1. Len(h) = k - lastEventSequence
        BY <1>2, <3>5, <3>7
      <4>2. ASSUME NEW i \in 1..(m + n) PROVE h[i].seq = lastEventSequence + i
        <5>1. CASE i \in 1..m
          BY <3>5, <3>7, <5>1
        <5>2. CASE i - m \in 1..n /\ h[i] = g[i - m]
          <6> DEFINE j == i - m
          <6>1. j \in 1..n /\ h[i] = g[j]
            BY <5>2
          <6>2. lastEventSequence + i = eventSequence + j
            BY <1>2, <3>5, <3>7
          <6> HIDE DEF j
          <6>3. g[j].seq = eventSequence + j
            BY <1>4, <3>a, <6>1
          <6>4. QED
            BY <6>1, <6>2, <6>3
        <5>3. QED
          BY <3>6, <5>1, <5>2
      <4>3. \A i \in 1..Len(h) : h[i].seq = lastEventSequence + i
        BY <3>5, <4>2
      <4> HIDE DEF k
      <4>4. Numbers(h, lastEventSequence, k)
        BY <4>1, <4>3 DEF Numbers
      <4>5. QED
        BY <4>4 DEF k
    <3>9. ASSUME NEW i \in 1..(m + n), h[i].msg.body = "scanCancelled"
          PROVE  i = m + n /\ state' = "cancelled"
      <4>1. CASE i \in 1..m
        BY <1>1, <3>1, <3>5, <3>9, <3>a, <4>1
      <4>2. CASE i - m \in 1..n /\ h[i] = g[i - m]
        <5> DEFINE j == i - m
        <5>1. j \in 1..n /\ h[i] = g[j]
          BY <4>2
        <5> HIDE DEF j
        <5>2. g[j].msg = msgs[j]
          BY <1>4, <3>a, <5>1
        <5>3. j = n /\ state' = "cancelled"
          BY <1>3, <3>9, <3>a, <5>1, <5>2
        <5>4. QED
          BY <3>5, <5>3 DEF j
      <4>3. QED
        BY <3>6, <4>1, <4>2
    <3>10. InFlight' = h /\ lastEventSequence' = lastEventSequence /\ eventSequence' = eventSequence + n
      BY <1>1, <3>a DEF h, uiSide
    <3>11. QED
      BY <3>3, <3>4, <3>5, <3>8, <3>9, <3>10 DEF h
  <2>3. QED
    BY <1>1, <2>1, <2>2 DEF Followed
<1>13. PlanAtRest'
  BY <1>3 DEF PlanAtRest
<1>14. Outcome'
  BY <1>1 DEF Outcome, uiSide
<1>15. QED
  BY <1>10, <1>11, <1>12, <1>13, <1>14 DEF Meaning

(* An engine whose numbers are used up dies before it says anything. *)
LEMMA OverflowsKeeps ==
  ASSUME ControlInv, NEW msgs, Overflows(msgs)
  PROVE  Meaning'
<1> USE DEF ControlInv
<1> DEFINE f == InFlight
           r == Head(stdin)
           rest == Tail(stdin)
<1>1. /\ stdin # <<>> /\ stdin' = rest /\ state # "cancelled"
      /\ IsReply(r.kind, msgs, state, provisionalPlanID, state', provisionalPlanID')
      /\ eventSequence' = eventSequence
      /\ InFlight' = f /\ trapped' = TRUE
      /\ UNCHANGED uiSide /\ UNCHANGED <<commands, driver, receiverClosed>>
  BY DEF Overflows, Serves
<1>2. /\ WrittenIn(rest) \subseteq WrittenIn(stdin)
      /\ AscendingRequests(stdin) => AscendingRequests(rest)
  <2>1. stdin \in Seq(Requests)
    BY DEF TypeOK
  <2>2. QED
    BY <1>1, <2>1, WrittenOnce
<1> HIDE DEF f, r, rest
<1>3. Connected' = Connected /\ driver' \notin Early
  <2>1. driver \notin Early
    BY <1>1 DEF NoneForgotten, Early
  <2>2. QED
    BY <1>1, <2>1 DEF Connected
<1>4. InOrder'
  <2>1. \A p \in pending' : p.id < nextRequestId'
    BY <1>1 DEF InOrder, uiSide
  <2>2. ASSUME Connected' PROVE Ascending(f, rest, commands)
    BY <1>2, <1>3, <2>2 DEF InOrder, Ascending, Before, f
  <2>3. ASSUME Connected' PROVE UnderWay(f, rest, commands) \subseteq pending
    BY <1>2, <1>3, <2>3 DEF InOrder, UnderWay, f
  <2>4. QED
    BY <1>1, <2>1, <2>2, <2>3 DEF InOrder, uiSide
<1>5. NoneForgotten'
  BY <1>1, <1>3 DEF NoneForgotten, Early
<1>6. Followed'
  <2>1. Shown' = Shown
    BY <1>1 DEF Shown, uiSide
  <2>2. ASSUME Connected', terminal' = "none"
        PROVE  /\ Numbers(f, lastEventSequence, eventSequence)
               /\ \E end \in Readers : Leads(f, Shown, end)
               /\ \A i \in 1..Len(f) : f[i].msg.body # "scanCancelled"
    BY <1>1, <1>3, <2>2 DEF Followed, f, uiSide
  <2>3. ASSUME Connected' PROVE Unmerged(f)
    BY <1>3, <2>3 DEF Followed, f
  <2>4. QED
    BY <1>1, <2>1, <2>2, <2>3 DEF Followed, uiSide
<1>7. PlanAtRest'
  BY <1>1 DEF PlanAtRest, IsReply
<1>8. Outcome'
  BY <1>1 DEF Outcome, uiSide
<1>9. QED
  BY <1>4, <1>5, <1>6, <1>7, <1>8 DEF Meaning

-----------------------------------------------------------------------------
(* What is in flight, in one piece.                                        *)

(* However it is put together, it is one sequence of events. *)
LEMMA FlightIs ==
  ASSUME NEW q \in Seq(Items), LastWord(q), NEW pc, NEW e \in Events,
         NEW out \in Seq(Events), NEW ret \in Seq(Events)
  PROVE  /\ Told(q) \o Holding(pc, e) \o out \o ret = Flight(q, pc, e, out, ret)
         /\ Flight(q, pc, e, out, ret) \in Seq(Events)
<1> DEFINE t == Told(q)
           h == Holding(pc, e)
           r == out \o ret
           th == t \o h
           thr == th \o r
<1>1. t \in Seq(Events) /\ h \in Seq(Events)
  BY FlightParts
<1>2. r \in Seq(Events)
  BY ConcatProperties
<1> HIDE DEF t, h, r
<1>3. th \in Seq(Events)
  BY <1>1, ConcatProperties
<1> HIDE DEF th
<1>4. (th \o out) \o ret = thr
  BY <1>3, ConcatAssociative DEF r
<1>5. thr = t \o (h \o r)
  <2>1. t \in Seq(Events) /\ h \in Seq(Events) /\ r \in Seq(Events)
    BY <1>1, <1>2
  <2>2. (t \o h) \o r = t \o (h \o r)
    BY <2>1, ConcatAssociative, SMTT(30)
  <2>3. QED
    BY <2>2 DEF th
<1> HIDE DEF thr
<1>6. Flight(q, pc, e, out, ret) \in Seq(Events)
  BY FlightParts
<1>7. QED
  BY <1>4, <1>5, <1>6 DEF Flight, t, h, r, th

-----------------------------------------------------------------------------
(* What the reducer makes of an event.                                     *)

(* It admits what a reader could take, ... *)
LEMMA Admitted ==
  ASSUME NEW e \in Events, NEW u, Takes(Shown, e, u), IsVerdict(e) => Answered(e) \in pending
  PROVE  Ui!Admits(e)
<1>1. Shown.active = active /\ Shown.scan = scanState /\ Shown.plan = provisionalPlan
  BY DEF Shown, Reader
<1>2. IsOwn(Shown, e) => Ui!OfActiveRequest(e)
  BY <1>1 DEF IsOwn, Ui!OfActiveRequest
<1> DEFINE v == Shown
           b == e.msg.body
<1> HIDE DEF v
<1>3. CASE b = "accepted"
  <2>1. Ui!AcceptedTransition(e.msg.kind, scanState, e.msg.state)
    BY <1>1, <1>3 DEF Takes
  <2>2. Ui!Request(e.req, e.msg.kind) \in pending
    BY <1>3 DEF IsVerdict, Answered, Acknowledgement
  <2>3. QED
    BY <1>3, <2>1, <2>2 DEF Ui!Admits, Ui!AdmitsAccepted
<1>4. CASE b = "rejected"
  <2>1. e.msg.code \in RejectCode /\ e.msg.state = scanState
    BY <1>1, <1>4 DEF Takes
  <2>2. Ui!Request(e.req, e.msg.kind) \in pending
    BY <1>4 DEF IsVerdict, Answered, Acknowledgement
  <2>3. QED
    BY <1>4, <2>1, <2>2 DEF Ui!Admits, Ui!AdmitsRejected, Ui!RejectCode, RejectCode
<1>5. CASE b = "stateChanged"
  BY <1>1, <1>2, <1>5 DEF Takes, Ui!Admits, Ui!AdmitsStateChanged
<1>6. CASE b = "progress"
  BY <1>1, <1>2, <1>6 DEF Takes, Ui!Admits, Ui!AdmitsProgress
<1>7. CASE b = "planReady"
  BY <1>1, <1>2, <1>7
     DEF Takes, Ui!Admits, Ui!AdmitsPlanReady, Ui!NoPlan, NoPlan, Ui!EmptyPlanId, EmptyPlanId
<1>8. CASE b = "planInvalidated"
  BY <1>1, <1>2, <1>8 DEF Takes, Ui!Admits, Ui!AdmitsPlanInvalidated, Ui!NoPlan, NoPlan
<1>9. CASE b = "scanCancelled"
  BY <1>1, <1>2, <1>9 DEF Takes, Ui!Admits, Ui!AdmitsScanCancelled
<1>10. QED
  BY <1>3, <1>4, <1>5, <1>6, <1>7, <1>8, <1>9 DEF Takes

(* ... and what it admits makes it know what the reader would.             *)
LEMMA BodyReduced ==
  ASSUME NEW e \in Events, NEW u, Takes(Shown, e, u), Ui!Admits(e), Ui!ReduceBody(e),
         terminal = "none"
  PROVE  /\ Shown' = u
         /\ pending' = IF IsVerdict(e) THEN pending \ {Answered(e)} ELSE pending
         /\ terminal' = IF e.msg.body = "scanCancelled" THEN "cancelled" ELSE "none"
         /\ UNCHANGED <<driverExited, commands>>
<1>1. Shown = Reader(active, scanState, provisionalPlan)
      /\ Shown' = Reader(active', scanState', provisionalPlan')
  BY DEF Shown
<1>a. Shown.active = active /\ Shown.scan = scanState /\ Shown.plan = provisionalPlan
  BY DEF Shown, Reader
<1>b. \A p : InPhase(Shown, p) = [active EXCEPT !.phase = p]
  BY <1>a DEF InPhase
<1> DEFINE b == e.msg.body
<1>2. Ui!Request(e.req, e.msg.kind) = Answered(e) /\ (IsVerdict(e) <=> b \in {"accepted", "rejected"})
  BY DEF Answered, IsVerdict, Acknowledgement
<1>3. CASE b = "accepted"
  <2>1. Ui!ReduceAccepted(e)
    BY <1>3 DEF Ui!ReduceBody, Ui!ReduceRejected, Ui!ReduceStateChanged, Ui!ReduceProgress,
         Ui!ReducePlanReady, Ui!ReducePlanInvalidated, Ui!ReduceScanCancelled,
         Ui!ReduceScanFinished, Ui!ReduceEngineFailed
  <2>2. u = Reader(Ui!Active(e.req, e.msg.kind, PhaseOnceAccepted(e.msg.kind, provisionalPlan)),
                   e.msg.state, provisionalPlan)
    BY <1>3, <1>a DEF Takes
  <2>3. Ui!PhaseAfterAck(e.msg.kind) = PhaseOnceAccepted(e.msg.kind, provisionalPlan)
    BY DEF Ui!PhaseAfterAck, PhaseOnceAccepted, Ui!NoPlan, NoPlan
  <2>4. QED
    BY <1>1, <1>2, <1>3, <2>1, <2>2, <2>3 DEF Ui!ReduceAccepted
<1>4. CASE b = "rejected"
  <2>1. Ui!ReduceRejected(e)
    BY <1>4 DEF Ui!ReduceBody, Ui!ReduceAccepted, Ui!ReduceStateChanged, Ui!ReduceProgress,
         Ui!ReducePlanReady, Ui!ReducePlanInvalidated, Ui!ReduceScanCancelled,
         Ui!ReduceScanFinished, Ui!ReduceEngineFailed
  <2>2. u = Shown
    BY <1>4 DEF Takes
  <2>3. QED
    BY <1>1, <1>2, <1>4, <2>1, <2>2 DEF Ui!ReduceRejected
<1>5. CASE b = "stateChanged"
  <2>1. Ui!ReduceStateChanged(e)
    BY <1>5 DEF Ui!ReduceBody, Ui!ReduceRejected, Ui!ReduceAccepted, Ui!ReduceProgress,
         Ui!ReducePlanReady, Ui!ReducePlanInvalidated, Ui!ReduceScanCancelled,
         Ui!ReduceScanFinished, Ui!ReduceEngineFailed
  <2>2. PICK p \in Ui!Phase :
          /\ <<active.kind, active.phase, scanState, e.msg.state, p>> \in Ui!PhaseTable
          /\ u = Reader([active EXCEPT !.phase = p], e.msg.state, provisionalPlan)
    BY <1>5, <1>a, <1>b DEF Takes
  <2>3. PICK p2 \in Ui!Phase :
          /\ <<active.kind, active.phase, scanState, e.msg.state, p2>> \in Ui!PhaseTable
          /\ active' = [active EXCEPT !.phase = p2]
    BY <2>1 DEF Ui!ReduceStateChanged
  <2>4. p2 = p
    BY <2>2, <2>3 DEF Ui!PhaseTable
  <2>5. QED
    BY <1>1, <1>2, <1>5, <2>1, <2>2, <2>3, <2>4 DEF Ui!ReduceStateChanged
<1>6. CASE b = "progress"
  <2>1. Ui!ReduceProgress(e)
    BY <1>6 DEF Ui!ReduceBody, Ui!ReduceRejected, Ui!ReduceStateChanged, Ui!ReduceAccepted,
         Ui!ReducePlanReady, Ui!ReducePlanInvalidated, Ui!ReduceScanCancelled,
         Ui!ReduceScanFinished, Ui!ReduceEngineFailed
  <2>2. u = Reader([active EXCEPT !.phase = "steady"], scanState, provisionalPlan)
    BY <1>6, <1>a, <1>b DEF Takes
  <2>3. QED
    BY <1>1, <1>2, <1>6, <2>1, <2>2 DEF Ui!ReduceProgress
<1>7. CASE b = "planReady"
  <2>1. Ui!ReducePlanReady(e)
    BY <1>7 DEF Ui!ReduceBody, Ui!ReduceRejected, Ui!ReduceStateChanged, Ui!ReduceProgress,
         Ui!ReduceAccepted, Ui!ReducePlanInvalidated, Ui!ReduceScanCancelled,
         Ui!ReduceScanFinished, Ui!ReduceEngineFailed
  <2>2. u = Reader([active EXCEPT !.phase = "steady"], scanState, e.msg.plan)
    BY <1>7, <1>a, <1>b DEF Takes
  <2>3. QED
    BY <1>1, <1>2, <1>7, <2>1, <2>2 DEF Ui!ReducePlanReady
<1>8. CASE b = "planInvalidated"
  <2>1. Ui!ReducePlanInvalidated(e)
    BY <1>8 DEF Ui!ReduceBody, Ui!ReduceRejected, Ui!ReduceStateChanged, Ui!ReduceProgress,
         Ui!ReducePlanReady, Ui!ReduceAccepted, Ui!ReduceScanCancelled,
         Ui!ReduceScanFinished, Ui!ReduceEngineFailed
  <2>2. u = Reader([active EXCEPT !.phase = "awaitingResumeState"], scanState, NoPlan)
    BY <1>8, <1>a, <1>b DEF Takes
  <2>3. QED
    BY <1>1, <1>2, <1>8, <2>1, <2>2 DEF Ui!ReducePlanInvalidated, Ui!NoPlan, NoPlan
<1>9. CASE b = "scanCancelled"
  <2>1. Ui!ReduceScanCancelled(e)
    BY <1>9 DEF Ui!ReduceBody, Ui!ReduceRejected, Ui!ReduceStateChanged, Ui!ReduceProgress,
         Ui!ReducePlanReady, Ui!ReducePlanInvalidated, Ui!ReduceAccepted,
         Ui!ReduceScanFinished, Ui!ReduceEngineFailed
  <2>2. u = Shown
    BY <1>9 DEF Takes
  <2>3. QED
    BY <1>1, <1>2, <1>9, <2>1, <2>2 DEF Ui!ReduceScanCancelled
<1>10. QED
  BY <1>3, <1>4, <1>5, <1>6, <1>7, <1>8, <1>9 DEF Takes

(* So the next event in order, if some reader could take it, is reduced.   *)
LEMMA EventReduced ==
  ASSUME TypeOK, NEW e \in Events, NEW u, Takes(Shown, e, u), e.seq = lastEventSequence + 1,
         IsVerdict(e) => Answered(e) \in pending,
         Ui!ReduceEngineEvent(Delivery(e, 0))
  PROVE  /\ Shown' = u
         /\ lastEventSequence' = lastEventSequence + 1
         /\ pending' = IF IsVerdict(e) THEN pending \ {Answered(e)} ELSE pending
         /\ terminal' = IF e.msg.body = "scanCancelled" THEN "cancelled" ELSE "none"
         /\ UNCHANGED <<nextRequestId, driverExited, commands, driverListens>>
<1> DEFINE d == Delivery(e, 0)
<1>1. d.event = e /\ d.skipped = 0
  BY DEF Delivery
<1> HIDE DEF d
<1>2. Ui!SequenceIsNext(d)
  <2>1. lastEventSequence + 1 + 0 = e.seq /\ e.seq <= MaxU64 /\ ~(0 > 0)
    BY MaxU64Assumption DEF TypeOK, Events
  <2>2. QED
    BY <1>1, <2>1 DEF Ui!SequenceIsNext
<1>3. /\ terminal = "none" /\ lastEventSequence' = e.seq /\ Ui!ReduceBody(e)
      /\ UNCHANGED <<nextRequestId, driverListens>>
  BY <1>1, <1>2 DEF Ui!ReduceEngineEvent, d
<1>4. Ui!Admits(e)
  BY Admitted
<1>5. QED
  BY <1>3, <1>4, BodyReduced

(* What is in flight, in the present state, ... *)
LEMMA FlightNow == InFlight = Told(queue) \o Holding(driver, held) \o stdout \o returned
BY DEF InFlight, Queued, Told, Engines, Holding

(* ... in the next, ... *)
LEMMA FlightNext == InFlight' = Told(queue') \o Holding(driver', held') \o stdout' \o returned'
BY DEF InFlight, Queued, Told, Engines, Holding

(* ... and as one sequence, in the present state ... *)
LEMMA FlightTyped ==
  ASSUME TypeOK, Places
  PROVE  /\ LastWord(queue)
         /\ InFlight = Flight(queue, driver, held, stdout, returned)
         /\ InFlight \in Seq(Events)
<1>1. LastWord(queue)
  BY DEF Places, LastWord
<1>2. queue \in Seq(Items) /\ held \in Events /\ stdout \in Seq(Events) /\ returned \in Seq(Events)
  BY DEF TypeOK
<1>3. /\ Told(queue) \o Holding(driver, held) \o stdout \o returned =
           Flight(queue, driver, held, stdout, returned)
      /\ Flight(queue, driver, held, stdout, returned) \in Seq(Events)
  BY <1>1, <1>2, FlightIs
<1>4. QED
  BY <1>1, <1>3, FlightNow

(* ... and in the next, as far as the new queue and pipes are well         *)
(* formed.                                                                 *)
LEMMA FlightThen ==
  ASSUME queue' \in Seq(Items), LastWord(queue'), held' \in Events, stdout' \in Seq(Events),
         returned' \in Seq(Events)
  PROVE  InFlight' = Flight(queue', driver', held', stdout', returned')
BY FlightNext, FlightIs

(* A step that leaves the queue and the pipes alone. *)
LEMMA FlightStill ==
  ASSUME UNCHANGED <<queue, held, stdout, returned>>, driver' = "sending" <=> driver = "sending"
  PROVE  InFlight' = InFlight
<1>1. Holding(driver', held') = Holding(driver, held)
  BY DEF Holding
<1>2. QED
  BY <1>1, FlightNow, FlightNext

-----------------------------------------------------------------------------
(* The terminal.                                                           *)

(* A restore tries all there is to undo. *)
LEMMA RestoreTries ==
  ASSUME NEW g, g.inForce \subseteq g.marked, NEW r \in Restorations(g)
  PROVE  r.inForce \subseteq r.marked /\ ~Terminal!Forsakes(r)
<1>1. PICK failed \in SUBSET g.marked :
        r = Terminal!Guard(failed, (g.inForce \ g.marked) \cup failed,
                           failed \cup (g.refused \ g.marked))
  BY DEF Restorations, Terminal!Restored
<1>2. r.inForce = failed /\ r.marked = failed /\ failed \subseteq r.refused
  BY <1>1 DEF Terminal!Guard
<1>3. QED
  BY <1>2 DEF Terminal!Forsakes

(* The guard, whole or half, is given back without a change forsaken. *)
LEMMA GuardsMatch ==
  /\ \A g \in {Terminal!NoGuard, Terminal!Entered} : g.inForce \subseteq g.marked
  /\ \A g \in Terminal!HalfEntered : g.inForce \subseteq g.marked
BY DEF Terminal!NoGuard, Terminal!Entered, Terminal!HalfEntered, Terminal!Guard

(* The guard that the locals of `run` drop leaves the terminal as it was. *)
LEMMA GivenBack ==
  ASSUME TerminalKept, GiveTerminalBack
  PROVE  TerminalKept'
<1>1. PICK g \in Restorations(guard) : \E left \in Restorations(g) :
        forsaken' = (forsaken \/ Terminal!Forsakes(left))
  BY DEF GiveTerminalBack
<1>2. PICK left \in Restorations(g) : forsaken' = (forsaken \/ Terminal!Forsakes(left))
  BY <1>1
<1>3. guard.inForce \subseteq guard.marked
  BY GuardsMatch DEF TerminalKept
<1>4. g.inForce \subseteq g.marked
  BY <1>1, <1>3, RestoreTries
<1>5. ~Terminal!Forsakes(left)
  BY <1>2, <1>4, RestoreTries
<1>6. forsaken' = FALSE
  BY <1>2, <1>5 DEF TerminalKept
<1>7. QED
  BY <1>6 DEF TerminalKept, GiveTerminalBack

-----------------------------------------------------------------------------
(* The steps of the UI thread in which nothing is said.                    *)

(* Such a step says nothing. *)
LEMMA UiIdles ==
  ASSUME ControlInv,
         UNCHANGED <<pending, nextRequestId, active, scanState, provisionalPlan,
                     lastEventSequence, terminal, driverExited>>,
         UNCHANGED <<queue, driver, held, stdin, stdout, returned, engine>>,
         UNCHANGED <<state, eventSequence, provisionalPlanID, trapped>>,
         receiverClosed => receiverClosed',
         CarriedIn(commands') = CarriedIn(commands),
         AscendingCommands(commands) => AscendingCommands(commands')
  PROVE  Idles
<1>1. InFlight' = InFlight
  BY FlightStill
<1>2. Connected' => Connected
  BY DEF Connected
<1>3. UNCHANGED uiSide /\ UNCHANGED engineSide
  BY DEF uiSide, engineSide
<1>4. QED
  BY <1>1, <1>2, <1>3 DEF Idles

(* The terminal is entered, or that fails half way. *)
LEMMA EnterTerminalStep ==
  ASSUME ControlInv, EnterTerminal
  PROVE  ControlInv'
<1> USE DEF ControlInv
<1>1. /\ UNCHANGED <<uiVars, channelVars, driverVars, queueVars, pipeVars, engineVars, engine>>
      /\ ui = "entering" /\ ui' \in {"running", "leaving"}
  BY DEF EnterTerminal
<1>2. TypeOK'
  BY <1>1 DEF TypeOK, uiVars, channelVars, driverVars, queueVars, pipeVars, engineVars
<1>3. Places'
  BY <1>1 DEF Places, channelVars, driverVars, queueVars, engineVars
<1>4. TerminalKept'
  <2>1. ~receiverClosed'
    BY <1>1 DEF Places, queueVars
  <2>2. CASE guard' = Terminal!Entered /\ UNCHANGED forsaken
    BY <2>1, <2>2 DEF TerminalKept
  <2>3. CASE /\ \E half \in Terminal!HalfEntered : \E left \in Restorations(half) :
                  forsaken' = Terminal!Forsakes(left)
             /\ UNCHANGED guard
    <3>1. forsaken' = FALSE
      BY <2>3, GuardsMatch, RestoreTries
    <3>2. QED
      BY <2>1, <2>3, <3>1 DEF TerminalKept
  <2>4. QED
    BY <2>2, <2>3 DEF EnterTerminal
<1>5. Meaning'
  BY <1>1, UiIdles, IdlesKeeps
     DEF uiVars, channelVars, driverVars, queueVars, pipeVars, engineVars
<1>6. QED
  BY <1>2, <1>3, <1>4, <1>5 DEF Meaning

(* The loop ends, with an outcome or an I/O error. *)
LEMMA LeaveLoopStep ==
  ASSUME ControlInv, LeaveLoop \/ TerminalIoError
  PROVE  ControlInv'
<1> USE DEF ControlInv
<1>1. /\ UNCHANGED <<uiVars, channelVars, guardVars, driverVars, queueVars, pipeVars, engineVars,
                     engine>>
      /\ ui = "running" /\ ui' = "leaving"
  BY DEF LeaveLoop, TerminalIoError
<1>2. TypeOK'
  BY <1>1 DEF TypeOK, uiVars, channelVars, driverVars, queueVars, pipeVars, engineVars
<1>3. Places'
  BY <1>1 DEF Places, channelVars, driverVars, queueVars, engineVars
<1>4. TerminalKept'
  BY <1>1 DEF TerminalKept, guardVars, queueVars
<1>5. Meaning'
  BY <1>1, UiIdles, IdlesKeeps
     DEF uiVars, channelVars, driverVars, queueVars, pipeVars, engineVars
<1>6. QED
  BY <1>2, <1>3, <1>4, <1>5 DEF Meaning

(* The event source and the guard are dropped. *)
LEMMA DropSourceStep ==
  ASSUME ControlInv, DropSource
  PROVE  ControlInv'
<1> USE DEF ControlInv
<1>1. /\ UNCHANGED <<uiVars, channelVars, queue, driverVars, pipeVars, engineVars, engine>>
      /\ ui = "leaving" /\ ui' = "stopping" /\ receiverClosed' = TRUE /\ GiveTerminalBack
  BY DEF DropSource
<1>2. TypeOK'
  BY <1>1 DEF TypeOK, uiVars, channelVars, driverVars, pipeVars, engineVars
<1>3. Places'
  BY <1>1 DEF Places, channelVars, driverVars, engineVars
<1>4. TerminalKept'
  BY <1>1, GivenBack
<1>5. Meaning'
  BY <1>1, UiIdles, IdlesKeeps
     DEF uiVars, channelVars, driverVars, pipeVars, engineVars
<1>6. QED
  BY <1>2, <1>3, <1>4, <1>5 DEF Meaning

(* The driver's handle is dropped, and with it goes the order to stop. *)
LEMMA DropDriverStep ==
  ASSUME ControlInv, DropDriver
  PROVE  ControlInv'
<1> USE DEF ControlInv
<1>1. /\ UNCHANGED <<uiVars, driverListens, guardVars, driverVars, queueVars, pipeVars, engineVars,
                     engine>>
      /\ ui = "stopping" /\ ui' = "joining"
      /\ commands' = commands \/ commands' = Append(commands, Ui!StopDriver)
  BY DEF DropDriver
<1>2. /\ commands \in Seq(Commands) /\ Ui!StopDriver \in Commands /\ ~IsControl(Ui!StopDriver)
  BY DEF TypeOK, Commands, IsControl, Ui!StopDriver
<1>3. /\ commands' \in Seq(Commands) /\ CarriedIn(commands') = CarriedIn(commands)
      /\ AscendingCommands(commands) => AscendingCommands(commands')
  <2>1. CASE commands' = commands
    BY <1>2, <2>1
  <2>2. CASE commands' = Append(commands, Ui!StopDriver)
    BY <1>2, <2>2, CarriedMore, AppendAt
  <2>3. QED
    BY <1>1, <2>1, <2>2
<1>4. TypeOK'
  BY <1>1, <1>3 DEF TypeOK, uiVars, driverVars, queueVars, pipeVars, engineVars
<1>5. Places'
  BY <1>1 DEF Places, driverVars, queueVars, engineVars
<1>6. TerminalKept'
  BY <1>1 DEF TerminalKept, guardVars, queueVars
<1>7. Meaning'
  BY <1>1, <1>3, UiIdles, IdlesKeeps
     DEF uiVars, driverVars, queueVars, pipeVars, engineVars
<1>8. QED
  BY <1>4, <1>5, <1>6, <1>7 DEF Meaning

(* The driver's thread is joined. *)
LEMMA JoinDriverStep ==
  ASSUME ControlInv, JoinDriver
  PROVE  ControlInv'
<1> USE DEF ControlInv
<1>1. /\ UNCHANGED <<uiVars, channelVars, guardVars, driverVars, queueVars, pipeVars, engineVars,
                     engine>>
      /\ ui = "joining" /\ driver = "done" /\ ui' = "done"
  BY DEF JoinDriver
<1>2. TypeOK'
  BY <1>1 DEF TypeOK, uiVars, channelVars, driverVars, queueVars, pipeVars, engineVars
<1>3. Places'
  BY <1>1 DEF Places, channelVars, driverVars, queueVars, engineVars
<1>4. TerminalKept'
  BY <1>1 DEF TerminalKept, guardVars, queueVars
<1>5. Meaning'
  BY <1>1, UiIdles, IdlesKeeps
     DEF uiVars, channelVars, driverVars, queueVars, pipeVars, engineVars
<1>6. QED
  BY <1>2, <1>3, <1>4, <1>5 DEF Meaning

(* Nothing happens. *)
LEMMA NothingStep ==
  ASSUME ControlInv, UNCHANGED vars
  PROVE  ControlInv'
<1> USE DEF ControlInv
<1>1. /\ UNCHANGED <<uiVars, channelVars, guardVars, driverVars, queueVars, pipeVars, engineVars,
                     engine>>
      /\ ui' = ui
  BY DEF vars
<1>2. TypeOK'
  BY <1>1 DEF TypeOK, uiVars, channelVars, driverVars, queueVars, pipeVars, engineVars
<1>3. Places'
  BY <1>1 DEF Places, channelVars, driverVars, queueVars, engineVars
<1>4. TerminalKept'
  BY <1>1 DEF TerminalKept, guardVars, queueVars
<1>5. Meaning'
  BY <1>1, UiIdles, IdlesKeeps
     DEF uiVars, channelVars, driverVars, queueVars, pipeVars, engineVars
<1>6. QED
  BY <1>2, <1>3, <1>4, <1>5 DEF Meaning

-----------------------------------------------------------------------------
(* The steps of the driver and of the engine in which nothing is said.     *)

(* A step that leaves both sides of the conversation alone says nothing. *)
LEMMA DriverIdles ==
  ASSUME ControlInv, UNCHANGED uiVars, UNCHANGED <<commands, receiverClosed>>,
         UNCHANGED <<stdin, state, eventSequence, provisionalPlanID, trapped>>,
         InFlight' = InFlight,
         driver' \in Live => driver \in Live /\ (driver' \in Early <=> driver \in Early),
         engine = "exited" => engine' = "exited"
  PROVE  Idles
<1>1. Connected' => Connected
  BY DEF Connected
<1>2. UNCHANGED uiSide /\ UNCHANGED engineSide
  BY DEF uiSide, engineSide, uiVars
<1>3. QED
  BY <1>1, <1>2 DEF Idles

(* The driver goes from one place to another, and meets an error perhaps. *)
Moves(from, to) ==
  /\ driver = from /\ driver' = to
  /\ driverOk' \in BOOLEAN /\ (driverOk' => driverOk)
  /\ UNCHANGED <<uiVars, channelVars, ui, guardVars, queueVars, held, stdin, stdout, engineVars>>

(* Such a move keeps the invariant, if it ends where the process lets it. *)
LEMMA MovesKeep ==
  ASSUME ControlInv, NEW from, NEW to, Moves(from, to),
         from # "sending", to \in (Live \ {"sending", "connecting"}) \cup {"closing", "waiting", "leaving"},
         from \notin {"leaving", "reporting", "done"},
         to \in Live => from \in Live /\ (to \in Early <=> from \in Early),
         engine' \in {"absent", "running", "exited", "died", "killed"},
         engine = "exited" => engine' = "exited",
         trapped => engine' = "died",
         to = "leaving" => engine' # "running" /\ (driverOk' => engine' = "exited")
  PROVE  ControlInv'
<1> USE DEF ControlInv
<1>1. /\ UNCHANGED <<uiVars, channelVars, ui, guardVars, queueVars, held, stdin, stdout, engineVars>>
      /\ driver = from /\ driver' = to /\ driverOk' \in BOOLEAN /\ (driverOk' => driverOk)
  BY DEF Moves
<1>2. TypeOK'
  BY <1>1 DEF TypeOK, uiVars, channelVars, queueVars, engineVars, Live
<1>3. Places'
  BY <1>1 DEF Places, channelVars, queueVars, engineVars, Live
<1>4. TerminalKept'
  BY <1>1 DEF TerminalKept, guardVars, queueVars
<1>5. InFlight' = InFlight
  BY <1>1, FlightStill DEF queueVars, engineVars, Live
<1>6. Idles
  BY <1>1, <1>5, DriverIdles DEF channelVars, queueVars, engineVars
<1>7. Meaning'
  BY <1>6, IdlesKeeps
<1>8. QED
  BY <1>2, <1>3, <1>4, <1>7 DEF Meaning

(* What the next place makes of the engine that is there. *)
LEMMA StaysSound ==
  ASSUME ControlInv
  PROVE  /\ engine \in {"absent", "running", "exited", "died", "killed"}
         /\ trapped => engine = "died"
         /\ driverOk \in BOOLEAN
  BY DEF ControlInv, TypeOK, Places

(* The engine is started, ... *)
LEMMA ConnectStep ==
  ASSUME ControlInv, Connect
  PROVE  ControlInv'
<1>1. Moves("connecting", "starting") /\ engine' = "running"
  BY DEF Connect, GoTo, Moves, ControlInv, TypeOK, pipeVars
<1>2. engine = "absent" /\ ~trapped
  BY DEF Connect, ControlInv, Places
<1>3. QED
  BY <1>1, <1>2, MovesKeep DEF Live, Early

(* ... or can not be. *)
LEMMA ConnectFailsStep ==
  ASSUME ControlInv, ConnectFails
  PROVE  ControlInv'
<1>1. Moves("connecting", "leaving") /\ ~driverOk' /\ engine' = engine
  BY DEF ConnectFails, FailTo, Moves, pipeVars
<1>2. engine = "absent"
  BY DEF ConnectFails, ControlInv, Places
<1>3. QED
  BY <1>1, <1>2, StaysSound, MovesKeep DEF Live, Early

(* The command channel is empty, ... *)
LEMMA FindNoCommandStep ==
  ASSUME ControlInv, FindNoCommand
  PROVE  ControlInv'
<1>1. Moves("draining", "reading") /\ engine' = engine
  BY StaysSound DEF FindNoCommand, GoTo, Moves, pipeVars
<1>2. QED
  BY <1>1, StaysSound, MovesKeep DEF Live, Early

(* ... the engine has said nothing for a while, ... *)
LEMMA ReadTimesOutStep ==
  ASSUME ControlInv, ReadTimesOut
  PROVE  ControlInv'
<1>1. Moves("reading", "draining") /\ engine' = engine
  BY StaysSound DEF ReadTimesOut, GoTo, Moves, pipeVars
<1>2. QED
  BY <1>1, StaysSound, MovesKeep DEF Live, Early

(* ... or it never will again. *)
LEMMA ReadFailsStep ==
  ASSUME ControlInv, ReadFails
  PROVE  ControlInv'
<1>1. Moves("reading", "closing") /\ engine' = engine
  BY StaysSound DEF ReadFails, FailTo, Moves, pipeVars
<1>2. QED
  BY <1>1, StaysSound, MovesKeep DEF Live, Early

(* The engine's input is closed ... *)
LEMMA CloseStdinStep ==
  ASSUME ControlInv, CloseStdin
  PROVE  ControlInv'
<1>1. Moves("closing", "waiting") /\ engine' = engine
  BY StaysSound DEF CloseStdin, GoTo, Moves
<1>2. QED
  BY <1>1, StaysSound, MovesKeep DEF Live, Early

(* ... and its process is reaped. *)
LEMMA ReapStep ==
  ASSUME ControlInv, Reap
  PROVE  ControlInv'
<1>1. Moves("waiting", "leaving") /\ engine' = engine
  BY StaysSound DEF Reap, Moves, pipeVars
<1>2. engine # "running" /\ (driverOk' => engine = "exited")
  BY DEF Reap
<1>3. QED
  BY <1>1, <1>2, StaysSound, MovesKeep DEF Live, Early

(* The engine's process ends, by itself or not. *)
LEMMA ProcessEndsStep ==
  ASSUME ControlInv, Exit \/ Crash \/ KillEngine
  PROVE  ControlInv'
<1> USE DEF ControlInv
<1>1. /\ UNCHANGED <<uiVars, channelVars, ui, guardVars, driverVars, queueVars, pipeVars, engineVars>>
      /\ engine = "running" /\ engine' \in {"exited", "died", "killed"}
  BY DEF Exit, Crash, KillEngine, Idle
<1>2. TypeOK'
  BY <1>1 DEF TypeOK, uiVars, channelVars, driverVars, queueVars, pipeVars, engineVars
<1>3. Places'
  BY <1>1 DEF Places, channelVars, driverVars, queueVars, engineVars
<1>4. TerminalKept'
  BY <1>1 DEF TerminalKept, guardVars, queueVars
<1>5. InFlight' = InFlight
  BY <1>1, FlightStill DEF driverVars, queueVars, pipeVars, engineVars
<1>6. Idles
  BY <1>1, <1>5, DriverIdles DEF channelVars, driverVars, queueVars, pipeVars, engineVars
<1>7. Meaning'
  BY <1>6, IdlesKeeps
<1>8. QED
  BY <1>2, <1>3, <1>4, <1>7 DEF Meaning

(* Commands that were not taken are dropped with the channel. *)
LEMMA LeaveStep ==
  ASSUME ControlInv, Leave
  PROVE  ControlInv'
<1> USE DEF ControlInv
<1>1. /\ UNCHANGED <<uiVars, ui, guardVars, queueVars, pipeVars, engineVars, engine>>
      /\ driver = "leaving" /\ driver' = "reporting" /\ UNCHANGED <<held, driverOk>>
      /\ driverListens' = FALSE /\ commands' = <<>>
  BY DEF Leave, GoTo, Ui!DriverLeaves, Ui!appVars, uiVars
<1>2. TypeOK'
  <2>1. commands' \in Seq(Commands)
    BY <1>1
  <2>2. QED
    BY <1>1, <2>1 DEF TypeOK, uiVars, queueVars, pipeVars, engineVars
<1>3. Places'
  BY <1>1 DEF Places, queueVars, engineVars
<1>4. TerminalKept'
  BY <1>1 DEF TerminalKept, guardVars, queueVars
<1>5. InFlight' = InFlight
  BY <1>1, FlightStill DEF queueVars, pipeVars, engineVars
<1>6. CarriedIn(commands') = {} /\ AscendingCommands(commands') /\ ~(driver' \in Live)
  BY <1>1, NothingUnderWay DEF Live
<1>7. Connected' => Connected
  BY <1>1, <1>6 DEF Connected, queueVars
<1>8. Idles
  BY <1>1, <1>5, <1>6, <1>7 DEF Idles, uiSide, engineSide, uiVars, pipeVars, engineVars
<1>9. Meaning'
  BY <1>8, IdlesKeeps
<1>10. QED
  BY <1>2, <1>3, <1>4, <1>9 DEF Meaning

(* An event passes from the pipe to the driver, ... *)
LEMMA ReadEventStep ==
  ASSUME ControlInv, ReadEvent
  PROVE  ControlInv'
<1> USE DEF ControlInv
<1>1. /\ UNCHANGED <<uiVars, channelVars, ui, guardVars, driverOk, queueVars, stdin, stdinOpen,
                     engineVars, engine>>
      /\ driver = "reading" /\ stdout # <<>> /\ held' = Head(stdout) /\ stdout' = Tail(stdout)
      /\ driver' = "sending"
  BY DEF ReadEvent
<1>2. stdout \in Seq(Events) /\ returned \in Seq(Events) /\ queue \in Seq(Items)
  BY DEF TypeOK
<1>3. held' \in Events /\ stdout' \in Seq(Events)
  BY <1>1, <1>2, TailAt
<1>4. TypeOK'
  BY <1>1, <1>3 DEF TypeOK, uiVars, channelVars, queueVars, engineVars, Live
<1>5. Places'
  BY <1>1 DEF Places, channelVars, queueVars, engineVars
<1>6. TerminalKept'
  BY <1>1 DEF TerminalKept, guardVars, queueVars
<1>7. InFlight' = InFlight
  <2>1. LastWord(queue) /\ InFlight = Flight(queue, driver, held, stdout, returned)
    BY FlightTyped
  <2>2. queue' = queue /\ returned' = returned
    BY <1>1 DEF queueVars, engineVars
  <2>3. InFlight' = Flight(queue', driver', held', stdout', returned')
    BY <1>2, <1>3, <2>1, <2>2, FlightThen
  <2>4. Flight(queue, "sending", Head(stdout), Tail(stdout), returned) =
        Flight(queue, driver, held, stdout, returned)
    BY <1>1, <1>2, FlightRead
  <2>5. QED
    BY <1>1, <2>1, <2>2, <2>3, <2>4
<1>8. Idles
  BY <1>1, <1>7, DriverIdles DEF channelVars, queueVars, engineVars, Live, Early
<1>9. Meaning'
  BY <1>8, IdlesKeeps
<1>10. QED
  BY <1>4, <1>5, <1>6, <1>9 DEF Meaning

(* ... and from the engine to the pipe. *)
LEMMA WriteEventStep ==
  ASSUME ControlInv, WriteEvent
  PROVE  ControlInv'
<1> USE DEF ControlInv
<1>1. /\ UNCHANGED <<uiVars, channelVars, ui, guardVars, driverVars, queueVars, stdin, stdinOpen, state,
                     eventSequence, requestIDHighWaterMark, provisionalPlanID, trapped, engine>>
      /\ returned # <<>> /\ stdout' = Append(stdout, Head(returned)) /\ returned' = Tail(returned)
  BY DEF WriteEvent
<1>2. stdout \in Seq(Events) /\ returned \in Seq(Events) /\ queue \in Seq(Items) /\ held \in Events
  BY DEF TypeOK
<1>3. stdout' \in Seq(Events) /\ returned' \in Seq(Events)
  <2>1. Head(returned) \in Events /\ Tail(returned) \in Seq(Events)
    BY <1>1, <1>2, TailAt
  <2>2. QED
    BY <1>1, <1>2, <2>1
<1>4. TypeOK'
  BY <1>1, <1>3 DEF TypeOK, uiVars, channelVars, queueVars, driverVars
<1>5. Places'
  BY <1>1 DEF Places, channelVars, queueVars, driverVars
<1>6. TerminalKept'
  BY <1>1 DEF TerminalKept, guardVars, queueVars
<1>7. InFlight' = InFlight
  <2>1. LastWord(queue) /\ InFlight = Flight(queue, driver, held, stdout, returned)
    BY FlightTyped
  <2>2. queue' = queue /\ held' = held /\ driver' = driver
    BY <1>1 DEF queueVars, driverVars
  <2>3. InFlight' = Flight(queue', driver', held', stdout', returned')
    BY <1>2, <1>3, <2>1, <2>2, FlightThen
  <2>4. Flight(queue, driver, held, Append(stdout, Head(returned)), Tail(returned)) =
        Flight(queue, driver, held, stdout, returned)
    BY <1>1, <1>2, FlightWritten
  <2>5. QED
    BY <1>1, <2>1, <2>2, <2>3, <2>4
<1>8. Idles
  BY <1>1, <1>7, DriverIdles DEF channelVars, queueVars, driverVars
<1>9. Meaning'
  BY <1>8, IdlesKeeps
<1>10. QED
  BY <1>4, <1>5, <1>6, <1>9 DEF Meaning

-----------------------------------------------------------------------------
(* The user presses a key.                                                 *)

(* A key that only changes what is on screen. *)
LEMMA HelpKeyStep ==
  ASSUME ControlInv,
         UNCHANGED <<scanState, provisionalPlan, pending, active, terminal, driverExited,
                     lastEventSequence, nextRequestId, commands, driverListens>>,
         UNCHANGED <<ui, guardVars, driverVars, queueVars, pipeVars, engineVars, engine>>
  PROVE  ControlInv'
<1> USE DEF ControlInv
<1>1. TypeOK'
  BY DEF TypeOK, driverVars, queueVars, pipeVars, engineVars
<1>2. Places'
  BY DEF Places, driverVars, queueVars, engineVars
<1>3. TerminalKept'
  BY DEF TerminalKept, guardVars, queueVars
<1>4. Meaning'
  BY UiIdles, IdlesKeeps DEF driverVars, queueVars, pipeVars, engineVars
<1>5. QED
  BY <1>1, <1>2, <1>3, <1>4 DEF Meaning

(* A key that asks the engine for something, or finds that no id is left. *)
LEMMA RequestKeyStep ==
  ASSUME ControlInv, NEW k \in ControlKind, terminal = "none",
         Ui!SendRequest(k) \/ Ui!ExhaustRequestIds(k),
         UNCHANGED driverListens,
         UNCHANGED <<ui, guardVars, driverVars, queueVars, pipeVars, engineVars, engine>>
  PROVE  ControlInv'
<1> USE DEF ControlInv
<1>1. commands \in Seq(Commands) /\ nextRequestId \in 2..MaxU64 /\ pending \in SUBSET Requests
  BY DEF TypeOK
<1>2. Places'
  BY DEF Places, driverVars, queueVars, engineVars
<1>3. TerminalKept'
  BY DEF TerminalKept, guardVars, queueVars
<1>4. InFlight' = InFlight
  BY FlightStill DEF driverVars, queueVars, pipeVars, engineVars
<1>5. UNCHANGED engineSide /\ UNCHANGED <<driver, receiverClosed, engine>>
  BY DEF engineSide, driverVars, queueVars, pipeVars, engineVars
<1>6. /\ queue' \in Seq(Items) /\ stdout' \in Seq(Events) /\ returned' \in Seq(Events)
      /\ stdin' \in Seq(Requests) /\ held' \in Events
  BY DEF TypeOK, driverVars, queueVars, pipeVars, engineVars
<1>7. CASE Ui!SendRequest(k)
  <2> DEFINE r == Ui!Request(nextRequestId, k)
             x == Ui!SendControl(nextRequestId, k)
  <2>1. /\ nextRequestId < MaxU64 /\ nextRequestId' = nextRequestId + 1
        /\ pending' = pending \cup {r}
        /\ UNCHANGED <<provisionalPlan, active, lastEventSequence>>
        /\ \/ /\ driverListens /\ commands' = Append(commands, x)
              /\ UNCHANGED <<scanState, terminal, driverExited>>
           \/ /\ ~driverListens /\ scanState' = "failed" /\ terminal' = "failed"
              /\ driverExited' = TRUE /\ UNCHANGED commands
    BY <1>7 DEF Ui!SendRequest, Ui!PerformSend
  <2>2. /\ r \in Requests /\ r.id = nextRequestId /\ x \in Commands
        /\ nextRequestId' \in 2..MaxU64 /\ nextRequestId \in Nat
    BY <1>1, <2>1, MaxU64Assumption DEF Requests, Commands, Ui!Request, Ui!SendControl
  <2> HIDE DEF r, x
  <2>3. TypeOK'
    <3>1. commands' \in Seq(Commands)
      BY <1>1, <2>1, <2>2, AppendAt
    <3>2. pending' \in SUBSET Requests
      BY <1>1, <2>1, <2>2
    <3>3. scanState' \in ScanState /\ terminal' \in Ui!Terminal /\ driverExited' \in BOOLEAN
      BY <2>1 DEF TypeOK, ScanState, Ui!Terminal
    <3>4. QED
      BY <1>6, <2>1, <2>2, <3>1, <3>2, <3>3 DEF TypeOK, driverVars, queueVars, engineVars
  <2>4. CASE driverListens
    <3>1. Asks(k)
      BY <1>4, <1>5, <2>1, <2>4 DEF Asks, r, x
    <3>2. Meaning'
      BY <3>1, AsksKeeps
    <3>3. QED
      BY <1>2, <1>3, <2>3, <3>2 DEF Meaning
  <2>5. CASE ~driverListens
    <3>1. ASSUME NEW p \in pending' PROVE p.id < nextRequestId'
      <4>1. p \in pending => p.id \in Nat /\ p.id < nextRequestId
        BY <1>1 DEF Requests, InOrder
      <4>2. QED
        BY <2>1, <2>2, <4>1
    <3>2. Fails
      BY <1>4, <1>5, <2>1, <2>5, <3>1 DEF Fails
    <3>3. Meaning'
      BY <3>2, FailsKeeps
    <3>4. QED
      BY <1>2, <1>3, <2>3, <3>3 DEF Meaning
  <2>6. QED
    BY <2>4, <2>5
<1>8. CASE Ui!ExhaustRequestIds(k)
  <2>1. /\ nextRequestId = MaxU64 /\ scanState' = "failed" /\ terminal' = "failed"
        /\ UNCHANGED <<provisionalPlan, pending, active, lastEventSequence, nextRequestId>>
        /\ \/ commands' = Append(commands, Ui!StopDriver) /\ UNCHANGED driverExited
           \/ driverExited' = TRUE /\ UNCHANGED commands
    BY <1>8 DEF Ui!ExhaustRequestIds, Ui!ProtocolFailure
  <2>2. Ui!StopDriver \in Commands /\ ~IsControl(Ui!StopDriver)
    BY DEF Commands, IsControl, Ui!StopDriver
  <2>3. /\ commands' \in Seq(Commands) /\ CarriedIn(commands') = CarriedIn(commands)
        /\ AscendingCommands(commands) => AscendingCommands(commands')
    <3>1. CASE commands' = commands
      BY <1>1, <3>1
    <3>2. CASE commands' = Append(commands, Ui!StopDriver)
      BY <1>1, <2>2, <3>2, CarriedMore, AppendAt
    <3>3. QED
      BY <2>1, <3>1, <3>2
  <2>4. TypeOK'
    <3>1. scanState' \in ScanState /\ terminal' \in Ui!Terminal /\ driverExited' \in BOOLEAN
      BY <2>1 DEF TypeOK, ScanState, Ui!Terminal
    <3>2. QED
      BY <1>6, <2>1, <2>3, <3>1 DEF TypeOK, driverVars, queueVars, engineVars
  <2>5. Fails
    BY <1>4, <1>5, <2>1, <2>3 DEF Fails, InOrder
  <2>6. Meaning'
    BY <2>5, FailsKeeps
  <2>7. QED
    BY <1>2, <1>3, <2>4, <2>6 DEF Meaning
<1>9. QED
  BY <1>7, <1>8

(* Any key. *)
LEMMA PressKeyStep ==
  ASSUME ControlInv, PressKey
  PROVE  ControlInv'
<1>1. /\ UNCHANGED <<ui, guardVars, driverVars, queueVars, pipeVars, engineVars, engine>>
      /\ \E key \in Keys : Ui!PressControlKey(key) \/ Ui!PressHelpKey(key)
  BY DEF PressKey, Ui!PressKey
<1>2. PICK key \in Keys : Ui!PressControlKey(key) \/ Ui!PressHelpKey(key)
  BY <1>1
<1>3. CASE Ui!PressHelpKey(key)
  BY <1>1, <1>3, HelpKeyStep DEF Ui!PressHelpKey
<1>4. CASE Ui!PressControlKey(key)
  <2>1. PICK k \in Ui!ControlKind : Ui!SendRequest(k) \/ Ui!ExhaustRequestIds(k)
    BY <1>4 DEF Ui!PressControlKey
  <2>2. k \in ControlKind /\ terminal = "none" /\ UNCHANGED driverListens
    BY <1>4, <2>1 DEF Ui!PressControlKey, Ui!ControlKind, ControlKind
  <2>3. QED
    BY <1>1, <2>1, <2>2, RequestKeyStep
<1>5. QED
  BY <1>2, <1>3, <1>4

-----------------------------------------------------------------------------
(* The driver writes a request.                                            *)

(* The start is written to an engine that runs, or meets a broken pipe. *)
LEMMA SendStartStep ==
  ASSUME ControlInv, SendStart
  PROVE  ControlInv'
<1> USE DEF ControlInv
<1> DEFINE r == Ui!Request(1, "start")
<1>1. /\ driver = "starting" /\ WriteRequest(r, "draining")
      /\ UNCHANGED <<uiVars, channelVars, ui, guardVars, queueVars, stdinOpen, stdout, engineVars,
                     engine>>
  BY DEF SendStart
<1>2. CASE engine = "running" /\ stdin' = Append(stdin, r) /\ GoTo("draining")
  <2>1. stdin' \in Seq(Requests)
    <3>1. r \in Requests /\ stdin \in Seq(Requests)
      BY MaxU64Assumption DEF Requests, Ui!Request, ControlKind, TypeOK
    <3>2. QED
      BY <1>2, <3>1, AppendAt
  <2>2. driver' = "draining" /\ UNCHANGED <<held, driverOk>>
    BY <1>2 DEF GoTo
  <2>3. TypeOK'
    BY <1>1, <2>1, <2>2 DEF TypeOK, uiVars, channelVars, queueVars, engineVars, Live
  <2>4. Places'
    BY <1>1, <2>2 DEF Places, channelVars, queueVars, engineVars
  <2>5. TerminalKept'
    BY <1>1 DEF TerminalKept, guardVars, queueVars
  <2>6. InFlight' = InFlight
    BY <1>1, <2>2, FlightStill DEF queueVars, engineVars
  <2>7. Starts
    BY <1>1, <1>2, <2>2, <2>6 DEF Starts, uiSide, uiVars, channelVars, queueVars, engineVars
  <2>8. Meaning'
    BY <2>7, StartsKeeps
  <2>9. QED
    BY <2>3, <2>4, <2>5, <2>8 DEF Meaning
<1>3. CASE FailTo("closing") /\ UNCHANGED stdin
  <2>1. Moves("starting", "closing") /\ engine' = engine
    BY <1>1, <1>3, StaysSound DEF FailTo, Moves
  <2>2. QED
    BY <2>1, StaysSound, MovesKeep DEF Live, Early
<1>4. QED
  BY <1>1, <1>2, <1>3 DEF WriteRequest

(* So does a command; or it is the order to stop. *)
LEMMA TakeCommandStep ==
  ASSUME ControlInv, TakeCommand
  PROVE  ControlInv'
<1> USE DEF ControlInv
<1> DEFINE x == Head(commands)
           r == Ui!Request(x.id, x.kind)
<1>1. /\ UNCHANGED <<uiVars, driverListens, ui, guardVars, queueVars, stdinOpen, stdout, engineVars,
                     engine>>
      /\ driver = "draining" /\ commands # <<>> /\ commands' = Tail(commands)
  BY DEF TakeCommand, Ui!DriverTakes, Ui!appVars, uiVars
<1>2. commands \in Seq(Commands) /\ stdin \in Seq(Requests)
  BY DEF TypeOK
<1>3. commands' \in Seq(Commands) /\ x \in Commands
  BY <1>1, <1>2, TailAt
<1>4. TerminalKept'
  BY <1>1 DEF TerminalKept, guardVars, queueVars
<1>5. CASE IsControl(x) /\ engine = "running" /\ stdin' = Append(stdin, r) /\ GoTo("draining")
  <2>1. stdin' \in Seq(Requests)
    <3>1. x \in [command : {"control"}, id : 1..MaxU64, kind : ControlKind]
      BY <1>3, <1>5 DEF Commands, IsControl, Ui!StopDriver
    <3>2. r \in Requests
      BY <3>1 DEF Requests, Ui!Request
    <3>3. QED
      BY <1>2, <1>5, <3>2, AppendAt
  <2>2. driver' = driver /\ UNCHANGED <<held, driverOk>>
    BY <1>1, <1>5 DEF GoTo
  <2>3. TypeOK'
    BY <1>1, <1>3, <2>1, <2>2 DEF TypeOK, uiVars, queueVars, engineVars
  <2>4. Places'
    BY <1>1, <2>2 DEF Places, queueVars, engineVars
  <2>5. InFlight' = InFlight
    BY <1>1, <2>2, FlightStill DEF queueVars, engineVars
  <2>6. Writes
    BY <1>1, <1>5, <2>2, <2>5 DEF Writes, Carried, uiSide, uiVars, queueVars, engineVars
  <2>7. Meaning'
    BY <2>6, WritesKeeps
  <2>8. QED
    BY <1>4, <2>3, <2>4, <2>7 DEF Meaning
<1>6. CASE driver' = "closing" /\ driverOk' \in BOOLEAN /\ UNCHANGED <<held, stdin>>
  <2>1. TypeOK'
    BY <1>1, <1>3, <1>6 DEF TypeOK, uiVars, queueVars, engineVars
  <2>2. Places'
    BY <1>1, <1>6 DEF Places, queueVars, engineVars
  <2>3. InFlight' = InFlight
    BY <1>1, <1>6, FlightStill DEF queueVars, engineVars
  <2>4. /\ CarriedIn(commands') \subseteq CarriedIn(commands)
        /\ AscendingCommands(commands) => AscendingCommands(commands')
    BY <1>1, <1>2, CarriedOnce
  <2>5. Connected' => Connected
    BY <1>1, <1>6 DEF Connected, Live
  <2>6. Idles
    BY <1>1, <1>6, <2>3, <2>4, <2>5
       DEF Idles, Live, uiSide, engineSide, uiVars, engineVars
  <2>7. Meaning'
    BY <2>6, IdlesKeeps
  <2>8. QED
    BY <1>4, <2>1, <2>2, <2>7 DEF Meaning
<1>7. QED
  <2>1. driverOk \in BOOLEAN
    BY DEF TypeOK
  <2>2. QED
    BY <1>5, <1>6, <2>1 DEF TakeCommand, WriteRequest, FailTo, GoTo, IsControl

-----------------------------------------------------------------------------
(* The driver puts an item into the queue.                                 *)

(* It merges nothing: no two events of progress are next to each other. *)
LEMMA NothingMerges ==
  ASSUME NEW q \in Seq(Items), NoLastWord(q), NEW e \in Events, NEW r \in Seq(Events),
         Unmerged(Told(q) \o (<<e>> \o r))
  PROVE  Enqueued(q, EngineItem(e, 0)) = Append(q, EngineItem(e, 0))
<1> DEFINE x == EngineItem(e, 0)
           t == Told(q)
           n == Len(q)
           g == <<e>> \o r
           f == t \o g
<1>1. n \in Nat /\ (q # <<>> => n \in 1..n)
  BY LenProperties, EmptySeq
<1>2. LastWord(q)
  BY DEF LastWord, NoLastWord
<1>3. ~(q # <<>> /\ q[Len(q)].type = "exited")
  BY <1>1 DEF NoLastWord
<1>4. t \in Seq(Events) /\ Len(t) = n /\ \A i \in 1..n : t[i] = q[i].delivery.event
  BY <1>2, <1>3, ToldAt
<1>5. g \in Seq(Events) /\ Len(g) \in Nat /\ Len(g) >= 1 /\ g[1] = e
  <2>1. <<e>> \in Seq(Events) /\ Len(<<e>>) = 1 /\ <<e>>[1] = e
    OBVIOUS
  <2> DEFINE h == <<e>>
  <2> HIDE DEF h
  <2>2. h \in Seq(Events) /\ Len(h) = 1 /\ h[1] = e
    BY <2>1 DEF h
  <2>3. h \o r \in Seq(Events) /\ Len(h \o r) = Len(h) + Len(r) /\ Len(r) \in Nat
        /\ \A i \in 1..Len(h) : (h \o r)[i] = h[i]
    BY <2>2, ConcatAt
  <2>4. QED
    BY <2>2, <2>3 DEF h
<1> HIDE DEF t, n, g
<1>6. ASSUME q # <<>> PROVE f[n] = q[n].delivery.event /\ f[n + 1] = e /\ n \in 1..Len(f) /\ n + 1 \in 1..Len(f)
  <2>1. /\ Len(f) = n + Len(g) /\ \A i \in 1..n : f[i] = t[i]
        /\ \A i \in 1..Len(g) : f[n + i] = g[i]
    <3>0. t \in Seq(Events) /\ g \in Seq(Events)
      BY <1>4, <1>5
    <3>1. /\ Len(t \o g) = Len(t) + Len(g) /\ \A i \in 1..Len(t) : (t \o g)[i] = t[i]
          /\ \A i \in 1..Len(g) : (t \o g)[Len(t) + i] = g[i]
      BY <3>0, ConcatAt
    <3>2. QED
      BY <1>4, <3>1
  <2> HIDE DEF f
  <2>2. n \in 1..n /\ 1 \in 1..Len(g)
    BY <1>1, <1>5, <1>6
  <2>3. QED
    BY <1>1, <1>4, <1>5, <1>6, <2>1, <2>2
<1>7. ~JoinsRun(q, x)
  <2> SUFFICES ASSUME JoinsRun(q, x) PROVE FALSE
    OBVIOUS
  <2>1. Progress(e)
    BY DEF JoinsRun, IsProgress, EngineItem, Delivery, Progress
  <2>2. q # <<>> /\ Progress(q[n].delivery.event)
    BY DEF JoinsRun, IsProgress, Progress, SeqOps!Last, n
  <2>3. Unmerged(f)
    BY DEF t, g
  <2> HIDE DEF f
  <2>4. QED
    BY <1>6, <2>1, <2>2, <2>3 DEF Unmerged
<1>8. QED
  BY <1>7 DEF Enqueued

(* The driver queues its event, or finds that nobody is left to read it. *)
LEMMA SendEventStep ==
  ASSUME ControlInv, SendEvent
  PROVE  ControlInv'
<1> USE DEF ControlInv
<1> DEFINE x == EngineItem(held, 0)
           r == stdout \o returned
<1>1. /\ UNCHANGED <<uiVars, channelVars, ui, guardVars, driverOk, receiverClosed, pipeVars,
                     engineVars, engine>>
      /\ driver = "sending" /\ held' = NoEvent
  BY DEF SendEvent
<1>2. /\ queue \in Seq(Items) /\ held \in Events /\ stdout \in Seq(Events) /\ returned \in Seq(Events)
      /\ stdout' = stdout /\ returned' = returned
  BY <1>1 DEF TypeOK, pipeVars, engineVars
<1>3. NoLastWord(queue)
  BY <1>1 DEF Places, NoLastWord
<1>4. NoEvent \in Events
  BY MaxU64Assumption DEF NoEvent, Event, EmptyBody, Body, Events, Messages, Bodies, Plans
<1>5. TerminalKept'
  BY <1>1 DEF TerminalKept, guardVars
<1>6. LastWord(queue) /\ InFlight = Flight(queue, "sending", held, stdout, returned)
  BY <1>1, FlightTyped
<1>7. /\ r \in Seq(Events) /\ Told(queue) \in Seq(Events)
      /\ InFlight = Told(queue) \o (<<held>> \o r)
  <2>1. r \in Seq(Events)
    BY <1>2, ConcatProperties
  <2>2. QED
    BY <1>2, <1>6, <2>1, ToldAt DEF Flight, Holding
<1> HIDE DEF r
<1>8. CASE /\ ~receiverClosed /\ queue' = Enqueued(queue, x)
           /\ driver' \in {"closing", "draining"}
  <2>1. Connected /\ Connected'
    BY <1>1, <1>8 DEF Connected
  <2>2. Unmerged(InFlight)
    BY <2>1 DEF Followed
  <2>3. queue' = Append(queue, x)
    BY <1>2, <1>3, <1>7, <1>8, <2>2, NothingMerges
  <2> DEFINE e == held
             pc == driver'
             none == held'
  <2>4. e \in Events /\ pc # "sending"
    BY <1>2, <1>8
  <2> HIDE DEF e, pc, none
  <2>5. /\ Append(queue, EngineItem(e, 0)) \in Seq(Items) /\ LastWord(Append(queue, EngineItem(e, 0)))
        /\ Flight(Append(queue, EngineItem(e, 0)), pc, none, stdout, returned) =
             Flight(queue, "sending", e, stdout, returned)
    BY <1>2, <1>3, <2>4, FlightSent
  <2>6. /\ queue' \in Seq(Items) /\ LastWord(queue')
        /\ Flight(queue', driver', held', stdout, returned) = InFlight
    BY <1>6, <2>3, <2>5 DEF e, pc, none
  <2>7. InFlight' = Flight(queue', driver', held', stdout', returned')
    BY <1>1, <1>2, <1>4, <2>6, FlightThen
  <2>8. InFlight' = InFlight
    BY <1>2, <2>6, <2>7
  <2>9. TypeOK'
    BY <1>1, <1>4, <1>8, <2>6 DEF TypeOK, uiVars, channelVars, pipeVars, engineVars, Live
  <2>10. Places'
    <3>1. \A n \in 1..Len(queue') : queue'[n].type # "exited"
      <4>1. x \in Items /\ x.type = "engine"
        BY <1>2 DEF Items, EngineItem, Delivery
      <4> HIDE DEF x
      <4>2. /\ Len(queue) \in Nat /\ Len(queue') = Len(queue) + 1 /\ queue'[Len(queue) + 1] = x
            /\ \A n \in 1..Len(queue) : queue'[n] = queue[n]
        BY <1>2, <2>3, <4>1, AppendAt
      <4>3. ASSUME NEW n \in 1..Len(queue') PROVE queue'[n].type # "exited"
        <5>1. n \in 1..Len(queue) \/ n = Len(queue) + 1
          BY <4>2
        <5>2. QED
          BY <1>3, <4>1, <4>2, <5>1 DEF NoLastWord
      <4>4. QED
        BY <4>3
    <3>2. QED
      BY <1>1, <1>8, <3>1 DEF Places, channelVars, engineVars
  <2>11. Idles
    BY <1>1, <1>8, <2>8, <2>1
       DEF Idles, Live, Early, uiSide, engineSide, uiVars, channelVars, pipeVars, engineVars
  <2>12. Meaning'
    BY <2>11, IdlesKeeps
  <2>13. QED
    BY <1>5, <2>9, <2>10, <2>12 DEF Meaning
<1>9. CASE receiverClosed /\ driver' = "closing" /\ UNCHANGED queue
  <2>1. TypeOK'
    BY <1>1, <1>4, <1>9 DEF TypeOK, uiVars, channelVars, pipeVars, engineVars, Live
  <2>2. Places'
    BY <1>1, <1>9 DEF Places, channelVars, engineVars
  <2>3. InFlight # <<>>
    <3> DEFINE h == <<held>>
               g == h \o r
    <3>1. h \in Seq(Events) /\ h # <<>>
      BY <1>2
    <3> HIDE DEF h
    <3>2. g \in Seq(Events) /\ g # <<>>
      BY <1>7, <3>1, ConcatProperties, TailOfConcat
    <3> HIDE DEF g
    <3>3. Told(queue) \o g # <<>>
      <4>1. Len(Told(queue) \o g) = Len(Told(queue)) + Len(g) /\ Len(Told(queue)) \in Nat
        BY <1>7, <3>2, ConcatAt
      <4>2. Len(g) \in Nat /\ Len(g) >= 1
        BY <3>2, TailAt
      <4>3. Len(Told(queue) \o g) # 0
        BY <4>1, <4>2
      <4>4. Len(<<>>) = 0
        OBVIOUS
      <4>5. QED
        BY <4>3, <4>4
    <3>4. QED
      BY <1>7, <3>3 DEF g, h
  <2>4. Loses
    BY <1>1, <1>9, <2>3
       DEF Loses, Connected, Live, uiSide, engineSide, uiVars, channelVars, pipeVars, engineVars
  <2>5. Meaning'
    BY <2>4, LosesKeeps
  <2>6. QED
    BY <1>5, <2>1, <2>2, <2>5 DEF Meaning
<1>10. QED
  BY <1>8, <1>9 DEF SendEvent

(* The driver has its last word, if anybody listens. *)
LEMMA ReportStep ==
  ASSUME ControlInv, Report
  PROVE  ControlInv'
<1> USE DEF ControlInv
<1> DEFINE x == ExitItem(driverOk)
<1>1. /\ UNCHANGED <<uiVars, channelVars, ui, guardVars, receiverClosed, pipeVars, engineVars, engine>>
      /\ driver = "reporting" /\ driver' = "done" /\ UNCHANGED <<held, driverOk>>
  BY DEF Report, GoTo
<1>2. /\ queue \in Seq(Items) /\ held \in Events /\ stdout \in Seq(Events) /\ returned \in Seq(Events)
      /\ stdout' = stdout /\ returned' = returned /\ driverOk \in BOOLEAN
  BY <1>1 DEF TypeOK, pipeVars, engineVars
<1>3. NoLastWord(queue)
  BY <1>1 DEF Places, NoLastWord
<1>4. TerminalKept'
  BY <1>1 DEF TerminalKept, guardVars
<1>5. ~(driver' \in Live) /\ (Connected' => Connected)
  BY <1>1 DEF Live, Connected
<1>6. /\ queue' \in Seq(Items) /\ InFlight' = InFlight
      /\ \A n \in 1..Len(queue') : queue'[n].type = "exited" =>
           n = Len(queue') /\ (queue'[n].ok => engine' = "exited")
  <2>1. CASE queue' = Enqueued(queue, x)
    <3>1. queue' = Append(queue, x)
      BY <2>1 DEF Enqueued, JoinsRun, IsProgress, ExitItem
    <3>2. /\ queue' \in Seq(Items) /\ LastWord(queue')
          /\ Flight(queue', driver, held, stdout, returned) = Flight(queue, driver, held, stdout, returned)
      BY <1>2, <1>3, <3>1, FlightOver
    <3>3. InFlight = Flight(queue, driver, held, stdout, returned)
      BY FlightTyped
    <3>4. InFlight' = Flight(queue', driver', held', stdout', returned')
      BY <1>1, <1>2, <3>2, FlightThen
    <3>5. Flight(queue', driver', held, stdout, returned) = Flight(queue', driver, held, stdout, returned)
      <4>1. Holding(driver', held) = Holding(driver, held)
        BY <1>1 DEF Holding
      <4>2. QED
        BY <4>1 DEF Flight
    <3>6. InFlight' = InFlight
      BY <1>1, <1>2, <3>2, <3>3, <3>4, <3>5
    <3>7. x \in Items /\ x.ok = driverOk
      BY <1>2 DEF Items, ExitItem
    <3> HIDE DEF x
    <3>8. /\ Len(queue) \in Nat /\ Len(queue') = Len(queue) + 1 /\ queue'[Len(queue) + 1] = x
          /\ \A n \in 1..Len(queue) : queue'[n] = queue[n]
      BY <1>2, <3>1, <3>7, AppendAt
    <3>9. ASSUME NEW n \in 1..Len(queue'), queue'[n].type = "exited"
          PROVE  n = Len(queue') /\ (queue'[n].ok => engine' = "exited")
      <4>1. n = Len(queue) + 1
        BY <1>3, <3>8, <3>9 DEF NoLastWord
      <4>2. driverOk => engine' = "exited"
        BY <1>1 DEF Places
      <4>3. QED
        BY <3>7, <3>8, <4>1, <4>2
    <3>10. QED
      BY <3>2, <3>6, <3>9
  <2>2. CASE UNCHANGED queue
    <3>1. InFlight' = InFlight
      BY <1>1, <1>2, <2>2, FlightStill
    <3>2. QED
      BY <1>2, <1>3, <2>2, <3>1 DEF NoLastWord
  <2>3. QED
    BY <2>1, <2>2 DEF Report
<1>7. TypeOK'
  BY <1>1, <1>6 DEF TypeOK, uiVars, channelVars, pipeVars, engineVars
<1>8. Places'
  BY <1>1, <1>6 DEF Places, channelVars, engineVars
<1>9. Idles
  BY <1>1, <1>5, <1>6 DEF Idles, uiSide, engineSide, uiVars, channelVars, pipeVars, engineVars
<1>10. Meaning'
  BY <1>9, IdlesKeeps
<1>11. QED
  BY <1>4, <1>7, <1>8, <1>10 DEF Meaning

-----------------------------------------------------------------------------
(* The engine serves a request.                                            *)

(* The engine answers a request, in full or not at all. *)
LEMMA ServeRequestStep ==
  ASSUME ControlInv, ServeRequest
  PROVE  ControlInv'
<1> USE DEF ControlInv
<1> DEFINE r == Head(stdin)
           k == r.id
<1>1. /\ UNCHANGED <<uiVars, channelVars, ui, guardVars, driverVars, queueVars, stdinOpen, stdout>>
      /\ engine = "running" /\ returned = <<>> /\ state # "cancelled"
      /\ stdin # <<>> /\ stdin' = Tail(stdin)
      /\ (r.kind = "start" /\ Engine!Start(r.id)) \/ (r.kind # "start" /\ Engine!Control(r.id, r.kind))
      /\ engine' = IF trapped' THEN "died" ELSE engine
  BY DEF ServeRequest, Idle
<1>2. /\ stdin \in Seq(Requests) /\ queue \in Seq(Items) /\ held \in Events
      /\ stdout \in Seq(Events) /\ eventSequence \in 0..MaxU64
      /\ state \in Resting /\ provisionalPlanID \in Plans /\ trapped = FALSE
  BY <1>1 DEF TypeOK, Places
<1>3. r \in Requests /\ k \in 1..MaxU64 /\ stdin' \in Seq(Requests)
  <2>1. r \in Requests /\ stdin' \in Seq(Requests)
    BY <1>1, <1>2, TailAt
  <2>2. QED
    BY <2>1 DEF Requests
<1>4. PICK msgs :
        /\ Engine!Return(k, msgs)
        /\ IsReply(r.kind, msgs, state, provisionalPlanID, state', provisionalPlanID')
  BY <1>1, <1>2, <1>3, Replies
<1> HIDE DEF r, k
<1>5. /\ msgs \in Seq(Messages) /\ state' \in Resting /\ provisionalPlanID' \in Plans
  BY <1>4 DEF IsReply
<1>6. UNCHANGED uiSide /\ UNCHANGED <<commands, driver, receiverClosed, queue, held, stdout>>
  BY <1>1 DEF uiSide, uiVars, channelVars, driverVars, queueVars
<1>7. TerminalKept'
  BY <1>1 DEF TerminalKept, guardVars, queueVars
<1>8. Serves(msgs)
  BY <1>1, <1>2, <1>4, <1>6 DEF Serves, r
<1>9. LastWord(queue) /\ InFlight = Flight(queue, driver, held, stdout, <<>>) /\ InFlight \in Seq(Events)
  BY <1>1, FlightTyped
<1>10. CASE /\ eventSequence + Len(msgs) <= MaxU64
            /\ eventSequence' = eventSequence + Len(msgs)
            /\ returned' = Engine!Numbered(k, msgs) /\ trapped' = trapped
  <2> DEFINE g == Engine!Numbered(k, msgs)
  <2>1. g \in Seq(Events)
    BY <1>2, <1>3, <1>5, <1>10, NumberedReply
  <2> HIDE DEF g
  <2>2. Flight(queue, driver, held, stdout, g) = Flight(queue, driver, held, stdout, <<>>) \o g
    BY <1>2, <1>9, <2>1, FlightReplied
  <2>3. InFlight' = Flight(queue', driver', held', stdout', returned')
    BY <1>2, <1>6, <1>9, <1>10, <2>1, FlightThen DEF g
  <2>4. InFlight' = InFlight \o g
    BY <1>6, <1>9, <1>10, <2>2, <2>3 DEF g
  <2>5. eventSequence' \in 0..MaxU64 /\ eventSequence' <= MaxU64
    <3>1. Len(msgs) \in Nat /\ eventSequence \in Nat
      BY <1>2, <1>5, LenProperties
    <3>2. QED
      BY <1>10, <3>1, MaxU64Assumption
  <2>6. TypeOK'
    BY <1>1, <1>2, <1>3, <1>5, <1>10, <2>1, <2>5
       DEF TypeOK, uiVars, channelVars, driverVars, queueVars, g
  <2>7. Places'
    BY <1>1, <1>2, <1>10 DEF Places, channelVars, driverVars, queueVars
  <2>8. Answers(msgs)
    BY <1>2, <1>8, <1>10, <2>4, <2>5 DEF Answers, g, k, r
  <2>9. Meaning'
    BY <1>9, <2>8, AnswersKeeps
  <2>10. QED
    BY <1>7, <2>6, <2>7, <2>9 DEF Meaning
<1>11. CASE trapped' = TRUE /\ UNCHANGED <<eventSequence, returned>>
  <2>1. InFlight' = InFlight
    BY <1>6, <1>11, FlightStill
  <2>2. TypeOK'
    BY <1>1, <1>2, <1>3, <1>5, <1>11 DEF TypeOK, uiVars, channelVars, driverVars, queueVars
  <2>3. Places'
    BY <1>1, <1>11 DEF Places, channelVars, driverVars, queueVars
  <2>4. Overflows(msgs)
    BY <1>8, <1>11, <2>1 DEF Overflows
  <2>5. Meaning'
    BY <2>4, OverflowsKeeps
  <2>6. QED
    BY <1>7, <2>2, <2>3, <2>5 DEF Meaning
<1>12. QED
  BY <1>4, <1>10, <1>11 DEF Engine!Return

-----------------------------------------------------------------------------
(* The UI takes an item from the queue.                                    *)

(* The reducer takes an item: an event of the engine, or the driver's      *)
(* last word.                                                              *)
LEMMA HandleItemStep ==
  ASSUME ControlInv, HandleItem
  PROVE  ControlInv'
<1> USE DEF ControlInv
<1> DEFINE x == Head(queue)
           e == x.delivery.event
<1>1. /\ UNCHANGED <<ui, guardVars, receiverClosed, driverVars, pipeVars, engineVars, engine>>
      /\ ui = "running" /\ queue # <<>> /\ queue' = Tail(queue)
      /\ \/ /\ x.type = "engine"
            /\ IF terminal = "none" THEN Ui!ReduceEngineEvent(x.delivery)
               ELSE UNCHANGED <<uiVars, channelVars>>
         \/ x.type = "exited" /\ Ui!ReduceDriverExited(x.ok)
  BY DEF HandleItem
<1>2. /\ queue \in Seq(Items) /\ held \in Events /\ stdout \in Seq(Events) /\ returned \in Seq(Events)
      /\ held' = held /\ stdout' = stdout /\ returned' = returned /\ driver' = driver
  BY <1>1 DEF TypeOK, driverVars, pipeVars, engineVars
<1>3. /\ LastWord(queue) /\ InFlight = Flight(queue, driver, held, stdout, returned)
      /\ InFlight \in Seq(Events)
  BY FlightTyped
<1>4. /\ queue' \in Seq(Items) /\ LastWord(queue') /\ x \in Items
      /\ x.type = "engine" =>
           /\ Flight(queue, driver, held, stdout, returned) # <<>>
           /\ Head(Flight(queue, driver, held, stdout, returned)) = e
           /\ Tail(Flight(queue, driver, held, stdout, returned)) =
                Flight(queue', driver, held, stdout, returned)
      /\ x.type = "exited" =>
           Flight(queue, driver, held, stdout, returned) = Flight(queue', driver, held, stdout, returned)
  <2>1. queue \in Seq(Items) /\ LastWord(queue) /\ queue # <<>> /\ queue' = Tail(queue)
    BY <1>1, <1>2, <1>3
  <2>2. held \in Events /\ stdout \in Seq(Events) /\ returned \in Seq(Events)
    BY <1>2
  <2>3. /\ Tail(queue) \in Seq(Items) /\ LastWord(Tail(queue)) /\ Head(queue) \in Items
        /\ Head(queue).type = "engine" =>
             /\ Flight(queue, driver, held, stdout, returned) # <<>>
             /\ Head(Flight(queue, driver, held, stdout, returned)) = Head(queue).delivery.event
             /\ Tail(Flight(queue, driver, held, stdout, returned)) =
                  Flight(Tail(queue), driver, held, stdout, returned)
        /\ Head(queue).type = "exited" =>
             Flight(queue, driver, held, stdout, returned) =
               Flight(Tail(queue), driver, held, stdout, returned)
    BY <2>1, <2>2, FlightTaken
  <2>4. QED
    BY <2>1, <2>3
<1>5. InFlight' = Flight(queue', driver', held', stdout', returned')
  BY <1>2, <1>4, FlightThen
<1>6. /\ x.type = "engine" => InFlight # <<>> /\ Head(InFlight) = e /\ InFlight' = Tail(InFlight)
      /\ x.type = "exited" => InFlight' = InFlight
  BY <1>2, <1>3, <1>4, <1>5
<1>7. Connected /\ ~receiverClosed'
  BY <1>1 DEF Places, Connected
<1>8. TerminalKept'
  BY <1>1 DEF TerminalKept, guardVars
<1>9. ASSUME UNCHANGED driverListens PROVE Places'
  <2>1. ASSUME NEW n \in 1..Len(queue'), queue'[n].type = "exited"
        PROVE  n = Len(queue') /\ driver' = "done" /\ (queue'[n].ok => engine' = "exited")
    <3>1. n = Len(queue')
      BY <1>4, <2>1 DEF LastWord
    <3>2. n + 1 \in 1..Len(queue) /\ queue'[n] = queue[n + 1]
      <4>1. /\ Len(queue) \in Nat /\ Len(queue') = Len(queue) - 1
            /\ \A i \in 1..(Len(queue) - 1) : queue'[i] = queue[i + 1]
        BY <1>1, <1>2, TailAt
      <4>2. QED
        BY <4>1
    <3>3. QED
      BY <1>1, <1>2, <2>1, <3>1, <3>2 DEF Places
  <2>2. /\ UNCHANGED <<ui, receiverClosed, driver, engine, driverListens, driverOk, trapped>>
    BY <1>1, <1>2, <1>9 DEF driverVars, engineVars
  <2>3. QED
    BY <2>1, <2>2 DEF Places
<1>10. UNCHANGED engineSide /\ UNCHANGED <<driver, receiverClosed, engine>>
  BY <1>1, <1>2 DEF engineSide, pipeVars, engineVars
<1>11. /\ stdin' \in Seq(Requests) /\ driverOk' \in BOOLEAN /\ eventSequence' \in 0..MaxU64
       /\ state' \in Resting /\ provisionalPlanID' \in Plans /\ trapped' \in BOOLEAN
       /\ engine' \in {"absent", "running", "exited", "died", "killed"}
  BY <1>1 DEF TypeOK, driverVars, pipeVars, engineVars
<1>12. ASSUME scanState' \in ScanState, provisionalPlan' \in Plans, active' \in Actives,
              pending' \in SUBSET Requests, nextRequestId' \in 2..MaxU64,
              terminal' \in Ui!Terminal, driverExited' \in BOOLEAN, lastEventSequence' \in 0..MaxU64,
              commands' \in Seq(Commands), driverListens' \in BOOLEAN
       PROVE  TypeOK'
  BY <1>1, <1>2, <1>4, <1>11, <1>12 DEF TypeOK
<1> HIDE DEF e, x
<1>13. CASE x.type = "engine" /\ terminal = "none"
  <2>1. x.delivery = Delivery(e, 0) /\ e \in Events
    <3>1. x = EngineItem(e, 0) /\ e \in Events
      BY <1>4, <1>13, ItemAt DEF e
    <3>2. QED
      BY <3>1 DEF EngineItem
  <2>2. Ui!ReduceEngineEvent(Delivery(e, 0))
    BY <1>1, <1>13, <2>1 DEF x
  <2>3. /\ Numbers(InFlight, lastEventSequence, eventSequence)
        /\ \E end \in Readers : Leads(InFlight, Shown, end)
    BY <1>7, <1>13 DEF Followed
  <2>4. InFlight # <<>> /\ Head(InFlight) = e /\ InFlight' = Tail(InFlight)
    BY <1>6, <1>13
  <2>5. e.seq = lastEventSequence + 1
    <3>1. 1 \in 1..Len(InFlight) /\ e = InFlight[1]
      BY <1>3, <2>4, TailAt
    <3>2. QED
      BY <2>3, <3>1 DEF Numbers
  <2>6. IsVerdict(e) => Answered(e) \in pending
    <3>1. IsVerdict(e) => Answered(e) \in AnsweredIn(InFlight)
      BY <1>3, <2>4, AnsweredOnce
    <3>2. QED
      BY <1>7, <3>1 DEF InOrder, UnderWay
  <2>7. PICK u \in Readers : Takes(Shown, e, u)
    BY <1>3, <2>3, <2>4, LeadsFirst
  <2>8. ASSUME NEW w, Takes(Shown, e, w)
        PROVE  /\ Shown' = w
               /\ lastEventSequence' = lastEventSequence + 1
               /\ pending' = IF IsVerdict(e) THEN pending \ {Answered(e)} ELSE pending
               /\ terminal' = IF e.msg.body = "scanCancelled" THEN "cancelled" ELSE "none"
               /\ UNCHANGED <<nextRequestId, driverExited, commands, driverListens>>
    BY <2>1, <2>2, <2>5, <2>6, <2>8, EventReduced
  <2>9. Reduces(u)
    BY <1>7, <1>10, <1>13, <2>4, <2>7, <2>8 DEF Reduces
  <2>10. ASSUME NEW end \in Readers, Leads(InFlight, Shown, end)
         PROVE  Leads(Tail(InFlight), u, end)
    <3>1. PICK w \in Readers : Takes(Shown, Head(InFlight), w) /\ Leads(Tail(InFlight), w, end)
      BY <1>3, <2>4, <2>10, LeadsFirst
    <3>2. w = u
      BY <2>4, <2>7, <2>8, <3>1
    <3>3. QED
      BY <3>1, <3>2
  <2>11. Meaning'
    BY <1>3, <2>9, <2>10, ReducesKeeps
  <2>12. TypeOK'
    <3>1. scanState' \in ScanState /\ provisionalPlan' \in Plans /\ active' \in Actives
      <4>1. Reader(active', scanState', provisionalPlan') \in Readers
        BY <2>7, <2>8 DEF Shown
      <4>2. QED
        BY <4>1 DEF Readers, Reader
    <3>2. lastEventSequence' \in 0..MaxU64
      BY <2>1, <2>5, <2>7, <2>8 DEF Events
    <3>3. /\ pending' \in SUBSET Requests /\ nextRequestId' \in 2..MaxU64
          /\ terminal' \in Ui!Terminal /\ driverExited' \in BOOLEAN
          /\ commands' \in Seq(Commands) /\ driverListens' \in BOOLEAN
      BY <2>7, <2>8 DEF TypeOK, Ui!Terminal
    <3>4. QED
      BY <1>12, <3>1, <3>2, <3>3
  <2>13. Places'
    BY <1>9, <2>7, <2>8
  <2>14. QED
    BY <1>8, <2>11, <2>12, <2>13 DEF Meaning
<1>14. CASE x.type = "engine" /\ terminal # "none"
  <2>1. UNCHANGED <<uiVars, channelVars>>
    BY <1>1, <1>14 DEF x
  <2>2. TypeOK'
    BY <1>12, <2>1 DEF TypeOK, uiVars, channelVars
  <2>3. Places'
    BY <1>9, <2>1 DEF channelVars
  <2>4. Ignores
    BY <1>6, <1>10, <1>14, <2>1 DEF Ignores, uiSide, uiVars, channelVars
  <2>5. Meaning'
    BY <1>3, <2>4, IgnoresKeeps
  <2>6. QED
    BY <1>8, <2>2, <2>3, <2>5 DEF Meaning
<1>15. CASE x.type = "exited"
  <2>1. Ui!ReduceDriverExited(x.ok)
    BY <1>1, <1>15 DEF x
  <2>2. /\ driverExited' = TRUE
        /\ \/ x.ok /\ terminal # "none" /\ UNCHANGED <<scanState, terminal>>
           \/ scanState' = "failed" /\ terminal' = "failed"
        /\ UNCHANGED <<provisionalPlan, pending, active, lastEventSequence, nextRequestId,
                       commands, driverListens>>
    BY <2>1 DEF Ui!ReduceDriverExited
  <2>3. TypeOK'
    <3>1. scanState' \in ScanState /\ terminal' \in Ui!Terminal /\ driverExited' \in BOOLEAN
      BY <2>2 DEF TypeOK, ScanState, Ui!Terminal
    <3>2. QED
      BY <1>12, <2>2, <3>1 DEF TypeOK
  <2>4. Places'
    BY <1>9, <2>2
  <2>5. InFlight' = InFlight
    BY <1>6, <1>15
  <2>6. CASE x.ok /\ terminal # "none" /\ UNCHANGED <<scanState, terminal>>
    <3>1. engine = "exited"
      <4>1. 1 \in 1..Len(queue) /\ x = queue[1]
        BY <1>1, <1>2, TailAt DEF x
      <4>2. QED
        BY <1>15, <2>6, <4>1 DEF Places
    <3>2. Ends
      BY <1>10, <2>2, <2>5, <2>6, <3>1 DEF Ends
    <3>3. Meaning'
      BY <3>2, EndsKeeps
    <3>4. QED
      BY <1>8, <2>3, <2>4, <3>3 DEF Meaning
  <2>7. CASE scanState' = "failed" /\ terminal' = "failed"
    <3>1. Fails
      BY <1>10, <2>2, <2>5, <2>7 DEF Fails, InOrder
    <3>2. Meaning'
      BY <3>1, FailsKeeps
    <3>3. QED
      BY <1>8, <2>3, <2>4, <3>2 DEF Meaning
  <2>8. QED
    BY <2>2, <2>6, <2>7
<1>16. QED
  BY <1>4, <1>13, <1>14, <1>15, ItemAt

-----------------------------------------------------------------------------
(* The invariant holds of every state the program can reach.               *)

(* In the beginning, and ... *)
LEMMA ControlBegins ==
  ASSUME Init
  PROVE  ControlInv
<1>1. /\ scanState = "idle" /\ provisionalPlan = NoPlan /\ active = Ui!NoActive
      /\ pending = {Ui!Request(1, "start")} /\ nextRequestId = 2
      /\ terminal = "none" /\ driverExited = FALSE /\ lastEventSequence = 0
      /\ commands = <<>> /\ driverListens = TRUE
      /\ state = "idle" /\ eventSequence = 0 /\ provisionalPlanID = NoPlan
      /\ returned = <<>> /\ trapped = FALSE
  BY DEF Init, Ui!Init, Engine!Init, Ui!NoPlan, Engine!NoPlan, NoPlan
<1>2. /\ ui = "entering" /\ guard = Terminal!NoGuard /\ forsaken = FALSE
      /\ driver = "connecting" /\ held = NoEvent /\ driverOk = TRUE
      /\ queue = <<>> /\ receiverClosed = FALSE /\ stdin = <<>> /\ stdout = <<>>
      /\ engine = "absent"
  BY DEF Init
<1>3. MaxU64 \in Nat /\ 2 <= MaxU64
  BY MaxU64Assumption
<1>4. Ui!NoActive \in Actives /\ Ui!Request(1, "start") \in Requests /\ NoEvent \in Events
  <2>1. Ui!NoActive \in Actives
    BY <1>3 DEF Actives, Ui!NoActive, Ui!Active, Ui!Absent, Absent
  <2>2. Ui!Request(1, "start") \in Requests
    BY <1>3 DEF Requests, Ui!Request, ControlKind
  <2>3. EmptyBody \in Messages
    BY DEF EmptyBody, Messages, Body, Bodies, Plans, NoPlan, Absent
  <2>4. NoEvent \in Events
    BY <1>3, <2>3 DEF NoEvent, Event, Events
  <2>5. QED
    BY <2>1, <2>2, <2>4
<1>5. TypeOK
  <2>1. /\ <<>> \in Seq(Commands) /\ <<>> \in Seq(Items) /\ <<>> \in Seq(Requests)
        /\ <<>> \in Seq(Events)
    OBVIOUS
  <2>2. {Ui!Request(1, "start")} \in SUBSET Requests
    BY <1>4
  <2>3. 2 \in 2..MaxU64 /\ 0 \in 0..MaxU64
    BY <1>3
  <2>4. /\ scanState \in ScanState /\ provisionalPlan \in Plans
        /\ active \in Actives
        /\ terminal \in Ui!Terminal /\ driverExited \in BOOLEAN
        /\ ui \in {"entering", "running", "leaving", "stopping", "joining", "done"}
        /\ driver \in Live \cup {"closing", "waiting", "leaving", "reporting", "done"}
        /\ held \in Events
        /\ state \in Resting /\ provisionalPlanID \in Plans
    BY <1>1, <1>2, <1>4 DEF Plans, ScanState, Resting, Live, Ui!Terminal
  <2>5. QED
    BY <1>1, <1>2, <2>1, <2>2, <2>3, <2>4 DEF TypeOK
<1>6. Places
  BY <1>1, <1>2, <1>5 DEF Places
<1>7. TerminalKept
  BY <1>2 DEF TerminalKept
<1>8. InFlight = <<>>
  <2>1. LastWord(queue) /\ queue \in Seq(Items) /\ ~(queue # <<>>)
    BY <1>2, <1>5 DEF LastWord, TypeOK
  <2>2. Told(queue) \in Seq(Events) /\ Len(Told(queue)) = Len(queue)
    BY <2>1, ToldAt
  <2>3. Told(queue) = <<>>
    BY <1>2, <2>2, EmptySeq
  <2>4. Holding(driver, held) = <<>>
    BY <1>2 DEF Holding
  <2>5. QED
    BY <1>1, <1>2, <2>3, <2>4, FlightNow
<1>9. InOrder
  BY <1>1, <1>2, <1>8, NothingUnderWay
     DEF InOrder, Ascending, UnderWay, Before, Ui!Request
<1>10. NoneForgotten
  BY <1>1, <1>2, <1>8, NothingUnderWay
     DEF NoneForgotten, Unsent, UnderWay, Before
<1>11. Followed
  <2>1. Shown \in Readers /\ Shown.scan = state /\ Shown.plan = provisionalPlanID
    BY <1>1, <1>5 DEF Shown, Reader, Readers, TypeOK
  <2>2. Leads(InFlight, Shown, Shown)
    BY <1>8, <2>1, LeadsNowhere
  <2>3. Len(InFlight) = 0 /\ 1..0 = {}
    BY <1>8
  <2>4. QED
    BY <1>1, <2>1, <2>2, <2>3 DEF Followed, Unmerged, Numbers
<1>12. PlanAtRest /\ Outcome
  BY <1>1 DEF PlanAtRest, Outcome
<1>13. QED
  BY <1>5, <1>6, <1>7, <1>9, <1>10, <1>11, <1>12 DEF ControlInv

(* ... by every step of every thread, process and user.                    *)
LEMMA ControlGoesOn ==
  ASSUME ControlInv, [Next]_vars
  PROVE  ControlInv'
<1>1. CASE PressKey
  BY <1>1, PressKeyStep
<1>2. CASE UiContinues
  BY <1>2, EnterTerminalStep, HandleItemStep, LeaveLoopStep, DropSourceStep, DropDriverStep,
     JoinDriverStep
     DEF UiContinues
<1>3. CASE DriverContinues
  <2>1. CASE Connect \/ SendStart \/ TakeCommand \/ FindNoCommand
    BY <2>1, ConnectStep, SendStartStep, TakeCommandStep, FindNoCommandStep
  <2>2. CASE ReadEvent \/ ReadTimesOut \/ ReadFails \/ SendEvent
    BY <2>2, ReadEventStep, ReadTimesOutStep, ReadFailsStep, SendEventStep
  <2>3. CASE CloseStdin \/ Reap \/ KillEngine \/ Leave \/ Report
    BY <2>3, CloseStdinStep, ReapStep, ProcessEndsStep, LeaveStep, ReportStep
  <2>4. QED
    BY <1>3, <2>1, <2>2, <2>3 DEF DriverContinues
<1>4. CASE EngineContinues
  BY <1>4, ServeRequestStep, WriteEventStep, ProcessEndsStep DEF EngineContinues
<1>5. CASE ConnectFails \/ TerminalIoError \/ Crash
  BY <1>5, ConnectFailsStep, LeaveLoopStep, ProcessEndsStep
<1>6. CASE UNCHANGED vars
  BY <1>6, NothingStep
<1>7. QED
  BY <1>1, <1>2, <1>3, <1>4, <1>5, <1>6 DEF Next

(* The inductive invariant, for any keys, any capacity of the queue, any   *)
(* greatest number and any subset of the faults.                           *)
THEOREM ControlInvariance == Spec => []ControlInv
<1>1. Init => ControlInv
  BY ControlBegins
<1>2. ControlInv /\ [Next]_vars => ControlInv'
  BY ControlGoesOn
<1>3. QED
  BY <1>1, <1>2, PTL DEF Spec

(* Every variable of the program that the properties speak of keeps its    *)
(* type.                                                                   *)
THEOREM ControlTypeCorrect == Spec => []TypeOK
<1>1. ControlInv => TypeOK
  BY DEF ControlInv
<1>2. QED
  BY <1>1, ControlInvariance, PTL

(* No false alarm: whatever is pressed and however requests and replies    *)
(* cross, the reducer never takes this engine for one that violates the    *)
(* protocol.                                                               *)
THEOREM FailuresAreReal == Spec => []NoFalseAlarm
<1>1. ControlInv => NoFalseAlarm
  BY DEF ControlInv, Outcome, NoFalseAlarm
<1>2. QED
  BY <1>1, ControlInvariance, PTL

(* When `run` returns the engine has been reaped, and a cancellation that  *)
(* is reported is one the engine completed.                                *)
THEOREM CleanEnd == Spec => []EndIsClean
<1>1. ASSUME ControlInv PROVE EndIsClean
  <2>1. ui = "done" => driver = "done" /\ engine # "running"
    BY <1>1 DEF ControlInv, Places
  <2>2. terminal = "cancelled" /\ driverExited =>
          engine = "exited" /\ state = "cancelled" /\ lastEventSequence = eventSequence
    BY <1>1 DEF ControlInv, Outcome
  <2>3. QED
    BY <2>1, <2>2 DEF EndIsClean
<1>2. QED
  BY <1>1, ControlInvariance, PTL

(* The user has the terminal back before the program waits for a thread,   *)
(* and no change to it was left without trying to undo it.                 *)
THEOREM TerminalReturned == Spec => []TerminalIsGivenBack
<1>1. ASSUME ControlInv PROVE TerminalIsGivenBack
  <2>1. Terminal!NoGuard.inForce = {}
    BY DEF Terminal!NoGuard, Terminal!Guard
  <2>2. QED
    BY <1>1, <2>1 DEF ControlInv, Places, TerminalKept, TerminalIsGivenBack
<1>2. QED
  BY <1>1, ControlInvariance, PTL

-----------------------------------------------------------------------------
(* What is in flight, replayed.                                            *)

(* A set of numbers that is not empty has a least one: what the induction  *)
(* along a replay rests on.                                                *)
LEMMA LeastNumber ==
  ASSUME NEW T \in SUBSET Nat, T # {}
  PROVE  \E x \in T : \A y \in T : x <= y
<1> DEFINE R == OpToRel(<, Nat)
<1>1. IsWellFoundedOn(R, Nat)
  BY NatLessThanWellFounded
<1> HIDE DEF R
<1>2. \E x \in T : \A y \in T : ~(<<y, x>> \in R)
  BY <1>1, WFMin
<1>3. \A x, y \in Nat : y < x => <<y, x>> \in R
  BY DEF R, OpToRel
<1>4. PICK x \in T : \A y \in T : ~(<<y, x>> \in R)
  BY <1>2
<1>5. ASSUME NEW y \in T PROVE x <= y
  <2>1. x \in Nat /\ y \in Nat /\ ~(y < x)
    BY <1>3, <1>4
  <2>2. QED
    BY <2>1
<1>6. QED
  BY <1>5

(* A reader that takes an event has seen what it tells. *)
LEMMA TakenIsObserved ==
  ASSUME NEW e \in Events, NEW v \in Readers, NEW w \in Readers, Takes(v, e, w)
  PROVE  Observe(View(v.scan, v.plan), e.msg) = View(w.scan, w.plan)
<1> DEFINE b == e.msg.body
<1>2. \A a, s, p : Reader(a, s, p).scan = s /\ Reader(a, s, p).plan = p
  BY DEF Reader
<1>3. CASE b = "accepted"
  BY <1>2, <1>3 DEF Takes, Observe, View
<1>4. CASE b = "rejected"
  BY <1>4 DEF Takes, Observe, View
<1>5. CASE b = "stateChanged"
  <2>1. PICK p \in Ui!Phase : w = Reader(InPhase(v, p), e.msg.state, v.plan)
    BY <1>5 DEF Takes
  <2>2. w.scan = e.msg.state /\ w.plan = v.plan
    BY <1>2, <2>1
  <2>3. QED
    BY <1>5, <2>2 DEF Observe, View
<1>6. CASE b = "progress"
  BY <1>2, <1>6 DEF Takes, Observe, View
<1>7. CASE b = "planReady"
  BY <1>2, <1>7 DEF Takes, Observe, View
<1>8. CASE b = "planInvalidated"
  BY <1>2, <1>8 DEF Takes, Observe, View
<1>9. CASE b = "scanCancelled"
  BY <1>9 DEF Takes, Observe, View
<1>10. QED
  BY <1>3, <1>4, <1>5, <1>6, <1>7, <1>8, <1>9 DEF Takes

(* t is the recursive function inside Replay. *)
IsReplay(t, v, f) ==
  t = [n \in 0..Len(f) |-> IF n = 0 THEN v ELSE Observe(t[n - 1], f[n].msg)]

(* There is one such function only.                                        *)
LEMMA ReplaysAgree ==
  ASSUME NEW f \in Seq(Events), NEW v, NEW t, NEW u, IsReplay(t, v, f), IsReplay(u, v, f)
  PROVE  t[Len(f)] = u[Len(f)]
<1> DEFINE n == Len(f)
           Differs == { k \in 0..n : t[k] # u[k] }
<1>1. n \in Nat
  BY LenProperties
<1>2. \A k \in 0..n : /\ t[k] = IF k = 0 THEN v ELSE Observe(t[k - 1], f[k].msg)
                      /\ u[k] = IF k = 0 THEN v ELSE Observe(u[k - 1], f[k].msg)
  BY DEF IsReplay
<1> SUFFICES ASSUME Differs # {} PROVE FALSE
  BY <1>1
<1> HIDE DEF n
<1>3. PICK k \in Differs : \A y \in Differs : k <= y
  <2>1. Differs \in SUBSET Nat
    BY <1>1
  <2>2. QED
    BY <2>1, LeastNumber
<1>4. k \in 0..n /\ t[k] # u[k] /\ k # 0
  BY <1>2, <1>3
<1>5. k - 1 \in 0..n /\ k - 1 \notin Differs
  BY <1>1, <1>3, <1>4
<1>6. t[k - 1] = u[k - 1]
  BY <1>5
<1>7. QED
  BY <1>2, <1>4, <1>6

(* So a way through the readers is what a replay shows.                    *)
LEMMA LeadsReplays ==
  ASSUME NEW f \in Seq(Events), NEW v \in Readers, NEW w, Leads(f, v, w)
  PROVE  Replay(View(v.scan, v.plan), f) = View(w.scan, w.plan)
<1> DEFINE n == Len(f)
           s == View(v.scan, v.plan)
<1>1. n \in Nat /\ \A i \in 1..n : f[i] \in Events
  BY LenProperties, ElementOfSeq
<1>2. PICK p \in [0..n -> Readers] :
        /\ p[0] = v /\ p[n] = w
        /\ \A i \in 1..n : Takes(p[i - 1], f[i], p[i])
  BY DEF Leads
<1> HIDE DEF n
<1> DEFINE g == [i \in 0..n |-> View(p[i].scan, p[i].plan)]
<1>3. ASSUME NEW i \in 0..n PROVE g[i] = IF i = 0 THEN s ELSE Observe(g[i - 1], f[i].msg)
  <2>1. CASE i = 0
    BY <1>2, <2>1
  <2>2. CASE i # 0
    <3>1. i \in 1..n /\ i - 1 \in 0..n
      BY <1>1, <2>2
    <3>2. p[i - 1] \in Readers /\ p[i] \in Readers /\ Takes(p[i - 1], f[i], p[i]) /\ f[i] \in Events
      BY <1>1, <1>2, <3>1
    <3>3. Observe(View(p[i - 1].scan, p[i - 1].plan), f[i].msg) = View(p[i].scan, p[i].plan)
      BY <3>2, TakenIsObserved
    <3>4. QED
      BY <2>2, <3>1, <3>3
  <2>3. QED
    BY <2>1, <2>2
<1>4. g = [i \in 0..n |-> g[i]] /\ g[n] = View(w.scan, w.plan)
  BY <1>1, <1>2
<1> HIDE DEF g
<1>5. IsReplay(g, s, f)
  BY <1>3, <1>4 DEF IsReplay, n
<1> HIDE DEF s
<1>6. PICK t : t = (CHOOSE h : IsReplay(h, s, f))
  OBVIOUS
<1>7. IsReplay(t, s, f)
  BY <1>5, <1>6
<1>8. Replay(s, f) = t[n]
  BY <1>6 DEF Replay, IsReplay, n
<1>9. t[n] = g[n]
  BY <1>5, <1>7, ReplaysAgree DEF n
<1>10. QED
  BY <1>4, <1>8, <1>9 DEF s

(* The two sides never drift apart: what the user has been shown, and what *)
(* is on its way, is the engine's state and plan.                          *)
THEOREM SidesConverge == Spec => []StreamConverges
<1>1. ASSUME ControlInv, terminal = "none", ~receiverClosed, ~trapped
      PROVE  /\ Replay(View(scanState, provisionalPlan), InFlight) = View(state, provisionalPlanID)
             /\ Len(InFlight) = eventSequence - lastEventSequence
             /\ \A i \in DOMAIN InFlight : InFlight[i].seq = lastEventSequence + i
  <2>1. Connected
    BY <1>1 DEF Connected
  <2>2. Numbers(InFlight, lastEventSequence, eventSequence)
    BY <1>1, <2>1 DEF ControlInv, Followed
  <2>3. PICK end \in Readers :
          Leads(InFlight, Shown, end) /\ end.scan = state /\ end.plan = provisionalPlanID
    BY <1>1, <2>1 DEF ControlInv, Followed
  <2>4. InFlight \in Seq(Events)
    BY <1>1, FlightTyped DEF ControlInv
  <2>5. Shown \in Readers /\ Shown.scan = scanState /\ Shown.plan = provisionalPlan
    BY <1>1 DEF ControlInv, TypeOK, Shown, Reader, Readers
  <2>6. Replay(View(Shown.scan, Shown.plan), InFlight) = View(end.scan, end.plan)
    BY <2>3, <2>4, <2>5, LeadsReplays
  <2>7. DOMAIN InFlight = 1..Len(InFlight)
    BY <2>4, LenProperties
  <2>8. QED
    BY <2>2, <2>3, <2>5, <2>6, <2>7 DEF Numbers
<1>2. ControlInv => StreamConverges
  BY <1>1 DEF StreamConverges
<1>3. QED
  BY <1>2, ControlInvariance, PTL

-----------------------------------------------------------------------------
(* The requests under way, counted.                                        *)

(* A set whose members have a number each is as large as that of the       *)
(* numbers.                                                                *)
LEMMA NumberedSet ==
  ASSUME NEW S, IsFiniteSet(S), NEW g, NEW T, T = { g[i] : i \in S },
         \A i, j \in S : g[i] = g[j] => i = j
  PROVE  IsFiniteSet(T) /\ Cardinality(T) = Cardinality(S)
<1> DEFINE h == [i \in S |-> g[i]]
<1>1. h \in [S -> T] /\ \A i \in S : h[i] = g[i]
  OBVIOUS
<1>2. h \in Injection(S, T)
  BY <1>1 DEF Injection, IsInjective
<1>3. h \in Surjection(S, T)
  BY <1>1 DEF Surjection
<1>4. ExistsBijection(S, T)
  BY <1>2, <1>3 DEF ExistsBijection, Bijection
<1>5. QED
  BY <1>4, FS_Bijection

(* The verdicts in flight, ... *)
LEMMA VerdictsCounted ==
  ASSUME NEW f \in Seq(Events), AscendingVerdicts(f),
         NEW V, V = { i \in 1..Len(f) : IsVerdict(f[i]) }
  PROVE  IsFiniteSet(AnsweredIn(f)) /\ Cardinality(AnsweredIn(f)) = Cardinality(V)
<1> DEFINE n == Len(f)
           g == [i \in 1..n |-> Answered(f[i])]
<1>1. n \in Nat /\ \A i \in 1..n : f[i] \in Events
  BY LenProperties, ElementOfSeq
<1>2. IsFiniteSet(V)
  <2>1. IsFiniteSet(1..n) /\ V \in SUBSET (1..n)
    BY <1>1, FS_Interval
  <2>2. QED
    BY <2>1, FS_Subset
<1>3. AnsweredIn(f) = { g[i] : i \in V }
  BY DEF AnsweredIn
<1>4. \A i \in V : g[i].id = f[i].req /\ f[i].req \in Nat
  BY <1>1 DEF Answered, Ui!Request, Events
<1>5. \A i, j \in V : i < j => f[i].req < f[j].req
  BY DEF AscendingVerdicts
<1>6. ASSUME NEW i \in V, NEW j \in V, g[i] = g[j] PROVE i = j
  <2>1. f[i].req = f[j].req /\ f[i].req \in Nat
    BY <1>4, <1>6
  <2>2. ~(i < j) /\ ~(j < i) /\ i \in Nat /\ j \in Nat
    BY <1>1, <1>5, <2>1
  <2>3. QED
    BY <2>2
<1> HIDE DEF g
<1>7. QED
  BY <1>2, <1>3, <1>6, NumberedSet

(* ... the requests in the pipe, ... *)
LEMMA WrittenCounted ==
  ASSUME NEW q \in Seq(Requests), AscendingRequests(q)
  PROVE  IsFiniteSet(WrittenIn(q)) /\ Cardinality(WrittenIn(q)) = Len(q)
<1> DEFINE n == Len(q)
<1>1. n \in Nat /\ \A i \in 1..n : q[i] \in Requests
  BY LenProperties, ElementOfSeq
<1>2. IsFiniteSet(1..n) /\ Cardinality(1..n) = n
  <2>1. 1 \in Int /\ n \in Int /\ n - 1 + 1 = n /\ (1 > n => n = 0)
    BY <1>1
  <2> HIDE DEF n
  <2>2. IsFiniteSet(1..n) /\ Cardinality(1..n) = IF 1 > n THEN 0 ELSE n - 1 + 1
    BY <2>1, FS_Interval
  <2>3. QED
    BY <2>1, <2>2
<1>3. WrittenIn(q) = { q[i] : i \in 1..n }
  BY DEF WrittenIn
<1>4. ASSUME NEW i \in 1..n, NEW j \in 1..n, q[i] = q[j] PROVE i = j
  <2>1. q[i].id = q[j].id /\ q[i].id \in Nat
    BY <1>1, <1>4 DEF Requests
  <2>2. ~(i < j) /\ ~(j < i) /\ i \in Nat /\ j \in Nat
    BY <1>1, <2>1 DEF AscendingRequests
  <2>3. QED
    BY <2>2
<1> HIDE DEF n
<1>5. IsFiniteSet(WrittenIn(q)) /\ Cardinality(WrittenIn(q)) = Cardinality(1..n)
  BY <1>2, <1>3, <1>4, NumberedSet
<1>6. QED
  BY <1>2, <1>5 DEF n

(* ... and those in the channel. *)
LEMMA CarriedCounted ==
  ASSUME NEW c \in Seq(Commands), AscendingCommands(c),
         NEW S, S = { i \in 1..Len(c) : IsControl(c[i]) }
  PROVE  IsFiniteSet(CarriedIn(c)) /\ Cardinality(CarriedIn(c)) = Cardinality(S)
<1> DEFINE n == Len(c)
           g == [i \in 1..n |-> Carried(c[i])]
<1>1. n \in Nat /\ \A i \in 1..n : c[i].id \in Nat
  BY LenProperties, ElementOfSeq DEF Commands, Ui!StopDriver
<1>2. IsFiniteSet(S)
  <2>1. IsFiniteSet(1..n) /\ S \in SUBSET (1..n)
    BY <1>1, FS_Interval
  <2>2. QED
    BY <2>1, FS_Subset
<1>3. CarriedIn(c) = { g[i] : i \in S }
  BY DEF CarriedIn
<1>4. \A i \in S : g[i].id = c[i].id /\ c[i].id \in Nat
  BY <1>1 DEF Carried, Ui!Request
<1>5. \A i, j \in S : i < j => c[i].id < c[j].id
  BY DEF AscendingCommands
<1>6. ASSUME NEW i \in S, NEW j \in S, g[i] = g[j] PROVE i = j
  <2>1. c[i].id = c[j].id /\ c[i].id \in Nat
    BY <1>4, <1>6
  <2>2. ~(i < j) /\ ~(j < i) /\ i \in Nat /\ j \in Nat
    BY <1>1, <1>5, <2>1
  <2>3. QED
    BY <2>2
<1> HIDE DEF g
<1>7. QED
  BY <1>2, <1>3, <1>6, NumberedSet

(* Three finite sets, one before the other, share nothing.                 *)
LEMMA ApartCounted ==
  ASSUME NEW A, NEW B, NEW C, IsFiniteSet(A), IsFiniteSet(B), IsFiniteSet(C),
         \A r \in A \cup B \cup C : r.id \in Nat,
         Before(A, B), Before(A, C), Before(B, C)
  PROVE  Cardinality(A \cup B \cup C) = Cardinality(C) + Cardinality(B) + Cardinality(A)
<1>1. \A i \in Nat : ~(i < i)
  OBVIOUS
<1>2. A \cap B = {} /\ (A \cup B) \cap C = {}
  BY <1>1 DEF Before
<1>3. /\ Cardinality(A) \in Nat /\ Cardinality(B) \in Nat /\ Cardinality(C) \in Nat
      /\ Cardinality({}) = 0
  BY FS_CardinalityType, FS_EmptySet
<1> DEFINE D == A \cup B
<1>4. /\ IsFiniteSet(D)
      /\ Cardinality(D) = Cardinality(A) + Cardinality(B) - Cardinality(A \cap B)
  BY FS_Union
<1>5. Cardinality(D) = Cardinality(A) + Cardinality(B)
  <2>1. Cardinality(A \cap B) = 0
    BY <1>2, <1>3, Zenon
  <2> DEFINE k == Cardinality(A \cap B)
  <2> HIDE DEF k, D
  <2>2. k = 0
    BY <2>1 DEF k
  <2>3. Cardinality(D) = Cardinality(A) + Cardinality(B) - k
    BY <1>4 DEF k
  <2>4. QED
    BY <1>3, <2>2, <2>3
<1>6. D \cap C = {}
  BY <1>2
<1> HIDE DEF D
<1>7. Cardinality(D \cup C) = Cardinality(D) + Cardinality(C) - Cardinality(D \cap C)
  BY <1>4, FS_Union
<1>8. Cardinality(D \cup C) = Cardinality(C) + Cardinality(B) + Cardinality(A)
  <2>1. Cardinality(D \cap C) = 0
    BY <1>3, <1>6, Zenon
  <2> DEFINE k == Cardinality(D \cap C)
  <2> HIDE DEF k
  <2>2. k = 0
    BY <2>1 DEF k
  <2>3. Cardinality(D \cup C) = Cardinality(D) + Cardinality(C) - k
    BY <1>7 DEF k
  <2>4. QED
    BY <1>3, <1>5, <2>2, <2>3
<1>9. QED
  BY <1>8 DEF D

(* Each pending request is in one place, and in one only: none is lost,    *)
(* none answered twice.                                                    *)
THEOREM NoRequestIsLost == Spec => []RequestsAreAccountedFor
<1>1. ASSUME ControlInv, terminal = "none", ~trapped, driver \in Live
      PROVE  RequestsAreAccountedFor
  <2> DEFINE A == AnsweredIn(InFlight)
             W == WrittenIn(stdin)
             C == CarriedIn(commands)
  <2>1. InFlight \in Seq(Events) /\ stdin \in Seq(Requests) /\ commands \in Seq(Commands)
    BY <1>1, FlightTyped DEF ControlInv, TypeOK
  <2>2. /\ DOMAIN InFlight = 1..Len(InFlight) /\ DOMAIN stdin = 1..Len(stdin)
        /\ DOMAIN commands = 1..Len(commands)
    BY <2>1, LenProperties
  <2>3. /\ Verdicts = { i \in 1..Len(InFlight) : IsVerdict(InFlight[i]) }
        /\ Sent = { i \in 1..Len(commands) : IsControl(commands[i]) }
    BY <2>2 DEF Verdicts, Sent, IsVerdict, IsControl
  <2>4. C = { Ui!Request(commands[i].id, commands[i].kind) : i \in Sent }
    BY <2>3 DEF CarriedIn, Carried
  <2>5. W = { stdin[i] : i \in DOMAIN stdin }
    BY <2>2 DEF WrittenIn
  <2>6. A = { Ui!Request(InFlight[i].req, InFlight[i].msg.kind) : i \in Verdicts }
    BY <2>3 DEF AnsweredIn, Answered
  <2>7. pending = Unsent \cup (A \cup W \cup C)
    BY <1>1 DEF ControlInv, NoneForgotten, UnderWay
  <2>8. ASSUME driver \notin {"connecting", "starting"}
        PROVE  Cardinality(pending) = Cardinality(Sent) + Len(stdin) + Cardinality(Verdicts)
    <3>1. Ascending(InFlight, stdin, commands)
      BY <1>1 DEF ControlInv, InOrder, Connected
    <3>2. IsFiniteSet(A) /\ Cardinality(A) = Cardinality(Verdicts)
      BY <2>1, <2>3, <3>1, VerdictsCounted DEF Ascending
    <3>3. IsFiniteSet(W) /\ Cardinality(W) = Len(stdin)
      BY <2>1, <3>1, WrittenCounted DEF Ascending
    <3>4. IsFiniteSet(C) /\ Cardinality(C) = Cardinality(Sent)
      BY <2>1, <2>3, <3>1, CarriedCounted DEF Ascending
    <3>5. Unsent = {}
      BY <2>8 DEF Unsent
    <3>6. Before(A, W) /\ Before(A, C) /\ Before(W, C)
      BY <3>1 DEF Ascending
    <3> HIDE DEF A, W, C
    <3>7. pending = A \cup W \cup C
      BY <2>7, <3>5
    <3>8. \A r \in A \cup W \cup C : r.id \in Nat
      BY <1>1, <3>7 DEF ControlInv, TypeOK, Requests
    <3>9. QED
      BY <3>2, <3>3, <3>4, <3>6, <3>7, <3>8, ApartCounted
  <2> HIDE DEF A, W, C
  <2>9. pending = (IF driver \in {"connecting", "starting"} THEN {Ui!Request(1, "start")} ELSE {})
                  \cup C \cup W \cup A
    BY <2>7 DEF Unsent
  <2>10. QED
    BY <2>4, <2>5, <2>6, <2>8, <2>9 DEF RequestsAreAccountedFor
<1>2. ControlInv => RequestsAreAccountedFor
  BY <1>1 DEF RequestsAreAccountedFor, Live
<1>3. QED
  BY <1>2, ControlInvariance, PTL
=============================================================================
