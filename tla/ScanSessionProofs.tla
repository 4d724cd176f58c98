------------------------- MODULE ScanSessionProofs --------------------------
(***************************************************************************)
(* What the engine's session guarantees for every counter width and every  *)
(* request sequence.  The argument has two halves.  Every call answers     *)
(* with Return(r, msgs) for messages of one shape that tell what the call  *)
(* did (EveryCallReplies), and numbering messages of that shape keeps the  *)
(* invariant (ReturnKeepsShape).                                           *)
(***************************************************************************)
EXTENDS ScanSession, FiniteSetTheorems, SequenceTheorems, TLAPS

(* The shape of a reply that leaves the session in state s: a verdict      *)
(* first and only first, alone if it is a rejection, and s the last state  *)
(* that is mentioned.                                                      *)
ReplyShape(msgs, s) ==
  /\ msgs \in Seq(Message)
  /\ msgs # <<>>
  /\ msgs[1].body \in Acknowledgement
  /\ \A i \in 2..Len(msgs) : /\ msgs[i].body \notin Acknowledgement
                             /\ msgs[1].body = "accepted"
  /\ \E i \in 1..Len(msgs) :
       /\ msgs[i].body \in StateBearing
       /\ msgs[i].state = s
       /\ \A j \in (i + 1)..Len(msgs) : msgs[j].body \notin StateBearing

SessionInv ==
  /\ TypeOK
  /\ PlanMatchesState
  /\ OneVerdictPerRequest
  /\ StreamIsComplete

-----------------------------------------------------------------------------
(* One lemma for each reply a handler can make. *)

(* A rejection is one event: it mentions the state and does not change it. *)
LEMMA RejectionShape ==
  ASSUME NEW k \in WireKind, NEW c \in RejectCode, NEW s \in ScanState
  PROVE  ReplyShape(<<ControlRejected(k, c, s)>>, s)
<1> DEFINE m == <<ControlRejected(k, c, s)>>
<1>1. ControlRejected(k, c, s) \in Message
  BY DEF Message, WireCode, WireState
<1>2. m \in Seq(Message) /\ m # <<>> /\ Len(m) = 1
  BY <1>1
<1>3. m[1].body = "rejected" /\ m[1].state = s
  BY DEF ControlRejected, Body
<1>4. QED
  BY <1>2, <1>3 DEF ReplyShape, Acknowledgement, StateBearing

(* Start: accepted, confirmed, first progress report. *)
LEMMA BeginScanShape ==
  ReplyShape(<<ControlAccepted("start", "running"), ScanStateChanged("running"),
               ScanProgress>>, "running")
<1> DEFINE m == <<ControlAccepted("start", "running"), ScanStateChanged("running"),
                  ScanProgress>>
<1>1. m \in Seq(Message) /\ m # <<>> /\ Len(m) = 3
  BY DEF Message, WireKind, ControlKind, WireState, ScanState
<1>2. /\ m[1].body = "accepted"
      /\ m[2].body = "stateChanged" /\ m[2].state = "running"
      /\ m[3].body = "progress"
  BY DEF ControlAccepted, ScanStateChanged, ScanProgress, Body
<1>3. QED
  BY <1>1, <1>2 DEF ReplyShape, Acknowledgement, StateBearing

(* A pause that is served answers with two events and moves to paused.    *)
LEMMA PauseShape ==
  ReplyShape(<<ControlAccepted("pause", "paused"), ScanStateChanged("paused")>>, "paused")
<1> DEFINE m == <<ControlAccepted("pause", "paused"), ScanStateChanged("paused")>>
<1>1. m \in Seq(Message) /\ m # <<>> /\ Len(m) = 2
  BY DEF Message, WireKind, ControlKind, WireState, ScanState
<1>2. /\ m[1].body = "accepted"
      /\ m[2].body = "stateChanged" /\ m[2].state = "paused"
  BY DEF ControlAccepted, ScanStateChanged, Body
<1>3. QED
  BY <1>1, <1>2 DEF ReplyShape, Acknowledgement, StateBearing

(* Resume, with and without a plan to invalidate. *)
LEMMA ResumeShape ==
  ASSUME provisionalPlanID \in PlanId \cup {NoPlan}
  PROVE  ReplyShape(ResumeMessages, "running")
<1> DEFINE m == ResumeMessages
<1>1. CASE provisionalPlanID = NoPlan
  <2>1. m = <<ControlAccepted("resume", "running"), ScanStateChanged("running"), ScanProgress>>
    BY <1>1 DEF ResumeMessages
  <2>2. m \in Seq(Message) /\ m # <<>> /\ Len(m) = 3
    BY <2>1 DEF Message, WireKind, ControlKind, WireState, ScanState
  <2>3. /\ m[1].body = "accepted"
        /\ m[2].body = "stateChanged" /\ m[2].state = "running"
        /\ m[3].body = "progress"
    BY <2>1 DEF ControlAccepted, ScanStateChanged, ScanProgress, Body
  <2>4. QED
    BY <2>2, <2>3 DEF ReplyShape, Acknowledgement, StateBearing
<1>2. CASE provisionalPlanID # NoPlan
  <2>1. m = <<ControlAccepted("resume", "running"), PlanInvalidated(provisionalPlanID),
              ScanStateChanged("running"), ScanProgress>>
    BY <1>2 DEF ResumeMessages
  <2>2. m \in Seq(Message) /\ m # <<>> /\ Len(m) = 4
    BY <1>2, <2>1 DEF Message, WireKind, ControlKind, WireState, ScanState, WirePlanId
  <2>3. /\ m[1].body = "accepted"
        /\ m[2].body = "planInvalidated"
        /\ m[3].body = "stateChanged" /\ m[3].state = "running"
        /\ m[4].body = "progress"
    BY <2>1 DEF ControlAccepted, PlanInvalidated, ScanStateChanged, ScanProgress, Body
  <2>4. QED
    BY <2>2, <2>3 DEF ReplyShape, Acknowledgement, StateBearing
<1>3. QED
  BY <1>1, <1>2

(* A plan that is built names itself and moves to planReady. *)
LEMMA BuildPlanShape ==
  ReplyShape(<<ControlAccepted("build", "building"), ScanStateChanged("building"),
               ScanStateChanged("planReady"), PlanReady(FixturePlan)>>, "planReady")
<1> DEFINE m == <<ControlAccepted("build", "building"), ScanStateChanged("building"),
                  ScanStateChanged("planReady"), PlanReady(FixturePlan)>>
<1>1. m \in Seq(Message) /\ m # <<>> /\ Len(m) = 4
  BY FixturePlanAssumption
  DEF Message, WireKind, ControlKind, WireState, ScanState, WirePlanId
<1>2. /\ m[1].body = "accepted"
      /\ m[2].body = "stateChanged"
      /\ m[3].body = "stateChanged" /\ m[3].state = "planReady"
      /\ m[4].body = "planReady"
  BY DEF ControlAccepted, ScanStateChanged, PlanReady, Body
<1>3. QED
  BY <1>1, <1>2 DEF ReplyShape, Acknowledgement, StateBearing

(* A cancellation that is served ends in cancelled and keeps the plan. *)
LEMMA CancelShape ==
  ReplyShape(<<ControlAccepted("cancel", "cancelling"), ScanStateChanged("cancelling"),
               ScanStateChanged("cancelled"), ScanCancelled>>, "cancelled")
<1> DEFINE m == <<ControlAccepted("cancel", "cancelling"), ScanStateChanged("cancelling"),
                  ScanStateChanged("cancelled"), ScanCancelled>>
<1>1. m \in Seq(Message) /\ m # <<>> /\ Len(m) = 4
  BY DEF Message, WireKind, ControlKind, WireState, ScanState
<1>2. /\ m[1].body = "accepted"
      /\ m[2].body = "stateChanged"
      /\ m[3].body = "stateChanged" /\ m[3].state = "cancelled"
      /\ m[4].body = "scanCancelled"
  BY DEF ControlAccepted, ScanStateChanged, ScanCancelled, Body
<1>3. QED
  BY <1>1, <1>2 DEF ReplyShape, Acknowledgement, StateBearing

-----------------------------------------------------------------------------
(* Replays.                                                                *)

SessionEvents == [seq : 0..MaxU64, req : 0..MaxU64, msg : Message]

(* A set of numbers that is not empty has a least one: what the inductions *)
(* along a replay rest on.                                                 *)
LEMMA LeastNumber ==
  ASSUME NEW T \in SUBSET Nat, T # {}
  PROVE  \E x \in T : \A y \in T : x <= y
<1> DEFINE R == OpToRel(<, Nat)
<1>1. IsWellFoundedOn(R, Nat)
  BY NatLessThanWellFounded
<1> HIDE DEF R
<1>2. \E x \in T : \A y \in T : ~(<<y, x>> \in R)
  BY <1>1, WFMin
<1>3. \A x, y \in Nat : y < x => <<y, x>> \in R
  BY DEF R, OpToRel
<1>4. PICK x \in T : \A y \in T : ~(<<y, x>> \in R)
  BY <1>2
<1>5. ASSUME NEW y \in T PROVE x <= y
  <2>1. x \in Nat /\ y \in Nat /\ ~(y < x)
    BY <1>3, <1>4
  <2>2. QED
    BY <2>1
<1>6. QED
  BY <1>5

(* t[k] is what a reader who knew v knows after the first k of the events. *)
Tells(t, v, events) ==
  t = [n \in 0..Len(events) |-> IF n = 0 THEN v ELSE Observe(t[n - 1], events[n].msg)]

(* What the reader knows at the end is determined.                         *)
LEMMA TellsOneStory ==
  ASSUME NEW f \in Seq(SessionEvents), NEW v, NEW t, NEW u, Tells(t, v, f), Tells(u, v, f)
  PROVE  t[Len(f)] = u[Len(f)]
<1> DEFINE n == Len(f)
           Differs == { k \in 0..n : t[k] # u[k] }
<1>1. n \in Nat
  BY LenProperties
<1>2. \A k \in 0..n : /\ t[k] = IF k = 0 THEN v ELSE Observe(t[k - 1], f[k].msg)
                      /\ u[k] = IF k = 0 THEN v ELSE Observe(u[k - 1], f[k].msg)
  BY DEF Tells
<1> SUFFICES ASSUME Differs # {} PROVE FALSE
  BY <1>1
<1> HIDE DEF n
<1>3. PICK k \in Differs : \A y \in Differs : k <= y
  <2>1. Differs \in SUBSET Nat
    BY <1>1
  <2>2. QED
    BY <2>1, LeastNumber
<1>4. k \in 0..n /\ t[k] # u[k] /\ k # 0
  BY <1>2, <1>3
<1>5. k - 1 \in 0..n /\ k - 1 \notin Differs
  BY <1>1, <1>3, <1>4
<1>6. t[k - 1] = u[k - 1]
  BY <1>5
<1>7. QED
  BY <1>2, <1>4, <1>6

(* So whoever can tell the story of some events knows what Replay says.    *)
LEMMA ReplayTells ==
  ASSUME NEW f \in Seq(SessionEvents), NEW v, NEW t, Tells(t, v, f)
  PROVE  Replay(v, f) = t[Len(f)]
<1>1. PICK u : u = (CHOOSE h : Tells(h, v, f))
  OBVIOUS
<1>2. Tells(u, v, f)
  BY <1>1
<1>3. Replay(v, f) = u[Len(f)]
  BY <1>1 DEF Replay, Tells
<1>4. QED
  BY <1>2, <1>3, TellsOneStory

(* One observation more. *)
Next1(t, v, events, n) == IF n = 0 THEN v ELSE Observe(t[n - 1], events[n].msg)

(* There is a story to tell of any events, however many.                   *)
LEMMA StoryExists ==
  ASSUME NEW f \in Seq(SessionEvents), NEW v
  PROVE  \E t : Tells(t, v, f)
<1> DEFINE Upto(t, k) == t = [n \in 0..k |-> t[n]] /\ \A n \in 0..k : t[n] = Next1(t, v, f, n)
           Missing == { k \in Nat : ~ \E t : Upto(t, k) }
<1>1. Missing = {}
  <2> SUFFICES ASSUME Missing # {} PROVE FALSE
    OBVIOUS
  <2>1. PICK k \in Missing : \A y \in Missing : k <= y
    BY LeastNumber
  <2>2. CASE k = 0
    <3> DEFINE t == [n \in 0..0 |-> v]
    <3>1. Upto(t, 0)
      BY DEF Next1
    <3>2. QED
      BY <2>1, <2>2, <3>1
  <2>3. CASE k # 0
    <3>1. k \in Nat /\ k - 1 \in Nat /\ k - 1 \notin Missing
      BY <2>1, <2>3
    <3>2. PICK g : Upto(g, k - 1)
      BY <3>1
    <3> DEFINE t == [n \in 0..k |-> IF n = k THEN Next1(g, v, f, k) ELSE g[n]]
    <3>3. ASSUME NEW n \in 0..k PROVE t[n] = Next1(t, v, f, n)
      <4>1. t[n] = Next1(g, v, f, n)
        BY <3>1, <3>2
      <4>2. n # 0 => n - 1 \in 0..k /\ n - 1 # k
        BY <3>1
      <4>3. n # 0 => t[n - 1] = g[n - 1]
        BY <4>2
      <4>4. QED
        BY <4>1, <4>3 DEF Next1
    <3>4. t = [n \in 0..k |-> t[n]]
      OBVIOUS
    <3> HIDE DEF t
    <3>5. Upto(t, k)
      BY <3>3, <3>4
    <3>6. QED
      BY <2>1, <3>5
  <2>4. QED
    BY <2>2, <2>3
<1>2. Len(f) \in Nat
  BY LenProperties
<1>3. PICK t : Upto(t, Len(f))
  BY <1>1, <1>2
<1>4. Tells(t, v, f)
  BY <1>3 DEF Tells, Next1
<1>5. QED
  BY <1>4

(* A message that may come in state s. *)
Legal(s, m) ==
  m.body \in StateBearing =>
    m.state = s \/ (m.body # "rejected" /\ <<s, m.state>> \in Advances)

(* The messages msgs tell the story of views ws, step by legal step. *)
Story(msgs, ws) ==
  /\ Len(ws) = Len(msgs) + 1
  /\ \A i \in 1..Len(msgs) : ws[i + 1] = Observe(ws[i], msgs[i]) /\ Legal(ws[i].scan, msgs[i])

(* Events with such messages lead a reader who knew s and p to s2 and p2,  *)
(* by legal steps.                                                         *)
Narrates(msgs, s, p, s2, p2) ==
  \A f \in Seq(SessionEvents) :
    Len(f) = Len(msgs) /\ (\A i \in 1..Len(msgs) : f[i].msg = msgs[i]) =>
      Replay(View(s, p), f) = View(s2, p2) /\ WalksFrom(s, f)

(* A story is such a narration. *)
LEMMA StoryNarrates ==
  ASSUME NEW msgs \in Seq(Message), NEW s, NEW p, NEW s2, NEW p2, NEW ws, Story(msgs, ws),
         ws[1] = View(s, p), ws[Len(msgs) + 1] = View(s2, p2)
  PROVE  Narrates(msgs, s, p, s2, p2)
<1> DEFINE n == Len(msgs)
<1>1. /\ n \in Nat
      /\ \A i \in 1..n : ws[i + 1] = Observe(ws[i], msgs[i]) /\ Legal(ws[i].scan, msgs[i])
  BY LenProperties DEF Story
<1> HIDE DEF n
<1> SUFFICES ASSUME NEW f \in Seq(SessionEvents), Len(f) = n, \A i \in 1..n : f[i].msg = msgs[i]
             PROVE  Replay(View(s, p), f) = View(s2, p2) /\ WalksFrom(s, f)
  BY DEF Narrates, n
<1>2. Replay(View(s, p), f) = View(s2, p2)
  <2> DEFINE t == [k \in 0..n |-> ws[k + 1]]
  <2>1. ASSUME NEW k \in 0..n
        PROVE  t[k] = IF k = 0 THEN View(s, p) ELSE Observe(t[k - 1], f[k].msg)
    <3>1. CASE k = 0
      BY <3>1
    <3>2. CASE k # 0
      <4>1. k \in 1..n /\ k - 1 \in 0..n /\ k - 1 + 1 = k
        BY <1>1, <3>2
      <4>2. t[k - 1] = ws[k] /\ t[k] = ws[k + 1]
        BY <4>1
      <4>3. QED
        BY <1>1, <3>2, <4>1, <4>2
    <3>3. QED
      BY <3>1, <3>2
  <2>2. t = [k \in 0..n |-> t[k]] /\ t[n] = View(s2, p2)
    BY <1>1 DEF n
  <2> HIDE DEF t
  <2>3. Tells(t, View(s, p), f)
    BY <2>1, <2>2 DEF Tells
  <2>4. QED
    BY <2>2, <2>3, ReplayTells
<1>3. ASSUME NEW i \in 1..n
      PROVE  Replay(View(s, NoPlan), SubSeq(f, 1, i - 1)).scan = ws[i].scan
  (* The plan known before makes no difference to the states. *)
  <2> DEFINE m == i - 1
             g == SubSeq(f, 1, m)
  <2>1. m \in Nat /\ m <= n /\ m + 1 = i
    BY <1>1
  <2> HIDE DEF m
  <2>2. g \in Seq(SessionEvents) /\ Len(g) = m /\ \A k \in 1..m : g[k].msg = msgs[k]
    <3>1. \A k \in 1..m : f[k] \in SessionEvents
      BY <2>1, ElementOfSeq
    <3>2. g \in Seq(SessionEvents) /\ Len(g) = m /\ \A k \in 1..m : g[k] = f[k]
      BY <2>1, <3>1, SubSeqProperties
    <3>3. QED
      BY <2>1, <3>2
  <2> HIDE DEF g
  <2>3. PICK t : Tells(t, View(s, NoPlan), g)
    BY <2>2, StoryExists
  <2>4. \A k \in 0..m : t[k] = IF k = 0 THEN View(s, NoPlan) ELSE Observe(t[k - 1], g[k].msg)
    BY <2>2, <2>3 DEF Tells
  <2> DEFINE Differs == { k \in 0..m : t[k].scan # ws[k + 1].scan }
  <2>5. Differs = {}
    <3> SUFFICES ASSUME Differs # {} PROVE FALSE
      OBVIOUS
    <3>1. PICK k \in Differs : \A y \in Differs : k <= y
      <4>1. Differs \in SUBSET Nat
        BY <2>1
      <4>2. QED
        BY <4>1, LeastNumber
    <3>2. k \in 0..m /\ t[k].scan # ws[k + 1].scan
      BY <3>1
    <3>3. k # 0
      BY <2>1, <2>4, <3>2 DEF View
    <3>4. k \in 1..n /\ k \in 1..m /\ k - 1 \in 0..m /\ k - 1 + 1 = k
      BY <1>1, <2>1, <3>2, <3>3
    <3>5. k - 1 \notin Differs
      <4> HIDE DEF Differs
      <4>1. ~(k <= k - 1)
        BY <3>4
      <4>2. QED
        BY <3>1, <4>1
    <3>6. t[k - 1].scan = ws[k].scan
      BY <3>4, <3>5
    <3> HIDE DEF Differs
    <3>7. t[k] = Observe(t[k - 1], msgs[k]) /\ ws[k + 1] = Observe(ws[k], msgs[k])
      BY <1>1, <2>2, <2>4, <3>3, <3>4
    <3>8. QED
      BY <3>2, <3>6, <3>7 DEF Observe
  <2>6. t[m].scan = ws[i].scan
    BY <2>1, <2>5
  <2>7. Replay(View(s, NoPlan), g) = t[m]
    BY <2>2, <2>3, ReplayTells
  <2>8. QED
    BY <2>6, <2>7 DEF g, m
<1>4. WalksFrom(s, f)
  <2>1. DOMAIN f = 1..n
    BY LenProperties
  <2>2. \A i \in 1..n : Legal(ws[i].scan, f[i].msg)
    BY <1>1
  <2>3. QED
    BY <1>3, <2>1, <2>2 DEF WalksFrom, Legal
<1>5. QED
  BY <1>2, <1>4

(* One lemma for each reply a handler can make: the views along it.        *)

(* Nothing changes. *)
LEMMA RejectionNarrates ==
  ASSUME NEW k \in WireKind, NEW c \in RejectCode, NEW s \in ScanState, NEW p
  PROVE  Narrates(<<ControlRejected(k, c, s)>>, s, p, s, p)
<1> DEFINE m == <<ControlRejected(k, c, s)>>
           ws == <<View(s, p), View(s, p)>>
<1>1. m \in Seq(Message) /\ Len(m) = 1
  BY RejectionShape DEF ReplyShape
<1>2. m[1].body = "rejected" /\ m[1].state = s
  BY DEF ControlRejected, Body
<1>3. View(s, p) = Observe(View(s, p), m[1]) /\ Legal(s, m[1])
  BY <1>2 DEF View, Observe, Legal
<1>4. View(s, p).scan = s
  BY DEF View
<1> HIDE DEF m
<1>5. Story(m, ws)
  BY <1>1, <1>3, <1>4 DEF Story
<1>6. QED
  BY <1>1, <1>5, StoryNarrates DEF m

(* Message m takes a reader from s and p to s2 and p2, legally. *)
Step(s, p, m, s2, p2) == Observe(View(s, p), m) = View(s2, p2) /\ Legal(s, m)

(* Two such messages in a row. *)
LEMMA TwoSteps ==
  ASSUME NEW a \in Message, NEW b \in Message,
         NEW s0, NEW p0, NEW s1, NEW p1, NEW s2, NEW p2,
         Step(s0, p0, a, s1, p1),
         Step(s1, p1, b, s2, p2)
  PROVE  Narrates(<<a, b>>, s0, p0, s2, p2)
<1> DEFINE m == <<a, b>>
           ws == <<View(s0, p0), View(s1, p1), View(s2, p2)>>
<1>1. m \in Seq(Message) /\ Len(m) = 2 /\ Len(ws) = 3
  OBVIOUS
<1>2. /\ ws[1] = View(s0, p0)
      /\ ws[2] = View(s1, p1)
      /\ ws[3] = View(s2, p2)
  OBVIOUS
<1>3. m[1] = a /\ m[2] = b
  OBVIOUS
<1>4. \A s, p : View(s, p).scan = s
  BY DEF View
<1> HIDE DEF m, ws
<1>5. ws[2] = Observe(ws[1], m[1]) /\ Legal(ws[1].scan, m[1])
  BY <1>2, <1>3, <1>4 DEF Step
<1>6. ws[3] = Observe(ws[2], m[2]) /\ Legal(ws[2].scan, m[2])
  BY <1>2, <1>3, <1>4 DEF Step
<1>7. Story(m, ws)
  <2>1. ASSUME NEW i \in 1..2
        PROVE  ws[i + 1] = Observe(ws[i], m[i]) /\ Legal(ws[i].scan, m[i])
    <3>1. i = 1 \/ i = 2
      OBVIOUS
    <3>2. QED
      BY <3>1, <1>5, <1>6
  <2>2. QED
    BY <1>1, <2>1 DEF Story
<1>8. ws[Len(m) + 1] = View(s2, p2)
  BY <1>1, <1>2
<1>9. Narrates(m, s0, p0, s2, p2)
  BY <1>1, <1>2, <1>7, <1>8, StoryNarrates
<1>10. QED
  BY <1>9 DEF m

(* Three such messages in a row. *)
LEMMA ThreeSteps ==
  ASSUME NEW a \in Message, NEW b \in Message, NEW c \in Message,
         NEW s0, NEW p0, NEW s1, NEW p1, NEW s2, NEW p2, NEW s3, NEW p3,
         Step(s0, p0, a, s1, p1),
         Step(s1, p1, b, s2, p2),
         Step(s2, p2, c, s3, p3)
  PROVE  Narrates(<<a, b, c>>, s0, p0, s3, p3)
<1> DEFINE m == <<a, b, c>>
           ws == <<View(s0, p0), View(s1, p1), View(s2, p2), View(s3, p3)>>
<1>1. m \in Seq(Message) /\ Len(m) = 3 /\ Len(ws) = 4
  OBVIOUS
<1>2. /\ ws[1] = View(s0, p0)
      /\ ws[2] = View(s1, p1)
      /\ ws[3] = View(s2, p2)
      /\ ws[4] = View(s3, p3)
  OBVIOUS
<1>3. m[1] = a /\ m[2] = b /\ m[3] = c
  OBVIOUS
<1>4. \A s, p : View(s, p).scan = s
  BY DEF View
<1> HIDE DEF m, ws
<1>5. ws[2] = Observe(ws[1], m[1]) /\ Legal(ws[1].scan, m[1])
  BY <1>2, <1>3, <1>4 DEF Step
<1>6. ws[3] = Observe(ws[2], m[2]) /\ Legal(ws[2].scan, m[2])
  BY <1>2, <1>3, <1>4 DEF Step
<1>7. ws[4] = Observe(ws[3], m[3]) /\ Legal(ws[3].scan, m[3])
  BY <1>2, <1>3, <1>4 DEF Step
<1>8. Story(m, ws)
  <2>1. ASSUME NEW i \in 1..3
        PROVE  ws[i + 1] = Observe(ws[i], m[i]) /\ Legal(ws[i].scan, m[i])
    <3>1. i = 1 \/ i = 2 \/ i = 3
      OBVIOUS
    <3>2. QED
      BY <3>1, <1>5, <1>6, <1>7
  <2>2. QED
    BY <1>1, <2>1 DEF Story
<1>9. ws[Len(m) + 1] = View(s3, p3)
  BY <1>1, <1>2
<1>10. Narrates(m, s0, p0, s3, p3)
  BY <1>1, <1>2, <1>8, <1>9, StoryNarrates
<1>11. QED
  BY <1>10 DEF m

(* Four such messages in a row. *)
LEMMA FourSteps ==
  ASSUME NEW a \in Message, NEW b \in Message, NEW c \in Message, NEW d \in Message,
         NEW s0, NEW p0, NEW s1, NEW p1, NEW s2, NEW p2, NEW s3, NEW p3, NEW s4, NEW p4,
         Step(s0, p0, a, s1, p1),
         Step(s1, p1, b, s2, p2),
         Step(s2, p2, c, s3, p3),
         Step(s3, p3, d, s4, p4)
  PROVE  Narrates(<<a, b, c, d>>, s0, p0, s4, p4)
<1> DEFINE m == <<a, b, c, d>>
           ws == <<View(s0, p0), View(s1, p1), View(s2, p2), View(s3, p3), View(s4, p4)>>
<1>1. m \in Seq(Message) /\ Len(m) = 4 /\ Len(ws) = 5
  OBVIOUS
<1>2. /\ ws[1] = View(s0, p0)
      /\ ws[2] = View(s1, p1)
      /\ ws[3] = View(s2, p2)
      /\ ws[4] = View(s3, p3)
      /\ ws[5] = View(s4, p4)
  OBVIOUS
<1>3. m[1] = a /\ m[2] = b /\ m[3] = c /\ m[4] = d
  OBVIOUS
<1>4. \A s, p : View(s, p).scan = s
  BY DEF View
<1> HIDE DEF m, ws
<1>5. ws[2] = Observe(ws[1], m[1]) /\ Legal(ws[1].scan, m[1])
  BY <1>2, <1>3, <1>4 DEF Step
<1>6. ws[3] = Observe(ws[2], m[2]) /\ Legal(ws[2].scan, m[2])
  BY <1>2, <1>3, <1>4 DEF Step
<1>7. ws[4] = Observe(ws[3], m[3]) /\ Legal(ws[3].scan, m[3])
  BY <1>2, <1>3, <1>4 DEF Step
<1>8. ws[5] = Observe(ws[4], m[4]) /\ Legal(ws[4].scan, m[4])
  BY <1>2, <1>3, <1>4 DEF Step
<1>9. Story(m, ws)
  <2>1. ASSUME NEW i \in 1..4
        PROVE  ws[i + 1] = Observe(ws[i], m[i]) /\ Legal(ws[i].scan, m[i])
    <3>1. i = 1 \/ i = 2 \/ i = 3 \/ i = 4
      OBVIOUS
    <3>2. QED
      BY <3>1, <1>5, <1>6, <1>7, <1>8
  <2>2. QED
    BY <1>1, <2>1 DEF Story
<1>10. ws[Len(m) + 1] = View(s4, p4)
  BY <1>1, <1>2
<1>11. Narrates(m, s0, p0, s4, p4)
  BY <1>1, <1>2, <1>9, <1>10, StoryNarrates
<1>12. QED
  BY <1>11 DEF m

(* What each message tells. *)
LEMMA ObserveEach ==
  ASSUME NEW s, NEW p
  PROVE  /\ View(s, p).scan = s
         /\ \A k, x : Observe(View(s, p), ControlAccepted(k, x)) = View(x, p)
         /\ \A x : Observe(View(s, p), ScanStateChanged(x)) = View(x, p)
         /\ \A q : Observe(View(s, p), PlanReady(q)) = View(s, q)
         /\ \A q : Observe(View(s, p), PlanInvalidated(q)) = View(s, NoPlan)
         /\ Observe(View(s, p), ScanProgress) = View(s, p)
         /\ Observe(View(s, p), ScanCancelled) = View(s, p)
  BY DEF View, Observe, ControlAccepted, ScanStateChanged, PlanReady, PlanInvalidated,
         ScanProgress, ScanCancelled, Body

(* When each may come. *)
LEMMA LegalEach ==
  ASSUME NEW s
  PROVE  /\ \A k, x : <<s, x>> \in Advances => Legal(s, ControlAccepted(k, x))
         /\ \A x : s = x \/ <<s, x>> \in Advances => Legal(s, ScanStateChanged(x))
         /\ \A q : Legal(s, PlanReady(q)) /\ Legal(s, PlanInvalidated(q))
         /\ Legal(s, ScanProgress) /\ Legal(s, ScanCancelled)
  BY DEF Legal, StateBearing, Acknowledgement, ControlAccepted, ScanStateChanged, PlanReady,
         PlanInvalidated, ScanProgress, ScanCancelled, Body

(* So each is a step. *)
LEMMA StepEach ==
  ASSUME NEW s, NEW p
  PROVE  /\ \A k, x : <<s, x>> \in Advances => Step(s, p, ControlAccepted(k, x), x, p)
         /\ \A x : s = x \/ <<s, x>> \in Advances => Step(s, p, ScanStateChanged(x), x, p)
         /\ \A q : Step(s, p, PlanReady(q), s, q) /\ Step(s, p, PlanInvalidated(q), s, NoPlan)
         /\ Step(s, p, ScanProgress, s, p) /\ Step(s, p, ScanCancelled, s, p)
  BY ObserveEach, LegalEach DEF Step

(* The reply to start leads from idle to running. *)
LEMMA BeginScanNarrates ==
  ASSUME NEW p
  PROVE  Narrates(<<ControlAccepted("start", "running"), ScanStateChanged("running"),
                    ScanProgress>>, "idle", p, "running", p)
<1>1. /\ ControlAccepted("start", "running") \in Message
      /\ ScanStateChanged("running") \in Message
      /\ ScanProgress \in Message
  BY DEF Message, WireKind, ControlKind, WireState, ScanState
<1>2. <<"idle", "running">> \in Advances
  BY DEF Advances
<1>3. /\ Step("idle", p, ControlAccepted("start", "running"), "running", p)
      /\ Step("running", p, ScanStateChanged("running"), "running", p)
      /\ Step("running", p, ScanProgress, "running", p)
  BY <1>2, StepEach
<1>4. QED
  BY <1>1, <1>3, ThreeSteps

(* The reply to pause leads from running to paused. *)
LEMMA PauseNarrates ==
  ASSUME NEW p
  PROVE  Narrates(<<ControlAccepted("pause", "paused"), ScanStateChanged("paused")>>,
                  "running", p, "paused", p)
<1>1. ControlAccepted("pause", "paused") \in Message /\ ScanStateChanged("paused") \in Message
  BY DEF Message, WireKind, ControlKind, WireState, ScanState
<1>2. <<"running", "paused">> \in Advances
  BY DEF Advances
<1>3. /\ Step("running", p, ControlAccepted("pause", "paused"), "paused", p)
      /\ Step("paused", p, ScanStateChanged("paused"), "paused", p)
  BY <1>2, StepEach
<1>4. QED
  BY <1>1, <1>3, TwoSteps

(* The reply to resume leads to running, without a plan. *)
LEMMA ResumeNarrates ==
  ASSUME provisionalPlanID \in PlanId \cup {NoPlan}, NEW s \in Resumable
  PROVE  Narrates(ResumeMessages, s, provisionalPlanID, "running", NoPlan)
<1> DEFINE p == provisionalPlanID
<1>1. /\ ControlAccepted("resume", "running") \in Message
      /\ ScanStateChanged("running") \in Message
      /\ ScanProgress \in Message
  BY DEF Message, WireKind, ControlKind, WireState, ScanState
<1>2. <<s, "running">> \in Advances
  BY DEF Advances, Resumable
<1>3. Step(s, p, ControlAccepted("resume", "running"), "running", p)
  BY <1>2, StepEach
<1>4. /\ Step("running", NoPlan, ScanStateChanged("running"), "running", NoPlan)
      /\ Step("running", NoPlan, ScanProgress, "running", NoPlan)
  BY StepEach
<1>5. CASE p = NoPlan
  <2>1. ResumeMessages = <<ControlAccepted("resume", "running"), ScanStateChanged("running"),
                           ScanProgress>>
    BY <1>5 DEF ResumeMessages
  <2>2. QED
    BY <1>1, <1>3, <1>4, <1>5, <2>1, ThreeSteps
<1>6. CASE p # NoPlan
  <2>1. ResumeMessages = <<ControlAccepted("resume", "running"), PlanInvalidated(p),
                           ScanStateChanged("running"), ScanProgress>>
    BY <1>6 DEF ResumeMessages
  <2>2. PlanInvalidated(p) \in Message
    BY <1>6 DEF Message, WirePlanId
  <2>3. Step("running", p, PlanInvalidated(p), "running", NoPlan)
    BY StepEach
  <2>4. QED
    BY <1>1, <1>3, <1>4, <2>1, <2>2, <2>3, FourSteps
<1>7. QED
  BY <1>5, <1>6

(* The reply to build leads by building to planReady, and to the plan. *)
LEMMA BuildPlanNarrates ==
  ASSUME NEW s \in Buildable, NEW p
  PROVE  Narrates(<<ControlAccepted("build", "building"), ScanStateChanged("building"),
                    ScanStateChanged("planReady"), PlanReady(FixturePlan)>>,
                  s, p, "planReady", FixturePlan)
<1>1. /\ ControlAccepted("build", "building") \in Message
      /\ ScanStateChanged("building") \in Message
      /\ ScanStateChanged("planReady") \in Message
      /\ PlanReady(FixturePlan) \in Message
  BY FixturePlanAssumption
  DEF Message, WireKind, ControlKind, WireState, ScanState, WirePlanId
<1>2. <<s, "building">> \in Advances /\ <<"building", "planReady">> \in Advances
  BY DEF Advances, Buildable
<1>3. /\ Step(s, p, ControlAccepted("build", "building"), "building", p)
      /\ Step("building", p, ScanStateChanged("building"), "building", p)
      /\ Step("building", p, ScanStateChanged("planReady"), "planReady", p)
      /\ Step("planReady", p, PlanReady(FixturePlan), "planReady", FixturePlan)
  BY <1>2, StepEach
<1>4. QED
  BY <1>1, <1>3, FourSteps

(* The reply to cancel leads by cancelling to cancelled and keeps the plan. *)
LEMMA CancelNarrates ==
  ASSUME NEW s \in Cancellable, NEW p
  PROVE  Narrates(<<ControlAccepted("cancel", "cancelling"), ScanStateChanged("cancelling"),
                    ScanStateChanged("cancelled"), ScanCancelled>>, s, p, "cancelled", p)
<1>1. /\ ControlAccepted("cancel", "cancelling") \in Message
      /\ ScanStateChanged("cancelling") \in Message
      /\ ScanStateChanged("cancelled") \in Message
      /\ ScanCancelled \in Message
  BY DEF Message, WireKind, ControlKind, WireState, ScanState
<1>2. <<s, "cancelling">> \in Advances /\ <<"cancelling", "cancelled">> \in Advances
  BY DEF Advances, Cancellable
<1>3. /\ Step(s, p, ControlAccepted("cancel", "cancelling"), "cancelling", p)
      /\ Step("cancelling", p, ScanStateChanged("cancelling"), "cancelling", p)
      /\ Step("cancelling", p, ScanStateChanged("cancelled"), "cancelled", p)
      /\ Step("cancelled", p, ScanCancelled, "cancelled", p)
  BY <1>2, StepEach
<1>4. QED
  BY <1>1, <1>3, FourSteps

-----------------------------------------------------------------------------
(* Whatever is asked, the session answers in that shape, with the state it *)
(* is in afterwards, tells every state on the way there, and keeps plan    *)
(* and state together.                                                     *)
LEMMA EveryCallReplies ==
  ASSUME TypeOK, PlanMatchesState, Next
  PROVE  /\ \E r \in 0..MaxU64, msgs \in Seq(Message) :
              /\ Return(r, msgs)
              /\ ReplyShape(msgs, state')
              /\ Narrates(msgs, state, provisionalPlanID, state', provisionalPlanID')
              /\ msgs[1].body = "rejected" \/ r > requestIDHighWaterMark
              /\ r <= requestIDHighWaterMark'
         /\ state' \in ScanState
         /\ requestIDHighWaterMark' \in 0..MaxU64
         /\ requestIDHighWaterMark <= requestIDHighWaterMark'
         /\ provisionalPlanID' \in PlanId \cup {NoPlan}
         /\ PlanMatchesState'
<1> DEFINE Goal ==
      /\ \E r \in 0..MaxU64, msgs \in Seq(Message) :
           /\ Return(r, msgs)
           /\ ReplyShape(msgs, state')
           /\ Narrates(msgs, state, provisionalPlanID, state', provisionalPlanID')
           /\ msgs[1].body = "rejected" \/ r > requestIDHighWaterMark
           /\ r <= requestIDHighWaterMark'
      /\ state' \in ScanState
      /\ requestIDHighWaterMark' \in 0..MaxU64
      /\ requestIDHighWaterMark <= requestIDHighWaterMark'
      /\ provisionalPlanID' \in PlanId \cup {NoPlan}
      /\ PlanMatchesState'
<1>1. PICK r \in 0..MaxU64 : Start(r) \/ \E k \in WireKind : Control(r, k) \/ RejectMalformed(r, k)
  BY DEF Next
<1>2. ASSUME NEW k \in WireKind, NEW c \in RejectCode, Reject(r, k, c),
             requestIDHighWaterMark' \in 0..MaxU64,
             r <= requestIDHighWaterMark',
             requestIDHighWaterMark <= requestIDHighWaterMark'
      PROVE  Goal
  <2>1. ReplyShape(<<ControlRejected(k, c, state)>>, state)
    BY RejectionShape DEF TypeOK
  <2>2. state' = state /\ provisionalPlanID' = provisionalPlanID
    BY <1>2 DEF Reject
  <2>3. Return(r, <<ControlRejected(k, c, state)>>)
    BY <1>2 DEF Reject
  <2>4. <<ControlRejected(k, c, state)>>[1].body = "rejected"
    BY DEF ControlRejected, Body
  <2>5. Narrates(<<ControlRejected(k, c, state)>>, state, provisionalPlanID,
                 state', provisionalPlanID')
    BY <2>2, RejectionNarrates DEF TypeOK
  <2>6. QED
    BY <1>2, <2>1, <2>2, <2>3, <2>4, <2>5 DEF ReplyShape, TypeOK, PlanMatchesState
<1>3. ASSUME NEW k \in WireKind, RejectUnusableId(r, k)
      PROVE  Goal
  <2>1. IdFailure(r) \in RejectCode
    BY <1>3 DEF RejectUnusableId, IdFailure, RejectCode
  <2>2. /\ requestIDHighWaterMark' \in 0..MaxU64
        /\ r <= requestIDHighWaterMark'
        /\ requestIDHighWaterMark <= requestIDHighWaterMark'
    BY <1>3, MaxU64Assumption DEF RejectUnusableId, IdFailure, Absent, TypeOK
  <2>3. QED
    BY <1>2, <1>3, <2>1, <2>2 DEF RejectUnusableId
<1>4. ASSUME NEW k \in WireKind, NEW c \in RejectCode, Consume(r), Reject(r, k, c)
      PROVE  Goal
  BY <1>2, <1>4, MaxU64Assumption DEF Consume, IdFailure, Absent, TypeOK
<1>5. /\ Consume(r) => /\ r > requestIDHighWaterMark
                        /\ requestIDHighWaterMark' \in 0..MaxU64
                        /\ r <= requestIDHighWaterMark'
                        /\ requestIDHighWaterMark <= requestIDHighWaterMark'
      /\ "start" \in WireKind
      /\ RejectCode = {"invalidState", "duplicateRequestID", "malformedRequest"}
  BY MaxU64Assumption DEF Consume, IdFailure, Absent, TypeOK, WireKind, ControlKind, RejectCode
<1>6. CASE Start(r)
  <2>1. CASE RejectUnusableId(r, "start")
    BY <1>3, <1>5, <2>1
  <2>2. CASE BeginScan(r)
    BY <1>5, <2>2, BeginScanShape, BeginScanNarrates
    DEF BeginScan, Consume, ReplyShape, TypeOK, ScanState, PlanMatchesState
  <2>3. CASE RejectSecondStart(r)
    BY <1>4, <1>5, <2>3 DEF RejectSecondStart
  <2>4. QED
    BY <1>6, <2>1, <2>2, <2>3 DEF Start
<1>7. ASSUME NEW k \in WireKind, Control(r, k)
      PROVE  Goal
  <2>1. CASE RejectUnusableId(r, k)
    BY <1>3, <2>1
  <2>2. CASE Pause(r)
    BY <1>5, <2>2, PauseShape, PauseNarrates
    DEF Pause, Consume, ReplyShape, TypeOK, ScanState, PlanMatchesState, Pausable
  <2>3. CASE Resume(r)
    <3>1. ReplyShape(ResumeMessages, "running")
      BY ResumeShape DEF TypeOK
    <3>2. Narrates(ResumeMessages, state, provisionalPlanID, "running", NoPlan)
      BY <2>3, ResumeNarrates DEF Resume, TypeOK
    <3>3. QED
      BY <1>5, <2>3, <3>1, <3>2 DEF Resume, Consume, ReplyShape, TypeOK, ScanState, PlanMatchesState
  <2>4. CASE BuildPlan(r)
    BY <1>5, <2>4, BuildPlanShape, BuildPlanNarrates, FixturePlanAssumption, PlanIdAssumption
    DEF BuildPlan, Consume, ReplyShape, ScanState, PlanMatchesState
  <2>5. CASE Cancel(r)
    BY <1>5, <2>5, CancelShape, CancelNarrates
    DEF Cancel, Consume, ReplyShape, TypeOK, ScanState, PlanMatchesState
  <2>6. CASE RejectMisplacedKind(r, k)
    BY <1>4, <1>5, <2>6 DEF RejectMisplacedKind
  <2>7. CASE RejectWrongState(r, k)
    BY <1>4, <1>5, <2>7 DEF RejectWrongState
  <2>8. QED
    BY <1>7, <2>1, <2>2, <2>3, <2>4, <2>5, <2>6, <2>7 DEF Control
<1>8. ASSUME NEW k \in WireKind, RejectMalformed(r, k)
      PROVE  Goal
  BY <1>3, <1>4, <1>5, <1>8 DEF RejectMalformed
<1>9. QED
  BY <1>1, <1>6, <1>7, <1>8

(* Numbering a reply of that shape, or trapping, keeps the stream whole. *)
LEMMA ReturnKeepsShape ==
  ASSUME TypeOK, OneVerdictPerRequest, ~trapped,
         NEW r \in 0..MaxU64, NEW msgs \in Seq(Message),
         Return(r, msgs), ReplyShape(msgs, state')
  PROVE  /\ eventSequence' \in 0..MaxU64
         /\ returned' \in Seq([seq : 0..MaxU64, req : 0..MaxU64, msg : Message])
         /\ trapped' \in BOOLEAN
         /\ OneVerdictPerRequest'
         /\ StreamIsComplete'
<1>1. CASE eventSequence + Len(msgs) > MaxU64
  <2>1. trapped' = TRUE /\ UNCHANGED <<eventSequence, returned>>
    BY <1>1, MaxU64Assumption DEF Return, TypeOK
  <2>2. QED
    BY <2>1 DEF TypeOK, OneVerdictPerRequest, StreamIsComplete
<1>2. CASE eventSequence + Len(msgs) <= MaxU64
  <2>1. /\ eventSequence' = eventSequence + Len(msgs)
        /\ returned' = Numbered(r, msgs)
        /\ trapped' = trapped
    BY <1>2, MaxU64Assumption DEF Return, TypeOK
  <2>2. /\ returned' \in Seq([seq : 0..MaxU64, req : 0..MaxU64, msg : Message])
        /\ Len(returned') = Len(msgs)
        /\ \A i \in 1..Len(msgs) : /\ returned'[i].seq = eventSequence + i
                                   /\ returned'[i].req = r
                                   /\ returned'[i].msg = msgs[i]
    BY <1>2, <2>1, MaxU64Assumption DEF Numbered, Event, TypeOK
  <2>3. eventSequence' \in 0..MaxU64 /\ trapped' \in BOOLEAN
    BY <1>2, <2>1, MaxU64Assumption DEF TypeOK
  <2>4. Len(msgs) \in Nat \ {0}
    BY DEF ReplyShape
  <2>5. OneVerdictPerRequest'
    BY <2>2, <2>4 DEF ReplyShape, OneVerdictPerRequest
  <2>6. \A i \in 1..Len(returned') : /\ returned'[i].seq = eventSequence' - Len(returned') + i
                                     /\ returned'[i].req = returned'[1].req
    <3>1. eventSequence' - Len(returned') = eventSequence
      BY <2>1, <2>2, <2>4 DEF TypeOK
    <3>2. 1 \in 1..Len(msgs) /\ Len(returned') = Len(msgs)
      BY <2>2, <2>4
    <3>3. QED
      BY <2>2, <3>1, <3>2
  <2>7. PICK i \in 1..Len(msgs) :
          /\ msgs[i].body \in StateBearing
          /\ msgs[i].state = state'
          /\ \A j \in (i + 1)..Len(msgs) : msgs[j].body \notin StateBearing
    BY DEF ReplyShape
  <2>8. \A j \in (i + 1)..Len(returned') : returned'[j].msg.body \notin StateBearing
    BY <2>2, <2>4, <2>7
  <2>9. StreamIsComplete'
    BY <2>2, <2>6, <2>7, <2>8 DEF StreamIsComplete
  <2>10. QED
    BY <2>2, <2>3, <2>5, <2>9
<1>3. QED
  BY <1>1, <1>2, MaxU64Assumption DEF TypeOK

-----------------------------------------------------------------------------
(* A new session has served nothing. *)
LEMMA SessionInvInit == Init => SessionInv
<1> SUFFICES ASSUME Init PROVE SessionInv
  OBVIOUS
<1>1. 0 \in 0..MaxU64
  BY MaxU64Assumption
<1>2. \A S : <<>> \in Seq(S)
  OBVIOUS
<1>3. TypeOK
  BY <1>1, <1>2 DEF Init, TypeOK, ScanState
<1>4. QED
  BY <1>3 DEF Init, SessionInv, PlanMatchesState, OneVerdictPerRequest, StreamIsComplete

(* Each call of the session keeps the invariant, and so does a trap. *)
LEMMA SessionInvStep == SessionInv /\ [Next]_sessionVars => SessionInv'
<1> SUFFICES ASSUME SessionInv, [Next]_sessionVars PROVE SessionInv'
  OBVIOUS
<1>1. CASE Next
  <2>1. PICK r \in 0..MaxU64, msgs \in Seq(Message) :
          Return(r, msgs) /\ ReplyShape(msgs, state')
    BY <1>1, EveryCallReplies DEF SessionInv
  <2>2. /\ state' \in ScanState
        /\ requestIDHighWaterMark' \in 0..MaxU64
        /\ provisionalPlanID' \in PlanId \cup {NoPlan}
        /\ PlanMatchesState'
    BY <1>1, EveryCallReplies DEF SessionInv
  <2>3. ~trapped
    BY <1>1 DEF Next
  <2>4. /\ eventSequence' \in 0..MaxU64
        /\ returned' \in Seq([seq : 0..MaxU64, req : 0..MaxU64, msg : Message])
        /\ trapped' \in BOOLEAN
        /\ OneVerdictPerRequest'
        /\ StreamIsComplete'
    BY <2>1, <2>3, ReturnKeepsShape DEF SessionInv
  <2>5. QED
    BY <2>2, <2>4 DEF SessionInv, TypeOK
<1>2. CASE UNCHANGED sessionVars
  BY <1>2 DEF sessionVars, SessionInv, TypeOK, PlanMatchesState, OneVerdictPerRequest,
              StreamIsComplete
<1>3. QED
  BY <1>1, <1>2

(* It holds in every execution. *)
LEMMA SessionInvariant == Spec => []SessionInv
  BY SessionInvInit, SessionInvStep, PTL DEF Spec

(* The session's variables keep their types, and its counter its width.    *)
THEOREM SessionTypeCorrect == Spec => []TypeOK
<1>1. SessionInv => TypeOK
  BY DEF SessionInv
<1>2. QED
  BY <1>1, SessionInvariant, PTL

(* A plan is in hand in the state that says so, and otherwise only after a *)
(* cancellation; no transient state outlives a call.                       *)
THEOREM PlanFollowsState == Spec => []PlanMatchesState
<1>1. SessionInv => PlanMatchesState
  BY DEF SessionInv
<1>2. QED
  BY <1>1, SessionInvariant, PTL

(* Every reply is one verdict on its request, alone if it is a rejection.  *)
THEOREM OneVerdict == Spec => []OneVerdictPerRequest
<1>1. SessionInv => OneVerdictPerRequest
  BY DEF SessionInv
<1>2. QED
  BY <1>1, SessionInvariant, PTL

(* Whatever the requests, a client that reads every event knows the state  *)
(* of the engine: numbers have no gap and the last state mentioned is it.  *)
THEOREM StreamCompleteness == Spec => []StreamIsComplete
<1>1. SessionInv => StreamIsComplete
  BY DEF SessionInv
<1>2. QED
  BY <1>1, SessionInvariant, PTL

(* No request id is served twice, and no request gets a second verdict:    *)
(* each reply is one verdict, the mark only rises and an answered id never *)
(* lies beyond it, so nothing accepted later was answered before.          *)
THEOREM FreshIdsOnly == Spec => RequestsAreServedOnce
<1> DEFINE ServedOnce ==
      returned' # returned =>
        /\ OneVerdictPerRequest'
        /\ \A i \in DOMAIN returned' : /\ returned'[i].seq = eventSequence + i
                                       /\ returned'[i].req = returned'[1].req
        /\ returned'[1].req <= requestIDHighWaterMark'
        /\ requestIDHighWaterMark <= requestIDHighWaterMark'
        /\ \/ returned'[1].msg.body = "rejected"
           \/ returned'[1].req > requestIDHighWaterMark
<1>1. SessionInv /\ [Next]_sessionVars => [ServedOnce]_sessionVars
  <2> SUFFICES ASSUME SessionInv, Next, returned' # returned PROVE ServedOnce
    OBVIOUS
  <2>1. PICK r \in 0..MaxU64, msgs \in Seq(Message) :
          /\ Return(r, msgs)
          /\ ReplyShape(msgs, state')
          /\ msgs[1].body = "rejected" \/ r > requestIDHighWaterMark
          /\ r <= requestIDHighWaterMark'
    BY EveryCallReplies DEF SessionInv
  <2>2. returned' = Numbered(r, msgs)
    BY <2>1 DEF Return
  <2>3. Len(msgs) \in Nat \ {0}
    BY <2>1 DEF ReplyShape
  <2>4. returned'[1].msg = msgs[1] /\ returned'[1].req = r
    BY <2>2, <2>3 DEF Numbered, Event
  <2>5. requestIDHighWaterMark <= requestIDHighWaterMark'
    BY EveryCallReplies DEF SessionInv
  <2>6. OneVerdictPerRequest'
    BY SessionInvStep DEF SessionInv
  <2>7. \A i \in DOMAIN returned' : /\ returned'[i].seq = eventSequence + i
                                    /\ returned'[i].req = r
    BY <2>2, <2>3 DEF Numbered, Event
  <2>8. QED
    BY <2>1, <2>4, <2>5, <2>6, <2>7
<1>2. QED
  BY <1>1, SessionInvariant, PTL DEF Spec, RequestsAreServedOnce

(* A reply is the numbered messages of one, and tells what the call did.   *)
LEMMA ReplyTellsCall ==
  ASSUME SessionInv, Next, returned' # returned
  PROVE  /\ Replay(View(state, provisionalPlanID), returned') = View(state', provisionalPlanID')
         /\ WalksFrom(state, returned')
<1>1. PICK r \in 0..MaxU64, msgs \in Seq(Message) :
        /\ Return(r, msgs)
        /\ ReplyShape(msgs, state')
        /\ Narrates(msgs, state, provisionalPlanID, state', provisionalPlanID')
  BY EveryCallReplies DEF SessionInv
<1>2. returned' = Numbered(r, msgs)
  BY <1>1 DEF Return
<1>3. returned' \in Seq(SessionEvents)
  BY <1>1, ReturnKeepsShape DEF SessionInv, Next, SessionEvents
<1>4. Len(returned') = Len(msgs) /\ \A i \in 1..Len(msgs) : returned'[i].msg = msgs[i]
  BY <1>2 DEF Numbered, Event
<1>5. QED
  BY <1>1, <1>3, <1>4 DEF Narrates

(* Whoever knew the session's state and plan before a call knows them      *)
(* after it from the events of the reply alone: no plan is lost, replaced  *)
(* or kept silently.                                                       *)
THEOREM RepliesAreEnough == Spec => ReplayReachesSession
<1> DEFINE Reached == returned' # returned =>
             Replay(View(state, provisionalPlanID), returned') = View(state', provisionalPlanID')
<1>1. SessionInv /\ [Next]_sessionVars => [Reached]_sessionVars
  BY ReplyTellsCall
<1>2. QED
  BY <1>1, SessionInvariant, PTL DEF Spec, ReplayReachesSession

(* And the states a reply mentions are a legal walk from where the session *)
(* was, by a state at a time.                                              *)
THEOREM RepliesWalk == Spec => RepliesFollowLifecycle
<1> DEFINE Walks == returned' # returned => WalksFrom(state, returned')
<1>1. SessionInv /\ [Next]_sessionVars => [Walks]_sessionVars
  BY ReplyTellsCall
<1>2. QED
  BY <1>1, SessionInvariant, PTL DEF Spec, RepliesFollowLifecycle
=============================================================================
