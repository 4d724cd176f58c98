-------------------------- MODULE EventQueueProofs --------------------------
(***************************************************************************)
(* A queue of any capacity, any number of events and of keys: it is        *)
(* bounded, it loses nothing, and neither thread sleeps on something that  *)
(* has already happened.                                                   *)
(***************************************************************************)
EXTENDS EventQueue, SequenceTheorems, FiniteSetTheorems, TLAPS


-----------------------------------------------------------------------------
(* A set of numbers that is not empty has a least one: what every          *)
(* induction below rests on.                                               *)
LEMMA LeastNumber ==
  ASSUME NEW T \in SUBSET Nat, T # {}
  PROVE  \E x \in T : \A y \in T : x <= y
<1> DEFINE R == OpToRel(<, Nat)
<1>1. IsWellFoundedOn(R, Nat)
  BY NatLessThanWellFounded
<1> HIDE DEF R
<1>2. \E x \in T : \A y \in T : ~(<<y, x>> \in R)
  BY <1>1, WFMin
<1>3. \A x, y \in Nat : y < x => <<y, x>> \in R
  BY DEF R, OpToRel
<1>4. PICK x \in T : \A y \in T : ~(<<y, x>> \in R)
  BY <1>2
<1>5. ASSUME NEW y \in T PROVE x <= y
  <2>1. x \in Nat /\ y \in Nat /\ ~(y < x)
    BY <1>3, <1>4
  <2>2. QED
    BY <2>1
<1>6. QED
  BY <1>5

-----------------------------------------------------------------------------
(* The recursive function inside Semantic.                                 *)

(* One step of it. *)
Kept(f, q, n) ==
  IF n = 0 THEN <<>>
  ELSE IF IsProgress(q[n]) THEN f[n - 1] ELSE Append(f[n - 1], q[n])

(* f is that function, as far as the first k items. *)
IsSelection(f, q, k) ==
  /\ f = [n \in 0..k |-> f[n]]
  /\ \A n \in 0..k : f[n] = Kept(f, q, n)

(* The recursion is well founded: there is such a function.                *)
LEMMA SelectionExists ==
  ASSUME NEW q, NEW m \in Nat
  PROVE  \E f : IsSelection(f, q, m)
<1> DEFINE Missing == { k \in Nat : ~ \E f : IsSelection(f, q, k) }
<1> SUFFICES ASSUME Missing # {} PROVE FALSE
  OBVIOUS
<1>1. PICK k \in Missing : \A y \in Missing : k <= y
  BY LeastNumber
<1>2. CASE k = 0
  <2> DEFINE f == [n \in 0..0 |-> <<>>]
  <2>1. IsSelection(f, q, 0)
    BY DEF IsSelection, Kept
  <2>2. QED
    BY <1>1, <1>2, <2>1
<1>3. CASE k # 0
  <2>1. k \in Nat /\ k - 1 \in Nat /\ k - 1 \notin Missing
    BY <1>1, <1>3
  <2>2. PICK g : IsSelection(g, q, k - 1)
    BY <2>1
  <2> DEFINE f == [n \in 0..k |-> IF n = k THEN Kept(g, q, k) ELSE g[n]]
  <2>3. ASSUME NEW n \in 0..k PROVE f[n] = Kept(f, q, n)
    <3>1. f[n] = Kept(g, q, n)
      BY <2>1, <2>2 DEF IsSelection
    <3>2. n # 0 => n - 1 \in 0..k /\ n - 1 # k
      BY <2>1
    <3>3. n # 0 => f[n - 1] = g[n - 1]
      BY <3>2
    <3>4. QED
      BY <3>1, <3>3 DEF Kept
  <2>4. f = [n \in 0..k |-> f[n]]
    OBVIOUS
  <2>5. QED
    BY <2>3, <2>4, <1>1 DEF IsSelection
<1>4. QED
  BY <1>2, <1>3

(* It depends on nothing but the items it has seen.                        *)
LEMMA SelectionsAgree ==
  ASSUME NEW q, NEW r, NEW f, NEW g, NEW m \in Nat, NEW p \in Nat,
         IsSelection(f, q, m), IsSelection(g, r, p), m <= p,
         \A n \in 1..m : q[n] = r[n]
  PROVE  f[m] = g[m]
<1> DEFINE Differs == { k \in 0..m : f[k] # g[k] }
<1> SUFFICES ASSUME Differs # {} PROVE FALSE
  OBVIOUS
<1>1. PICK k \in Differs : \A y \in Differs : k <= y
  <2>1. Differs \in SUBSET Nat
    OBVIOUS
  <2>2. QED
    BY <2>1, LeastNumber
<1>2. f[k] = Kept(f, q, k) /\ g[k] = Kept(g, r, k)
  <2>1. k \in 0..m /\ k \in 0..p
    BY <1>1
  <2> HIDE DEF Differs
  <2>2. QED
    BY <2>1 DEF IsSelection
<1>4. k # 0
  BY <1>1, <1>2 DEF Kept
<1>5. k \in 1..m /\ k - 1 \in 0..m /\ k - 1 \notin Differs
  BY <1>1, <1>4
<1>6. f[k - 1] = g[k - 1] /\ q[k] = r[k]
  BY <1>5
<1>7. f[k] = g[k]
  BY <1>2, <1>4, <1>6 DEF Kept
<1>8. QED
  BY <1>1, <1>7

(* Semantic is its last value.                                             *)
LEMMA SemanticIsSelection ==
  ASSUME NEW q, NEW k, k = Len(q), k \in Nat
  PROVE  \E f : IsSelection(f, q, k) /\ Semantic(q) = f[k]
<1> DEFINE Rec(f) == f = [n \in 0..k |-> IF n = 0 THEN <<>>
                       ELSE IF IsProgress(q[n]) THEN f[n - 1] ELSE Append(f[n - 1], q[n])]
<1>1. PICK f : IsSelection(f, q, k)
  BY SelectionExists
<1>2. Rec(f)
  BY <1>1 DEF IsSelection, Kept
<1>3. PICK g : g = (CHOOSE h : Rec(h))
  OBVIOUS
<1>4. Rec(g)
  BY <1>2, <1>3
<1>5. IsSelection(g, q, k)
  BY <1>4 DEF IsSelection, Kept
<1>6. Semantic(q) = g[k]
  BY <1>3 DEF Semantic
<1>7. QED
  BY <1>5, <1>6

(* So one more item adds itself or, if it is progress, nothing.            *)
LEMMA SemanticOfAppend ==
  ASSUME NEW S, NEW q \in Seq(S), NEW x \in S
  PROVE  Semantic(Append(q, x)) =
           IF IsProgress(x) THEN Semantic(q) ELSE Append(Semantic(q), x)
<1> DEFINE r == Append(q, x)
           n == Len(q)
<1>1. r \in Seq(S) /\ Len(r) = n + 1 /\ n \in Nat /\ r[n + 1] = x
      /\ \A i \in 1..n : q[i] = r[i]
  BY AppendProperties
<1> HIDE DEF r, n
<1>7. n + 1 \in Nat /\ n + 1 \in 0..(n + 1) /\ n <= n + 1 /\ (n + 1) - 1 = n /\ n = Len(q)
  BY <1>1 DEF n
<1>2. PICK f : IsSelection(f, q, n) /\ Semantic(q) = f[n]
  BY SemanticIsSelection, <1>1, <1>7
<1>3. PICK g : IsSelection(g, r, n + 1) /\ Semantic(r) = g[n + 1]
  BY SemanticIsSelection, <1>1, <1>7
<1>4. f[n] = g[n]
  BY SelectionsAgree, <1>1, <1>2, <1>3, <1>7
<1>5. g[n + 1] = IF IsProgress(x) THEN g[n] ELSE Append(g[n], x)
  <2>1. g[n + 1] = Kept(g, r, n + 1)
    BY <1>3, <1>7 DEF IsSelection
  <2>2. QED
    BY <2>1, <1>1, <1>7 DEF Kept
<1>6. QED
  BY <1>2, <1>3, <1>4, <1>5 DEF r
-----------------------------------------------------------------------------
(* Items.                                                                  *)

(* What the queue holds: an item that stands for no more events than there *)
(* were.                                                                   *)
Genuine == { i \in Item : i.type = "engine" => i.delivery.skipped < i.delivery.event.seq }

(* What the driver offers: one event, or its last word. *)
Fresh == { i \in Genuine : i.type = "engine" => i.delivery.skipped = 0 }

Seqno(i) == i.delivery.event.seq

(* The two kinds of items, and the numbers the first kind carries.         *)
LEMMA ItemKinds ==
  ASSUME NEW i \in Genuine
  PROVE  /\ i.type \in {"engine", "exited"}
         /\ IsProgress(i) \in BOOLEAN
         /\ IsProgress(i) => i.type = "engine"
         /\ i.type = "engine" =>
              /\ Seqno(i) \in 1..MaxEvents
              /\ i.delivery.skipped \in Nat
              /\ i.delivery.skipped < Seqno(i)
              /\ Covers(i) = (Seqno(i) - i.delivery.skipped) .. Seqno(i)
         /\ i.type = "exited" => Covers(i) = {}
<1>1. i \in Item /\ (i.type = "engine" => i.delivery.skipped < i.delivery.event.seq)
  BY DEF Genuine
<1>2. CASE i \in { ExitItem(ok) : ok \in BOOLEAN }
  BY <1>2 DEF ExitItem, IsProgress, Covers
<1>3. CASE i \in { EngineItem(Event(n, 1, m), k) : n \in 1..MaxEvents, k \in 0..MaxEvents,
                     m \in {ScanProgress, ScanStateChanged("running")} }
  <2>1. PICK n \in 1..MaxEvents, k \in 0..MaxEvents,
             m \in {ScanProgress, ScanStateChanged("running")} :
          i = EngineItem(Event(n, 1, m), k)
    BY <1>3
  <2>2. i.type = "engine" /\ i.delivery.event.seq = n /\ i.delivery.skipped = k
    BY <2>1 DEF EngineItem, Delivery, Event
  <2>3. k \in Nat /\ k < n
    BY <1>1, <2>2
  <2>4. QED
    BY <2>1, <2>2, <2>3 DEF IsProgress, Covers, Seqno
<1>4. QED
  BY <1>1, <1>2, <1>3 DEF Item

(* What the driver offers is fresh, and so is what fills `offer` while it  *)
(* is not blocked.                                                         *)
LEMMA OffersAreFresh ==
  /\ \A n \in 1..MaxEvents, m \in {ScanProgress, ScanStateChanged("running")} :
       /\ EngineItem(Event(n, 1, m), 0) \in Fresh
       /\ Seqno(EngineItem(Event(n, 1, m), 0)) = n
  /\ \A ok \in BOOLEAN : ExitItem(ok) \in Fresh /\ ExitItem(ok).type = "exited"
  /\ Nothing \in Fresh /\ Nothing.type = "exited"
<1>1. ASSUME NEW n \in 1..MaxEvents, NEW m \in {ScanProgress, ScanStateChanged("running")}
      PROVE  /\ EngineItem(Event(n, 1, m), 0) \in Fresh
             /\ Seqno(EngineItem(Event(n, 1, m), 0)) = n
  <2> DEFINE i == EngineItem(Event(n, 1, m), 0)
  <2>1. i.delivery.event.seq = n /\ i.delivery.skipped = 0
    BY DEF EngineItem, Delivery, Event
  <2>2. 0 \in 0..MaxEvents /\ 0 < n
    BY EventQueueBounds
  <2>3. i \in Item
    BY <2>2 DEF Item
  <2>4. QED
    BY <2>1, <2>2, <2>3 DEF Fresh, Genuine, Seqno
<1>2. ASSUME NEW ok \in BOOLEAN PROVE ExitItem(ok) \in Fresh /\ ExitItem(ok).type = "exited"
  <2>1. ExitItem(ok).type = "exited"
    BY DEF ExitItem
  <2>2. ExitItem(ok) \in Item
    BY DEF Item
  <2>3. QED
    BY <2>1, <2>2 DEF Fresh, Genuine
<1>3. QED
  BY <1>1, <1>2 DEF Nothing

(* A run that goes on with the next number stands for the events of both.  *)
LEMMA Merging ==
  ASSUME NEW l \in Genuine, NEW i \in Fresh,
         IsProgress(l), IsProgress(i), Seqno(i) = Seqno(l) + 1
  PROVE  LET x == EngineItem(i.delivery.event, l.delivery.skipped + 1) IN
         /\ x \in Genuine
         /\ IsProgress(x)
         /\ x.type = "engine"
         /\ Seqno(x) = Seqno(i)
         /\ Seqno(x) - x.delivery.skipped = Seqno(l) - l.delivery.skipped
         /\ Covers(x) = Covers(l) \cup Covers(i)
<1> DEFINE x == EngineItem(i.delivery.event, l.delivery.skipped + 1)
<1>1. i \in Genuine /\ i \in Item /\ i.type = "engine" /\ l.type = "engine"
  BY ItemKinds DEF Fresh, Genuine, IsProgress
<1>2. i.delivery.skipped = 0
  BY <1>1 DEF Fresh
<1>3. /\ Seqno(l) \in 1..MaxEvents /\ Seqno(i) \in 1..MaxEvents
      /\ l.delivery.skipped \in Nat /\ l.delivery.skipped < Seqno(l)
  BY <1>1, ItemKinds
<1>4. /\ x.type = "engine" /\ x.delivery.event = i.delivery.event
      /\ x.delivery.skipped = l.delivery.skipped + 1
  BY DEF EngineItem, Delivery
<1>5. x \in Item
  <2>1. i \notin { ExitItem(ok) : ok \in BOOLEAN }
    BY <1>1 DEF ExitItem
  <2>2. PICK n \in 1..MaxEvents, k \in 0..MaxEvents,
             m \in {ScanProgress, ScanStateChanged("running")} :
          i = EngineItem(Event(n, 1, m), k)
    BY <1>1, <2>1 DEF Item
  <2>3. i.delivery.event = Event(n, 1, m)
    BY <2>2 DEF EngineItem, Delivery
  <2>4. l.delivery.skipped + 1 \in 0..MaxEvents
    BY <1>3, EventQueueBounds
  <2>5. QED
    BY <2>3, <2>4 DEF Item
<1>6. Seqno(x) = Seqno(i) /\ IsProgress(x)
  BY <1>4 DEF Seqno, IsProgress
<1>7. x.delivery.skipped < x.delivery.event.seq
  BY <1>3, <1>4 DEF Seqno
<1>8. x \in Genuine
  BY <1>5, <1>7 DEF Genuine
<1> HIDE DEF x
<1>9. Covers(x) = (Seqno(x) - x.delivery.skipped) .. Seqno(x)
  BY <1>4 DEF Covers, Seqno
<1>10. Covers(l) = (Seqno(l) - l.delivery.skipped) .. Seqno(l)
  BY <1>1 DEF Covers, Seqno
<1>11. Covers(i) = Seqno(i) .. Seqno(i)
  BY <1>1, <1>2, <1>3 DEF Covers, Seqno
<1>12. Seqno(x) - x.delivery.skipped = Seqno(l) - l.delivery.skipped
  BY <1>3, <1>4, <1>6
<1>13. Covers(x) = Covers(l) \cup Covers(i)
  BY <1>3, <1>6, <1>9, <1>10, <1>11, <1>12
<1>14. QED
  BY <1>4, <1>6, <1>8, <1>12, <1>13 DEF x

(* r is q with i merged into the run at its back. *)
Merges(q, r, i) ==
  \E f \in Seq(Genuine), l \in Genuine, x \in Genuine :
    /\ q = Append(f, l) /\ r = Append(f, x)
    /\ IsProgress(i) /\ IsProgress(l) /\ IsProgress(x)
    /\ x.type = "engine"
    /\ Seqno(x) = Seqno(i)
    /\ Seqno(x) - x.delivery.skipped = Seqno(l) - l.delivery.skipped
    /\ Covers(x) = Covers(l) \cup Covers(i)

(* What `send` does to the queue: the item is appended, or takes the place *)
(* of the run at the back.                                                 *)
LEMMA EnqueueCases ==
  ASSUME NEW q \in Seq(Genuine), NEW i \in Fresh, ~Refuses(q, i)
  PROVE  \/ /\ Enqueued(q, i) = Append(q, i)
            /\ IsProgress(i) => q = <<>> \/ ~IsProgress(q[Len(q)])
         \/ Merges(q, Enqueued(q, i), i)
<1>1. CASE ~JoinsRun(q, i)
  BY <1>1 DEF Enqueued, JoinsRun, SeqOps!Last
<1>2. CASE JoinsRun(q, i)
  <2> DEFINE n == Len(q)
             l == q[n]
             f == SubSeq(q, 1, n - 1)
             x == EngineItem(i.delivery.event, l.delivery.skipped + 1)
  <2>1. n \in Nat \ {0} /\ l \in Genuine /\ IsProgress(i) /\ IsProgress(l)
    BY <1>2 DEF JoinsRun, SeqOps!Last
  <2>2. Seqno(i) = Seqno(l) + 1
    BY <1>2 DEF Refuses, Contiguous, SeqOps!Last, Seqno
  <2>3. /\ x \in Genuine /\ IsProgress(x) /\ x.type = "engine" /\ Seqno(x) = Seqno(i)
        /\ Seqno(x) - x.delivery.skipped = Seqno(l) - l.delivery.skipped
        /\ Covers(x) = Covers(l) \cup Covers(i)
    BY <2>1, <2>2, Merging
  <2>4. /\ f \in Seq(Genuine)
        /\ Len(f) = n - 1
        /\ \A k \in 1..(n - 1) : f[k] = q[k]
    <3>1. 1 \in Int /\ n - 1 \in Int /\ \A k \in 1..(n - 1) : q[k] \in Genuine
      BY <2>1, ElementOfSeq
    <3>2. /\ f \in Seq(Genuine)
          /\ Len(f) = IF 1 <= n - 1 THEN (n - 1) - 1 + 1 ELSE 0
          /\ \A k \in 1..((n - 1) - 1 + 1) : f[k] = q[1 + k - 1]
      BY <3>1, SubSeqProperties
    <3> HIDE DEF f, l, x, n
    <3>3. Len(f) = n - 1
      BY <2>1, <3>2
    <3>4. ASSUME NEW k \in 1..(n - 1) PROVE f[k] = q[k]
      <4>1. k \in 1..((n - 1) - 1 + 1) /\ 1 + k - 1 = k
        BY <2>1
      <4>2. QED
        BY <3>2, <4>1
    <3>5. QED
      BY <3>2, <3>3, <3>4
  <2>5. q = Append(f, l)
    <3>1. /\ Append(f, l) \in Seq(Genuine) /\ Len(Append(f, l)) = n
          /\ \A k \in 1..(n - 1) : Append(f, l)[k] = f[k]
          /\ Append(f, l)[n] = l
      BY <2>1, <2>4, AppendProperties
    <3>2. \A k \in 1..n : q[k] = Append(f, l)[k]
      BY <2>1, <2>4, <3>1
    <3>3. QED
      BY <2>1, <3>1, <3>2, SeqEqual
  <2>6. Enqueued(q, i) = f \o <<x>>
    BY <1>2 DEF Enqueued, SeqOps!Front, SeqOps!Last
  <2>7. f \o <<x>> = Append(f, x)
    BY <2>3, <2>4, AppendIsConcat
  <2> HIDE DEF n, l, f, x
  <2>8. QED
    BY <2>1, <2>3, <2>4, <2>5, <2>6, <2>7 DEF Merges
<1>3. QED
  BY <1>1, <1>2
-----------------------------------------------------------------------------
(* Counting.                                                               *)

SemanticAt(q) == { n \in DOMAIN q : ~IsProgress(q[n]) }

(* The positions counted are finitely many, none of them beyond the end.   *)
LEMMA CountIsFinite ==
  ASSUME NEW q \in Seq(Genuine)
  PROVE  /\ IsFiniteSet(SemanticAt(q))
         /\ SemanticAt(q) \subseteq 1..Len(q)
         /\ SemanticCount(q) = Cardinality(SemanticAt(q))
         /\ SemanticCount(q) \in Nat
<1>1. DOMAIN q = 1..Len(q) /\ Len(q) \in Nat
  BY LenProperties
<1>2. SemanticAt(q) \in SUBSET (1..Len(q))
  BY <1>1 DEF SemanticAt
<1>3. IsFiniteSet(1..Len(q))
  BY <1>1, FS_Interval
<1>4. IsFiniteSet(SemanticAt(q))
  BY <1>2, <1>3, FS_Subset
<1>5. SemanticCount(q) = Cardinality(SemanticAt(q))
  BY DEF SemanticCount, SemanticAt
<1>6. QED
  BY <1>2, <1>4, <1>5, FS_CardinalityType

(* One more item counts for one, or for nothing if it is progress.         *)
LEMMA CountOfAppend ==
  ASSUME NEW q \in Seq(Genuine), NEW x \in Genuine
  PROVE  /\ IsProgress(x) => SemanticCount(Append(q, x)) = SemanticCount(q)
         /\ ~IsProgress(x) => SemanticCount(Append(q, x)) = SemanticCount(q) + 1
<1> DEFINE r == Append(q, x)
           n == Len(q)
<1>1. /\ r \in Seq(Genuine) /\ Len(r) = n + 1 /\ n \in Nat
      /\ \A k \in 1..n : r[k] = q[k]
      /\ r[n + 1] = x
  BY AppendProperties
<1>2. DOMAIN r = 1..(n + 1) /\ DOMAIN q = 1..n
  BY <1>1, LenProperties
<1> HIDE DEF r, n
<1>3. /\ IsProgress(x) => SemanticAt(r) = SemanticAt(q)
      /\ ~IsProgress(x) => SemanticAt(r) = SemanticAt(q) \cup {n + 1}
  BY <1>1, <1>2 DEF SemanticAt
<1>4. n + 1 \notin SemanticAt(q)
  BY <1>1, <1>2 DEF SemanticAt
<1>5. Cardinality(SemanticAt(q) \cup {n + 1}) = Cardinality(SemanticAt(q)) + 1
  BY <1>4, CountIsFinite, FS_AddElement
<1>6. QED
  BY <1>1, <1>3, <1>5, CountIsFinite DEF r

(* The front item counted for one, or for nothing if it was progress.      *)
LEMMA CountOfTail ==
  ASSUME NEW q \in Seq(Genuine), q # <<>>
  PROVE  /\ IsProgress(Head(q)) => SemanticCount(Tail(q)) = SemanticCount(q)
         /\ ~IsProgress(Head(q)) => SemanticCount(Tail(q)) = SemanticCount(q) - 1
<1> DEFINE t == Tail(q)
           n == Len(q)
<1>1. /\ t \in Seq(Genuine) /\ n \in Nat \ {0} /\ Len(t) = n - 1
      /\ \A k \in 1..(n - 1) : t[k] = q[k + 1]
      /\ Head(q) = q[1]
  BY HeadTailProperties, EmptySeq
<1>2. DOMAIN t = 1..(n - 1) /\ DOMAIN q = 1..n
  BY <1>1, LenProperties
<1> HIDE DEF t, n
<1> DEFINE S == SemanticAt(t)
           T == SemanticAt(q) \ {1}
           shift == [k \in S |-> k + 1]
<1>3. \A k \in S : k \in 1..(n - 1) /\ k + 1 \in T
  BY <1>1, <1>2 DEF SemanticAt
<1>4. \A m \in T : m \in 2..n /\ m - 1 \in S /\ (m - 1) + 1 = m
  BY <1>1, <1>2 DEF SemanticAt
<1>5. shift \in Bijection(S, T)
  <2> HIDE DEF S, T
  <2>1. shift \in [S -> T]
    BY <1>3
  <2>2. \A a, b \in S : shift[a] = shift[b] => a = b
    BY <1>3
  <2>3. \A m \in T : \E k \in S : shift[k] = m
    BY <1>4
  <2>4. QED
    BY <2>1, <2>2, <2>3 DEF Bijection, Injection, IsInjective, Surjection
<1>6. IsFiniteSet(S) /\ ExistsBijection(S, T)
  BY <1>1, <1>5, CountIsFinite DEF ExistsBijection
<1>7. Cardinality(T) = Cardinality(S)
  BY <1>6, FS_Bijection
<1>8. 1 \in SemanticAt(q) <=> ~IsProgress(Head(q))
  BY <1>1, <1>2 DEF SemanticAt
<1>9. Cardinality(T) = IF 1 \in SemanticAt(q) THEN Cardinality(SemanticAt(q)) - 1
                       ELSE Cardinality(SemanticAt(q))
  BY CountIsFinite, FS_RemoveElement
<1>10. QED
  BY <1>1, <1>7, <1>8, <1>9, CountIsFinite DEF t

NoTwoRuns(q) == \A k \in 1..(Len(q) - 1) : ~(IsProgress(q[k]) /\ IsProgress(q[k + 1]))

(* Where every two runs are separated, all but the first one have an item  *)
(* before them that counts, so the length is bounded by the count.         *)
LEMMA RunsBoundLength ==
  ASSUME NEW q \in Seq(Genuine), NoTwoRuns(q)
  PROVE  Len(q) <= 2 * SemanticCount(q) + 1
<1> DEFINE n == Len(q)
           S == SemanticAt(q)
           R == (1..n) \ S
           before == [k \in R \ {1} |-> k - 1]
<1>1. n \in Nat /\ DOMAIN q = 1..n
  BY LenProperties
<1>2. IsFiniteSet(1..n) /\ Cardinality(1..n) = n
  BY <1>1, FS_Interval
<1>3. IsFiniteSet(S) /\ S \subseteq 1..n /\ SemanticCount(q) = Cardinality(S)
  BY CountIsFinite
<1>4. \A k \in R \ {1} : k \in 2..n /\ k - 1 \in S
  <2> SUFFICES ASSUME NEW k \in R \ {1} PROVE k \in 2..n /\ k - 1 \in S
    OBVIOUS
  <2>1. k \in 2..n /\ IsProgress(q[k])
    BY <1>1 DEF SemanticAt
  <2>2. k - 1 \in 1..(n - 1) /\ (k - 1) + 1 = k
    BY <1>1, <2>1
  <2>3. ~IsProgress(q[k - 1])
    BY <2>1, <2>2 DEF NoTwoRuns
  <2>4. QED
    BY <1>1, <2>1, <2>2, <2>3 DEF SemanticAt
<1>5. before \in Injection(R \ {1}, S)
  <2> HIDE DEF R, S
  <2>1. before \in [R \ {1} -> S]
    BY <1>4
  <2>2. \A a, b \in R \ {1} : before[a] = before[b] => a = b
    BY <1>4
  <2>3. QED
    BY <2>1, <2>2 DEF Injection, IsInjective
<1>6. Cardinality(R \ {1}) <= Cardinality(S)
  BY <1>3, <1>5, FS_Injection
<1>7. IsFiniteSet(R) /\ Cardinality(R) = n - Cardinality(S)
  <2>1. (1..n) \cap S = S
    BY <1>3
  <2>2. /\ IsFiniteSet((1..n) \ S)
        /\ Cardinality((1..n) \ S) = Cardinality(1..n) - Cardinality((1..n) \cap S)
    BY <1>2, FS_Difference
  <2>3. QED
    BY <1>2, <2>1, <2>2
<1>8. Cardinality(R) \in Nat /\ Cardinality(R) <= Cardinality(R \ {1}) + 1
  <2>1. Cardinality(R) \in Nat
    BY <1>7, FS_CardinalityType
  <2>2. Cardinality(R \ {1}) = IF 1 \in R THEN Cardinality(R) - 1 ELSE Cardinality(R)
    BY <1>7, FS_RemoveElement
  <2> HIDE DEF R
  <2>3. QED
    BY <2>1, <2>2
<1>9. Cardinality(S) \in Nat /\ Cardinality(R \ {1}) \in Nat
  <2>1. IsFiniteSet(R \ {1})
    BY <1>7, FS_RemoveElement
  <2>2. QED
    BY <1>3, <2>1, FS_CardinalityType
<1> HIDE DEF n, S, R
<1>10. n <= 2 * Cardinality(S) + 1
  BY <1>1, <1>6, <1>7, <1>8, <1>9
<1>11. QED
  BY <1>3, <1>10 DEF n

(* Runs stay separated when the item appended is no second run.            *)
LEMMA RunsOfAppend ==
  ASSUME NEW q \in Seq(Genuine), NEW x \in Genuine
  PROVE  NoTwoRuns(Append(q, x)) <=>
           NoTwoRuns(q) /\ (IsProgress(x) => q = <<>> \/ ~IsProgress(q[Len(q)]))
<1> DEFINE r == Append(q, x)
           n == Len(q)
<1>1. /\ r \in Seq(Genuine) /\ Len(r) = n + 1 /\ n \in Nat
      /\ \A k \in 1..n : r[k] = q[k]
      /\ r[n + 1] = x
      /\ q # <<>> => n # 0
      /\ q = <<>> => n = 0
  BY AppendProperties, EmptySeq
<1> HIDE DEF r
<1>2. ASSUME NoTwoRuns(r)
      PROVE  NoTwoRuns(q) /\ (IsProgress(x) => q = <<>> \/ ~IsProgress(q[n]))
  <2>1. \A k \in 1..n : ~(IsProgress(r[k]) /\ IsProgress(r[k + 1]))
    BY <1>1, <1>2 DEF NoTwoRuns
  <2>2. \A k \in 1..(n - 1) : k \in 1..n /\ k + 1 \in 1..n
    BY <1>1
  <2>3. NoTwoRuns(q)
    BY <1>1, <2>1, <2>2 DEF NoTwoRuns
  <2>4. q # <<>> => n \in 1..n
    BY <1>1
  <2>5. QED
    BY <1>1, <2>1, <2>3, <2>4
<1>3. ASSUME NoTwoRuns(q), IsProgress(x) => q = <<>> \/ ~IsProgress(q[n])
      PROVE  NoTwoRuns(r)
  <2> SUFFICES ASSUME NEW k \in 1..n PROVE ~(IsProgress(r[k]) /\ IsProgress(r[k + 1]))
    BY <1>1 DEF NoTwoRuns
  <2>1. CASE k = n
    BY <1>1, <1>3, <2>1
  <2>2. CASE k # n
    <3>1. k \in 1..(n - 1) /\ k + 1 \in 1..n
      BY <1>1, <2>2
    <3>2. QED
      BY <1>1, <1>3, <3>1 DEF NoTwoRuns
  <2>3. QED
    BY <2>1, <2>2
<1>4. QED
  BY <1>2, <1>3 DEF r
-----------------------------------------------------------------------------
(* Contents.                                                               *)

Ordered(q) ==
  \A a, b \in DOMAIN q : a < b =>
    \A m \in Covers(q[a]), n \in Covers(q[b]) : m < n

(* Every event in q has a number below n. *)
Below(q, n) == \A k \in DOMAIN q : q[k].type = "engine" => Seqno(q[k]) < n

(* What an item adds at the back of a sequence.                            *)
LEMMA ContentsOfAppend ==
  ASSUME NEW q \in Seq(Genuine), NEW x \in Genuine
  PROVE  /\ Covered(Append(q, x)) = Covered(q) \cup Covers(x)
         /\ \A n \in Nat : Below(Append(q, x), n) <=>
              Below(q, n) /\ (x.type = "engine" => Seqno(x) < n)
         /\ Ordered(Append(q, x)) <=>
              Ordered(q) /\ \A k \in DOMAIN q : \A m \in Covers(q[k]), n \in Covers(x) : m < n
<1> DEFINE r == Append(q, x)
           l == Len(q)
<1>1. /\ r \in Seq(Genuine) /\ Len(r) = l + 1 /\ l \in Nat
      /\ \A k \in 1..l : r[k] = q[k]
      /\ r[l + 1] = x
  BY AppendProperties
<1>2. DOMAIN r = 1..(l + 1) /\ DOMAIN q = 1..l
  BY <1>1, LenProperties
<1> HIDE DEF r, l
<1>3. 1..(l + 1) = (1..l) \cup {l + 1} /\ l + 1 \notin 1..l
  BY <1>1
<1>4. Covered(r) = Covered(q) \cup Covers(x)
  BY <1>1, <1>2, <1>3 DEF Covered
<1>5. ASSUME NEW n \in Nat
      PROVE  Below(r, n) <=> Below(q, n) /\ (x.type = "engine" => Seqno(x) < n)
  BY <1>1, <1>2, <1>3 DEF Below
<1>6. Ordered(r) => Ordered(q) /\ \A k \in DOMAIN q : \A m \in Covers(q[k]), n \in Covers(x) : m < n
  <2> SUFFICES ASSUME Ordered(r)
               PROVE  Ordered(q) /\ \A k \in DOMAIN q : \A m \in Covers(q[k]), n \in Covers(x) : m < n
    OBVIOUS
  <2>1. Ordered(q)
    BY <1>1, <1>2, <1>3 DEF Ordered
  <2>2. ASSUME NEW k \in DOMAIN q, NEW m \in Covers(q[k]), NEW n \in Covers(x) PROVE m < n
    <3>1. k \in DOMAIN r /\ l + 1 \in DOMAIN r /\ k < l + 1 /\ r[k] = q[k]
      BY <1>1, <1>2, <1>3
    <3>2. QED
      BY <1>1, <3>1 DEF Ordered
  <2>3. QED
    BY <2>1, <2>2
<1>7. ASSUME Ordered(q), \A k \in DOMAIN q : \A m \in Covers(q[k]), n \in Covers(x) : m < n
      PROVE  Ordered(r)
  <2> SUFFICES ASSUME NEW a \in DOMAIN r, NEW b \in DOMAIN r, a < b,
                      NEW m \in Covers(r[a]), NEW n \in Covers(r[b])
               PROVE  m < n
    BY DEF Ordered
  <2>1. a \in 1..l /\ a \in DOMAIN q /\ r[a] = q[a]
    BY <1>1, <1>2, <1>3
  <2>2. CASE b = l + 1
    BY <1>1, <1>7, <2>1, <2>2
  <2>3. CASE b \in 1..l
    BY <1>1, <1>2, <1>7, <2>1, <2>3 DEF Ordered
  <2>4. QED
    BY <1>2, <1>3, <2>2, <2>3
<1>8. QED
  BY <1>4, <1>5, <1>6, <1>7 DEF r

(* Taking the first item of one sequence to the end of another leaves      *)
(* their concatenation as it is.                                           *)
LEMMA HandOver ==
  ASSUME NEW p \in Seq(Genuine), NEW q \in Seq(Genuine), q # <<>>
  PROVE  Append(p, Head(q)) \o Tail(q) = p \o q
<1> DEFINE s == Append(p, Head(q)) \o Tail(q)
           t == p \o q
           a == Len(p)
           b == Len(q)
<1>1. /\ Head(q) \in Genuine /\ Tail(q) \in Seq(Genuine) /\ Len(Tail(q)) = b - 1
      /\ \A k \in 1..(b - 1) : Tail(q)[k] = q[k + 1]
      /\ Head(q) = q[1]
      /\ a \in Nat /\ b \in Nat \ {0}
  BY HeadTailProperties, EmptySeq
<1>2. /\ Append(p, Head(q)) \in Seq(Genuine) /\ Len(Append(p, Head(q))) = a + 1
      /\ \A k \in 1..a : Append(p, Head(q))[k] = p[k]
      /\ Append(p, Head(q))[a + 1] = q[1]
  BY <1>1, AppendProperties
<1>3. /\ s \in Seq(Genuine) /\ Len(s) = (a + 1) + (b - 1)
      /\ \A k \in 1..((a + 1) + (b - 1)) :
           s[k] = IF k <= a + 1 THEN Append(p, Head(q))[k] ELSE Tail(q)[k - (a + 1)]
  BY <1>1, <1>2, ConcatProperties
<1>4. /\ t \in Seq(Genuine) /\ Len(t) = a + b
      /\ \A k \in 1..(a + b) : t[k] = IF k <= a THEN p[k] ELSE q[k - a]
  BY <1>1, ConcatProperties
<1> HIDE DEF s, t, a, b
<1>5. ASSUME NEW k \in 1..(a + b) PROVE s[k] = t[k]
  <2>1. CASE k <= a
    <3>1. k \in 1..a /\ k <= a + 1 /\ k \in 1..((a + 1) + (b - 1))
      BY <1>1, <2>1
    <3>2. QED
      BY <1>2, <1>3, <1>4, <2>1, <3>1
  <2>2. CASE k = a + 1
    <3>1. k <= a + 1 /\ ~(k <= a) /\ k - a = 1 /\ k \in 1..((a + 1) + (b - 1))
      BY <1>1, <2>2
    <3>2. s[k] = q[1]
      BY <1>2, <1>3, <2>2, <3>1
    <3>3. t[k] = q[1]
      BY <1>4, <3>1
    <3>4. QED
      BY <3>2, <3>3
  <2>3. CASE k > a + 1
    <3>1. /\ ~(k <= a + 1) /\ ~(k <= a) /\ k \in 1..((a + 1) + (b - 1))
          /\ k - (a + 1) \in 1..(b - 1) /\ (k - (a + 1)) + 1 = k - a
      BY <1>1, <2>3
    <3>2. s[k] = q[k - a]
      BY <1>1, <1>3, <3>1
    <3>3. t[k] = q[k - a]
      BY <1>4, <3>1
    <3>4. QED
      BY <3>2, <3>3
  <2>4. QED
    BY <1>1, <2>1, <2>2, <2>3
<1>6. Len(s) = a + b
  BY <1>1, <1>3
<1>7. s = t
  BY <1>3, <1>4, <1>5, <1>6, SeqEqual
<1>8. QED
  BY <1>7 DEF s, t

(* An item appended to the second of two is appended to both together.     *)
LEMMA AppendToBoth ==
  ASSUME NEW p \in Seq(Genuine), NEW q \in Seq(Genuine), NEW x \in Genuine
  PROVE  p \o Append(q, x) = Append(p \o q, x)
<1>1. <<x>> \in Seq(Genuine) /\ p \o q \in Seq(Genuine)
  BY ConcatProperties
<1>2. Append(q, x) = q \o <<x>> /\ Append(p \o q, x) = (p \o q) \o <<x>>
  BY <1>1, AppendIsConcat
<1>3. (p \o q) \o <<x>> = p \o (q \o <<x>>)
  BY <1>1, ConcatAssociative
<1>4. QED
  BY <1>2, <1>3
-----------------------------------------------------------------------------
(* The inductive invariant.                                                *)

ControlTyped ==
  /\ producerClosed \in BOOLEAN /\ receiverClosed \in BOOLEAN
  /\ producer \in {"running", "waiting", "woken", "refused", "pushed", "pushedLast",
                    "reported", "closed", "gone"}
  /\ consumer \in {"running", "armed", "awaiting", "asleep", "ended", "closed", "gone"}
  /\ permit \in BOOLEAN
  /\ notified \in {"none", "created", "enrolled", "wokenOne", "wokenAll"}
  /\ keys \in 0..MaxKeys

ContentsTyped ==
  /\ events \in Seq(Genuine) /\ sent \in Seq(Genuine) /\ received \in Seq(Genuine)
  /\ offer \in Fresh
  /\ offered \in 0..MaxEvents

(* The counter is exact, the capacity kept, and runs are separated. *)
Counted ==
  /\ semanticEvents = SemanticCount(events)
  /\ semanticEvents <= SemanticCapacity
  /\ NoTwoRuns(events)

(* The flags say where the threads are, and where the consumer is says     *)
(* what became of its future.  A consumer about to enroll without a permit *)
(* has missed nothing but what is about to be announced to it.             *)
Wakeups ==
  /\ producerClosed <=> producer \in {"closed", "gone"}
  /\ receiverClosed <=> consumer \in {"closed", "gone"}
  /\ consumer \in {"running", "ended", "closed", "gone"} => notified = "none"
  /\ consumer \in {"armed", "awaiting"} => notified \in {"created", "wokenAll"}
  /\ consumer = "asleep" => notified \in {"enrolled", "wokenOne", "wokenAll"}
  /\ consumer = "awaiting" /\ notified = "created" /\ ~permit
       /\ (events # <<>> \/ producerClosed) =>
            producer \in {"pushed", "pushedLast", "closed"}

(* What was handed over or waits is what was accepted; its numbers are in  *)
(* order, and those that come next are greater.                            *)
Lossless ==
  LET handed == received \o events IN
  /\ Semantic(handed) = Semantic(sent)
  /\ Covered(handed) = Covered(sent)
  /\ Ordered(handed)
  /\ Below(handed, offered + 1)
  /\ producer \in {"waiting", "woken"} /\ offer.type = "engine" =>
       Seqno(offer) = offered /\ Below(handed, offered)

QueueInv ==
  /\ ControlTyped
  /\ ContentsTyped
  /\ Counted
  /\ Wakeups
  /\ NobodyIsStranded
  /\ Lossless
-----------------------------------------------------------------------------
(* Steps.                                                                  *)

(* The driver, with an item that is the next event, its last word, or what *)
(* it was blocked with.                                                    *)
Delivers(i) ==
  /\ Send(i)
  /\ \/ /\ i.type = "engine"
        /\ Seqno(i) = offered' /\ offered < offered' /\ offered' \in 0..MaxEvents
     \/ i.type = "exited" /\ offered' = offered
     \/ producer = "woken" /\ i = offer /\ offered' = offered

(* Everybody, where nothing is put into the queue or taken from it. *)
LeavesQueue ==
  /\ UNCHANGED <<events, semanticEvents, sent, received, offer, offered>>
  /\ producer' \in {"waiting", "woken"} => producer \in {"waiting", "woken"}

(* Every step is one of these or the consumer's.                           *)
LEMMA StepKinds ==
  ASSUME ContentsTyped, [Next]_vars
  PROVE  LeavesQueue \/ Pop \/ \E i \in Fresh : Delivers(i)
<1>1. CASE OfferEvent
  <2>1. PICK n \in {offered + 1, offered + 2}, m \in {ScanProgress, ScanStateChanged("running")} :
          n <= MaxEvents /\ offered' = n /\ Send(EngineItem(Event(n, 1, m), 0))
    BY <1>1 DEF OfferEvent
  <2>2. n \in 1..MaxEvents /\ offered < n /\ n \in 0..MaxEvents
    BY <2>1, EventQueueBounds DEF ContentsTyped
  <2>3. EngineItem(Event(n, 1, m), 0) \in Fresh /\ Seqno(EngineItem(Event(n, 1, m), 0)) = n
    BY <2>2, OffersAreFresh
  <2>4. EngineItem(Event(n, 1, m), 0).type = "engine"
    BY DEF EngineItem
  <2>5. QED
    BY <2>1, <2>2, <2>3, <2>4 DEF Delivers
<1>2. CASE OfferExit
  <2>1. PICK ok \in BOOLEAN : Send(ExitItem(ok)) /\ offered' = offered
    BY <1>2 DEF OfferExit
  <2>2. QED
    BY <2>1, OffersAreFresh DEF Delivers
<1>3. CASE RetrySend
  BY <1>3 DEF RetrySend, Delivers, ContentsTyped
<1>4. CASE AnnounceEvent \/ CloseProducer \/ AnnounceEnd \/ SpuriousWakeup
  BY <1>4 DEF AnnounceEvent, CloseProducer, AnnounceEnd, SpuriousWakeup, WakeProducer,
       LeavesQueue, queueVars, consumerVars
<1>5. CASE Arm \/ FindEnd \/ FindNothing \/ Await \/ Wake \/ KeyWins \/ CloseReceiver
  BY <1>5 DEF Arm, FindEnd, FindNothing, Await, Wake, KeyWins, CloseReceiver,
       LeavesQueue, queueVars, producerVars
<1>6. CASE AnnounceReceiverGone
  BY <1>6 DEF AnnounceReceiverGone, WakeProducer, LeavesQueue, queueVars
<1>7. CASE UNCHANGED vars
  BY <1>7 DEF vars, queueVars, producerVars, consumerVars, LeavesQueue
<1>8. QED
  BY <1>1, <1>2, <1>3, <1>4, <1>5, <1>6, <1>7
    DEF Next, ProducerContinues, ConsumerContinues

(* The control state keeps its type.                                       *)
LEMMA ControlStep ==
  ASSUME ControlTyped, [Next]_vars
  PROVE  ControlTyped'
<1> USE DEF ControlTyped
<1>1. ASSUME NEW i, Send(i) PROVE ControlTyped'
  BY <1>1 DEF Send, BlockSend, RefuseSend, AcceptSend, queueVars, consumerVars, notifyVars
<1>2. CASE OfferEvent \/ OfferExit \/ RetrySend
  BY <1>1, <1>2 DEF OfferEvent, OfferExit, RetrySend
<1>3. CASE AnnounceEvent
  BY <1>3 DEF AnnounceEvent, NotifyOne, queueVars, consumerVars
<1>4. CASE CloseProducer \/ SpuriousWakeup
  BY <1>4 DEF CloseProducer, SpuriousWakeup, WakeProducer, queueVars, consumerVars, notifyVars
<1>5. CASE AnnounceEnd
  BY <1>5 DEF AnnounceEnd, NotifyWaiters, queueVars, consumerVars
<1>6. CASE Arm \/ FindNothing
  BY <1>6 DEF Arm, FindNothing, queueVars, producerVars, notifyVars
<1>7. CASE Pop
  BY <1>7 DEF Pop, DropNotified, WakeProducer
<1>8. CASE FindEnd \/ Wake
  BY <1>8 DEF FindEnd, Wake, DropNotified, queueVars, producerVars
<1>9. CASE Await
  BY <1>9 DEF Await, DropNotified, queueVars, producerVars
<1>10. CASE KeyWins
  <2>1. keys + 1 \in 0..MaxKeys
    BY <1>10, EventQueueBounds DEF KeyWins
  <2>2. QED
    BY <1>10, <2>1 DEF KeyWins, DropNotified, queueVars, producerVars
<1>11. CASE CloseReceiver
  BY <1>11 DEF CloseReceiver, producerVars, notifyVars
<1>12. CASE AnnounceReceiverGone
  BY <1>12 DEF AnnounceReceiverGone, WakeProducer, queueVars, notifyVars
<1>13. CASE UNCHANGED vars
  BY <1>13 DEF vars, queueVars, producerVars, consumerVars, notifyVars
<1>14. QED
  BY <1>2, <1>3, <1>4, <1>5, <1>6, <1>7, <1>8, <1>9, <1>10, <1>11, <1>12, <1>13
    DEF Next, ProducerContinues, ConsumerContinues

(* What is put into the queue and taken from it are items.                 *)
LEMMA ContentsStep ==
  ASSUME ContentsTyped, [Next]_vars
  PROVE  ContentsTyped'
<1>1. CASE LeavesQueue
  BY <1>1 DEF LeavesQueue, ContentsTyped
<1>2. CASE Pop
  <2>1. Tail(events) \in Seq(Genuine) /\ Head(events) \in Genuine
    BY <1>2, HeadTailProperties DEF Pop, ContentsTyped
  <2>2. Append(received, Head(events)) \in Seq(Genuine)
    BY <2>1, AppendProperties DEF ContentsTyped
  <2>3. QED
    BY <1>2, <2>1, <2>2 DEF Pop, ContentsTyped
<1>3. ASSUME NEW i \in Fresh, Delivers(i) PROVE ContentsTyped'
  <2>1. received' = received /\ offered' \in 0..MaxEvents /\ i \in Genuine
    BY <1>3 DEF Delivers, Send, consumerVars, ContentsTyped, Fresh
  <2>2. CASE BlockSend(i)
    BY <2>1, <2>2 DEF BlockSend, queueVars, ContentsTyped
  <2>3. CASE RefuseSend(i)
    BY <2>1, <2>3, OffersAreFresh DEF RefuseSend, queueVars, ContentsTyped
  <2>4. CASE AcceptSend(i)
    <3>1. Append(sent, i) \in Seq(Genuine) /\ Append(events, i) \in Seq(Genuine)
      BY <2>1, AppendProperties DEF ContentsTyped
    <3>2. \A f \in Seq(Genuine), x \in Genuine : Append(f, x) \in Seq(Genuine)
      BY AppendProperties
    <3>3. Enqueued(events, i) \in Seq(Genuine)
      <4>1. events \in Seq(Genuine) /\ ~Refuses(events, i)
        BY <2>4 DEF AcceptSend, ContentsTyped
      <4>2. Enqueued(events, i) = Append(events, i) \/ Merges(events, Enqueued(events, i), i)
        BY <4>1, EnqueueCases
      <4>3. QED
        BY <3>1, <3>2, <4>2 DEF Merges
    <3>4. QED
      BY <2>1, <2>4, <3>1, <3>3, OffersAreFresh DEF AcceptSend, ContentsTyped
  <2>5. QED
    BY <1>3, <2>2, <2>3, <2>4 DEF Delivers, Send
<1>4. QED
  BY <1>1, <1>2, <1>3, StepKinds

(* Counting: a producer that need not wait found room.                     *)
LEMMA CountedStep ==
  ASSUME ContentsTyped, Counted, [Next]_vars
  PROVE  Counted'
<1>1. CASE LeavesQueue
  BY <1>1 DEF LeavesQueue, Counted
<1>2. CASE Pop
  <2>1. events \in Seq(Genuine) /\ events # <<>> /\ events' = Tail(events)
    BY <1>2 DEF Pop, ContentsTyped
  <2>2. /\ Len(events) \in Nat \ {0} /\ Len(Tail(events)) = Len(events) - 1
        /\ \A k \in 1..(Len(events) - 1) : Tail(events)[k] = events[k + 1]
    BY <2>1, HeadTailProperties, EmptySeq
  <2>3. NoTwoRuns(Tail(events))
    <3> SUFFICES ASSUME NEW k \in 1..(Len(Tail(events)) - 1)
                 PROVE  ~(IsProgress(Tail(events)[k]) /\ IsProgress(Tail(events)[k + 1]))
      BY DEF NoTwoRuns
    <3>1. k \in 1..(Len(events) - 1) /\ k + 1 \in 1..(Len(events) - 1)
      BY <2>2
    <3>2. ~(IsProgress(events[k + 1]) /\ IsProgress(events[(k + 1) + 1]))
      BY <3>1 DEF Counted, NoTwoRuns
    <3>3. QED
      BY <2>2, <3>1, <3>2
  <2>4. SemanticCount(Tail(events)) \in Nat /\ SemanticCount(events) \in Nat
    BY <2>1, CountIsFinite, HeadTailProperties
  <2>5. semanticEvents' = SemanticCount(Tail(events))
    BY <1>2, <2>1, CountOfTail DEF Pop, Counted
  <2>6. SemanticCount(Tail(events)) <= SemanticCount(events)
    BY <2>1, <2>4, CountOfTail
  <2>7. SemanticCount(Tail(events)) <= SemanticCapacity
    BY <2>4, <2>6, SemanticCapacityAssumption DEF Counted
  <2>8. QED
    BY <2>1, <2>3, <2>5, <2>7 DEF Counted
<1>3. ASSUME NEW i \in Fresh, Delivers(i) PROVE Counted'
  <2>1. CASE BlockSend(i) \/ RefuseSend(i)
    BY <2>1 DEF BlockSend, RefuseSend, queueVars, Counted
  <2>2. CASE AcceptSend(i)
    <3>1. /\ events \in Seq(Genuine) /\ i \in Genuine /\ ~Refuses(events, i)
          /\ events' = Enqueued(events, i)
          /\ ~IsProgress(i) => semanticEvents < SemanticCapacity
      <4>1. ~IsProgress(i) => ~(semanticEvents >= SemanticCapacity)
        BY <2>2 DEF AcceptSend, MustWait
      <4>2. semanticEvents \in Nat
        BY CountIsFinite DEF ContentsTyped, Counted
      <4>3. QED
        BY <2>2, <4>1, <4>2, SemanticCapacityAssumption DEF AcceptSend, ContentsTyped, Fresh
    <3>2. SemanticCount(events) \in Nat /\ semanticEvents = SemanticCount(events)
      BY <3>1, CountIsFinite DEF Counted
    <3>3. /\ IsProgress(i) => semanticEvents' = semanticEvents
          /\ ~IsProgress(i) => semanticEvents' = semanticEvents + 1
      BY <2>2, <3>2 DEF AcceptSend
    <3>4. CASE /\ events' = Append(events, i)
               /\ IsProgress(i) => events = <<>> \/ ~IsProgress(events[Len(events)])
      <4>1. semanticEvents' = SemanticCount(events')
        BY <3>1, <3>2, <3>3, <3>4, CountOfAppend
      <4>2. semanticEvents' <= SemanticCapacity
        BY <3>1, <3>2, <3>3, SemanticCapacityAssumption DEF Counted
      <4>3. NoTwoRuns(Append(events, i))
        BY <3>1, <3>4, RunsOfAppend DEF Counted
      <4>4. QED
        BY <3>4, <4>1, <4>2, <4>3 DEF Counted
    <3>5. CASE Merges(events, events', i)
      <4>1. PICK f \in Seq(Genuine), l \in Genuine, x \in Genuine :
                 /\ events = Append(f, l) /\ events' = Append(f, x)
                 /\ IsProgress(i) /\ IsProgress(l) /\ IsProgress(x)
        BY <3>5 DEF Merges
      <4>2. SemanticCount(events') = SemanticCount(events)
        BY <4>1, CountOfAppend
      <4>3. NoTwoRuns(events')
        BY <4>1, RunsOfAppend DEF Counted
      <4>4. QED
        BY <3>2, <3>3, <4>1, <4>2, <4>3 DEF Counted
    <3>6. QED
      BY <3>1, <3>4, <3>5, EnqueueCases
  <2>3. QED
    BY <1>3, <2>1, <2>2 DEF Delivers, Send
<1>4. QED
  BY <1>1, <1>2, <1>3, StepKinds

(* Wakeups and stranding together: whoever makes the queue worth looking   *)
(* at is about to announce it, and until then nobody goes to sleep on it.  *)
LEMMA WakeupsStep ==
  ASSUME ControlTyped, Wakeups, NobodyIsStranded, semanticEvents \in Nat, [Next]_vars
  PROVE  Wakeups' /\ NobodyIsStranded'
<1> USE DEF ControlTyped, Wakeups, NobodyIsStranded
<1>1. ASSUME NEW i, Send(i), producer \in {"running", "refused", "woken"}
      PROVE  Wakeups' /\ NobodyIsStranded'
  <2>1. CASE BlockSend(i)
    BY <1>1, <2>1, SemanticCapacityAssumption DEF Send, BlockSend, MustWait, queueVars, consumerVars, notifyVars
  <2>2. CASE RefuseSend(i)
    BY <1>1, <2>2 DEF Send, RefuseSend, queueVars, consumerVars, notifyVars
  <2>3. CASE AcceptSend(i)
    BY <1>1, <2>3 DEF Send, AcceptSend, consumerVars, notifyVars
  <2>4. QED
    BY <1>1, <2>1, <2>2, <2>3 DEF Send
<1>2. CASE OfferEvent \/ OfferExit \/ RetrySend
  BY <1>1, <1>2 DEF OfferEvent, OfferExit, RetrySend
<1>3. CASE AnnounceEvent
  BY <1>3 DEF AnnounceEvent, NotifyOne, queueVars, consumerVars
<1>4. CASE CloseProducer \/ SpuriousWakeup
  BY <1>4 DEF CloseProducer, SpuriousWakeup, WakeProducer, queueVars, consumerVars, notifyVars
<1>5. CASE AnnounceEnd
  BY <1>5 DEF AnnounceEnd, NotifyWaiters, queueVars, consumerVars
<1>6. CASE Arm \/ FindNothing
  BY <1>6 DEF Arm, FindNothing, queueVars, producerVars, notifyVars
<1>7. CASE Pop
  BY <1>7 DEF Pop, DropNotified, WakeProducer
<1>8. CASE FindEnd \/ Wake
  BY <1>8 DEF FindEnd, Wake, DropNotified, queueVars, producerVars
<1>9. CASE Await
  BY <1>9 DEF Await, DropNotified, queueVars, producerVars
<1>10. CASE KeyWins
  BY <1>10 DEF KeyWins, DropNotified, queueVars, producerVars
<1>11. CASE CloseReceiver
  BY <1>11 DEF CloseReceiver, producerVars, notifyVars
<1>12. CASE AnnounceReceiverGone
  BY <1>12 DEF AnnounceReceiverGone, WakeProducer, queueVars, notifyVars
<1>13. CASE UNCHANGED vars
  BY <1>13 DEF vars, queueVars, producerVars, consumerVars, notifyVars
<1>14. QED
  BY <1>2, <1>3, <1>4, <1>5, <1>6, <1>7, <1>8, <1>9, <1>10, <1>11, <1>12, <1>13
    DEF Next, ProducerContinues, ConsumerContinues

(* Nothing is lost: a new event is the greatest, a merged one stands for   *)
(* both, and a taken one changes sides.                                    *)
LEMMA LosslessStep ==
  ASSUME ContentsTyped, Lossless, [Next]_vars
  PROVE  Lossless'
<1> DEFINE handed == received \o events
<1>1. /\ events \in Seq(Genuine) /\ received \in Seq(Genuine) /\ sent \in Seq(Genuine)
      /\ handed \in Seq(Genuine) /\ offered \in Nat
  BY ConcatProperties DEF ContentsTyped
<1>2. /\ Semantic(handed) = Semantic(sent)
      /\ Covered(handed) = Covered(sent)
      /\ Ordered(handed)
      /\ Below(handed, offered + 1)
  BY DEF Lossless
<1>3. CASE LeavesQueue
  BY <1>3 DEF LeavesQueue, Lossless
<1>4. CASE Pop
  <2>1. received' \o events' = handed
    BY <1>1, <1>4, HandOver DEF Pop
  <2>2. /\ UNCHANGED <<sent, offer, offered>>
        /\ producer' \in {"waiting", "woken"} => producer \in {"waiting", "woken"}
    BY <1>4 DEF Pop, WakeProducer
  <2> HIDE DEF handed
  <2>3. QED
    BY <2>1, <2>2 DEF Lossless, handed
<1>5. ASSUME NEW i \in Fresh, Delivers(i) PROVE Lossless'
  <2>1. /\ received' = received /\ i \in Genuine
        /\ offered' \in Nat /\ offered <= offered'
    BY <1>1, <1>5 DEF Delivers, Send, consumerVars, Fresh
  <2>2. i.type = "engine" => Seqno(i) = offered' /\ Below(handed, offered')
    <3>1. CASE i.type = "engine" /\ Seqno(i) = offered' /\ offered < offered'
      <4>1. ASSUME NEW k \in DOMAIN handed, handed[k].type = "engine"
            PROVE  Seqno(handed[k]) < offered'
        <5>1. Seqno(handed[k]) < offered + 1
          BY <1>2, <4>1 DEF Below
        <5>2. Seqno(handed[k]) \in Nat
          BY <1>1, <4>1, ItemKinds, ElementOfSeq, LenProperties
        <5>3. QED
          BY <1>1, <2>1, <3>1, <5>1, <5>2
      <4>2. QED
        BY <3>1, <4>1 DEF Below
    <3>2. CASE producer = "woken" /\ i = offer /\ offered' = offered
      BY <3>2 DEF Lossless
    <3>3. QED
      BY <1>5, <3>1, <3>2 DEF Delivers
  <2>3. Below(handed, offered' + 1)
    <3> SUFFICES ASSUME NEW k \in DOMAIN handed, handed[k].type = "engine"
                 PROVE  Seqno(handed[k]) < offered' + 1
      BY DEF Below
    <3>1. Seqno(handed[k]) < offered + 1
      BY <1>2 DEF Below
    <3>2. Seqno(handed[k]) \in Nat
      BY <1>1, ItemKinds, ElementOfSeq, LenProperties
    <3>3. QED
      BY <1>1, <2>1, <3>1, <3>2
  <2>4. CASE BlockSend(i)
    <3>1. offer' = i /\ UNCHANGED <<events, sent>>
      BY <2>4 DEF BlockSend, queueVars
    <3> HIDE DEF handed
    <3>2. QED
      BY <1>2, <2>1, <2>2, <2>3, <3>1 DEF Lossless, handed
  <2>5. CASE RefuseSend(i)
    <3>1. UNCHANGED <<events, sent>> /\ producer' \notin {"waiting", "woken"}
      BY <2>5 DEF RefuseSend, queueVars
    <3> HIDE DEF handed
    <3>2. QED
      BY <1>2, <2>1, <2>3, <3>1 DEF Lossless, handed
  <2>6. CASE AcceptSend(i)
    <3>1. /\ events' = Enqueued(events, i) /\ sent' = Append(sent, i) /\ ~Refuses(events, i)
          /\ producer' \notin {"waiting", "woken"}
      BY <2>6 DEF AcceptSend
    <3>2. /\ Semantic(sent') = IF IsProgress(i) THEN Semantic(sent) ELSE Append(Semantic(sent), i)
          /\ Covered(sent') = Covered(sent) \cup Covers(i)
      BY <1>1, <2>1, <3>1, SemanticOfAppend, ContentsOfAppend
    <3>3. i.type = "engine" => Covers(i) = {Seqno(i)}
      <4>1. i.type = "engine" => i.delivery.skipped = 0 /\ Seqno(i) \in Nat
        BY <2>1, ItemKinds DEF Fresh
      <4>2. QED
        BY <4>1, <2>1 DEF Covers, Seqno
    <3>4. ASSUME NEW k \in DOMAIN handed, NEW m \in Covers(handed[k])
          PROVE  /\ m \in Nat /\ handed[k].type = "engine"
                 /\ m <= Seqno(handed[k]) /\ Seqno(handed[k]) \in Nat
      <4>1. handed[k] \in Genuine
        BY <1>1, ElementOfSeq, LenProperties
      <4> HIDE DEF handed
      <4>2. handed[k].type = "engine"
        BY <3>4, <4>1, ItemKinds
      <4>3. QED
        BY <3>4, <4>1, <4>2, ItemKinds
    <3>5. CASE events' = Append(events, i)
      <4>1. received' \o events' = Append(handed, i)
        BY <1>1, <2>1, <3>5, AppendToBoth
      <4>2. ASSUME NEW k \in DOMAIN handed, NEW m \in Covers(handed[k]), NEW n \in Covers(i)
            PROVE  m < n
        <5>1. i.type = "engine" /\ n = offered' /\ Below(handed, offered')
          BY <2>1, <2>2, <3>3, <4>2, ItemKinds
        <5> HIDE DEF handed
        <5>2. /\ m \in Nat /\ m <= Seqno(handed[k]) /\ Seqno(handed[k]) \in Nat
              /\ Seqno(handed[k]) < offered'
          BY <3>4, <4>2, <5>1 DEF Below
        <5>3. QED
          BY <2>1, <5>1, <5>2
      <4> HIDE DEF handed
      <4>3. /\ Semantic(Append(handed, i)) = Semantic(sent')
            /\ Covered(Append(handed, i)) = Covered(sent')
            /\ Ordered(Append(handed, i))
        BY <1>1, <1>2, <2>1, <3>2, <4>2, SemanticOfAppend, ContentsOfAppend
      <4>4. Below(Append(handed, i), offered' + 1)
        BY <1>1, <2>1, <2>2, <2>3, ContentsOfAppend
      <4>5. QED
        BY <3>1, <4>1, <4>3, <4>4 DEF Lossless
    <3>6. CASE Merges(events, events', i)
      <4>1. PICK f \in Seq(Genuine), l \in Genuine, x \in Genuine :
                 /\ events = Append(f, l) /\ events' = Append(f, x)
                 /\ IsProgress(i) /\ IsProgress(l) /\ IsProgress(x)
                 /\ x.type = "engine" /\ Seqno(x) = Seqno(i)
                 /\ Seqno(x) - x.delivery.skipped = Seqno(l) - l.delivery.skipped
                 /\ Covers(x) = Covers(l) \cup Covers(i)
        BY <3>6 DEF Merges
      <4> DEFINE before == received \o f
      <4>2. /\ before \in Seq(Genuine)
            /\ handed = Append(before, l)
            /\ received' \o events' = Append(before, x)
        BY <1>1, <2>1, <4>1, AppendToBoth, ConcatProperties
      <4> HIDE DEF handed, before
      <4>3. Semantic(Append(before, x)) = Semantic(sent')
        <5>1. Semantic(Append(before, x)) = Semantic(before) /\ Semantic(handed) = Semantic(before)
          BY <4>1, <4>2, SemanticOfAppend
        <5>2. QED
          BY <1>2, <3>2, <4>1, <5>1
      <4>4. Covered(Append(before, x)) = Covered(sent')
        <5>1. /\ Covered(Append(before, x)) = Covered(before) \cup Covers(x)
              /\ Covered(handed) = Covered(before) \cup Covers(l)
          BY <4>1, <4>2, ContentsOfAppend
        <5>2. QED
          BY <1>2, <3>2, <4>1, <5>1
      <4>5. /\ Ordered(before)
            /\ \A k \in DOMAIN before : \A m \in Covers(before[k]), n \in Covers(l) : m < n
        BY <1>2, <4>1, <4>2, ContentsOfAppend
      <4>6. /\ l.type = "engine" /\ Seqno(l) \in Nat
            /\ Seqno(l) - l.delivery.skipped \in Nat
            /\ Seqno(l) - l.delivery.skipped \in Covers(l)
        BY <4>1, ItemKinds
      <4>7. Covers(x) = (Seqno(l) - l.delivery.skipped) .. Seqno(x) /\ Seqno(x) \in Nat
        BY <4>1, ItemKinds
      <4>8. ASSUME NEW k \in DOMAIN before, NEW m \in Covers(before[k]), NEW n \in Covers(x)
            PROVE  m < n
        <5>1. m < Seqno(l) - l.delivery.skipped
          BY <4>5, <4>6, <4>8
        <5>2. n \in Int /\ Seqno(l) - l.delivery.skipped <= n
          BY <4>6, <4>7, <4>8
        <5>3. m \in Int
          <6>1. before[k] \in Genuine
            BY <4>2, ElementOfSeq, LenProperties
          <6>2. QED
            BY <4>8, <6>1, ItemKinds
        <5>4. QED
          BY <4>6, <5>1, <5>2, <5>3
      <4>9. Ordered(Append(before, x))
        BY <4>1, <4>2, <4>5, <4>8, ContentsOfAppend
      <4>10. Below(Append(before, x), offered' + 1)
        <5>1. Below(before, offered' + 1)
          BY <2>1, <2>3, <4>1, <4>2, ContentsOfAppend
        <5>2. i.type = "engine" /\ Seqno(x) < offered' + 1
          BY <2>1, <2>2, <4>1, ItemKinds
        <5>3. QED
          BY <2>1, <4>1, <4>2, <5>1, <5>2, ContentsOfAppend
      <4>11. QED
        BY <3>1, <4>2, <4>3, <4>4, <4>9, <4>10 DEF Lossless
    <3>7. events' = Append(events, i) \/ Merges(events, events', i)
      BY <1>1, <3>1, EnqueueCases
    <3>8. QED
      BY <3>5, <3>6, <3>7
  <2>7. QED
    BY <1>5, <2>4, <2>5, <2>6 DEF Delivers, Send
<1>6. QED
  BY <1>3, <1>4, <1>5, StepKinds

-----------------------------------------------------------------------------
(* Theorems.                                                               *)

(* Every step keeps the invariant.                                         *)
LEMMA QueueStep ==
  ASSUME QueueInv, [Next]_vars
  PROVE  QueueInv'
<1>1. semanticEvents \in Nat
  BY CountIsFinite DEF QueueInv, ContentsTyped, Counted
<1>2. QED
  BY <1>1, ControlStep, ContentsStep, CountedStep, WakeupsStep, LosslessStep DEF QueueInv

(* The queue begins empty, with nobody waiting.                            *)
LEMMA QueueStart ==
  ASSUME Init
  PROVE  QueueInv
<1> USE DEF Init
<1>1. <<>> \in Seq(Genuine) /\ Len(<<>>) = 0 /\ <<>> \o <<>> = <<>> /\ DOMAIN <<>> = {}
  BY EmptySeq, ConcatEmptySeq
<1>2. ControlTyped
  <2>1. 0 \in 0..MaxKeys
    BY EventQueueBounds
  <2>2. QED
    BY <2>1 DEF ControlTyped
<1>3. ContentsTyped
  BY <1>1, OffersAreFresh, EventQueueBounds DEF ContentsTyped
<1>4. Counted
  <2>1. SemanticAt(<<>>) = {}
    BY <1>1 DEF SemanticAt
  <2>2. SemanticCount(<<>>) = 0
    BY <1>1, <2>1, CountIsFinite, FS_EmptySet
  <2>3. NoTwoRuns(<<>>)
    BY <1>1 DEF NoTwoRuns
  <2>4. QED
    BY <2>2, <2>3, SemanticCapacityAssumption DEF Counted
<1>5. Wakeups /\ NobodyIsStranded
  BY DEF Wakeups, NobodyIsStranded
<1>6. Lossless
  <2>1. Ordered(<<>>) /\ Below(<<>>, offered + 1)
    BY <1>1 DEF Ordered, Below
  <2>2. QED
    BY <1>1, <2>1 DEF Lossless
<1>7. QED
  BY <1>2, <1>3, <1>4, <1>5, <1>6 DEF QueueInv

(* The invariant holds throughout.                                         *)
THEOREM QueueInvariance == Spec => []QueueInv
<1>1. Init => QueueInv
  BY QueueStart
<1>2. QueueInv /\ [Next]_vars => QueueInv'
  BY QueueStep
<1>3. QED
  BY <1>1, <1>2, PTL DEF Spec

(* Each variable stays within its type, whatever is merged.                *)
THEOREM QueueTypeCorrect == Spec => []TypeOK
<1>1. QueueInv => TypeOK
  <2> SUFFICES ASSUME QueueInv PROVE TypeOK
    OBVIOUS
  <2>1. Genuine \subseteq Item /\ Fresh \subseteq Item
    BY DEF Genuine, Fresh
  <2>2. events \in Seq(Item) /\ sent \in Seq(Item) /\ received \in Seq(Item)
    BY <2>1, SeqMonotonic DEF QueueInv, ContentsTyped
  <2>3. semanticEvents \in Nat
    BY CountIsFinite DEF QueueInv, ContentsTyped, Counted
  <2>4. QED
    BY <2>1, <2>2, <2>3 DEF QueueInv, ControlTyped, ContentsTyped, TypeOK
<1>2. QED
  BY <1>1, QueueInvariance, PTL

(* However long the engine only reports progress, the queue is bounded,    *)
(* and the count its back pressure works by is exact.                      *)
THEOREM BoundedQueue == Spec => []QueueIsBounded
<1>1. QueueInv => QueueIsBounded
  <2> SUFFICES ASSUME QueueInv PROVE QueueIsBounded
    OBVIOUS
  <2>1. events \in Seq(Genuine) /\ Counted
    BY DEF QueueInv, ContentsTyped
  <2>2. /\ Len(events) \in Nat /\ SemanticCount(events) \in Nat
        /\ Len(events) <= 2 * SemanticCount(events) + 1
    BY <2>1, CountIsFinite, RunsBoundLength, LenProperties DEF Counted
  <2>3. Len(events) <= 2 * SemanticCapacity + 1
    BY <2>1, <2>2, SemanticCapacityAssumption DEF Counted
  <2>4. QED
    BY <2>1, <2>3 DEF Counted, NoTwoRuns, QueueIsBounded
<1>2. QED
  BY <1>1, QueueInvariance, PTL

(* No wakeup is lost: neither thread sleeps on something that has already  *)
(* happened and that nobody is about to announce.                          *)
THEOREM NoLostWakeup == Spec => []NobodyIsStranded
<1>1. QueueInv => NobodyIsStranded
  BY DEF QueueInv
<1>2. QED
  BY <1>1, QueueInvariance, PTL

(* What was accepted arrives or waits, once and in order, and a merged     *)
(* event accounts for each one it replaced.                                *)
THEOREM LosslessQueue == Spec => []NothingIsLost
<1>1. QueueInv => NothingIsLost
  BY DEF QueueInv, Lossless, Ordered, NothingIsLost
<1>2. QED
  BY <1>1, QueueInvariance, PTL
=============================================================================
