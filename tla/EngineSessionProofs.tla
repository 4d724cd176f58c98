------------------------- MODULE EngineSessionProofs -------------------------
(***************************************************************************)
(* The two halves of an EngineSession: what arrives through its channel,   *)
(* and how it gets rid of the engine.                                      *)
(*                                                                         *)
(* The channel: at any moment the bytes in the decoder's hands and in the  *)
(* pipe are those of the events written behind the last frame that was     *)
(* made, one after the other, the last one perhaps in part (NothingElse).  *)
(* So a frame the decoder has all bytes of is the next one that was        *)
(* written.  Layout says it by where each frame begins, and four lemmas    *)
(* tell what reading and writing do to that.                               *)
(***************************************************************************)
EXTENDS EngineChannel, EngineCleanup, SequenceTheorems, FiniteSetTheorems, TLAPS

-----------------------------------------------------------------------------
(* The bytes of frames in a row.                                           *)

(* Where the frames behind the first a begin in the stream, up to the last *)
(* frame, of which so many bytes are there.                                *)
Layout(a, last, size, stream, there, offset) ==
  /\ \A n \in (a + 1)..(last - 1) : offset[n + 1] = offset[n] + size[n]
  /\ \A n, m \in (a + 1)..last : n < m => offset[n] + size[n] <= offset[m]
  /\ offset[a + 1] = 0 /\ Len(stream) = offset[last] + there
  /\ \A n \in (a + 1)..last : \A i \in 1..size[n] :
       offset[n] + i <= Len(stream) => stream[offset[n] + i] = <<n, i>>

(* The stream holds those frames and nothing else. *)
OnTheWay(a, last, size, stream, there) ==
  /\ a = last => Len(stream) = 0
  /\ a < last =>
       \E offset \in [(a + 1)..last -> Nat] : Layout(a, last, size, stream, there, offset)

(* It begins with the frame behind the first a. *)
LEMMA FirstBytes ==
  ASSUME NEW a \in Nat, NEW last \in Nat, a < last, NEW size, NEW stream, NEW there,
         OnTheWay(a, last, size, stream, there), size[a + 1] \in Nat,
         NEW i \in 1..size[a + 1], i <= Len(stream)
  PROVE  stream[i] = <<a + 1, i>>
<1>1. PICK o \in [(a + 1)..last -> Nat] : Layout(a, last, size, stream, there, o)
  BY DEF OnTheWay
<1>2. o[a + 1] = 0 /\ a + 1 \in (a + 1)..last /\ i \in Nat
  BY <1>1 DEF Layout
<1>3. o[a + 1] + i = i
  BY <1>2
<1>4. QED
  BY <1>1, <1>2, <1>3 DEF Layout

(* More bytes of the last frame. *)
LEMMA MoreBytes ==
  ASSUME NEW a \in Nat, NEW last \in Nat, a < last, NEW size, NEW stream, NEW there \in Nat,
         \A n \in 1..last : size[n] \in Nat,
         OnTheWay(a, last, size, stream, there),
         NEW more \in Nat, there + more <= size[last],
         NEW longer, Len(longer) = Len(stream) + more, Len(stream) \in Nat,
         \A i \in 1..Len(stream) : longer[i] = stream[i],
         \A j \in 1..more : longer[Len(stream) + j] = <<last, there + j>>
  PROVE  OnTheWay(a, last, size, longer, there + more)
<1>1. PICK o \in [(a + 1)..last -> Nat] : Layout(a, last, size, stream, there, o)
  BY DEF OnTheWay
<1>2. last \in (a + 1)..last /\ \A n \in (a + 1)..last : o[n] \in Nat /\ size[n] \in Nat
  BY <1>1
<1>3. Len(longer) = o[last] + (there + more) /\ Len(stream) = o[last] + there
  BY <1>1, <1>2 DEF Layout
<1>4. ASSUME NEW n \in (a + 1)..last, NEW i \in 1..size[n], o[n] + i <= Len(longer)
      PROVE  longer[o[n] + i] = <<n, i>>
  <2>1. /\ o[n] \in Nat /\ size[n] \in Nat /\ i \in Nat /\ n \in Nat /\ n <= last /\ last \in Nat
        /\ o[last] \in Nat /\ there \in Nat /\ more \in Nat /\ Len(stream) \in Nat
        /\ 1 <= i /\ i <= size[n] /\ o[n] + i <= Len(longer)
    BY <1>2, <1>4
  <2>2. CASE o[n] + i <= Len(stream)
    <3>1. stream[o[n] + i] = <<n, i>>
      BY <1>1, <2>2 DEF Layout
    <3>2. o[n] + i \in 1..Len(stream)
      BY <2>1, <2>2
    <3>3. QED
      BY <3>1, <3>2
  <2>3. CASE ~(o[n] + i <= Len(stream))
    <3>1. n = last
      <4>1. n < last => o[n] + size[n] <= o[last]
        BY <1>1, <1>2 DEF Layout
      <4>2. QED
        BY ONLY <1>3, <2>1, <2>3, <4>1
    <3> DEFINE j == o[n] + i - Len(stream)
    <3>2. j \in 1..more /\ Len(stream) + j = o[n] + i /\ there + j = i
      BY ONLY <1>3, <2>1, <2>3, <3>1, SMTT(30)
    <3> HIDE DEF j
    <3>3. longer[Len(stream) + j] = <<last, there + j>>
      BY <3>2
    <3>4. QED
      BY <3>1, <3>2, <3>3
  <2>4. QED
    BY <2>2, <2>3
<1>5. Layout(a, last, size, longer, there + more, o)
  BY <1>1, <1>3, <1>4 DEF Layout
<1>6. QED
  BY <1>5 DEF OnTheWay

(* The first byte of another frame, once the last is complete. *)
LEMMA AnotherFrame ==
  ASSUME NEW a \in Nat, NEW last \in Nat, a <= last, NEW size, NEW stream, NEW there \in Nat,
         \A n \in 1..last : size[n] \in Nat,
         OnTheWay(a, last, size, stream, there), a < last => there = size[last],
         NEW larger, \A n \in 1..last : larger[n] = size[n],
         larger[last + 1] \in Nat \ {0},
         NEW longer, Len(longer) = Len(stream) + 1, Len(stream) \in Nat,
         \A i \in 1..Len(stream) : longer[i] = stream[i],
         longer[Len(stream) + 1] = <<last + 1, 1>>
  PROVE  OnTheWay(a, last + 1, larger, longer, 1)
<1> DEFINE next == last + 1
<1>1. next \in Nat /\ next = last + 1 /\ larger[next] \in Nat \ {0} /\ a < next
  OBVIOUS
<1> HIDE DEF next
<1>2. CASE a = last
  <2> DEFINE o == [n \in (a + 1)..next |-> 0]
  <2>1. a + 1 = next /\ Len(stream) = 0 /\ Len(longer) = 1 /\ longer[1] = <<next, 1>>
    BY <1>1, <1>2 DEF OnTheWay
  <2>2. \A n \in (a + 1)..next : n = next
    BY <1>1, <2>1
  <2>3. \A n \in (a + 1)..(next - 1) : FALSE
    BY <1>1, <2>1
  <2>4. next \in (a + 1)..next
    BY <1>1, <2>1
  <2>5. o \in [(a + 1)..next -> Nat] /\ o[next] = 0
    BY <2>4
  <2> HIDE DEF o
  <2>6. ASSUME NEW i \in 1..larger[next], o[next] + i <= Len(longer)
        PROVE  longer[o[next] + i] = <<next, i>>
    <3>1. i \in Nat /\ i = 1 /\ o[next] + i = 1
      BY <1>1, <2>1, <2>5, <2>6
    <3>2. QED
      BY <2>1, <3>1
  <2>7. \A n, m \in (a + 1)..next : ~(n < m)
    <3>1. ~(next < next)
      BY <1>1
    <3>2. QED
      BY <2>2, <3>1
  <2>8. o[a + 1] = 0 /\ Len(longer) = o[next] + 1
    BY <2>1, <2>5
  <2>9. \A n \in (a + 1)..next : \A i \in 1..larger[n] :
          o[n] + i <= Len(longer) => longer[o[n] + i] = <<n, i>>
    BY <2>2, <2>6
  <2>10. Layout(a, next, larger, longer, 1, o)
    BY <2>3, <2>7, <2>8, <2>9 DEF Layout
  <2>11. QED
    BY <1>1, <2>5, <2>10 DEF OnTheWay, next
<1>3. CASE a < last
  <2>1. PICK b \in [(a + 1)..last -> Nat] : Layout(a, last, size, stream, there, b)
    BY <1>3 DEF OnTheWay
  <2> DEFINE o == [n \in (a + 1)..next |-> IF n = next THEN Len(stream) ELSE b[n]]
  <2>2. /\ \A n \in (a + 1)..last : n \in 1..last /\ n # next /\ n \in (a + 1)..next
        /\ \A n \in (a + 1)..next : n \in Nat /\ (n = next \/ n \in (a + 1)..last)
        /\ next \in (a + 1)..next /\ last \in (a + 1)..last /\ a + 1 \in (a + 1)..last
    BY <1>1, <1>3
  <2>3. o \in [(a + 1)..next -> Nat] /\ o[next] = Len(stream) /\ \A n \in (a + 1)..last : o[n] = b[n]
    BY <2>2
  <2> HIDE DEF o
  <2>4. \A n \in (a + 1)..last : larger[n] = size[n] /\ size[n] \in Nat /\ b[n] \in Nat
    BY <2>2
  <2>5. Len(stream) = b[last] + size[last]
    BY <1>3, <2>1 DEF Layout
  <2>6. ASSUME NEW n \in (a + 1)..last PROVE b[n] + size[n] <= Len(stream)
    <3>1. n = last \/ n < last
      BY <2>2
    <3>2. n < last => b[n] + size[n] <= b[last]
      BY <2>1, <2>2 DEF Layout
    <3>3. b[n] \in Nat /\ size[n] \in Nat /\ b[last] \in Nat /\ size[last] \in Nat
      BY <2>2, <2>4
    <3>4. QED
      BY <2>5, <3>1, <3>2, <3>3, SMTT(30)
  <2>7. ASSUME NEW n \in (a + 1)..(next - 1) PROVE o[n + 1] = o[n] + larger[n]
    <3>1. n \in (a + 1)..last /\ (n = last \/ (n \in (a + 1)..(last - 1) /\ n + 1 \in (a + 1)..last))
      BY <1>1
    <3>2. CASE n = last
      BY <1>1, <2>2, <2>3, <2>4, <2>5, <3>2
    <3>3. CASE n \in (a + 1)..(last - 1) /\ n + 1 \in (a + 1)..last
      <4>1. b[n + 1] = b[n] + size[n]
        BY <2>1, <3>3 DEF Layout
      <4>2. QED
        BY <2>3, <2>4, <3>1, <3>3, <4>1
    <3>4. QED
      BY <3>1, <3>2, <3>3
  <2>8. ASSUME NEW n \in (a + 1)..next, NEW m \in (a + 1)..next, n < m
        PROVE  o[n] + larger[n] <= o[m]
    <3>1. n \in (a + 1)..last
      BY <1>1, <2>8
    <3>2. CASE m = next
      BY <2>3, <2>4, <2>6, <3>1, <3>2
    <3>3. CASE m \in (a + 1)..last
      <4>1. b[n] + size[n] <= b[m]
        BY <2>1, <2>8, <3>1, <3>3 DEF Layout
      <4>2. QED
        BY <2>3, <2>4, <3>1, <3>3, <4>1
    <3>4. QED
      BY <2>2, <3>2, <3>3
  <2>9. ASSUME NEW n \in (a + 1)..next, NEW i \in 1..larger[n], o[n] + i <= Len(longer)
        PROVE  longer[o[n] + i] = <<n, i>>
    <3>1. CASE n = next
      <4>1. i \in Nat /\ i = 1
        BY <1>1, <2>3, <2>9, <3>1
      <4>2. QED
        BY <1>1, <2>3, <3>1, <4>1
    <3>2. CASE n \in (a + 1)..last
      <4>1. o[n] = b[n] /\ larger[n] = size[n] /\ b[n] \in Nat /\ size[n] \in Nat /\ i \in 1..size[n]
        BY <2>3, <2>4, <3>2
      <4>2. b[n] + i <= Len(stream) /\ b[n] + i \in 1..Len(stream)
        <5>1. b[n] + size[n] <= Len(stream) /\ Len(stream) \in Nat
          BY <2>6, <3>2
        <5>2. i \in Nat /\ 1 <= i /\ i <= size[n] /\ b[n] \in Nat /\ size[n] \in Nat
          BY <4>1
        <5> HIDE DEF o, next
        <5>3. QED
          BY ONLY <5>1, <5>2
      <4>3. stream[b[n] + i] = <<n, i>>
        BY <2>1, <3>2, <4>1, <4>2 DEF Layout
      <4>4. QED
        BY <4>1, <4>2, <4>3
    <3>3. QED
      BY <2>2, <3>1, <3>2
  <2>10. o[a + 1] = 0 /\ Len(longer) = o[next] + 1
    BY <2>1, <2>2, <2>3 DEF Layout
  <2>11. Layout(a, next, larger, longer, 1, o)
    BY <2>7, <2>8, <2>9, <2>10 DEF Layout
  <2>12. QED
    BY <1>1, <2>3, <2>11 DEF OnTheWay, next
<1>4. QED
  BY <1>2, <1>3

(* Without its first frame. *)
LEMMA FrameGone ==
  ASSUME NEW a \in Nat, NEW last \in Nat, a < last, NEW size, NEW stream, NEW there \in Nat,
         \A n \in 1..last : size[n] \in Nat, there <= size[last],
         OnTheWay(a, last, size, stream, there),
         NEW rest, Len(rest) \in Nat, Len(stream) = size[a + 1] + Len(rest),
         \A i \in 1..Len(rest) : rest[i] = stream[size[a + 1] + i]
  PROVE  OnTheWay(a + 1, last, size, rest, there) /\ (a + 1 = last => there = size[last])
<1>1. PICK b \in [(a + 1)..last -> Nat] : Layout(a, last, size, stream, there, b)
  BY DEF OnTheWay
<1> DEFINE f == a + 1
           s == size[f]
<1>2. /\ f \in Nat /\ f = a + 1 /\ f \in f..last /\ last \in f..last /\ f <= last
      /\ \A n \in f..last : n \in Nat /\ b[n] \in Nat /\ size[n] \in Nat
      /\ s \in Nat /\ s = size[f]
  BY <1>1
<1>3. /\ \A n \in f..(last - 1) : b[n + 1] = b[n] + size[n]
      /\ \A n, m \in f..last : n < m => b[n] + size[n] <= b[m]
      /\ b[f] = 0 /\ Len(stream) = b[last] + there /\ Len(stream) = s + Len(rest)
      /\ \A n \in f..last : \A i \in 1..size[n] :
           b[n] + i <= Len(stream) => stream[b[n] + i] = <<n, i>>
      /\ \A i \in 1..Len(rest) : rest[i] = stream[s + i]
  BY <1>1 DEF Layout
<1> HIDE DEF f, s
<1>4. CASE f = last
  <2>1. Len(rest) = 0 /\ there = size[last]
    BY <1>2, <1>3, <1>4
  <2>2. QED
    BY <1>2, <1>4, <2>1 DEF OnTheWay
<1>5. CASE f < last
  <2> DEFINE o == [n \in (f + 1)..last |-> b[n] - s]
  <2>1. ASSUME NEW n \in (f + 1)..last PROVE b[n] - s \in Nat /\ n \in f..last
    <3>1. n \in f..last /\ f < n
      BY <1>2, <1>5
    <3>2. b[f] + size[f] <= b[n]
      BY <1>2, <1>3, <3>1
    <3>3. QED
      BY <1>2, <1>3, <3>1, <3>2
  <2>2. o \in [(f + 1)..last -> Nat] /\ \A n \in (f + 1)..last : o[n] = b[n] - s
    BY <2>1
  <2> HIDE DEF o
  <2>3. f + 1 \in (f + 1)..last /\ last \in (f + 1)..last /\ f \in f..(last - 1)
    BY <1>2, <1>5
  <2>4. o[f + 1] = 0
    <3>1. b[f + 1] = b[f] + size[f]
      BY <1>3, <2>3
    <3>2. QED
      BY <1>2, <1>3, <2>2, <2>3, <3>1
  <2>5. Len(rest) = o[last] + there
    <3>1. o[last] = b[last] - s /\ b[last] \in Nat
      BY <1>2, <2>2, <2>3
    <3> PICK x, y : x = b[last] /\ y = Len(rest)
      OBVIOUS
    <3>2. x \in Nat /\ s \in Nat /\ x + there = s + y /\ y \in Nat /\ there \in Nat
      BY <1>2, <1>3, <3>1
    <3>3. y = (x - s) + there
      BY ONLY <3>2
    <3>4. QED
      BY <3>1, <3>3
  <2>6. ASSUME NEW n \in (f + 1)..(last - 1) PROVE o[n + 1] = o[n] + size[n]
    <3>1. n \in f..(last - 1) /\ n \in (f + 1)..last /\ n + 1 \in (f + 1)..last /\ n \in f..last
      BY <1>2
    <3>2. b[n + 1] = b[n] + size[n]
      BY <1>3, <3>1
    <3>3. o[n + 1] = b[n + 1] - s /\ o[n] = b[n] - s /\ b[n] \in Nat /\ size[n] \in Nat
      BY <1>2, <2>2, <3>1
    <3> PICK x, y, z, w : x = b[n] /\ y = size[n] /\ z = s /\ w = b[n + 1]
      OBVIOUS
    <3> PICK p, q : p = o[n + 1] /\ q = o[n]
      OBVIOUS
    <3>4. x \in Nat /\ y \in Nat /\ z \in Nat /\ w = x + y /\ p = w - z /\ q = x - z
      BY <1>2, <3>2, <3>3
    <3>5. p = q + y
      BY ONLY <3>4
    <3>6. QED
      BY <3>5
  <2>7. ASSUME NEW n \in (f + 1)..last, NEW m \in (f + 1)..last, n < m
        PROVE  o[n] + size[n] <= o[m]
    <3>1. b[n] + size[n] <= b[m]
      BY <1>3, <2>1, <2>7
    <3>2. o[n] = b[n] - s /\ o[m] = b[m] - s /\ b[n] \in Nat /\ b[m] \in Nat /\ size[n] \in Nat
      BY <1>2, <2>1, <2>2
    <3>3. s \in Nat
      BY <1>2
    <3>4. QED
      BY ONLY <3>1, <3>2, <3>3
  <2>8. ASSUME NEW n \in (f + 1)..last, NEW i \in 1..size[n], o[n] + i <= Len(rest)
        PROVE  rest[o[n] + i] = <<n, i>>
    <3>1. /\ n \in f..last /\ o[n] = b[n] - s /\ b[n] \in Nat /\ size[n] \in Nat /\ i \in Nat
          /\ o[n] \in Nat
      BY <1>2, <2>1, <2>2
    <3>2. /\ b[n] + i <= Len(stream) /\ o[n] + i \in 1..Len(rest) /\ s + (o[n] + i) = b[n] + i
      <4>1. /\ s \in Nat /\ Len(rest) \in Nat /\ Len(stream) = s + Len(rest)
            /\ o[n] + i <= Len(rest) /\ 1 <= i
        BY <1>2, <1>3, <2>8
      <4>2. QED
        <5> PICK x, y, z, u : x = o[n] /\ y = b[n] /\ z = Len(rest) /\ u = s
          OBVIOUS
        <5>1. /\ x = y - u /\ y \in Nat /\ i \in Nat /\ x \in Nat /\ u \in Nat /\ z \in Nat
              /\ x + i <= z /\ 1 <= i
          BY <3>1, <4>1
        <5>2. y + i <= u + z /\ x + i \in 1..z /\ u + (x + i) = y + i
          BY ONLY <5>1
        <5>3. QED
          BY <4>1, <5>2
    <3>3. stream[b[n] + i] = <<n, i>>
      BY <1>3, <3>1, <3>2
    <3>4. rest[o[n] + i] = stream[s + (o[n] + i)]
      BY <1>3, <3>2
    <3>5. QED
      BY <3>2, <3>3, <3>4
  <2>9. Layout(f, last, size, rest, there, o)
    BY <2>4, <2>5, <2>6, <2>7, <2>8 DEF Layout
  <2>10. OnTheWay(f, last, size, rest, there)
    <3>1. f # last
      BY <1>2, <1>5
    <3>2. QED
      BY <2>2, <2>9, <3>1 DEF OnTheWay
  <2>11. f # last
    BY <1>2, <1>5
  <2>12. QED
    BY <1>2, <2>10, <2>11
<1>6. QED
  BY <1>2, <1>4, <1>5

-----------------------------------------------------------------------------
(* The bytes of an event's frame, of each event's; how many of the last    *)
(* one's have been written; the bytes between the engine and the frames    *)
(* that were made of them, and how many those are.                         *)
Size(n) == PrefixBytes + events[n].length
Sizes == [n \in 1..Current |-> Size(n)]
At == IF Writing THEN cursor ELSE Size(Current)
Bytestream == partial \o stdout
Made == Len(taken) + Len(Decoded)

Pair == Nat \X Nat
Outcome ==
  [type : {"eof"}] \cup [type : {"frame"}, bytes : Seq(Pair)]
  \cup [type : {"error"}, why : {"oversized", "truncatedPrefix", "truncatedPayload"}]

(* What each variable holds, as far as the argument goes. *)
Shapes ==
  /\ fresh \in BOOLEAN /\ events \in Seq([length : Nat, verdict : BOOLEAN])
  /\ cursor \in Nat /\ (Writing => Current > 0 /\ cursor <= Size(Current))
  /\ stdout \in Seq(Pair) /\ partial \in Seq(Pair)
  /\ taken \in Seq(Seq(Pair))
  /\ decoder \in {"reading", "sending", "ended"}
  /\ frames \in Seq(Outcome) /\ Len(frames) <= 1
  /\ decoder = "sending" => result \in Outcome

(* Nothing follows the end of stdout or a failure. *)
LastWord ==
  /\ decoder # "reading" => partial = <<>>
  /\ decoder # "ended" => \A i \in DOMAIN frames : frames[i].type = "frame"

(* The decoder is still in step with the bytes. *)
InStep ==
  /\ pc # "dropped"
  /\ decoder = "reading" \/ (decoder = "sending" /\ result.type = "frame")

(* What comes n-th is the n-th frame that was written, or the end behind   *)
(* the last one.                                                           *)
Arrives(r, n) ==
  /\ r.type = "frame" => n <= Current /\ r.bytes = Bytes(n)
  /\ r = CleanEof => StdoutClosed /\ stdout = <<>> /\ n = Current + 1

InOrder ==
  /\ Len(taken) <= Current
  /\ \A n \in 1..Len(taken) : taken[n] = Bytes(n)
  /\ \A i \in 1..Len(Decoded) : Arrives(Decoded[i], Len(taken) + i)

(* The bytes on their way are those of the frames behind the ones made.    *)
NothingElse ==
  InStep =>
    /\ OnTheWay(Made, Current, Sizes, Bytestream, At)
    /\ Made = Current /\ Writing => cursor = Size(Current)
    /\ partial # <<>> => Made < Current /\ Len(partial) <= Sizes[Made + 1]

Reported ==
  /\ report # "eventSequenceMismatch"
  /\ report = "ok" => /\ pc = "dropped" /\ engine = "exited"
                      /\ Len(taken) = Current /\ stdout = <<>>

ChannelInv == Shapes /\ LastWord /\ InOrder /\ NothingElse /\ Reported

-----------------------------------------------------------------------------
(* What the shapes give every step. *)

LEMMA Numbers ==
  ASSUME Shapes
  PROVE  /\ Current \in Nat /\ Len(taken) \in Nat /\ Len(partial) \in Nat /\ Len(stdout) \in Nat
         /\ Bytestream \in Seq(Pair) /\ Len(Bytestream) = Len(partial) + Len(stdout)
         /\ \A n \in 1..Current : /\ Sizes[n] = Size(n) /\ Size(n) \in Nat \ {0}
                                  /\ PrefixBytes <= Size(n) /\ events[n].length \in Nat
         /\ Current > 0 => At \in Nat /\ At > 0 /\ At <= Size(Current)
<1>1. /\ Current \in Nat /\ Len(taken) \in Nat /\ Len(partial) \in Nat /\ Len(stdout) \in Nat
      /\ Bytestream \in Seq(Pair) /\ Len(Bytestream) = Len(partial) + Len(stdout)
  BY LenProperties, ConcatProperties DEF Shapes, Current, Bytestream
<1>2. ASSUME NEW n \in 1..Current
      PROVE  /\ Sizes[n] = Size(n) /\ Size(n) \in Nat \ {0}
             /\ PrefixBytes <= Size(n) /\ events[n].length \in Nat
  <2>1. events[n] \in [length : Nat, verdict : BOOLEAN]
    BY ElementOfSeq DEF Shapes, Current
  <2>2. QED
    BY <2>1, SizesAssumption DEF Size, Sizes
<1>3. ASSUME Current > 0 PROVE At \in Nat /\ At > 0 /\ At <= Size(Current)
  <2>1. Current \in 1..Current
    BY <1>1, <1>3
  <2>2. Size(Current) \in Nat /\ Size(Current) > 0
    BY <1>2, <2>1
  <2>3. Writing => cursor \in Nat /\ cursor > 0 /\ cursor <= Size(Current)
    BY DEF Shapes, Writing
  <2>4. QED
    BY <2>2, <2>3 DEF At
<1>4. QED
  BY <1>1, <1>2, <1>3

(* What the session may yet see, by what the decoder does. *)
LEMMA AtHand ==
  ASSUME Shapes
  PROVE  /\ pc = "dropped" => Decoded = <<>>
         /\ pc # "dropped" /\ decoder # "sending" => Decoded = frames
         /\ pc # "dropped" /\ decoder = "sending" => Decoded = frames \o <<result>>
         /\ Decoded \in Seq(Outcome) /\ Len(Decoded) \in Nat /\ Made \in Nat
         /\ InStep /\ LastWord => \A i \in 1..Len(Decoded) : Decoded[i].type = "frame"
<1>1. frames \in Seq(Outcome) /\ <<>> \in Seq(Outcome) /\ Len(taken) \in Nat
  BY LenProperties, EmptySeq DEF Shapes
<1>2. frames \o <<>> = frames
  BY <1>1, ConcatEmptySeq
<1>3. pc # "dropped" /\ decoder # "sending" => Decoded = frames
  BY <1>2 DEF Decoded
<1>4. pc # "dropped" /\ decoder = "sending" => Decoded = frames \o <<result>> /\ result \in Outcome
  BY DEF Decoded, Shapes
<1>5. pc = "dropped" => Decoded = <<>>
  BY DEF Decoded
<1>6. ASSUME NEW r \in Outcome
      PROVE  /\ frames \o <<r>> \in Seq(Outcome) /\ Len(frames \o <<r>>) = Len(frames) + 1
             /\ \A i \in 1..Len(frames) : (frames \o <<r>>)[i] = frames[i]
             /\ (frames \o <<r>>)[Len(frames) + 1] = r
  BY <1>1
<1>7. Decoded \in Seq(Outcome)
  BY <1>1, <1>3, <1>4, <1>5, <1>6
<1>8. Len(Decoded) \in Nat /\ Made \in Nat
  BY <1>1, <1>7, LenProperties DEF Made
<1>9. ASSUME InStep, LastWord, NEW i \in 1..Len(Decoded) PROVE Decoded[i].type = "frame"
  <2>1. pc # "dropped" /\ \A j \in 1..Len(frames) : frames[j].type = "frame"
    <3>1. DOMAIN frames = 1..Len(frames)
      BY <1>1, LenProperties
    <3>2. QED
      BY <1>9, <3>1 DEF InStep, LastWord
  <2>2. CASE decoder # "sending"
    BY <1>3, <2>1, <2>2
  <2>3. CASE decoder = "sending"
    <3>1. result.type = "frame" /\ Decoded = frames \o <<result>> /\ result \in Outcome
      BY <1>4, <1>9, <2>1, <2>3 DEF InStep
    <3>2. Len(Decoded) = Len(frames) + 1 /\ Len(frames) \in Nat
      BY <1>1, <1>6, <3>1, LenProperties
    <3>3. i \in 1..Len(frames) \/ i = Len(frames) + 1
      BY <3>2
    <3>4. QED
      BY <1>6, <2>1, <3>1, <3>3
  <2>4. QED
    BY <2>2, <2>3
<1>10. QED
  BY <1>3, <1>4, <1>5, <1>7, <1>8, <1>9

(* As long as the decoder is in step it has made nothing up. *)
LEMMA MadeFromWritten ==
  ASSUME Shapes, LastWord, InOrder, InStep
  PROVE  Made <= Current
<1>1. /\ Len(Decoded) \in Nat /\ Len(taken) \in Nat /\ Len(taken) <= Current
      /\ \A i \in 1..Len(Decoded) : Decoded[i].type = "frame" /\ Arrives(Decoded[i], Len(taken) + i)
  BY Numbers, AtHand DEF InOrder
<1>2. CASE Len(Decoded) = 0
  BY <1>1, <1>2 DEF Made
<1>3. CASE Len(Decoded) # 0
  <2>1. Len(Decoded) \in 1..Len(Decoded)
    BY <1>1, <1>3
  <2>2. QED
    BY <1>1, <2>1 DEF Arrives, Made
<1>4. QED
  BY <1>2, <1>3

(* Before anything was written nothing is on its way. *)
LEMMA ChannelInvInit == Init => ChannelInv
<1> SUFFICES ASSUME Init PROVE ChannelInv
  OBVIOUS
<1>1. /\ fresh = FALSE /\ events = <<>> /\ cursor = 0 /\ stdout = <<>> /\ partial = <<>> /\ taken = <<>>
      /\ decoder = "reading" /\ frames = <<>> /\ pc = "idle" /\ report = "none"
  BY DEF Init
<1>2. Shapes
  <2>1. fresh \in BOOLEAN
    BY <1>1, Zenon
  <2>2. QED
    BY <1>1, <2>1, EmptySeq DEF Shapes, Writing
<1>3. LastWord
  BY <1>1 DEF LastWord
<1>4. Len(Decoded) = 0 /\ Len(taken) = 0 /\ Current = 0
  BY <1>1, <1>2, AtHand, EmptySeq DEF Current
<1>5. InOrder
  BY <1>4 DEF InOrder
<1>6. Made = 0 /\ Bytestream = <<>> /\ ~Writing
  BY <1>1, <1>4 DEF Made, Bytestream, Writing
<1>7. NothingElse
  BY <1>1, <1>4, <1>6, EmptySeq DEF NothingElse, OnTheWay
<1>8. Reported
  BY <1>1 DEF Reported
<1>9. QED
  BY <1>2, <1>3, <1>5, <1>7, <1>8 DEF ChannelInv

-----------------------------------------------------------------------------
(* Steps that leave the bytes and the frames alone: the end of a frame, of *)
(* the engine or of the session among them.                                *)
LEMMA QuietStep ==
  ASSUME ChannelInv,
         UNCHANGED <<events, stdout, decoder, partial, result, frames, taken>>,
         UNCHANGED cursor \/ (Writing /\ cursor = Size(Current) /\ cursor' = 0),
         fresh' \in BOOLEAN,
         pc = "dropped" => pc' = "dropped",
         StdoutClosed => StdoutClosed',
         report' = "ok" => report = "ok" /\ engine' = engine,
         report' # "eventSequenceMismatch"
  PROVE  ChannelInv'
<1> USE DEF ChannelInv
<1>1. /\ events' = events /\ stdout' = stdout /\ decoder' = decoder /\ partial' = partial
      /\ result' = result /\ frames' = frames /\ taken' = taken
  OBVIOUS
<1>2. /\ Current' = Current /\ Bytestream' = Bytestream
      /\ \A n : Size(n)' = Size(n) /\ Bytes(n)' = Bytes(n)
  BY <1>1 DEF Current, Bytestream, Size, Bytes
<1>3. At' = At /\ (Writing' => Writing /\ cursor' = cursor)
  BY <1>2 DEF At, Writing
<1>4. Shapes'
  BY <1>1, <1>2, <1>3 DEF Shapes
<1>5. LastWord'
  BY <1>1 DEF LastWord
<1>6. Sizes' = Sizes
  BY <1>2 DEF Sizes
<1>7. Reported'
  BY <1>1, <1>2 DEF Reported
<1>8. CASE pc' = "dropped"
  <2>1. Decoded' = <<>>
    BY <1>8 DEF Decoded
  <2>2. InOrder'
    BY <1>1, <1>2, <2>1 DEF InOrder
  <2>3. NothingElse'
    BY <1>8 DEF NothingElse, InStep
  <2>4. QED
    BY <1>4, <1>5, <1>7, <2>2, <2>3
<1>9. CASE pc' # "dropped"
  <2>1. pc # "dropped" /\ Decoded' = Decoded
    BY <1>1, <1>9 DEF Decoded
  <2>2. Made' = Made /\ InStep' = InStep
    BY <1>1, <1>9, <2>1 DEF Made, InStep
  <2>3. ASSUME NEW r, NEW n, Arrives(r, n) PROVE Arrives(r, n)'
    BY <1>1, <1>2, <2>3 DEF Arrives
  <2>4. InOrder'
    BY <1>1, <1>2, <2>1, <2>3 DEF InOrder
  <2>5. NothingElse'
    BY <1>1, <1>2, <1>3, <1>6, <2>2 DEF NothingElse
  <2>6. QED
    BY <1>4, <1>5, <1>7, <2>4, <2>5
<1>10. QED
  BY <1>8, <1>9

-----------------------------------------------------------------------------
(* The engine's writes.                                                    *)

(* A step of the engine that writes bytes changes nothing for anybody else.*)
LEMMA WritingStep ==
  ASSUME ChannelInv,
         UNCHANGED <<decoder, partial, result, frames, taken, pc, report, engine, helper>>,
         engine = "running",
         Current' >= Current, Current' \in Nat,
         \A n \in 1..Current : Bytes(n)' = Bytes(n)
  PROVE  LastWord' /\ InOrder' /\ Reported' /\ Made' = Made /\ InStep' = InStep
<1> USE DEF ChannelInv
<1>1. LastWord'
  BY DEF LastWord
<1>2. Decoded' = Decoded /\ Made' = Made
  BY DEF Decoded, Made
<1>3. InStep' = InStep
  BY DEF InStep
<1>4. Current \in Nat /\ Len(taken) \in Nat /\ Len(Decoded) \in Nat
  BY Numbers, AtHand
<1>5. InOrder'
  <2>1. Len(taken)' <= Current' /\ \A n \in 1..Len(taken) : n \in 1..Current
    BY <1>4 DEF InOrder
  <2>2. \A n \in 1..Len(taken) : taken'[n] = Bytes(n)'
    BY <2>1 DEF InOrder
  <2>3. ASSUME NEW r, NEW n \in Nat \ {0}, Arrives(r, n) PROVE Arrives(r, n)'
    <3>1. r.type = "frame" => n <= Current' /\ r.bytes = Bytes(n)'
      BY <1>4, <2>3 DEF Arrives
    <3>2. r # CleanEof
      BY <2>3 DEF Arrives, StdoutClosed
    <3>3. QED
      BY <3>1, <3>2 DEF Arrives, CleanEof
  <2>4. \A i \in 1..Len(Decoded) : Len(taken) + i \in Nat \ {0}
    BY <1>4
  <2>5. \A i \in 1..Len(Decoded') : Arrives(Decoded[i], Len(taken) + i)'
    BY <1>2, <2>3, <2>4 DEF InOrder
  <2>6. QED
    BY <1>2, <2>1, <2>2, <2>5 DEF InOrder
<1>6. Reported'
  BY DEF Reported
<1>7. QED
  BY <1>1, <1>2, <1>3, <1>5, <1>6

(* Bytes that are written come behind those on their way. *)
LEMMA BytestreamGrows ==
  ASSUME Shapes, NEW w \in Seq(Pair), partial' = partial, stdout' = stdout \o w
  PROVE  /\ stdout' \in Seq(Pair)
         /\ Len(Bytestream') = Len(Bytestream) + Len(w)
         /\ \A i \in 1..Len(Bytestream) : Bytestream'[i] = Bytestream[i]
         /\ \A i \in 1..Len(w) : Bytestream'[Len(Bytestream) + i] = w[i]
<1>1. partial \in Seq(Pair) /\ stdout \in Seq(Pair) /\ Bytestream \in Seq(Pair)
  BY Numbers DEF Shapes
<1>2. Bytestream' = Bytestream \o w
  BY <1>1, ConcatAssociative DEF Bytestream
<1>3. Len(Bytestream) \in Nat /\ Len(w) \in Nat
  BY <1>1, LenProperties
<1>4. /\ Len(Bytestream') = Len(Bytestream) + Len(w)
      /\ \A i \in 1..(Len(Bytestream) + Len(w)) :
           Bytestream'[i] = IF i <= Len(Bytestream) THEN Bytestream[i] ELSE w[i - Len(Bytestream)]
  BY <1>1, <1>2, ConcatProperties
<1>5. ASSUME NEW i \in 1..Len(Bytestream) PROVE Bytestream'[i] = Bytestream[i]
  <2>1. i \in 1..(Len(Bytestream) + Len(w)) /\ i <= Len(Bytestream)
    BY <1>3
  <2>2. QED
    BY <1>4, <2>1
<1>6. ASSUME NEW i \in 1..Len(w) PROVE Bytestream'[Len(Bytestream) + i] = w[i]
  <2> DEFINE k == Len(Bytestream) + i
  <2>1. k \in 1..(Len(Bytestream) + Len(w)) /\ ~(k <= Len(Bytestream)) /\ k - Len(Bytestream) = i
    BY <1>3
  <2> HIDE DEF k
  <2>2. Bytestream'[k] = w[i]
    BY <1>4, <2>1
  <2>3. QED
    BY <2>2 DEF k
<1>7. stdout' \in Seq(Pair)
  BY <1>1, ConcatProperties
<1>8. QED
  BY <1>4, <1>5, <1>6, <1>7

(* The first byte of an event behind the last byte of the one before.      *)
LEMMA BeginFrameStep == ASSUME ChannelInv, BeginFrame PROVE ChannelInv'
<1> USE DEF ChannelInv
<1> PICK next : next = Current + 1
  OBVIOUS
<1> DEFINE w == <<<<next, 1>>>>
<1>1. PICK l \in Nat : events' = Append(events, Event(l, fresh))
  BY SizesAssumption DEF BeginFrame, Oversized
<1>2. /\ engine = "running" /\ ~Writing /\ cursor' = 1 /\ fresh' = FALSE
      /\ stdout' = Append(stdout, <<Len(events'), 1>>)
      /\ UNCHANGED <<decoder, partial, result, frames, taken, pc, report, engine, helper>>
  BY DEF BeginFrame, decoderVars, sessionVars
<1>3. /\ Current \in Nat /\ Made \in Nat
      /\ \A n \in 1..Current : Sizes[n] = Size(n) /\ Size(n) \in Nat
  BY Numbers, AtHand
<1>4. next = Current + 1 /\ next \in Nat /\ next > 0
  BY <1>3
<1>5. events' \in Seq([length : Nat, verdict : BOOLEAN]) /\ Len(events') = next /\ Current' = next
  <2>1. Event(l, fresh) \in [length : Nat, verdict : BOOLEAN]
    BY DEF Event, Shapes
  <2>2. QED
    BY <1>1, <2>1 DEF Shapes, Current
<1>6. \A n \in 1..Current : Size(n)' = Size(n) /\ Bytes(n)' = Bytes(n)
  <2>1. \A n \in 1..Current : events'[n] = events[n]
    BY <1>1 DEF Shapes, Current
  <2>2. QED
    BY <2>1 DEF Size, Bytes
<1>7. Size(next)' \in Nat \ {0}
  <2>1. next \in 1..Len(events')
    BY <1>4, <1>5
  <2>2. events'[next] \in [length : Nat, verdict : BOOLEAN]
    BY <1>5, <2>1, ElementOfSeq
  <2>3. QED
    BY <2>2, SizesAssumption DEF Size
<1>8. w \in Seq(Pair) /\ Len(w) = 1 /\ w[1] = <<next, 1>> /\ stdout' = stdout \o w
  <2>1. <<next, 1>> \in Pair
    BY <1>4 DEF Pair
  <2>2. stdout' = Append(stdout, <<next, 1>>) /\ stdout \in Seq(Pair)
    BY <1>2, <1>5 DEF Shapes
  <2> DEFINE x == <<next, 1>>
  <2>3. x \in Pair
    BY <2>1
  <2> HIDE DEF x
  <2>4. Append(stdout, x) = stdout \o <<x>> /\ <<x>> \in Seq(Pair) /\ Len(<<x>>) = 1 /\ <<x>>[1] = x
    BY <2>2, <2>3, AppendIsConcat
  <2>5. QED
    BY <2>2, <2>4 DEF x
<1> HIDE DEF w
<1>9. /\ stdout' \in Seq(Pair)
      /\ Len(Bytestream') = Len(Bytestream) + 1
      /\ \A i \in 1..Len(Bytestream) : Bytestream'[i] = Bytestream[i]
      /\ Bytestream'[Len(Bytestream) + 1] = <<next, 1>>
      /\ Len(Bytestream) \in Nat
  <2>1. /\ stdout' \in Seq(Pair) /\ Len(Bytestream') = Len(Bytestream) + Len(w)
        /\ \A i \in 1..Len(Bytestream) : Bytestream'[i] = Bytestream[i]
        /\ \A i \in 1..Len(w) : Bytestream'[Len(Bytestream) + i] = w[i]
    BY <1>2, <1>8, BytestreamGrows
  <2>2. 1 \in 1..Len(w) /\ Len(Bytestream) \in Nat
    BY <1>8, Numbers, LenProperties
  <2>3. QED
    BY <1>8, <2>1, <2>2
<1>10. Shapes'
  <2>1. cursor' \in Nat /\ Current' > 0 /\ cursor' <= Size(Current)'
    BY <1>2, <1>4, <1>5, <1>7
  <2>2. fresh' \in BOOLEAN
    BY <1>2, Zenon
  <2>3. QED
    BY <1>2, <1>5, <1>9, <2>1, <2>2 DEF Shapes
<1>11. LastWord' /\ InOrder' /\ Reported' /\ Made' = Made /\ InStep' = InStep
  <2>1. Current' >= Current /\ Current' \in Nat
    BY <1>3, <1>4, <1>5
  <2>2. QED
    BY <1>2, <1>6, <2>1, WritingStep
<1>12. NothingElse'
  <2> SUFFICES ASSUME InStep
               PROVE  /\ OnTheWay(Made, next, Sizes', Bytestream', 1)
                      /\ Made # next
                      /\ partial # <<>> => Made < next /\ Len(partial) <= Sizes'[Made + 1]
    <3>1. At' = 1 /\ partial' = partial
      BY <1>2 DEF At, Writing
    <3>2. QED
      BY <1>5, <1>11, <3>1 DEF NothingElse
  <2>1. Made <= Current /\ At = Size(Current)
    BY <1>2, MadeFromWritten DEF At
  <2>2. /\ OnTheWay(Made, Current, Sizes, Bytestream, At)
        /\ partial # <<>> => Made < Current /\ Len(partial) <= Sizes[Made + 1]
    BY DEF NothingElse
  <2>3. \A n \in 1..Current : Sizes[n] \in Nat /\ Sizes'[n] = Sizes[n]
    <3>1. ASSUME NEW n \in 1..Current PROVE Sizes[n] \in Nat /\ Sizes'[n] = Sizes[n]
      <4>1. n \in 1..Current'
        BY <1>3, <1>4, <1>5
      <4>2. QED
        BY <1>3, <1>6, <4>1 DEF Sizes
    <3>2. QED
      BY <3>1
  <2>4. Sizes'[next] \in Nat \ {0}
    <3>1. next \in 1..Current'
      BY <1>4, <1>5
    <3>2. QED
      BY <1>7, <3>1 DEF Sizes
  <2>5. Made < Current => At = Sizes[Current] /\ At \in Nat
    <3>1. Made < Current => Current \in 1..Current
      BY <1>3
    <3>2. QED
      BY <1>3, <2>1, <3>1
  <2>6. OnTheWay(Made, next, Sizes', Bytestream', 1)
    <3> DEFINE there == IF Made < Current THEN At ELSE 0
    <3>1. there \in Nat /\ (Made < Current => there = Sizes[Current])
      BY <2>5
    <3>2. OnTheWay(Made, Current, Sizes, Bytestream, there)
      BY <2>2 DEF OnTheWay
    <3> HIDE DEF there
    <3> DEFINE size == Sizes
               larger == Sizes'
               stream == Bytestream
               longer == Bytestream'
    <3>3. /\ \A n \in 1..Current : size[n] \in Nat /\ larger[n] = size[n]
          /\ Made < Current => there = size[Current]
          /\ larger[Current + 1] \in Nat \ {0}
          /\ OnTheWay(Made, Current, size, stream, there)
          /\ Len(longer) = Len(stream) + 1 /\ Len(stream) \in Nat
          /\ \A i \in 1..Len(stream) : longer[i] = stream[i]
          /\ longer[Len(stream) + 1] = <<Current + 1, 1>>
      BY <1>4, <1>9, <2>3, <2>4, <3>1, <3>2
    <3> HIDE DEF size, larger, stream, longer
    <3>4. OnTheWay(Made, Current + 1, larger, longer, 1)
      BY <1>3, <2>1, <3>1, <3>3, AnotherFrame
    <3>5. QED
      BY <1>4, <3>4 DEF larger, longer
  <2>7. Made # next /\ (Made < Current => Made + 1 \in 1..Current /\ Made < next)
    BY <1>3, <1>4, <2>1
  <2>8. QED
    BY <2>2, <2>3, <2>6, <2>7
<1>13. QED
  BY <1>10, <1>11, <1>12

(* A piece of the frame that the engine is writing. *)
LEMMA PieceOfFrame ==
  ASSUME Shapes, Current > 0, NEW k \in Nat, k > 0, cursor + k <= Len(Bytes(Current)),
         NEW S, \A i \in 1..Size(Current) : <<Current, i>> \in S
  PROVE  /\ Len(Bytes(Current)) = Size(Current)
         /\ SubSeq(Bytes(Current), cursor + 1, cursor + k) \in Seq(S)
         /\ Len(SubSeq(Bytes(Current), cursor + 1, cursor + k)) = k
         /\ \A j \in 1..k :
              SubSeq(Bytes(Current), cursor + 1, cursor + k)[j] = <<Current, cursor + j>>
<1> PICK m : m = Size(Current)
  OBVIOUS
<1>1. Current \in 1..Current /\ cursor \in Nat /\ k \in Nat /\ k > 0
  BY Numbers DEF Shapes
<1>2. m \in Nat
  BY <1>1, Numbers
<1>3. Len(Bytes(Current)) = m /\ \A i \in 1..m : Bytes(Current)[i] = <<Current, i>>
  <2> DEFINE b == [i \in 1..m |-> <<Current, i>>]
  <2>1. Bytes(Current) = b
    BY DEF Bytes, Size
  <2>2. Len(b) = m /\ \A i \in 1..m : b[i] = <<Current, i>>
    BY <1>2
  <2>3. QED
    BY <2>1, <2>2
<1>4. cursor + k <= m
  BY <1>3
<1>5. \A i \in (cursor + 1)..(cursor + k) : i \in 1..m
  BY ONLY <1>1, <1>2, <1>4
<1>6. \A i \in (cursor + 1)..(cursor + k) : Bytes(Current)[i] \in S
  BY <1>3, <1>5
<1>7. /\ cursor + 1 \in Int /\ cursor + k \in Int
      /\ cursor + 1 <= cursor + k /\ (cursor + k) - (cursor + 1) + 1 = k
  BY <1>1
<1> DEFINE w == SubSeq(Bytes(Current), cursor + 1, cursor + k)
<1>8. /\ w \in Seq(S) /\ Len(w) = k
      /\ \A j \in 1..k : w[j] = Bytes(Current)[cursor + 1 + j - 1]
  BY <1>6, <1>7, SubSeqProperties
<1> HIDE DEF w
<1>9. ASSUME NEW j \in 1..k PROVE w[j] = <<Current, cursor + j>>
  <2>1. cursor + 1 + j - 1 = cursor + j /\ cursor + j \in (cursor + 1)..(cursor + k)
    BY <1>1
  <2>2. QED
    BY <1>3, <1>5, <1>8, <2>1
<1>10. QED
  BY <1>3, <1>8, <1>9 DEF w

(* More bytes of the event it is writing. *)
LEMMA WriteBytesStep == ASSUME ChannelInv, WriteBytes PROVE ChannelInv'
<1> USE DEF ChannelInv
<1>1. /\ engine = "running" /\ Writing
      /\ UNCHANGED <<events, fresh, decoder, partial, result, frames, taken, pc, report, engine, helper>>
  BY DEF WriteBytes, decoderVars, sessionVars
<1>2. PICK k \in 1..(PipeBytes - Len(stdout)) :
        /\ cursor + k <= Len(Bytes(Current))
        /\ stdout' = stdout \o SubSeq(Bytes(Current), cursor + 1, cursor + k)
        /\ cursor' = cursor + k
  BY DEF WriteBytes
<1>3. /\ Current \in Nat /\ Made \in Nat /\ Current > 0 /\ Current \in 1..Current
      /\ Len(Bytestream) \in Nat /\ Len(stdout) \in Nat /\ Size(Current) \in Nat
      /\ \A n \in 1..Current : Sizes[n] = Size(n) /\ Sizes[n] \in Nat
  <2>1. Current > 0
    BY <1>1 DEF Shapes
  <2>2. QED
    BY <2>1, Numbers, AtHand, LenProperties
<1>4. k \in Nat /\ k > 0 /\ cursor \in Nat
  BY <1>2, SizesAssumption DEF Shapes
<1> DEFINE w == SubSeq(Bytes(Current), cursor + 1, cursor + k)
<1>5. \A i \in 1..Size(Current) : <<Current, i>> \in Pair
  BY <1>3 DEF Pair
<1>6. /\ Len(Bytes(Current)) = Size(Current)
      /\ w \in Seq(Pair) /\ Len(w) = k
      /\ \A j \in 1..k : w[j] = <<Current, cursor + j>>
  BY <1>2, <1>3, <1>4, <1>5, PieceOfFrame
<1>7. stdout' = stdout \o w
  BY <1>2
<1> HIDE DEF w
<1>8. /\ stdout' \in Seq(Pair)
      /\ Len(Bytestream') = Len(Bytestream) + k
      /\ \A i \in 1..Len(Bytestream) : Bytestream'[i] = Bytestream[i]
      /\ \A j \in 1..k : Bytestream'[Len(Bytestream) + j] = <<Current, cursor + j>>
  BY <1>1, <1>6, <1>7, BytestreamGrows
<1>9. /\ Current' = Current /\ Sizes' = Sizes
      /\ \A n : Size(n)' = Size(n) /\ Bytes(n)' = Bytes(n)
  BY <1>1 DEF Current, Sizes, Size, Bytes
<1>10. Writing' /\ At' = cursor + k /\ At = cursor /\ cursor + k <= Size(Current)
  BY <1>1, <1>2, <1>4, <1>6 DEF Writing, At
<1>11. Shapes'
  <2>1. cursor' \in Nat /\ Current' > 0 /\ cursor' <= Size(Current)'
    BY <1>2, <1>3, <1>4, <1>9, <1>10
  <2>2. fresh' \in BOOLEAN
    BY <1>1, Zenon DEF Shapes
  <2>3. QED
    BY <1>1, <1>8, <2>1, <2>2 DEF Shapes
<1>12. LastWord' /\ InOrder' /\ Reported' /\ Made' = Made /\ InStep' = InStep
  <2>1. Current' >= Current /\ Current' \in Nat
    BY <1>3, <1>9
  <2>2. QED
    BY <1>1, <1>9, <2>1, WritingStep
<1>13. NothingElse'
  <2> SUFFICES ASSUME InStep
               PROVE  /\ OnTheWay(Made, Current, Sizes, Bytestream', cursor + k)
                      /\ Made # Current
                      /\ partial # <<>> => Made < Current /\ Len(partial) <= Sizes[Made + 1]
    BY <1>1, <1>9, <1>10, <1>12 DEF NothingElse
  <2>1. Made < Current
    <3>1. Made <= Current
      BY MadeFromWritten
    <3>2. Made = Current => cursor = Size(Current)
      BY <1>1 DEF NothingElse
    <3>3. QED
      BY <1>3, <1>4, <1>10, <3>1, <3>2
  <2> DEFINE size == Sizes
             stream == Bytestream
             longer == Bytestream'
  <2>2. /\ \A n \in 1..Current : size[n] \in Nat
        /\ cursor + k <= size[Current]
        /\ OnTheWay(Made, Current, size, stream, cursor)
        /\ Len(longer) = Len(stream) + k /\ Len(stream) \in Nat
        /\ \A i \in 1..Len(stream) : longer[i] = stream[i]
        /\ \A j \in 1..k : longer[Len(stream) + j] = <<Current, cursor + j>>
    BY <1>3, <1>8, <1>10 DEF NothingElse
  <2> HIDE DEF size, stream, longer
  <2>3. OnTheWay(Made, Current, size, longer, cursor + k)
    BY <1>3, <1>4, <2>1, <2>2, MoreBytes
  <2>4. Made # Current
    BY <1>3, <2>1
  <2>5. QED
    BY <2>3, <2>4 DEF NothingElse, size, longer
<1>14. QED
  BY <1>11, <1>12, <1>13

-----------------------------------------------------------------------------
(* The decoder.                                                            *)

(* What the prefix at hand tells is the length of the frame that is next.  *)
LEMMA PrefixTells ==
  ASSUME ChannelInv, InStep, partial # <<>>
  PROVE  /\ Made < Current /\ Made + 1 \in 1..Current
         /\ Size(Made + 1) \in Nat /\ Len(partial) \in Nat
         /\ Len(partial) <= Size(Made + 1)
         /\ Told = events[Made + 1].length
         /\ \A i \in 1..Len(partial) : partial[i] = <<Made + 1, i>>
<1> USE DEF ChannelInv
<1>1. /\ Made \in Nat /\ Current \in Nat /\ Len(partial) \in Nat /\ Len(stdout) \in Nat
      /\ Len(Bytestream) = Len(partial) + Len(stdout)
      /\ \A n \in 1..Current : Sizes[n] = Size(n) /\ Size(n) \in Nat
  BY Numbers, AtHand
<1>2. Made < Current /\ Len(partial) <= Sizes[Made + 1]
  BY DEF NothingElse
<1>3. Made + 1 \in 1..Current
  BY <1>1, <1>2
<1>4. Len(partial) > 0
  BY <1>1, EmptySeq DEF Shapes
<1>5. ASSUME NEW i \in 1..Len(partial) PROVE partial[i] = <<Made + 1, i>>
  <2>1. /\ i \in 1..Sizes[Made + 1] /\ i <= Len(Bytestream) /\ i \in 1..(Len(partial) + Len(stdout))
        /\ i <= Len(partial)
    BY <1>1, <1>2, <1>3
  <2>2. OnTheWay(Made, Current, Sizes, Bytestream, At) /\ Sizes[Made + 1] \in Nat
    BY <1>1, <1>3 DEF NothingElse
  <2>3. Bytestream[i] = <<Made + 1, i>>
    BY <1>1, <1>2, <2>1, <2>2, FirstBytes, SMTT(30)
  <2>4. Bytestream[i] = partial[i]
    BY <2>1, ConcatProperties DEF Shapes, Bytestream
  <2>5. QED
    BY <2>3, <2>4
<1>6. partial[1] = <<Made + 1, 1>>
  BY <1>1, <1>4, <1>5
<1>7. Told = events[Made + 1].length
  BY <1>6 DEF Told
<1>8. QED
  BY <1>1, <1>2, <1>3, <1>5, <1>7

(* Reading moves bytes and takes none beyond the frame's last.             *)
LEMMA ReadBytesStep == ASSUME ChannelInv, ReadBytes PROVE ChannelInv'
<1> USE DEF ChannelInv
<1>1. /\ decoder = "reading" /\ stdout # <<>>
      /\ UNCHANGED <<engine, fresh, events, cursor, helper, decoder, result, frames, pc, taken, report>>
  BY DEF ReadBytes, engineVars, sessionVars
<1>2. PICK k \in 1..Missing :
        /\ k <= Len(stdout)
        /\ partial' = partial \o SubSeq(stdout, 1, k)
        /\ stdout' = SubSeq(stdout, k + 1, Len(stdout))
  BY DEF ReadBytes
<1>3. /\ Current \in Nat /\ Made \in Nat /\ Len(partial) \in Nat /\ Len(stdout) \in Nat
      /\ Len(Bytestream) = Len(partial) + Len(stdout)
      /\ partial \in Seq(Pair) /\ stdout \in Seq(Pair)
      /\ \A n \in 1..Current : Sizes[n] = Size(n) /\ Size(n) \in Nat /\ PrefixBytes <= Size(n)
  BY Numbers, AtHand DEF Shapes
<1>4. k \in Nat /\ k > 0 /\ k <= Missing
  BY <1>2
<1> DEFINE r == SubSeq(stdout, 1, k)
           t == SubSeq(stdout, k + 1, Len(stdout))
<1>5. r \in Seq(Pair) /\ Len(r) = k /\ t \in Seq(Pair) /\ stdout = r \o t
  <2>1. /\ \A i \in 1..k : stdout[i] \in Pair
        /\ \A i \in (k + 1)..Len(stdout) : stdout[i] \in Pair
    <3>1. \A i \in 1..Len(stdout) : stdout[i] \in Pair
      BY <1>3, ElementOfSeq
    <3>2. QED
      BY <1>2, <1>3, <1>4, <3>1
  <2>2. r \in Seq(Pair) /\ Len(r) = k
    BY <1>4, <2>1, SubSeqProperties
  <2>3. t \in Seq(Pair)
    BY <1>3, <1>4, <2>1, SubSeqProperties, SMTT(30)
  <2>4. stdout = r \o t
    <3>1. SubSeq(stdout, 1, Len(stdout)) = stdout
      BY <1>3, SubSeqFull
    <3>2. SubSeq(stdout, 1, k) \o SubSeq(stdout, k + 1, Len(stdout)) = SubSeq(stdout, 1, Len(stdout))
      BY <1>2, <1>3, <1>4, ConcatAdjacentSubSeq
    <3>3. QED
      BY <3>1, <3>2
  <2>5. QED
    BY <2>2, <2>3, <2>4
<1>6. partial' = partial \o r /\ stdout' = t
  BY <1>2
<1> HIDE DEF r, t
<1>7. Bytestream' = Bytestream
  BY <1>3, <1>5, <1>6, ConcatAssociative DEF Bytestream
<1>8. partial' \in Seq(Pair) /\ Len(partial') = Len(partial) + k
  BY <1>3, <1>5, <1>6, ConcatProperties
<1>9. /\ Current' = Current /\ Sizes' = Sizes /\ At' = At
      /\ \A n : Size(n)' = Size(n) /\ Bytes(n)' = Bytes(n)
  BY <1>1 DEF Current, Sizes, At, Writing, Size, Bytes
<1>10. Decoded' = Decoded /\ Made' = Made /\ InStep' = InStep /\ Writing' = Writing
  BY <1>1 DEF Decoded, Made, InStep, Writing
<1>11. Shapes'
  BY <1>1, <1>5, <1>6, <1>8, <1>9, <1>10 DEF Shapes
<1>12. LastWord'
  BY <1>1 DEF LastWord
<1>13. InOrder'
  <2>1. ASSUME NEW x, NEW n, Arrives(x, n) PROVE Arrives(x, n)'
    BY <1>1, <1>9, <2>1 DEF Arrives, CleanEof
  <2>2. QED
    BY <1>1, <1>9, <1>10, <2>1 DEF InOrder
<1>14. NothingElse'
  <2> SUFFICES ASSUME InStep PROVE Made < Current /\ Len(partial') <= Sizes[Made + 1]
    BY <1>1, <1>7, <1>9, <1>10 DEF NothingElse
  <2>1. Made < Current
    <3>1. Made <= Current
      BY MadeFromWritten
    <3>2. Len(Bytestream) > 0
      BY <1>2, <1>3, <1>4
    <3>3. Made # Current
      BY <1>3, <3>2 DEF NothingElse, OnTheWay
    <3>4. QED
      BY <1>3, <3>1, <3>3
  <2>2. Made + 1 \in 1..Current
    BY <1>3, <2>1
  <2>3. Sizes[Made + 1] = Size(Made + 1) /\ Size(Made + 1) \in Nat /\ PrefixBytes <= Size(Made + 1)
    BY <1>3, <2>2
  <2>4. CASE Len(partial) < PrefixBytes
    <3>1. Missing = PrefixBytes - Len(partial)
      BY <2>4 DEF Missing
    <3>2. k <= PrefixBytes - Len(partial) /\ PrefixBytes \in Nat /\ Len(partial) \in Nat
      BY <1>3, <1>4, <3>1, SizesAssumption
    <3>3. Len(partial) + k <= Size(Made + 1)
      BY ONLY <1>4, <2>3, <3>2
    <3>4. QED
      BY <1>8, <2>1, <2>3, <3>3
  <2>5. CASE ~(Len(partial) < PrefixBytes)
    <3>1. partial # <<>>
      <4>1. Len(partial) # 0
        BY <1>3, <2>5, SizesAssumption
      <4>2. QED
        BY <4>1, EmptySeq
    <3>2. Missing = Size(Made + 1) - Len(partial)
      <4>1. Missing = PrefixBytes + Told - Len(partial) /\ Told = events[Made + 1].length
        BY <2>5, <3>1, PrefixTells DEF Missing
      <4>2. Size(Made + 1) = PrefixBytes + events[Made + 1].length
        BY DEF Size
      <4>3. PrefixBytes \in Nat /\ events[Made + 1].length \in Nat /\ Len(partial) \in Nat
        BY <2>2, Numbers, SizesAssumption
      <4>4. QED
        BY ONLY <4>1, <4>2, <4>3
    <3>3. k <= Size(Made + 1) - Len(partial) /\ Len(partial) \in Nat
      BY <1>3, <1>4, <3>2
    <3>4. Len(partial) + k <= Size(Made + 1)
      BY ONLY <1>4, <2>3, <3>3
    <3>5. QED
      BY <1>8, <2>1, <2>3, <3>4
  <2>6. QED
    BY <2>1, <2>4, <2>5
<1>15. Reported'
  BY <1>1, <1>9 DEF Reported
<1>16. QED
  BY <1>11, <1>12, <1>13, <1>14, <1>15

(* What is made of a frame that is all there is the frame that was written.*)
LEMMA WholeFrame ==
  ASSUME ChannelInv, InStep, decoder = "reading", partial # <<>>, Missing = 0
  PROVE  /\ Made < Current
         /\ partial = Bytes(Made + 1)
         /\ OnTheWay(Made + 1, Current, Sizes, stdout, At)
         /\ Made + 1 = Current => At = Size(Current)
<1> USE DEF ChannelInv
<1>1. /\ Made < Current /\ Made + 1 \in 1..Current
      /\ Size(Made + 1) \in Nat /\ Len(partial) \in Nat /\ Len(partial) <= Size(Made + 1)
      /\ Told = events[Made + 1].length
      /\ \A i \in 1..Len(partial) : partial[i] = <<Made + 1, i>>
  BY PrefixTells
<1>2. /\ Made \in Nat /\ Current \in Nat /\ Current \in 1..Current /\ Len(stdout) \in Nat
      /\ Len(Bytestream) = Len(partial) + Len(stdout)
      /\ partial \in Seq(Pair) /\ stdout \in Seq(Pair)
      /\ \A n \in 1..Current : Sizes[n] = Size(n) /\ Sizes[n] \in Nat
      /\ At \in Nat /\ At <= Sizes[Current]
  <2>1. Current > 0 /\ Current \in 1..Current
    BY <1>1, Numbers
  <2>2. QED
    BY <2>1, Numbers, AtHand DEF Shapes
<1>3. Len(partial) = Size(Made + 1)
  <2>1. /\ PrefixBytes \in Nat /\ events[Made + 1].length \in Nat
        /\ Size(Made + 1) = PrefixBytes + events[Made + 1].length
    BY <1>1, Numbers, SizesAssumption DEF Size
  <2>2. IF Len(partial) < PrefixBytes THEN PrefixBytes - Len(partial) = 0
        ELSE PrefixBytes + events[Made + 1].length - Len(partial) = 0
    BY <1>1 DEF Missing
  <2>3. Len(partial) \in Nat
    BY <1>1
  <2>4. QED
    BY ONLY <2>1, <2>2, <2>3
<1>4. partial = Bytes(Made + 1)
  <2> DEFINE m == Size(Made + 1)
             b == [i \in 1..m |-> <<Made + 1, i>>]
  <2>1. Bytes(Made + 1) = b
    BY DEF Bytes, Size
  <2>2. m \in Nat /\ Len(partial) = m
    BY <1>1, <1>3
  <2> HIDE DEF m
  <2>3. partial = [i \in 1..m |-> partial[i]]
    BY <1>2, <2>2, LenProperties
  <2>4. \A i \in 1..m : partial[i] = <<Made + 1, i>>
    BY <1>1, <2>2
  <2>5. QED
    BY <2>1, <2>3, <2>4
<1>5. \A i \in 1..Len(stdout) : stdout[i] = Bytestream[Len(partial) + i]
  <2>1. ASSUME NEW i \in 1..Len(stdout) PROVE stdout[i] = Bytestream[Len(partial) + i]
    <3> DEFINE k == Len(partial) + i
    <3>1. /\ k \in 1..(Len(partial) + Len(stdout)) /\ ~(k <= Len(partial))
          /\ k - Len(partial) = i
      BY <1>1, <1>2
    <3> HIDE DEF k
    <3>2. Bytestream[k] = stdout[i]
      BY <1>2, <3>1, ConcatProperties DEF Bytestream
    <3>3. QED
      BY <3>2 DEF k
  <2>2. QED
    BY <2>1
<1> DEFINE size == Sizes
           stream == Bytestream
           rest == stdout
           made == Made
           last == Current
           there == At
<1>6. /\ made \in Nat /\ last \in Nat /\ made < last /\ there \in Nat /\ Len(rest) \in Nat
      /\ \A n \in 1..last : size[n] \in Nat
      /\ there <= size[last]
      /\ OnTheWay(made, last, size, stream, there)
      /\ Len(stream) = size[made + 1] + Len(rest)
      /\ \A i \in 1..Len(rest) : rest[i] = stream[size[made + 1] + i]
  <2>1. size[made + 1] = Len(partial)
    BY <1>1, <1>2, <1>3
  <2>2. QED
    BY <1>1, <1>2, <1>5, <2>1 DEF NothingElse
<1> HIDE DEF size, stream, rest, made, last, there
<1>7. OnTheWay(made + 1, last, size, rest, there) /\ (made + 1 = last => there = size[last])
  BY ONLY <1>6, FrameGone
<1>8. QED
  BY <1>1, <1>2, <1>4, <1>7 DEF size, rest, made, last, there

(* Nothing in stdout and nothing of a frame: nothing is left to be made.   *)
LEMMA AllMade ==
  ASSUME ChannelInv, InStep, partial = <<>>, stdout = <<>>
  PROVE  Made = Current
<1> USE DEF ChannelInv
<1>1. Made \in Nat /\ Current \in Nat /\ Made <= Current
  BY Numbers, AtHand, MadeFromWritten
<1>2. Len(Bytestream) = 0
  BY Numbers, EmptySeq
<1> SUFFICES ASSUME Made < Current PROVE FALSE
  BY <1>1
<1>3. At \in Nat /\ At > 0
  <2>1. Current > 0
    BY <1>1
  <2>2. QED
    BY <2>1, Numbers
<1>4. PICK o \in [(Made + 1)..Current -> Nat] : Layout(Made, Current, Sizes, Bytestream, At, o)
  BY DEF NothingElse, OnTheWay
<1>5. o[Current] \in Nat
  <2>1. Current \in (Made + 1)..Current
    BY <1>1
  <2>2. QED
    BY <2>1
<1>6. 0 = o[Current] + At
  BY <1>2, <1>4 DEF Layout
<1>7. QED
  BY ONLY <1>3, <1>5, <1>6

(* What read_frame returns, and what it leaves behind.                     *)
LEMMA ReadFrameStep == ASSUME ChannelInv, ReadFrame PROVE ChannelInv'
<1> USE DEF ChannelInv
<1>1. /\ decoder = "reading" /\ decoder' = "sending" /\ partial' = <<>>
      /\ UNCHANGED <<engine, fresh, events, cursor, helper, stdout, frames, pc, taken, report>>
  BY DEF ReadFrame, engineVars, pipeVars, sessionVars
<1>2. \/ TooLong /\ result' = Failure("oversized")
      \/ partial # <<>> /\ Missing = 0 /\ result' = Frame(partial)
      \/ stdout = <<>> /\ StdoutClosed /\ result' = AtEof
  BY DEF ReadFrame
<1>3. /\ partial \in Seq(Pair) /\ stdout \in Seq(Pair) /\ frames \in Seq(Outcome)
      /\ Current \in Nat /\ Made \in Nat /\ Len(taken) \in Nat
      /\ Decoded \in Seq(Outcome) /\ Len(Decoded) \in Nat
  BY Numbers, AtHand DEF Shapes
<1>4. result' \in Outcome
  BY <1>2, <1>3 DEF Outcome, Failure, Frame, AtEof, CleanEof
<1>5. /\ Current' = Current /\ Sizes' = Sizes /\ At' = At /\ Writing' = Writing
      /\ \A n : Size(n)' = Size(n) /\ Bytes(n)' = Bytes(n)
  BY <1>1 DEF Current, Sizes, At, Writing, Size, Bytes
<1>6. Shapes'
  <2>1. partial' \in Seq(Pair)
    BY <1>1, EmptySeq
  <2>2. QED
    BY <1>1, <1>4, <1>5, <2>1 DEF Shapes
<1>7. LastWord'
  BY <1>1 DEF LastWord
<1>8. Reported'
  BY <1>1, <1>5 DEF Reported
<1>9. CASE pc = "dropped"
  <2>1. Decoded' = <<>>
    BY <1>1, <1>9 DEF Decoded
  <2>2. InOrder'
    BY <1>1, <1>5, <2>1 DEF InOrder
  <2>3. NothingElse'
    BY <1>1, <1>9 DEF NothingElse, InStep
  <2>4. QED
    BY <1>6, <1>7, <1>8, <2>2, <2>3
<1>10. CASE pc # "dropped"
  <2>1. InStep /\ Decoded = frames /\ Decoded' = frames \o <<result'>>
    <3>1. Decoded' = (frames \o <<result>>)'
      BY <1>1, <1>6, <1>10, AtHand DEF Decoded
    <3>2. QED
      BY <1>1, <1>10, <3>1, AtHand DEF InStep
  <2>2. /\ Len(Decoded') = Len(Decoded) + 1 /\ Decoded'[Len(Decoded) + 1] = result'
        /\ \A i \in 1..Len(Decoded) : Decoded'[i] = Decoded[i]
    BY <1>3, <1>4, <2>1
  <2>3. Made <= Current /\ Made' = Made + 1 /\ Made + 1 = Len(taken) + (Len(Decoded) + 1)
    <3>1. Made' = Len(taken) + Len(Decoded')
      BY <1>1 DEF Made
    <3>2. QED
      BY <1>3, <2>1, <2>2, <3>1, MadeFromWritten DEF Made
  <2>4. ASSUME Arrives(result, Made)' PROVE InOrder'
    <3>1. ASSUME NEW r, NEW n, Arrives(r, n) PROVE Arrives(r, n)'
      BY <1>1, <1>5, <3>1 DEF Arrives, CleanEof, StdoutClosed
    <3>2. ASSUME NEW i \in 1..Len(Decoded') PROVE Arrives(Decoded[i], Len(taken) + i)'
      <4>1. i \in 1..Len(Decoded) \/ i = Len(Decoded) + 1
        BY <1>3, <2>2
      <4>2. CASE i \in 1..Len(Decoded)
        <5>1. Arrives(Decoded[i], Len(taken) + i)
          BY <4>2 DEF InOrder
        <5>2. QED
          BY <1>1, <2>2, <3>1, <4>2, <5>1
      <4>3. CASE i = Len(Decoded) + 1
        <5>1. (Len(taken) + i)' = Made' /\ (Decoded[i])' = result'
          BY <1>1, <2>2, <2>3, <4>3
        <5>2. QED
          BY <2>4, <5>1 DEF Arrives
      <4>4. QED
        BY <4>1, <4>2, <4>3
    <3>3. QED
      BY <1>1, <1>5, <3>2 DEF InOrder
  <2>5. CASE TooLong /\ result' = Failure("oversized")
    <3>1. result'.type = "error"
      BY <2>5 DEF Failure
    <3>2. InOrder'
      BY <2>4, <3>1 DEF Arrives, CleanEof
    <3>3. NothingElse'
      BY <1>1, <3>1 DEF NothingElse, InStep
    <3>4. QED
      BY <1>6, <1>7, <1>8, <3>2, <3>3
  <2>6. CASE partial # <<>> /\ Missing = 0 /\ result' = Frame(partial)
    <3>1. /\ Made < Current /\ partial = Bytes(Made + 1)
          /\ OnTheWay(Made + 1, Current, Sizes, stdout, At)
          /\ Made + 1 = Current => At = Size(Current)
      BY <1>1, <2>1, <2>6, WholeFrame
    <3>2. result'.type = "frame" /\ result'.bytes = Bytes(Made + 1)
      BY <2>6, <3>1 DEF Frame
    <3>3. Bytes(Made)' = Bytes(Made + 1)
      BY <1>5, <2>3 DEF Bytes
    <3>4. InOrder'
      <4>1. Made' <= Current'
        BY <1>3, <1>5, <2>3, <3>1
      <4>2. QED
        BY <2>4, <3>2, <3>3, <4>1 DEF Arrives, CleanEof
    <3>5. Bytestream' = stdout
      BY <1>1, <1>3, ConcatEmptySeq DEF Bytestream
    <3>6. NothingElse'
      <4>1. Made + 1 = Current /\ Writing => cursor = Size(Current)
        BY <3>1 DEF At
      <4>2. QED
        BY <1>1, <1>5, <2>3, <3>1, <3>5, <4>1 DEF NothingElse
    <3>7. QED
      BY <1>6, <1>7, <1>8, <3>4, <3>6
  <2>7. CASE stdout = <<>> /\ StdoutClosed /\ result' = AtEof
    <3>1. result'.type # "frame" /\ (result' = CleanEof => partial = <<>>)
      BY <2>7 DEF AtEof, CleanEof, Failure
    <3>2. result' = CleanEof => Made' = Current' + 1
      BY <1>5, <2>1, <2>3, <2>7, <3>1, AllMade
    <3>3. InOrder'
      BY <1>1, <2>4, <2>7, <3>1, <3>2 DEF Arrives, CleanEof, StdoutClosed
    <3>4. NothingElse'
      BY <1>1, <3>1 DEF NothingElse, InStep
    <3>5. QED
      BY <1>6, <1>7, <1>8, <3>3, <3>4
  <2>8. QED
    BY <1>2, <2>5, <2>6, <2>7
<1>11. QED
  BY <1>9, <1>10

(* Handing the result over makes room for the next frame, or is the last   *)
(* thing the decoder does.                                                 *)
LEMMA SendResultStep == ASSUME ChannelInv, SendResult PROVE ChannelInv'
<1> USE DEF ChannelInv
<1>1. /\ decoder = "sending" /\ partial = <<>> /\ decoder' \in {"reading", "ended"}
      /\ UNCHANGED <<engine, fresh, events, cursor, helper, stdout, partial, pc, taken, report>>
  BY DEF SendResult, engineVars, pipeVars, sessionVars, LastWord
<1>2. /\ Current' = Current /\ Sizes' = Sizes /\ At' = At /\ Writing' = Writing
      /\ Bytestream' = Bytestream
      /\ \A n : Size(n)' = Size(n) /\ Bytes(n)' = Bytes(n)
  BY <1>1 DEF Current, Sizes, At, Writing, Bytestream, Size, Bytes
<1>3. ASSUME NEW r, NEW n, Arrives(r, n) PROVE Arrives(r, n)'
  BY <1>1, <1>2, <1>3 DEF Arrives, CleanEof, StdoutClosed
<1>4. Reported'
  BY <1>1, <1>2 DEF Reported
<1>5. frames \in Seq(Outcome) /\ result \in Outcome
  BY <1>1 DEF Shapes
<1>6. ASSUME pc # "dropped", Len(frames) < FrameCapacity, frames' = Append(frames, result),
             decoder' = IF result.type = "frame" THEN "reading" ELSE "ended"
      PROVE  ChannelInv'
  <2>1. /\ frames' = frames \o <<result>> /\ frames' \in Seq(Outcome)
        /\ Len(frames') = Len(frames) + 1 /\ frames'[Len(frames) + 1] = result
        /\ \A i \in 1..Len(frames) : frames'[i] = frames[i]
        /\ Len(frames) \in Nat
    BY <1>5, <1>6, AppendIsConcat, AppendProperties, LenProperties
  <2>2. Shapes'
    <3>1. Len(frames') <= 1
      BY <1>6, <2>1 DEF FrameCapacity
    <3>2. fresh' \in BOOLEAN
      BY <1>1, Zenon DEF Shapes
    <3>3. QED
      BY <1>1, <1>2, <2>1, <3>1, <3>2 DEF Shapes
  <2>3. Decoded' = Decoded
    <3>1. Decoded = frames \o <<result>>
      BY <1>1, <1>6, AtHand
    <3>2. pc' # "dropped" /\ decoder' # "sending"
      BY <1>1, <1>6
    <3>3. Decoded' = frames'
      BY <2>2, <3>2, AtHand, ConcatEmptySeq, <2>1 DEF Decoded
    <3>4. QED
      BY <2>1, <3>1, <3>3
  <2>4. LastWord'
    <3>1. ASSUME decoder' # "ended" PROVE \A i \in DOMAIN frames' : frames'[i].type = "frame"
      <4>1. result.type = "frame"
        BY <1>6, <3>1
      <4>2. \A i \in 1..Len(frames) : frames[i].type = "frame"
        BY <1>1, <1>5, LenProperties DEF LastWord
      <4>3. \A i \in DOMAIN frames' : i \in 1..Len(frames) \/ i = Len(frames) + 1
        BY <2>1, LenProperties
      <4>4. QED
        BY <2>1, <4>1, <4>2, <4>3
    <3>2. QED
      BY <1>1, <3>1 DEF LastWord
  <2>5. Made' = Made /\ (InStep' => InStep)
    BY <1>1, <1>6, <2>3 DEF Made, InStep
  <2>6. InOrder'
    BY <1>1, <1>2, <1>3, <2>3 DEF InOrder
  <2>7. NothingElse'
    BY <1>1, <1>2, <2>5 DEF NothingElse
  <2>8. QED
    BY <1>4, <2>2, <2>4, <2>6, <2>7
<1>7. ASSUME pc = "dropped", decoder' = "ended", UNCHANGED frames
      PROVE  ChannelInv'
  <2>1. Decoded' = <<>>
    BY <1>1, <1>7 DEF Decoded
  <2>2. Shapes'
    <3>1. fresh' \in BOOLEAN
      BY <1>1, Zenon DEF Shapes
    <3>2. QED
      BY <1>1, <1>2, <1>7, <3>1 DEF Shapes
  <2>3. LastWord'
    BY <1>1, <1>7 DEF LastWord
  <2>4. InOrder'
    BY <1>1, <1>2, <2>1 DEF InOrder
  <2>5. NothingElse'
    BY <1>7 DEF NothingElse, InStep
  <2>6. QED
    BY <1>4, <2>2, <2>3, <2>4, <2>5
<1>8. QED
  BY <1>6, <1>7 DEF SendResult

-----------------------------------------------------------------------------
(* The session.                                                            *)

(* A step of the session about its one result at hand leaves the writer    *)
(* and the bytes alone.                                                    *)
LEMMA SessionLeaves ==
  ASSUME ChannelInv,
         UNCHANGED <<engineVars, pipeVars, decoderVars>>,
         frames' = <<>>, taken' \in Seq(Seq(Pair))
  PROVE  /\ Shapes' /\ LastWord'
         /\ Current' = Current /\ Sizes' = Sizes /\ At' = At /\ Writing' = Writing
         /\ Bytestream' = Bytestream
         /\ \A n : Size(n)' = Size(n) /\ Bytes(n)' = Bytes(n)
         /\ \A r, n : Arrives(r, n) => Arrives(r, n)'
<1> USE DEF ChannelInv
<1>1. UNCHANGED <<engine, fresh, events, cursor, helper, stdout, decoder, partial, result>>
  BY DEF engineVars, pipeVars, decoderVars
<1>2. /\ Current' = Current /\ Sizes' = Sizes /\ At' = At /\ Writing' = Writing
      /\ Bytestream' = Bytestream
      /\ \A n : Size(n)' = Size(n) /\ Bytes(n)' = Bytes(n)
  BY <1>1 DEF Current, Sizes, At, Writing, Bytestream, Size, Bytes
<1>3. Shapes'
  <2>1. fresh' \in BOOLEAN
    BY <1>1, Zenon DEF Shapes
  <2>2. frames' \in Seq(Outcome) /\ Len(frames') <= 1
    BY EmptySeq
  <2>3. QED
    BY <1>1, <1>2, <2>1, <2>2 DEF Shapes
<1>4. LastWord'
  <2>1. DOMAIN frames' = {}
    BY EmptySeq, LenProperties
  <2>2. QED
    BY <1>1, <2>1 DEF LastWord
<1>5. ASSUME NEW r, NEW n, Arrives(r, n) PROVE Arrives(r, n)'
  BY <1>1, <1>2, <1>5 DEF Arrives, CleanEof, StdoutClosed
<1>6. QED
  BY <1>2, <1>3, <1>4, <1>5

(* With the one result in hand, and one more perhaps behind it.            *)
LEMMA HeadIsNext ==
  ASSUME ChannelInv, pc # "dropped", frames # <<>>
  PROVE  /\ Len(frames) = 1 /\ Head(frames) = frames[1] /\ Tail(frames) = <<>>
         /\ frames[1] \in Outcome /\ Arrives(frames[1], Len(taken) + 1)
         /\ Len(Decoded) \in Nat /\ Len(Decoded) >= 1 /\ Decoded[1] = frames[1]
         /\ decoder # "sending" => Len(Decoded) = 1
         /\ decoder = "sending" => Len(Decoded) = 2 /\ Decoded[2] = result
<1> USE DEF ChannelInv
<1>1. frames \in Seq(Outcome) /\ Len(frames) = 1
  <2>1. frames \in Seq(Outcome) /\ Len(frames) <= 1 /\ Len(frames) \in Nat /\ Len(frames) # 0
    BY LenProperties, EmptySeq DEF Shapes
  <2>2. PICK l : l = Len(frames)
    OBVIOUS
  <2>3. l \in Nat /\ l <= 1 /\ l # 0
    BY <2>1, <2>2
  <2>4. l = 1
    BY <2>3
  <2>5. QED
    BY <2>1, <2>2, <2>4
<1>2. /\ Head(frames) = frames[1] /\ frames[1] \in Outcome
      /\ Tail(frames) \in Seq(Outcome) /\ Len(Tail(frames)) = 0
  BY <1>1, HeadTailProperties, ElementOfSeq
<1>3. Tail(frames) = <<>>
  BY <1>2, EmptySeq
<1>4. CASE decoder # "sending"
  <2>1. Decoded = frames
    BY <1>4, AtHand
  <2>2. Arrives(Decoded[1], Len(taken) + 1)
    BY <1>1, <2>1 DEF InOrder
  <2>3. QED
    BY <1>1, <1>2, <1>3, <1>4, <2>1, <2>2
<1>5. CASE decoder = "sending"
  <2>1. Decoded = frames \o <<result>> /\ result \in Outcome
    BY <1>5, AtHand DEF Shapes
  <2>2. Len(Decoded) = 2 /\ Decoded[1] = frames[1] /\ Decoded[2] = result
    <3>1. Len(<<result>>) = 1 /\ <<result>>[1] = result /\ <<result>> \in Seq(Outcome)
      BY <2>1
    <3>2. /\ Len(Decoded) = Len(frames) + Len(<<result>>)
          /\ \A i \in 1..(Len(frames) + Len(<<result>>)) :
               Decoded[i] = IF i <= Len(frames) THEN frames[i] ELSE <<result>>[i - Len(frames)]
      BY <1>1, <2>1, <3>1, ConcatProperties
    <3>3. QED
      BY <1>1, <3>1, <3>2
  <2>3. 1 \in 1..Len(Decoded)
    BY <2>2
  <2>4. Arrives(Decoded[1], Len(taken) + 1)
    BY <2>3 DEF InOrder
  <2>5. QED
    BY <1>1, <1>2, <1>3, <1>5, <2>2, <2>4
<1>6. QED
  BY <1>4, <1>5

(* Events are taken in their order; an error ends the use of the session,  *)
(* and never is it the order that is wrong.                                *)
LEMMA ReceiveStep == ASSUME ChannelInv, Receive PROVE ChannelInv'
<1> USE DEF ChannelInv
<1> DEFINE r == frames[1]
           n == Len(taken) + 1
<1>1. /\ pc = "receiving" /\ frames # <<>> /\ frames' = Tail(frames)
      /\ UNCHANGED <<engineVars, pipeVars, decoderVars>>
  BY DEF Receive
<1>2. /\ Len(frames) = 1 /\ Head(frames) = r /\ Tail(frames) = <<>>
      /\ r \in Outcome /\ Arrives(r, n)
      /\ Len(Decoded) \in Nat /\ Len(Decoded) >= 1 /\ Decoded[1] = r
      /\ decoder # "sending" => Len(Decoded) = 1
      /\ decoder = "sending" => Len(Decoded) = 2 /\ Decoded[2] = result
  BY <1>1, HeadIsNext
<1>3. frames' = <<>> /\ UNCHANGED <<engine, events, cursor, stdout, decoder, result, partial>>
  BY <1>1, <1>2 DEF engineVars, pipeVars, decoderVars
<1>4. \/ /\ r.type = "frame" /\ r.bytes[1][1] = n
         /\ taken' = Append(taken, r.bytes) /\ pc' = "idle" /\ report' = report
      \/ /\ r.type = "frame" /\ r.bytes[1][1] # n
      \/ /\ r.type # "frame" /\ taken' = taken /\ pc' = "closing"
         /\ report' \in {"oversized", "truncatedPrefix", "truncatedPayload", "cleanEof", "engineFailure"}
  <2>1. r.type \in {"frame", "error", "eof"}
        /\ (r.type = "error" => r.why \in {"oversized", "truncatedPrefix", "truncatedPayload"})
    BY <1>2 DEF Outcome
  <2>2. QED
    BY <1>2, <2>1 DEF Receive, Fail
<1>5. taken \in Seq(Seq(Pair)) /\ Len(taken) \in Nat /\ n \in Nat /\ Current \in Nat
  BY Numbers DEF Shapes
<1>6. CASE r.type = "frame"
  <2>1. n <= Current /\ r.bytes = Bytes(n) /\ r.bytes \in Seq(Pair)
    BY <1>2, <1>6 DEF Arrives, Outcome
  <2>2. r.bytes[1][1] = n
    <3>1. n \in 1..Current
      BY <1>5, <2>1
    <3>2. PrefixBytes + events[n].length \in Nat /\ PrefixBytes + events[n].length > 0
      <4>1. events[n].length \in Nat /\ PrefixBytes \in Nat /\ PrefixBytes > 0
        BY <3>1, Numbers, SizesAssumption
      <4>2. QED
        BY ONLY <4>1
    <3>3. Bytes(n)[1] = <<n, 1>>
      <4>1. 1 \in 1..(PrefixBytes + events[n].length)
        BY <3>2
      <4>2. QED
        BY <4>1 DEF Bytes
    <3>4. QED
      BY <2>1, <3>3
  <2>3. taken' = Append(taken, r.bytes) /\ pc' = "idle" /\ report' = report
    BY <1>4, <1>6, <2>2
  <2>4. /\ taken' \in Seq(Seq(Pair)) /\ Len(taken') = Len(taken) + 1
        /\ \A i \in 1..Len(taken) : taken'[i] = taken[i]
        /\ taken'[n] = r.bytes
    BY <1>5, <2>1, <2>3, AppendProperties
  <2>5. /\ Shapes' /\ LastWord'
        /\ Current' = Current /\ Sizes' = Sizes /\ At' = At /\ Writing' = Writing
        /\ Bytestream' = Bytestream
        /\ \A i : Size(i)' = Size(i) /\ Bytes(i)' = Bytes(i)
        /\ \A x, i : Arrives(x, i) => Arrives(x, i)'
    BY <1>1, <1>3, <2>4, SessionLeaves
  <2>6. /\ Len(Decoded') \in Nat
        /\ Len(Decoded') + 1 = Len(Decoded)
        /\ decoder = "sending" => Decoded'[1] = Decoded[2]
    <3>1. pc' # "dropped"
      BY <2>3
    <3>2. CASE decoder # "sending"
      <4>1. Decoded' = frames'
        BY <1>3, <3>1, <3>2, EmptySeq DEF Decoded
      <4>2. QED
        BY <1>2, <1>3, <3>2, <4>1, EmptySeq
    <3>3. CASE decoder = "sending"
      <4>1. Decoded' = frames' \o <<result>>
        BY <1>3, <3>1, <3>3 DEF Decoded
      <4>2. Len(Decoded') = 1 /\ Decoded'[1] = result
        BY <1>3, <4>1
      <4>3. QED
        BY <1>2, <3>3, <4>2
    <3>4. QED
      BY <3>2, <3>3
  <2>7. InOrder'
    <3>1. Len(taken') <= Current' /\ \A i \in 1..Len(taken') : taken'[i] = Bytes(i)'
      <4>1. \A i \in 1..Len(taken') : i \in 1..Len(taken) \/ i = n
        BY <1>5, <2>4
      <4>2. \A i \in 1..Len(taken) : taken[i] = Bytes(i)
        BY DEF InOrder
      <4>3. QED
        BY <1>5, <2>1, <2>4, <2>5, <4>1, <4>2
    <3>2. ASSUME NEW i \in 1..Len(Decoded') PROVE Arrives(Decoded[i], Len(taken) + i)'
      <4>1. i = 1 /\ decoder = "sending" /\ Len(Decoded) = 2
        BY <1>2, <2>6
      <4>2. Arrives(Decoded[2], Len(taken) + 2)
        BY <4>1 DEF InOrder
      <4>3. Decoded'[i] = Decoded[2] /\ Len(taken') + i = Len(taken) + 2
        BY <1>5, <2>4, <2>6, <4>1
      <4>4. PICK x, k : x = Decoded[2] /\ k = Len(taken) + 2
        OBVIOUS
      <4>5. Arrives(x, k)'
        BY <2>5, <4>2, <4>4
      <4>6. QED
        BY <4>3, <4>4, <4>5 DEF Arrives
    <3>3. QED
      BY <3>1, <3>2 DEF InOrder
  <2>8. NothingElse'
    <3>1. Made' = Made
      <4>1. /\ Len(taken') = Len(taken) + 1 /\ Len(Decoded') + 1 = Len(Decoded)
            /\ Len(taken) \in Nat /\ Len(Decoded') \in Nat
        BY <1>5, <2>4, <2>6
      <4>2. Len(taken') + Len(Decoded') = Len(taken) + Len(Decoded)
        BY ONLY <4>1
      <4>3. QED
        BY <4>2 DEF Made
    <3>2. InStep' => InStep
      BY <1>1, <1>3 DEF InStep
    <3>3. QED
      BY <1>3, <2>5, <3>1, <3>2 DEF NothingElse
  <2>9. Reported'
    <3>1. report' # "ok" /\ report' # "eventSequenceMismatch"
      BY <1>1, <2>3 DEF Reported
    <3>2. QED
      BY <3>1 DEF Reported
  <2>10. QED
    BY <2>5, <2>7, <2>8, <2>9
<1>7. CASE r.type # "frame"
  <2>1. /\ taken' = taken /\ pc' = "closing" /\ report' \notin {"ok", "eventSequenceMismatch"}
    BY <1>4, <1>7
  <2>2. decoder = "ended"
    <3>1. DOMAIN frames = 1..1
      BY <1>2, LenProperties DEF Shapes
    <3>2. QED
      BY <1>7, <3>1 DEF LastWord
  <2>3. /\ Shapes' /\ LastWord' /\ Current' = Current /\ \A i : Bytes(i)' = Bytes(i)
    BY <1>1, <1>3, <1>5, <2>1, SessionLeaves
  <2>4. Decoded' = <<>>
    BY <1>3, <2>1, <2>2, EmptySeq DEF Decoded
  <2>5. InOrder'
    BY <2>1, <2>3, <2>4, EmptySeq DEF InOrder
  <2>6. NothingElse'
    BY <1>3, <2>2 DEF NothingElse, InStep
  <2>7. Reported'
    BY <2>1 DEF Reported
  <2>8. QED
    BY <2>3, <2>5, <2>6, <2>7
<1>8. QED
  BY <1>6, <1>7

(* A shutdown that is content has seen the end of stdout, behind all that  *)
(* was written; it drops the session.                                      *)
LEMMA DrainStep == ASSUME ChannelInv, Drain PROVE ChannelInv'
<1> USE DEF ChannelInv
<1>1. /\ pc = "draining" /\ pc' = "dropped" /\ frames' = <<>> /\ taken' = taken
      /\ UNCHANGED <<engineVars, pipeVars, decoderVars>>
      /\ report' = IF Drained # "clean" THEN Drained
                   ELSE IF engine = "exited" THEN "ok" ELSE "engineFailure"
  BY DEF Drain
<1>2. taken \in Seq(Seq(Pair)) /\ Len(taken) \in Nat /\ Current \in Nat
  BY Numbers DEF Shapes
<1>3. Shapes' /\ LastWord' /\ Current' = Current /\ \A n : Bytes(n)' = Bytes(n)
  BY <1>1, <1>2, SessionLeaves
<1>4. Decoded' = <<>>
  BY <1>1 DEF Decoded
<1>5. InOrder'
  BY <1>1, <1>3, <1>4, EmptySeq DEF InOrder
<1>6. NothingElse'
  BY <1>1 DEF NothingElse, InStep
<1>7. Drained \in {"clean", "drainTimeout", "extraFrame", "oversized", "truncatedPrefix", "truncatedPayload"}
      /\ (Drained = "clean" => stdout = <<>> /\ Len(taken) = Current)
  <2>1. CASE frames = <<>>
    BY <2>1 DEF Drained
  <2>2. CASE frames # <<>>
    <3>1. /\ Head(frames) = frames[1] /\ frames[1] \in Outcome
          /\ Arrives(frames[1], Len(taken) + 1)
      BY <1>1, <2>2, HeadIsNext
    <3>2. CASE frames[1].type = "eof"
      <4>1. frames[1] = CleanEof
        BY <3>1, <3>2 DEF Outcome, CleanEof
      <4>2. stdout = <<>> /\ Len(taken) = Current
        BY <1>2, <3>1, <4>1 DEF Arrives
      <4>3. Drained = "clean"
        BY <2>2, <3>1, <3>2 DEF Drained
      <4>4. QED
        BY <4>2, <4>3
    <3>3. CASE frames[1].type = "frame"
      BY <2>2, <3>1, <3>3 DEF Drained
    <3>4. CASE frames[1].type = "error"
      <4>1. frames[1].why \in {"oversized", "truncatedPrefix", "truncatedPayload"}
        BY <3>1, <3>4 DEF Outcome
      <4>2. Drained = frames[1].why
        BY <2>2, <3>1, <3>4 DEF Drained
      <4>3. QED
        BY <4>1, <4>2
    <3>5. frames[1].type \in {"eof", "frame", "error"}
      BY <3>1 DEF Outcome
    <3>6. QED
      BY <3>2, <3>3, <3>4, <3>5
  <2>3. QED
    BY <2>1, <2>2
<1>8. Reported'
  <2>1. stdout' = stdout /\ engine' = engine
    BY <1>1 DEF pipeVars, engineVars
  <2>2. QED
    BY <1>1, <1>3, <1>7, <2>1 DEF Reported
<1>9. QED
  BY <1>3, <1>5, <1>6, <1>8

(* The other steps are quiet. *)
LEMMA QuietSteps ==
  ASSUME ChannelInv,
         \/ ServeRequest \/ EndFrame \/ Exit \/ Die \/ HelperEnds
         \/ BeginWrite \/ Write \/ BeginRead \/ ReceiveTimesOut
         \/ Shutdown \/ CloseStdin \/ Reap \/ Kill \/ UNCHANGED vars
  PROVE  ChannelInv'
<1> USE DEF engineVars, pipeVars, decoderVars, sessionVars
<1> DEFINE Quiet ==
      /\ UNCHANGED <<events, stdout, decoder, partial, result, frames, taken>>
      /\ UNCHANGED cursor \/ (Writing /\ cursor = Size(Current) /\ cursor' = 0)
      /\ pc = "dropped" => pc' = "dropped"
      /\ StdoutClosed => StdoutClosed'
      /\ report' = "ok" => report = "ok" /\ engine' = engine
      /\ report' # "eventSequenceMismatch"
<1>1. report # "eventSequenceMismatch" /\ (report = "ok" => pc = "dropped" /\ engine = "exited")
  BY DEF ChannelInv, Reported
<1>2. fresh \in BOOLEAN
  BY Zenon DEF ChannelInv, Shapes
<1>3. ASSUME fresh' = fresh \/ fresh' = TRUE, Quiet PROVE ChannelInv'
  <2>1. fresh' \in BOOLEAN
    BY <1>2, <1>3, Zenon
  <2>2. QED
    BY <1>3, <2>1, QuietStep
<1>4. CASE ServeRequest
  BY <1>1, <1>3, <1>4 DEF ServeRequest, StdoutClosed
<1>5. CASE EndFrame
  <2>1. Len(Bytes(Current)) = Size(Current)
    <3>1. Current > 0
      BY <1>5 DEF EndFrame, ChannelInv, Shapes
    <3>2. Current \in 1..Current
      BY <3>1, Numbers DEF ChannelInv
    <3>3. PrefixBytes + events[Current].length \in Nat
      BY <3>2, Numbers DEF ChannelInv, Size
    <3>4. QED
      BY <3>3 DEF Bytes, Size
  <2>2. QED
    BY <1>1, <1>3, <1>5, <2>1 DEF EndFrame, StdoutClosed
<1>6. CASE Exit \/ Die \/ Kill
  <2>1. engine = "running" /\ engine' \in {"exited", "died"}
    BY <1>6 DEF Exit, Die, Kill, EngineEnds
  <2>2. QED
    BY <1>1, <1>3, <1>6, <2>1 DEF Exit, Die, Kill, EngineEnds, StdoutClosed
<1>7. CASE HelperEnds
  BY <1>1, <1>3, <1>7 DEF HelperEnds, StdoutClosed
<1>8. CASE BeginWrite \/ BeginRead \/ ReceiveTimesOut \/ Shutdown \/ CloseStdin
  BY <1>1, <1>3, <1>8 DEF BeginWrite, BeginRead, ReceiveTimesOut, Shutdown, CloseStdin, StdoutClosed
<1>9. CASE Write
  BY <1>1, <1>3, <1>9 DEF Write, Fail, StdoutClosed
<1>10. CASE Reap
  BY <1>1, <1>3, <1>10 DEF Reap, StdoutClosed
<1>11. CASE UNCHANGED vars
  BY <1>1, <1>3, <1>11 DEF vars, StdoutClosed
<1>12. QED
  BY <1>4, <1>5, <1>6, <1>7, <1>8, <1>9, <1>10, <1>11

(* Each step of the system keeps the invariant. *)
LEMMA ChannelInvStep == ChannelInv /\ [Next]_vars => ChannelInv'
<1> SUFFICES ASSUME ChannelInv, [Next]_vars PROVE ChannelInv'
  OBVIOUS
<1>1. CASE BeginFrame \/ WriteBytes
  BY <1>1, BeginFrameStep, WriteBytesStep
<1>2. CASE DecoderContinues
  BY <1>2, ReadBytesStep, ReadFrameStep, SendResultStep DEF DecoderContinues
<1>3. CASE Receive \/ Drain
  BY <1>3, ReceiveStep, DrainStep
<1>4. QED
  BY <1>1, <1>2, <1>3, QuietSteps DEF Next, SessionContinues, EngineStep

LEMMA ChannelInvariant == Spec => []ChannelInv
  BY ChannelInvInit, ChannelInvStep, PTL DEF Spec

(* For every length of prefix and payload and size of the pipe, however    *)
(* the bytes are cut on their way and wherever the engine dies: the client *)
(* gets the first frames that were written, whole and in their order, and  *)
(* a clean end only behind the last one.                                   *)
THEOREM WholeFrames == Spec => []FramesArriveWhole
<1>1. ChannelInv => FramesArriveWhole
  <2> SUFFICES ASSUME ChannelInv PROVE FramesArriveWhole
    OBVIOUS
  <2> USE DEF ChannelInv
  <2>1. DOMAIN taken = 1..Len(taken) /\ DOMAIN Decoded = 1..Len(Decoded)
    BY AtHand, LenProperties DEF Shapes
  <2>2. QED
    BY <2>1 DEF FramesArriveWhole, InOrder, Arrives, Reported, Current
<1>2. QED
  BY <1>1, ChannelInvariant, PTL

-----------------------------------------------------------------------------
(* Requests and events by number.  A request waits from the moment it is   *)
(* written until its verdict has been taken: in stdin, in the engine's     *)
(* hands, or with its verdict under way.                                   *)
Unanswered == {n \in (Len(taken) + 1)..Current : events[n].verdict}
InHand == IF fresh THEN 1 ELSE 0

Waiting ==
  /\ stdin \in Nat /\ outstanding \in 0..Window
  /\ outstanding = stdin + InHand + Cardinality(Unanswered)
  /\ pc = "writing" => outstanding < Window

(* The verdict is the first of an answer's events, and there is room for   *)
(* all of them.                                                            *)
Answering ==
  /\ due \in 0..2
  /\ fresh => due > 0 /\ ~Writing
  /\ Writing => due > 0
  /\ Current + due <= MaxEvents + (IF Writing THEN 1 ELSE 0)

RoomInv == Waiting /\ Answering

LEMMA UnansweredIsFinite ==
  ASSUME Shapes
  PROVE  IsFiniteSet(Unanswered) /\ Cardinality(Unanswered) \in Nat
<1>1. Len(taken) + 1 \in Int /\ Current \in Int
  BY Numbers
<1>2. IsFiniteSet((Len(taken) + 1)..Current)
  BY <1>1, FS_Interval
<1>3. Unanswered \in SUBSET ((Len(taken) + 1)..Current)
  BY DEF Unanswered
<1>4. QED
  BY <1>2, <1>3, FS_Subset, FS_CardinalityType

LEMMA RoomInvInit == Init => RoomInv
<1> SUFFICES ASSUME Init PROVE RoomInv
  OBVIOUS
<1>1. /\ due = 0 /\ ~fresh /\ events = <<>> /\ taken = <<>> /\ cursor = 0 /\ stdin = 0
      /\ outstanding = 0 /\ pc = "idle"
  BY DEF Init
<1>2. Current = 0 /\ Len(taken) = 0 /\ ~Writing /\ InHand = 0
  BY <1>1, EmptySeq DEF Current, Writing, InHand
<1>3. Unanswered = {}
  BY <1>2 DEF Unanswered
<1>4. Waiting
  BY <1>1, <1>2, <1>3, FS_EmptySet, RoomAssumption DEF Waiting
<1>5. Answering
  BY <1>1, <1>2, SizesAssumption DEF Answering
<1>6. QED
  BY <1>4, <1>5 DEF RoomInv

(* A request is pressed into stdin, or taken out of it by the engine.      *)
LEMMA RequestsMove ==
  ASSUME ChannelInv, RoomInv, Write \/ ServeRequest
  PROVE  RoomInv'
<1> USE DEF ChannelInv
<1>1. UNCHANGED <<events, taken, cursor>>
  BY DEF Write, ServeRequest, Fail, engineVars, sessionVars
<1>2. Current' = Current /\ Writing' = Writing /\ Unanswered' = Unanswered
  BY <1>1 DEF Current, Writing, Unanswered
<1> PICK waits : waits = Cardinality(Unanswered)
  OBVIOUS
<1>3. waits \in Nat /\ Cardinality(Unanswered') = waits
  BY <1>2, UnansweredIsFinite
<1>4. stdin \in Nat /\ outstanding \in 0..Window /\ outstanding = stdin + InHand + waits
  BY DEF RoomInv, Waiting
<1>5. CASE Write
  <2>1. UNCHANGED <<due, fresh>> /\ InHand' = InHand /\ InHand \in Nat
    BY <1>5 DEF Write, engineVars, InHand
  <2>2. Answering'
    BY <1>2, <2>1 DEF RoomInv, Answering
  <2>3. \/ stdin' = stdin + 1 /\ outstanding' = outstanding + 1 /\ pc' = "idle"
        \/ stdin' = stdin /\ outstanding' = outstanding /\ pc' = "closing"
    BY <1>5 DEF Write, Fail
  <2>4. outstanding < Window
    BY <1>5 DEF Write, RoomInv, Waiting
  <2>5. Waiting'
    BY <1>3, <1>4, <2>1, <2>3, <2>4, RoomAssumption DEF Waiting
  <2>6. QED
    BY <2>2, <2>5 DEF RoomInv
<1>6. CASE ServeRequest
  <2>1. /\ due = 0 /\ stdin > 0 /\ stdin' = stdin - 1 /\ due' \in 1..2 /\ fresh' = TRUE
        /\ Current + due' <= MaxEvents /\ UNCHANGED <<pc, outstanding>>
    BY <1>6 DEF ServeRequest, sessionVars, Current
  <2>2. ~fresh /\ ~Writing
    BY <2>1 DEF RoomInv, Answering
  <2>3. InHand = 0 /\ InHand' = 1
    BY <2>1, <2>2 DEF InHand
  <2>4. Answering'
    BY <1>2, <2>1, <2>2, SizesAssumption DEF Answering
  <2>5. Waiting'
    BY <1>3, <1>4, <2>1, <2>3 DEF RoomInv, Waiting
  <2>6. QED
    BY <2>4, <2>5 DEF RoomInv
<1>7. QED
  BY <1>5, <1>6

(* The verdict leaves the engine's hands. *)
LEMMA VerdictIsWritten ==
  ASSUME ChannelInv, RoomInv, BeginFrame
  PROVE  RoomInv'
<1> USE DEF ChannelInv
<1> PICK next : next = Current + 1
  OBVIOUS
<1>1. PICK l \in Nat : events' = Append(events, Event(l, fresh))
  BY SizesAssumption DEF BeginFrame, Oversized
<1>2. /\ due > 0 /\ ~Writing /\ fresh' = FALSE /\ cursor' = 1
      /\ UNCHANGED <<due, stdin, taken, outstanding, pc>>
  BY DEF BeginFrame, sessionVars
<1>3. Current \in Nat /\ Len(taken) \in Nat /\ Len(taken) <= Current /\ next = Current + 1
  BY Numbers DEF InOrder
<1>4. /\ Current' = next
      /\ events'[next].verdict = fresh
      /\ \A n \in 1..Current : events'[n] = events[n]
  <2>1. Event(l, fresh) \in [length : Nat, verdict : BOOLEAN] /\ Event(l, fresh).verdict = fresh
    BY DEF Event, Shapes
  <2>2. QED
    BY <1>1, <1>3, <2>1 DEF Shapes, Current
<1>5. InHand' = 0 /\ Writing'
  BY <1>2 DEF InHand, Writing
<1>6. \A n \in (Len(taken) + 1)..next : n = next \/ n \in (Len(taken) + 1)..Current
  BY <1>3
<1>7. /\ next \in (Len(taken) + 1)..next /\ next \notin (Len(taken) + 1)..Current
      /\ \A n \in (Len(taken) + 1)..Current : n \in 1..Current /\ n \in (Len(taken) + 1)..next
  BY <1>3
<1>8. Unanswered' = IF fresh THEN Unanswered \cup {next} ELSE Unanswered
  <2>1. Unanswered' = {n \in (Len(taken) + 1)..next : events'[n].verdict}
    BY <1>2, <1>4 DEF Unanswered
  <2>2. QED
    BY <1>4, <1>6, <1>7, <2>1, Zenon DEF Unanswered
<1>9. next \notin Unanswered
  BY <1>7 DEF Unanswered
<1>10. Cardinality(Unanswered') = InHand + Cardinality(Unanswered)
  BY <1>8, <1>9, UnansweredIsFinite, FS_AddElement DEF InHand
<1>11. Waiting'
  BY <1>2, <1>5, <1>10, UnansweredIsFinite DEF RoomInv, Waiting, InHand
<1>12. Answering'
  BY <1>2, <1>3, <1>4, <1>5, SizesAssumption DEF RoomInv, Answering
<1>13. QED
  BY <1>11, <1>12 DEF RoomInv

(* A frame ends, and with it one of the events due. *)
LEMMA FrameEnds ==
  ASSUME ChannelInv, RoomInv, EndFrame
  PROVE  RoomInv'
<1>1. /\ Writing /\ cursor' = 0 /\ due' = due - 1
      /\ UNCHANGED <<fresh, events, stdin, taken, outstanding, pc>>
  BY DEF EndFrame, pipeVars, sessionVars
<1>2. Current' = Current /\ Unanswered' = Unanswered /\ InHand' = InHand /\ ~Writing'
  BY <1>1 DEF Current, Unanswered, InHand, Writing
<1>3. Current \in Nat
  BY Numbers DEF ChannelInv
<1>4. Waiting'
  BY <1>1, <1>2 DEF RoomInv, Waiting
<1>5. Answering'
  BY <1>1, <1>2, <1>3, SizesAssumption DEF RoomInv, Answering
<1>6. QED
  BY <1>4, <1>5 DEF RoomInv

(* A verdict is taken: the event behind the last one taken, if it is one,  *)
(* was waited for.                                                         *)
LEMMA EventIsTaken ==
  ASSUME ChannelInv, RoomInv, Receive
  PROVE  RoomInv'
<1> USE DEF ChannelInv
<1> PICK n : n = Len(taken) + 1
  OBVIOUS
<1>1. /\ UNCHANGED <<due, fresh, events, cursor, stdin>>
      /\ pc' # "writing"
  BY DEF Receive, Fail, engineVars, pipeVars
<1>2. Current' = Current /\ Writing' = Writing /\ InHand' = InHand
  BY <1>1 DEF Current, Writing, InHand
<1>3. Answering'
  BY <1>1, <1>2 DEF RoomInv, Answering
<1>4. taken \in Seq(Seq(Pair)) /\ Len(taken) \in Nat /\ n = Len(taken) + 1 /\ Current \in Nat
  BY Numbers DEF Shapes
<1>5. CASE UNCHANGED <<taken, outstanding>>
  <2>1. Unanswered' = Unanswered
    BY <1>1, <1>2, <1>5 DEF Unanswered
  <2>2. QED
    BY <1>1, <1>2, <1>3, <1>5, <2>1 DEF RoomInv, Waiting
<1>6. CASE ~UNCHANGED <<taken, outstanding>>
  <2> DEFINE r == Head(frames)
  <2>1. /\ r.type = "frame" /\ taken' = Append(taken, r.bytes)
        /\ outstanding' = IF events[Len(taken')].verdict THEN outstanding - 1 ELSE outstanding
    BY <1>6 DEF Receive, Fail
  <2>2. n <= Current /\ r.bytes \in Seq(Pair)
    <3>1. r = frames[1] /\ r \in Outcome /\ Arrives(r, Len(taken) + 1)
      BY HeadIsNext DEF Receive
    <3>2. QED
      BY <1>4, <2>1, <3>1 DEF Arrives, Outcome
  <2>3. Len(taken') = n
    <3> DEFINE b == r.bytes
    <3>1. b \in Seq(Pair) /\ taken' = Append(taken, b)
      BY <2>1, <2>2
    <3> HIDE DEF b
    <3>2. QED
      BY <1>4, <3>1, AppendProperties
  <2>4. n \in (Len(taken) + 1)..Current
    BY <1>4, <2>2
  <2>5. \A m \in (Len(taken) + 1)..Current : m = n \/ (m \in (n + 1)..Current /\ m # n)
    BY <1>4
  <2>6. \A m \in (n + 1)..Current : m # n /\ m \in (Len(taken) + 1)..Current
    BY <1>4
  <2>7. Unanswered' = Unanswered \ {n} /\ (n \in Unanswered <=> events[n].verdict)
    <3>1. Unanswered' = {m \in (n + 1)..Current : events[m].verdict}
      BY <1>1, <1>2, <2>3 DEF Unanswered
    <3>2. QED
      BY <2>4, <2>5, <2>6, <3>1, Zenon DEF Unanswered
  <2>8. Cardinality(Unanswered') =
          IF events[n].verdict THEN Cardinality(Unanswered) - 1 ELSE Cardinality(Unanswered)
    BY <2>7, UnansweredIsFinite, FS_RemoveElement
  <2>9. events[n].verdict => Cardinality(Unanswered) > 0
    BY <2>7, UnansweredIsFinite, FS_EmptySet
  <2>10. InHand \in Nat
    BY DEF InHand
  <2> PICK waits : waits = Cardinality(Unanswered)
    OBVIOUS
  <2>11. waits \in Nat /\ (events[n].verdict => waits > 0)
    BY <2>9, UnansweredIsFinite
  <2>12. Waiting'
    BY <1>1, <1>2, <2>1, <2>3, <2>8, <2>10, <2>11, RoomAssumption DEF RoomInv, Waiting
  <2>13. QED
    BY <1>3, <2>12 DEF RoomInv
<1>7. QED
  BY <1>5, <1>6

(* The other steps move no request and no event; a call that writes begins *)
(* only while few requests wait.                                           *)
LEMMA NothingMoves ==
  ASSUME ChannelInv, RoomInv,
         \/ WriteBytes \/ Exit \/ Die \/ HelperEnds \/ DecoderContinues
         \/ BeginWrite \/ BeginRead \/ ReceiveTimesOut
         \/ Shutdown \/ CloseStdin \/ Reap \/ Kill \/ Drain \/ UNCHANGED vars
  PROVE  RoomInv'
<1> USE DEF engineVars, pipeVars, decoderVars, sessionVars
<1> DEFINE Still ==
      /\ UNCHANGED <<due, fresh, events, stdin, taken, outstanding>>
      /\ Writing' = Writing
      /\ pc' = "writing" => pc = "writing" \/ outstanding < Window
<1>1. ASSUME Still PROVE RoomInv'
  <2>1. Current' = Current /\ Unanswered' = Unanswered /\ InHand' = InHand
    BY <1>1 DEF Current, Unanswered, InHand
  <2>2. QED
    BY <1>1, <2>1 DEF RoomInv, Waiting, Answering
<1>2. CASE WriteBytes
  <2>1. cursor' > 0 /\ cursor > 0
    BY <1>2 DEF WriteBytes, Writing, ChannelInv, Shapes
  <2>2. QED
    BY <1>1, <1>2, <2>1 DEF WriteBytes, Writing
<1>3. CASE Exit \/ Die \/ HelperEnds \/ Kill
  BY <1>1, <1>3 DEF Exit, Die, HelperEnds, Kill, EngineEnds, Writing
<1>4. CASE DecoderContinues
  BY <1>1, <1>4 DEF DecoderContinues, ReadBytes, ReadFrame, SendResult, Writing
<1>5. CASE BeginWrite \/ BeginRead \/ ReceiveTimesOut \/ Shutdown
  BY <1>1, <1>5 DEF BeginWrite, BeginRead, ReceiveTimesOut, Shutdown, Writing
<1>6. CASE CloseStdin \/ Reap \/ Drain
  BY <1>1, <1>6 DEF CloseStdin, Reap, Drain, Writing
<1>7. CASE UNCHANGED vars
  BY <1>1, <1>7 DEF vars, Writing
<1>8. QED
  BY <1>2, <1>3, <1>4, <1>5, <1>6, <1>7

LEMMA RoomInvStep == ChannelInv /\ RoomInv /\ [Next]_vars => RoomInv'
  BY RequestsMove, VerdictIsWritten, FrameEnds, EventIsTaken, NothingMoves
  DEF Next, SessionContinues, EngineStep

LEMMA RoomInvariant == Spec => [](ChannelInv /\ RoomInv)
  BY ChannelInvInit, ChannelInvStep, RoomInvInit, RoomInvStep, PTL DEF Spec

(* A session that writes a request to a running engine finds room for it,  *)
(* though nobody may be reading: write_envelope has no deadline and would  *)
(* wait for ever.  It is what NobodyHangs needs of the requests.           *)
WriteFindsRoom == pc = "writing" => stdin < RequestRoom

THEOREM WritesNeverWait == Spec => []WriteFindsRoom
<1>1. ChannelInv /\ RoomInv => WriteFindsRoom
  <2> SUFFICES ASSUME ChannelInv, RoomInv, pc = "writing" PROVE stdin < RequestRoom
    BY DEF WriteFindsRoom
  <2>1. InHand \in Nat
    BY DEF InHand
  <2>2. Cardinality(Unanswered) \in Nat
    BY UnansweredIsFinite DEF ChannelInv
  <2>3. QED
    BY <2>1, <2>2, RoomAssumption DEF RoomInv, Waiting
<1>2. QED
  BY <1>1, RoomInvariant, PTL

-----------------------------------------------------------------------------
(* The types.  The numbers are bounded by RoomInv, so each action is left  *)
(* to show what it does to the sequences.                                  *)
EventType == [length : 0..Oversized, verdict : BOOLEAN]

(* What stays when a step leaves the sequences alone. *)
LEMMA OtherTypes ==
  ASSUME TypeOK, ChannelInv', RoomInv', engine' \in {"running", "exited", "died"},
         cursor' \in 0..(PrefixBytes + Oversized), UNCHANGED helper \/ helper' = FALSE,
         UNCHANGED stdinOpen \/ stdinOpen' = FALSE,
         pc' \in {"idle", "writing", "receiving", "closing", "reaping", "draining", "dropped"},
         events' \in Seq(EventType), stdout' \in Seq(Byte), Len(stdout') <= PipeBytes,
         partial' \in Seq(Byte), result' \in Results, frames' \in Seq(Results),
         taken' \in Seq(Seq(Byte))
  PROVE  TypeOK'
<1>1. due' \in 0..2
  BY DEF RoomInv, Answering
<1>2. outstanding' \in 0..Window /\ stdin' \in 0..RequestRoom
  <2>1. /\ stdin' \in Nat /\ outstanding' \in 0..Window
        /\ outstanding' = stdin' + InHand' + Cardinality(Unanswered)'
    BY DEF RoomInv, Waiting
  <2>2. Shapes'
    BY DEF ChannelInv
  <2>3. Cardinality(Unanswered)' \in Nat /\ InHand' \in Nat
    <3>1. (Shapes => Cardinality(Unanswered) \in Nat)'
      BY UnansweredIsFinite, PTL
    <3>2. QED
      BY <2>2, <3>1 DEF InHand
  <2>4. QED
    BY <2>1, <2>3, RoomAssumption
<1>3. helper' \in BOOLEAN /\ stdinOpen' \in BOOLEAN /\ fresh' \in BOOLEAN
  BY Zenon DEF TypeOK, ChannelInv, Shapes
<1>4. decoder' \in {"reading", "sending", "ended"} /\ Len(frames') <= FrameCapacity
  BY DEF ChannelInv, Shapes, FrameCapacity
<1>5. QED
  BY <1>1, <1>2, <1>3, <1>4 DEF TypeOK, EventType

LEMMA TypeInit == Init => TypeOK
<1> SUFFICES ASSUME Init PROVE TypeOK
  OBVIOUS
<1>1. /\ engine = "running" /\ due = 0 /\ fresh = FALSE /\ events = <<>> /\ cursor = 0
      /\ stdin = 0 /\ stdinOpen = TRUE /\ stdout = <<>> /\ decoder = "reading" /\ partial = <<>>
      /\ result = NoResult /\ frames = <<>> /\ pc = "idle" /\ outstanding = 0 /\ taken = <<>>
  BY DEF Init
<1>2. helper \in BOOLEAN /\ fresh \in BOOLEAN /\ stdinOpen \in BOOLEAN
  <2>1. fresh \in BOOLEAN /\ stdinOpen \in BOOLEAN
    BY <1>1, Zenon
  <2>2. ("helper" \in Faults) \in BOOLEAN
    OBVIOUS
  <2>3. helper = ("helper" \in Faults)
    BY Zenon DEF Init
  <2>4. helper \in BOOLEAN
    BY <2>2, <2>3, Zenon
  <2>5. QED
    BY <2>1, <2>4, Zenon
<1>3. 0 \in 0..(PrefixBytes + Oversized) /\ 0 \in 0..RequestRoom /\ 0 \in 0..Window /\ 0 <= PipeBytes
  BY SizesAssumption, RoomAssumption DEF Oversized
<1>4. NoResult \in Results
  BY DEF NoResult, Results
<1>5. QED
  BY <1>1, <1>2, <1>3, <1>4, EmptySeq DEF TypeOK, FrameCapacity

(* The engine writes bytes of an event. *)
LEMMA BeginFrameTypes ==
  ASSUME TypeOK, ChannelInv, ChannelInv', RoomInv', BeginFrame
  PROVE  TypeOK'
<1>1. /\ UNCHANGED <<engine, helper, stdinOpen, partial, result, frames, pc, taken>>
      /\ stdout' = Append(stdout, <<Len(events'), 1>>) /\ Len(stdout') <= PipeBytes
      /\ cursor' = 1
  BY DEF BeginFrame, decoderVars, sessionVars
<1>2. PICK l \in 0..Oversized : events' = Append(events, Event(l, fresh))
  BY SizesAssumption DEF BeginFrame, Oversized
<1>3. events' \in Seq(EventType)
  <2>1. Event(l, fresh) \in EventType
    BY DEF Event, EventType, TypeOK
  <2>2. events \in Seq(EventType)
    BY DEF TypeOK, EventType
  <2>3. QED
    BY <1>2, <2>1, <2>2, AppendProperties
<1>4. Len(events') \in 1..MaxEvents
  <2>1. Len(events') \in Nat /\ Len(events') > 0
    <3>1. events \in Seq(EventType) /\ Event(l, fresh) \in EventType
      BY DEF Event, EventType, TypeOK
    <3>2. QED
      BY <1>2, <3>1, AppendProperties, LenProperties
  <2>2. Len(events') + due' <= MaxEvents + 1 /\ due' > 0 /\ due' \in 0..2
    BY <1>1 DEF RoomInv, Answering, Writing, Current
  <2>3. QED
    BY <2>1, <2>2, SizesAssumption
<1>5. stdout' \in Seq(Byte) /\ 1 \in 0..(PrefixBytes + Oversized)
  <2>1. 1 \in 1..(PrefixBytes + Oversized)
    BY SizesAssumption DEF Oversized
  <2> DEFINE x == <<Len(events'), 1>>
  <2>2. x \in Byte
    BY <1>4, <2>1 DEF Byte
  <2> HIDE DEF x
  <2>3. Append(stdout, x) \in Seq(Byte)
    BY <2>2, AppendProperties DEF TypeOK
  <2>4. QED
    BY <1>1, <2>1, <2>3 DEF x
<1>6. QED
  BY <1>1, <1>3, <1>5, OtherTypes DEF TypeOK

LEMMA WriteBytesTypes ==
  ASSUME TypeOK, ChannelInv, ChannelInv', RoomInv, RoomInv', WriteBytes
  PROVE  TypeOK'
<1> USE DEF ChannelInv
<1>1. /\ UNCHANGED <<engine, events, helper, stdinOpen, partial, result, frames, pc, taken>>
      /\ Writing
  BY DEF WriteBytes, decoderVars, sessionVars
<1>2. PICK k \in 1..(PipeBytes - Len(stdout)) :
        /\ cursor + k <= Len(Bytes(Current))
        /\ stdout' = stdout \o SubSeq(Bytes(Current), cursor + 1, cursor + k)
        /\ cursor' = cursor + k
  BY DEF WriteBytes
<1>3. /\ Current > 0 /\ Current \in 1..Current /\ Current \in Nat /\ Size(Current) \in Nat
      /\ Len(stdout) \in Nat /\ cursor \in Nat /\ k \in Nat /\ k > 0
      /\ k <= PipeBytes - Len(stdout)
  <2>1. Current > 0 /\ cursor \in Nat
    BY <1>1 DEF Shapes
  <2>2. Current \in Nat /\ Len(stdout) \in Nat /\ Current \in 1..Current
    BY <2>1, Numbers
  <2>3. Size(Current) \in Nat
    BY <2>2, Numbers
  <2>4. k \in Nat /\ k > 0 /\ k <= PipeBytes - Len(stdout)
    BY <2>2, SizesAssumption
  <2>5. QED
    BY <2>1, <2>2, <2>3, <2>4
<1>4. Current \in 1..MaxEvents /\ Size(Current) <= PrefixBytes + Oversized
  <2>1. Current + due <= MaxEvents + 1 /\ due > 0 /\ due \in 0..2
    BY <1>1 DEF RoomInv, Answering
  <2>2. Current <= MaxEvents
    BY <1>3, <2>1, SizesAssumption
  <2>3. events[Current].length \in 0..Oversized
    <3>1. events[Current] \in EventType
      BY <1>3, ElementOfSeq DEF TypeOK, EventType, Current
    <3>2. QED
      BY <3>1 DEF EventType
  <2>4. Size(Current) <= PrefixBytes + Oversized
    BY <2>3, SizesAssumption DEF Size, Oversized
  <2>5. QED
    BY <1>3, <2>2, <2>4, SizesAssumption
<1>5. \A i \in 1..Size(Current) : <<Current, i>> \in Byte
  <2>1. PrefixBytes + Oversized \in Nat
    BY SizesAssumption DEF Oversized
  <2>2. \A i \in 1..Size(Current) : i \in 1..(PrefixBytes + Oversized)
    BY <1>3, <1>4, <2>1
  <2>3. QED
    BY <1>4, <2>2 DEF Byte
<1> DEFINE w == SubSeq(Bytes(Current), cursor + 1, cursor + k)
<1>6. Len(Bytes(Current)) = Size(Current) /\ w \in Seq(Byte) /\ Len(w) = k
  BY <1>2, <1>3, <1>5, PieceOfFrame
<1>7. stdout' = stdout \o w
  BY <1>2
<1> HIDE DEF w
<1>8. stdout' \in Seq(Byte) /\ Len(stdout') = Len(stdout) + k
  BY <1>6, <1>7, ConcatProperties DEF TypeOK
<1>9. Len(stdout') <= PipeBytes
  BY <1>3, <1>8, SizesAssumption
<1>10. cursor' \in 0..(PrefixBytes + Oversized)
  BY <1>2, <1>3, <1>4, <1>6, SizesAssumption DEF Oversized
<1>11. QED
  BY <1>1, <1>8, <1>9, <1>10, OtherTypes DEF TypeOK, EventType

(* The decoder cuts the stream and makes a result of what it has.          *)
LEMMA DecoderTypes ==
  ASSUME TypeOK, ChannelInv, ChannelInv', RoomInv', DecoderContinues
  PROVE  TypeOK'
<1>1. UNCHANGED <<engine, events, cursor, helper, stdinOpen, pc, taken>>
  BY DEF DecoderContinues, ReadBytes, ReadFrame, SendResult, engineVars, pipeVars, sessionVars
<1>2. /\ stdout \in Seq(Byte) /\ Len(stdout) \in Nat /\ partial \in Seq(Byte)
      /\ result \in Results /\ frames \in Seq(Results) /\ <<>> \in Seq(Byte)
      /\ Len(stdout) <= PipeBytes
  BY EmptySeq, LenProperties DEF TypeOK
<1>3. /\ stdout' \in Seq(Byte) /\ Len(stdout') <= PipeBytes /\ partial' \in Seq(Byte)
      /\ result' \in Results /\ frames' \in Seq(Results)
  <2>1. CASE ReadBytes
    <3>1. PICK k \in 1..Missing :
            /\ k <= Len(stdout)
            /\ partial' = partial \o SubSeq(stdout, 1, k)
            /\ stdout' = SubSeq(stdout, k + 1, Len(stdout))
      BY <2>1 DEF ReadBytes
    <3>2. k \in Int /\ k > 0 /\ k <= Len(stdout)
      BY <3>1
    <3>3. \A i \in 1..Len(stdout) : stdout[i] \in Byte
      BY <1>2, ElementOfSeq
    <3>4. /\ \A i \in 1..k : stdout[i] \in Byte
          /\ \A i \in (k + 1)..Len(stdout) : stdout[i] \in Byte
      BY <1>2, <3>2, <3>3
    <3> DEFINE r == SubSeq(stdout, 1, k)
               t == SubSeq(stdout, k + 1, Len(stdout))
    <3>5. r \in Seq(Byte)
      BY <3>2, <3>4, SubSeqProperties
    <3>6. t \in Seq(Byte) /\ Len(t) = IF k + 1 <= Len(stdout) THEN Len(stdout) - (k + 1) + 1 ELSE 0
      <4>1. k + 1 \in Int /\ Len(stdout) \in Int
        BY <1>2, <3>2
      <4>2. QED
        BY <3>4, <4>1, SubSeqProperties
    <3>7. stdout' = t /\ partial' = partial \o r
      BY <3>1
    <3> HIDE DEF r, t
    <3>8. Len(t) <= PipeBytes
      BY <1>2, <3>2, <3>6, SizesAssumption
    <3>9. partial' \in Seq(Byte)
      BY <1>2, <3>5, <3>7, ConcatProperties
    <3>10. QED
      BY <1>2, <2>1, <3>6, <3>7, <3>8, <3>9 DEF ReadBytes
  <2>2. CASE ReadFrame
    <3>1. result' \in Results
      BY <1>2, <2>2 DEF ReadFrame, Results, Failure, Frame, AtEof, CleanEof
    <3>2. QED
      BY <1>2, <2>2, <3>1 DEF ReadFrame, pipeVars
  <2>3. CASE SendResult
    <3>1. Append(frames, result) \in Seq(Results)
      BY <1>2, AppendProperties
    <3>2. NoResult \in Results
      BY DEF NoResult, Results
    <3>3. QED
      BY <1>2, <2>3, <3>1, <3>2 DEF SendResult, pipeVars
  <2>4. QED
    BY <2>1, <2>2, <2>3 DEF DecoderContinues
<1>4. QED
  BY <1>1, <1>3, OtherTypes DEF TypeOK, EventType

(* The session takes what is in the channel. *)
LEMMA SessionTypes ==
  ASSUME TypeOK, ChannelInv, ChannelInv', RoomInv', Receive \/ Drain
  PROVE  TypeOK'
<1>1. /\ UNCHANGED <<engine, events, cursor, helper, stdinOpen, stdout, partial, result>>
      /\ pc' \in {"idle", "closing", "dropped"}
  BY DEF Receive, Drain, Fail, engineVars, pipeVars, decoderVars
<1>2. frames \in Seq(Results) /\ taken \in Seq(Seq(Byte)) /\ <<>> \in Seq(Results)
  BY EmptySeq DEF TypeOK
<1>3. frames' \in Seq(Results) /\ taken' \in Seq(Seq(Byte))
  <2>1. CASE Receive
    <3>1. frames # <<>> /\ frames' = Tail(frames)
      BY <2>1 DEF Receive
    <3>2. Head(frames) \in Results /\ Tail(frames) \in Seq(Results)
      BY <1>2, <3>1, HeadTailProperties
    <3> DEFINE b == Head(frames).bytes
    <3>3. \/ UNCHANGED taken
          \/ Head(frames).type = "frame" /\ taken' = Append(taken, b)
      BY <2>1 DEF Receive, Fail
    <3>4. Head(frames).type = "frame" => b \in Seq(Byte)
      BY <3>2 DEF Results
    <3> HIDE DEF b
    <3>5. b \in Seq(Byte) => Append(taken, b) \in Seq(Seq(Byte))
      BY <1>2, AppendProperties
    <3>6. taken' \in Seq(Seq(Byte))
      BY <1>2, <3>3, <3>4, <3>5
    <3>7. QED
      BY <3>1, <3>2, <3>6
  <2>2. CASE Drain
    BY <1>2, <2>2 DEF Drain
  <2>3. QED
    BY <2>1, <2>2
<1>4. QED
  BY <1>1, <1>3, OtherTypes DEF TypeOK, EventType

(* The other steps move no byte. *)
LEMMA QuietTypes ==
  ASSUME TypeOK, ChannelInv', RoomInv',
         \/ ServeRequest \/ EndFrame \/ Exit \/ Die \/ HelperEnds
         \/ BeginWrite \/ Write \/ BeginRead \/ ReceiveTimesOut
         \/ Shutdown \/ CloseStdin \/ Reap \/ Kill \/ UNCHANGED vars
  PROVE  TypeOK'
<1> USE DEF engineVars, pipeVars, decoderVars, sessionVars
<1>1. UNCHANGED <<events, stdout, partial, result, frames, taken>>
  BY DEF ServeRequest, EndFrame, Exit, Die, HelperEnds, BeginWrite, Write, Fail, BeginRead,
         ReceiveTimesOut, Shutdown, CloseStdin, Reap, Kill, EngineEnds, vars
<1>2. cursor' \in 0..(PrefixBytes + Oversized)
  <2>1. UNCHANGED cursor \/ cursor' = 0
    BY DEF ServeRequest, EndFrame, Exit, Die, HelperEnds, BeginWrite, Write, BeginRead,
           ReceiveTimesOut, Shutdown, CloseStdin, Reap, Kill, EngineEnds, vars
  <2>2. QED
    BY <2>1, SizesAssumption DEF TypeOK, Oversized
<1>3. /\ UNCHANGED engine \/ engine' \in {"exited", "died"}
      /\ UNCHANGED helper \/ helper' = FALSE
      /\ UNCHANGED stdinOpen \/ stdinOpen' = FALSE
      /\ UNCHANGED pc \/ pc' \in {"idle", "writing", "receiving", "closing", "reaping",
                                  "draining", "dropped"}
  BY DEF ServeRequest, EndFrame, Exit, Die, HelperEnds, BeginWrite, Write, Fail, BeginRead,
         ReceiveTimesOut, Shutdown, CloseStdin, Reap, Kill, EngineEnds, vars
<1>4. /\ engine' \in {"running", "exited", "died"}
      /\ pc' \in {"idle", "writing", "receiving", "closing", "reaping", "draining", "dropped"}
  BY <1>3 DEF TypeOK
<1>5. QED
  BY <1>1, <1>2, <1>3, <1>4, OtherTypes DEF TypeOK, EventType

LEMMA TypeStep ==
  ChannelInv /\ ChannelInv' /\ RoomInv /\ RoomInv' /\ TypeOK /\ [Next]_vars => TypeOK'
  BY BeginFrameTypes, WriteBytesTypes, DecoderTypes, SessionTypes, QuietTypes
  DEF Next, SessionContinues, EngineStep

(* The session, the engine and the pipes stay within their types; the      *)
(* requests that wait are never more than Window.                          *)
THEOREM ChannelTypeCorrect == Spec => []TypeOK
  BY RoomInvariant, TypeInit, TypeStep, PTL DEF Spec

-----------------------------------------------------------------------------
(* The other half, EngineCleanup.  The child is accounted for, and a clean *)
(* shutdown is the truth, under every combination of faults.  CleanupInv   *)
(* adds to the properties where the session is while it owns the child,    *)
(* what the result of wait_or_terminate stands for, and how often a        *)
(* handoff can have failed by then: the second attempt a failed shutdown   *)
(* makes is its drop.                                                      *)
Owning == {"inUse", "wait", "signal", "handoff"}
InGroup == {"group", "groupTerm", "groupKill"}

(* Who has the child, and what is known of it. *)
Ownership ==
  /\ handle # "nobody" => child # "reaped"
  /\ handle = "nobody" /\ child # "reaped" => stage = "done"
  /\ stage \in Owning => handle = "session"
  /\ stage \in InGroup => handle # "session" /\ status \in {"exited", "incomplete"}
  /\ status = "exited" => handle = "nobody" /\ child = "reaped"
  /\ status = "exited" /\ stage \notin InGroup => descendant = "gone"
  /\ outcome = "ok" => child = "reaped" /\ success /\ descendant = "gone" /\ ~unread

(* How many handoffs have failed. *)
Attempts ==
  /\ stage = "inUse" => outcome = "none"
  /\ stage = "dropping" => outcome # "none"
  /\ caller = "shutdown" /\ stage \notin {"dropping", "done"} => outcome = "none"
  /\ stage \in Owning => refused = IF outcome = "none" THEN 0 ELSE 1
  /\ stage = "returned" /\ handle = "session" => refused = IF outcome = "none" THEN 1 ELSE 2
  /\ stage = "dropping" /\ handle = "session" => refused = 1

CleanupInv == CleanupTypeOK /\ Ownership /\ Attempts /\ ChildIsAccountedFor

(* A session in use owns a running child and has failed at nothing yet. *)
LEMMA CleanupInvInit == CleanupInit => CleanupInv
<1> SUFFICES ASSUME CleanupInit PROVE CleanupInv
  OBVIOUS
<1> USE DEF CleanupInit
<1>1. CleanupTypeOK
  <2>1. reaperListens \in BOOLEAN
    BY Zenon
  <2>2. success \in BOOLEAN /\ unread \in BOOLEAN /\ inGroup \in BOOLEAN /\ killed \in BOOLEAN
    BY Zenon
  <2>3. QED
    BY <2>1, <2>2 DEF CleanupTypeOK
<1>2. Ownership
  BY DEF Ownership, Owning, InGroup
<1>3. Attempts
  BY DEF Attempts, Owning
<1>4. ChildIsAccountedFor
  BY DEF ChildIsAccountedFor
<1>5. QED
  BY <1>1, <1>2, <1>3, <1>4 DEF CleanupInv

(* Whatever the processes do by themselves, the session knows no less. *)
LEMMA EnvironmentKeepsInv ==
  ASSUME CleanupInv, Environment \/ Reaper
  PROVE  CleanupInv'
<1> USE DEF CleanupInv, CleanupTypeOK, Ownership, Attempts, ChildIsAccountedFor,
            Owning, InGroup,
            handleVars, callVars
<1>1. CASE Environment
  <2>1. CASE ChildEnds
    BY <1>1, <2>1 DEF Environment, ChildEnds
  <2>2. CASE ChildLeavesGroup
    <3>1. inGroup' \in BOOLEAN
      BY <2>2, Zenon DEF ChildLeavesGroup
    <3>2. UNCHANGED <<child, success, killed, descendant, unread, handle, reaperListens, refused,
                      stage, signals, caller, status, outcome>>
      BY <1>1, <2>2 DEF Environment, ChildLeavesGroup
    <3>3. QED
      BY <3>1, <3>2
  <2>3. CASE DescendantEnds
    BY <1>1, <2>3 DEF Environment, DescendantEnds
  <2>4. QED
    BY <1>1, <2>1, <2>2, <2>3 DEF Environment
<1>2. CASE Reaper
  BY <1>2 DEF Reaper
<1>3. QED
  BY <1>1, <1>2

(* The waits and signals of wait_or_terminate, up to the end of the child  *)
(* or to the reaper.                                                       *)
LEMMA TerminationKeepsInv ==
  ASSUME CleanupInv,
         \/ Begin \/ SeeExit \/ GiveUp
         \/ Signal \/ HandOff \/ HandOffFails
  PROVE  CleanupInv'
<1> USE DEF CleanupInv, CleanupTypeOK, Ownership, Attempts, ChildIsAccountedFor,
            Owning, InGroup
<1>1. CASE Begin
  BY <1>1 DEF Begin, processVars, handleVars
<1>2. CASE SeeExit
  BY <1>2 DEF SeeExit
<1>3. CASE GiveUp
  BY <1>3 DEF GiveUp, processVars, handleVars
<1>4. CASE Signal
  <2>1. killed' \in BOOLEAN /\ UNCHANGED <<child, success, inGroup, descendant>>
    BY <1>4 DEF Signal, KillGroup, processVars
  <2>2. signals' \in 0..3 /\ stage = "signal"
    BY <1>4 DEF Signal
  <2>3. QED
    BY <1>4, <2>1, <2>2 DEF Signal, handleVars
<1>5. CASE HandOff
  BY <1>5 DEF HandOff, processVars, handleVars
<1>6. CASE HandOffFails
  BY <1>6 DEF HandOffFails, processVars
<1>7. QED
  BY <1>1, <1>2, <1>3, <1>4, <1>5, <1>6

(* The rest of the group: its result counts for a reaped child only, and   *)
(* is good only if nobody is left.                                         *)
LEMMA GroupKeepsInv ==
  ASSUME CleanupInv,
         \/ GroupIsGone \/ GroupRemains \/ GroupEnds
         \/ KillRemaining \/ GroupSurvives \/ GroupError
  PROVE  CleanupInv'
<1> USE DEF CleanupInv, CleanupTypeOK, Ownership, Attempts, ChildIsAccountedFor,
            Owning, InGroup,
            EndGroup, GoTo, GroupExists, processVars, handleVars
<1>1. CASE GroupIsGone
  BY <1>1 DEF GroupIsGone
<1>2. CASE GroupRemains
  BY <1>2 DEF GroupRemains
<1>3. CASE GroupEnds
  BY <1>3 DEF GroupEnds
<1>4. CASE KillRemaining
  BY <1>4 DEF KillRemaining, KillGroup
<1>5. CASE GroupSurvives
  BY <1>5 DEF GroupSurvives
<1>6. CASE GroupError
  BY <1>6 DEF GroupError
<1>7. QED
  BY <1>1, <1>2, <1>3, <1>4, <1>5, <1>6

(* The caller's part: drain stdout, outcome, and let go of the session. *)
LEMMA CallerKeepsInv ==
  ASSUME CleanupInv, DrainStdout \/ DropAgain \/ DropNothing \/ EndDrop
  PROVE  CleanupInv'
<1> USE DEF CleanupInv, CleanupTypeOK, Ownership, Attempts, ChildIsAccountedFor,
            Owning, InGroup,
            GoTo, processVars, handleVars
<1>1. CASE DrainStdout
  BY <1>1 DEF DrainStdout
<1>2. CASE DropAgain
  BY <1>2 DEF DropAgain
<1>3. CASE DropNothing
  BY <1>3 DEF DropNothing
<1>4. CASE EndDrop
  BY <1>4 DEF EndDrop
<1>5. QED
  BY <1>1, <1>2, <1>3, <1>4

(* Each step of the system keeps the invariant. *)
LEMMA CleanupInvStep == CleanupInv /\ [CleanupNext]_cleanupVars => CleanupInv'
<1> SUFFICES ASSUME CleanupInv, [CleanupNext]_cleanupVars PROVE CleanupInv'
  OBVIOUS
<1>1. CASE UNCHANGED cleanupVars
  BY <1>1 DEF cleanupVars, processVars, handleVars, callVars,
              CleanupInv, CleanupTypeOK, Ownership,
              Attempts, ChildIsAccountedFor, Owning, InGroup
<1>2. CASE CleanupNext
  BY <1>1, <1>2, EnvironmentKeepsInv, TerminationKeepsInv, GroupKeepsInv, CallerKeepsInv
     DEF CleanupNext, CleanupContinues
<1>3. QED
  BY <1>1, <1>2

(* The invariant holds in every execution, fair or not. *)
LEMMA CleanupInvariant == CleanupSpec => []CleanupInv
  BY CleanupInvInit, CleanupInvStep, PTL DEF CleanupSpec

(* The session stays within its types; a handoff fails at most twice.      *)
THEOREM CleanupTypeCorrect == CleanupSpec => []CleanupTypeOK
<1>1. CleanupInv => CleanupTypeOK
  BY DEF CleanupInv
<1>2. QED
  BY <1>1, CleanupInvariant, PTL

(* Whatever fails, the engine's handle is let go only of a reaped child,   *)
(* unless reaper and system both refuse to take it.                        *)
THEOREM ChildAccountedFor == CleanupSpec => []ChildIsAccountedFor
<1>1. CleanupInv => ChildIsAccountedFor
  BY DEF CleanupInv
<1>2. QED
  BY <1>1, CleanupInvariant, PTL

(* A shutdown that succeeds has left nothing: no engine, no descendant in  *)
(* its group, nothing unread; and signals go to a child not yet reaped.    *)
THEOREM HonestReport == CleanupSpec => []ReportIsHonest
<1>1. CleanupInv => ReportIsHonest
  BY DEF CleanupInv, Ownership, Owning, ReportIsHonest, GroupExists
<1>2. QED
  BY <1>1, CleanupInvariant, PTL
=============================================================================
