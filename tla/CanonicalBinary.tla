--------------------------- MODULE CanonicalBinary ---------------------------
(***************************************************************************)
(* canonical-binary-v1, the bytes an evidence binding is hashed as.  The   *)
(* Swift engine writes and hashes them, the Rust client verifies them and  *)
(* hashes them again, so one binding must have one encoding and the two    *)
(* verifiers must agree about every input.                                 *)
(*                                                                         *)
(* The widths of the integers and the number of byte values are constants; *)
(* the layout, the order of the checks and what each of them compares are  *)
(* those of the two sources, each written down on its own.                 *)
(***************************************************************************)
EXTENDS Integers, SequencesExt

CONSTANTS
  Base,          \* the number of byte values: 256
  Magic,         \* the first bytes of a record
  Version,
  VersionBytes, CountBytes, LogicalBytes, SecondsBytes, NanosBytes, \* 2, 4, 8, 8, 4
  NanosLimit,    \* 1_000_000_000
  LastActivity,  \* 3: the variants are numbered from zero
  LastCoverage,  \* 4
  Stray,         \* the byte values no UTF-8 text holds
  Mark,          \* the byte that stands for U+FEFF, a character like any other
  None,
  Bindings,      \* bound: the bindings an engine writes
  MaxBytes       \* bound: the length of an input

ASSUME WidthsAssumption ==
  /\ Base \in Nat \ {0, 1}
  /\ {VersionBytes, CountBytes, LogicalBytes, SecondsBytes, NanosBytes} \subseteq Nat \ {0}

Byte == 0..(Base - 1)

(* The number of values that so many bytes tell apart.                     *)
Power[width \in Nat] == IF width = 0 THEN 1 ELSE Base * Power[width - 1]

ASSUME FormatAssumption ==
  /\ Magic \in Seq(Byte) /\ Version \in 0..(Power[VersionBytes] - 1)
  /\ NanosLimit \in 0..Power[NanosBytes]
  /\ {LastActivity, LastCoverage} \subseteq Byte

VARIABLES
  input,      \* the bytes at hand
  authored,   \* the binding they were written from, if any
  rust, swift,\* the verdicts of the two verifiers
  stripsMark  \* whether Foundation drops a leading U+FEFF when it decodes UTF-8

canonicalVars == <<input, authored, rust, swift, stripsMark>>

Error(name) == <<name>>
Truncated(field) == <<"truncated", field>>
InvalidUtf8(field) == <<"invalidUTF8", field>>
UnknownVariant(field, value) == <<"unknownVariant", field, value>>
FieldTooLong(field) == <<"fieldTooLong", field>>
Ok == <<"ok">>

Verdict(error, value) ==
  [error |-> error, value |-> IF error = Ok THEN value ELSE None]

(* A check of the code, and what it throws. *)
Check(fails, error) == [fails |-> fails, error |-> error]

FirstError(checks) ==
  LET failing == {i \in DOMAIN checks : checks[i].fails}
  IN IF failing = {} THEN Ok ELSE checks[Min(failing)].error

-----------------------------------------------------------------------------
(* Integers and text.                                                      *)

BigEndian(n, width) == [i \in 1..width |-> (n \div Power[width - i]) % Base]

Number(bytes) ==
  LET number[k \in 0..Len(bytes)] ==
        IF k = 0 THEN 0 ELSE Base * number[k - 1] + bytes[k]
  IN number[Len(bytes)]

(* Int64(bitPattern) and i64::from_be_bytes. *)
Signed(bytes) ==
  LET n == Number(bytes) IN IF 2 * n < Power[Len(bytes)] THEN n ELSE n - Power[Len(bytes)]

IsUtf8(bytes) == Range(bytes) \cap Stray = {}

Utf8 == {bytes \in Seq(Byte) : IsUtf8(bytes)}

(* What the fields of a binding hold: String, Data, UInt64, Int64, UInt32  *)
(* and the two enumerations.                                               *)
Timestamp ==
  [seconds : -(Power[SecondsBytes] \div 2)..((Power[SecondsBytes] - 1) \div 2),
   nanos : 0..(Power[NanosBytes] - 1)]

EvidenceBinding ==
  [candidate_id : Utf8, raw_path : Seq(Byte), logical_bytes : 0..(Power[LogicalBytes] - 1),
   observed_at : Timestamp \cup {None}, activity : 0..LastActivity, coverage : 0..LastCoverage,
   labels : Seq(Utf8)]

ASSUME BindingsAssumption ==
  /\ Bindings \subseteq EvidenceBinding
  /\ None \notin [seconds : Int, nanos : Nat]

(* The order of byte strings. *)
Less(a, b) ==
  \/ IsStrictPrefix(a, b)
  \/ \E i \in DOMAIN a \cap DOMAIN b :
       a[i] < b[i] /\ SubSeq(a, 1, i - 1) = SubSeq(b, 1, i - 1)

(* sort_unstable_by and sorted(by:): an order of the labels in which none  *)
(* stands behind one it precedes.                                          *)
Sorted(labels) ==
  LET order == CHOOSE p \in [DOMAIN labels -> DOMAIN labels] :
        /\ IsInjective(p)
        /\ \A i, j \in DOMAIN labels : i < j => ~Less(labels[p[j]], labels[p[i]])
  IN [i \in DOMAIN labels |-> labels[order[i]]]

MutantDeduplicated(s) == s

(* Vec::dedup and the loop of canonicalLabels. *)
Deduplicated(s) ==
  LET kept[k \in 0..Len(s)] ==
        IF k = 0 THEN <<>>
        ELSE IF k > 1 /\ s[k] = s[k - 1] THEN kept[k - 1] ELSE Append(kept[k - 1], s[k])
  IN kept[Len(s)]

CanonicalLabels(labels) == Deduplicated(Sorted(labels))

-----------------------------------------------------------------------------
(* The encoders.                                                           *)

TooLong(n) == n >= Power[CountBytes]

Prefixed(bytes) == BigEndian(Len(bytes), CountBytes) \o bytes

ObservedAt(time) ==
  IF time = None THEN <<0>>
  ELSE <<1>> \o BigEndian(time.seconds, SecondsBytes) \o BigEndian(time.nanos, NanosBytes)

Record(binding, labels) ==
  Magic \o BigEndian(Version, VersionBytes)
    \o Prefixed(binding.candidate_id) \o Prefixed(binding.raw_path)
    \o BigEndian(binding.logical_bytes, LogicalBytes)
    \o ObservedAt(binding.observed_at)
    \o <<binding.activity, binding.coverage>>
    \o BigEndian(Len(labels), CountBytes) \o FlattenSeq([i \in DOMAIN labels |-> Prefixed(labels[i])])

(* encode_evidence and encodeEvidence: nothing is written if a check fails. *)
Encode(binding) ==
  LET labels == CanonicalLabels(binding.labels)
      error == FirstError(<<
        Check(binding.observed_at # None /\ binding.observed_at.nanos >= NanosLimit,
              Error("invalidNanoseconds")),
        Check(TooLong(Len(binding.candidate_id)), FieldTooLong("candidate_id")),
        Check(TooLong(Len(binding.raw_path)), FieldTooLong("raw_path")),
        Check(TooLong(Len(labels)), FieldTooLong("labels")),
        Check(\E i \in DOMAIN labels : TooLong(Len(labels[i])), FieldTooLong("label")) >>)
  IN Verdict(error, Record(binding, labels))

-----------------------------------------------------------------------------
(* The decoders' view of the input.  Bytes behind its end read as zero:    *)
(* what is made of them is never used, for the check that they are there   *)
(* comes first.                                                            *)

Taken(at, n) == [i \in 1..n |-> IF at + i \in DOMAIN input THEN input[at + i] ELSE 0]

Num(at, n) == Number(Taken(at, n))

(* A field with a length before it. *)
Content(at) == Taken(at + CountBytes, Num(at, CountBytes))

(* The fields in their order; behind the seventh there are only labels.    *)
Field(k) ==
  IF k > 7 THEN "label"
  ELSE <<"candidate_id", "raw_path", "logical_bytes", "observed_at", "activity", "coverage",
         "labels">>[k]

(* Where the field ends that begins at a place of the input. *)
Following(field, at) ==
  at + CASE field \in {"candidate_id", "raw_path", "label"} -> CountBytes + Num(at, CountBytes)
         [] field = "logical_bytes" -> LogicalBytes
         [] field = "observed_at" -> 1 + IF Num(at, 1) = 1 THEN SecondsBytes + NanosBytes ELSE 0
         [] field = "labels" -> CountBytes
         [] OTHER -> 1

(* Where each of them begins.                                              *)
Place[k \in Nat \ {0}] ==
  IF k = 1 THEN Len(Magic) + VersionBytes ELSE Following(Field(k - 1), Place[k - 1])

(* The record laid out, with the labels as far as they can be there at     *)
(* all: there are no more of them than bytes.                              *)
Layout ==
  LET count == Num(Place[7], CountBytes)
      labels == Min({count, Len(input)})
  IN [id |-> Place[1], path |-> Place[2], logical |-> Place[3], variant |-> Place[4],
      seconds |-> Place[4] + 1, nanos |-> Place[4] + 1 + SecondsBytes,
      activity |-> Place[5], coverage |-> Place[6], labels |-> Place[7], count |-> count,
      label |-> [k \in 1..labels |-> Place[7 + k]], end |-> Place[8 + labels]]

(* String::from_utf8 keeps what it is given, String(data:encoding:) may    *)
(* drop a mark at the front.                                               *)
Text(bytes, strips) ==
  IF strips /\ bytes # <<>> /\ bytes[1] = Mark THEN Tail(bytes) ELSE bytes

Labels(at, strips) == [k \in DOMAIN at.label |-> Text(Content(at.label[k]), strips)]

(* What the two decoders return, if all their checks pass. *)
Binding(at, strips) ==
  [candidate_id |-> Text(Content(at.id), strips), raw_path |-> Content(at.path),
   logical_bytes |-> Num(at.logical, LogicalBytes),
   observed_at |->
     IF Num(at.variant, 1) = 0 THEN None
     ELSE [seconds |-> Signed(Taken(at.seconds, SecondsBytes)), nanos |-> Num(at.nanos, NanosBytes)],
   activity |-> Num(at.activity, 1), coverage |-> Num(at.coverage, 1),
   labels |-> Labels(at, strips)]

(* take *)
Needs(at, n, field) == Check(Len(input) < at + n, Truncated(field))

(* bytes and string; lengthPrefixed and string. *)
NeedsBytes(at, field) ==
  <<Needs(at, CountBytes, field), Needs(at + CountBytes, Num(at, CountBytes), field)>>

NeedsString(at, field) ==
  NeedsBytes(at, field) \o <<Check(~IsUtf8(Content(at)), InvalidUtf8(field))>>

NeedsLabels(at) == FlattenSeq([k \in DOMAIN at.label |-> NeedsString(at.label[k], "label")])

MutantAscending(labels) == \A i \in 2..Len(labels) : ~Less(labels[i], labels[i - 1])

Ascending(labels) == \A i \in 2..Len(labels) : Less(labels[i - 1], labels[i])

-----------------------------------------------------------------------------
(* The two verifiers: the checks in the order each of them makes them.     *)

(* verify_evidence *)
RustVerify(at) ==
  LET timed == Num(at.variant, 1) = 1
      binding == Binding(at, FALSE)
      error == FirstError(
        <<Needs(0, Len(Magic), "magic"),
          Check(Taken(0, Len(Magic)) # Magic, Error("invalidMagic")),
          Needs(Len(Magic), VersionBytes, "version"),
          Check(Num(Len(Magic), VersionBytes) # Version, Error("unsupportedVersion"))>>
        \o NeedsString(at.id, "candidate_id") \o NeedsBytes(at.path, "raw_path")
        \o <<Needs(at.logical, LogicalBytes, "logical_bytes"),
             Needs(at.variant, 1, "observed_at variant")>>
        \o (IF timed
            THEN <<Needs(at.seconds, SecondsBytes, "observed_at seconds"),
                   Needs(at.nanos, NanosBytes, "observed_at nanos"),
                   Check(Num(at.nanos, NanosBytes) >= NanosLimit, Error("invalidNanoseconds"))>>
            ELSE <<Check(Num(at.variant, 1) > 1,
                         UnknownVariant("observed_at", Num(at.variant, 1)))>>)
        \o <<Needs(at.activity, 1, "activity"),
             Check(Num(at.activity, 1) > LastActivity,
                   UnknownVariant("activity", Num(at.activity, 1))),
             Needs(at.coverage, 1, "coverage"),
             Check(Num(at.coverage, 1) > LastCoverage,
                   UnknownVariant("coverage", Num(at.coverage, 1))),
             Needs(at.labels, CountBytes, "labels"),
             Check(at.count > (Len(input) - at.labels - CountBytes) \div CountBytes, Truncated("labels"))>>
        \o NeedsLabels(at)
        \o <<Check(~Ascending(binding.labels), Error("nonCanonicalLabels")),
             Check(Len(input) > at.end, Error("trailingBytes")),
             Check(Encode(binding) # Verdict(Ok, input), Error("nonCanonicalEncoding"))>>)
  IN Verdict(error, binding)

(* decodeEvidence *)
SwiftVerify(at) ==
  LET time == CASE Num(at.variant, 1) = 0 -> <<>>
                [] Num(at.variant, 1) = 1 ->
                     <<Needs(at.seconds, SecondsBytes, "observed_at seconds"),
                       Needs(at.nanos, NanosBytes, "observed_at nanos"),
                       Check(Num(at.nanos, NanosBytes) >= NanosLimit, Error("invalidNanoseconds"))>>
                [] OTHER -> <<Check(TRUE, UnknownVariant("observed_at", Num(at.variant, 1)))>>
      activity == Num(at.activity, 1)
      coverage == Num(at.coverage, 1)
      binding == Binding(at, stripsMark)
      error == FirstError(
        <<Needs(0, Len(Magic), "magic"),
          Check(Taken(0, Len(Magic)) # Magic, Error("invalidMagic")),
          Needs(Len(Magic), VersionBytes, "version"),
          Check(Num(Len(Magic), VersionBytes) # Version, Error("unsupportedVersion"))>>
        \o NeedsString(at.id, "candidate_id") \o NeedsBytes(at.path, "raw_path")
        \o <<Needs(at.logical, LogicalBytes, "logical_bytes"),
             Needs(at.variant, 1, "observed_at variant")>>
        \o time
        \o <<Needs(at.activity, 1, "activity"),
             Check(activity \notin 0..LastActivity, UnknownVariant("activity", activity)),
             Needs(at.coverage, 1, "coverage"),
             Check(coverage \notin 0..LastCoverage, UnknownVariant("coverage", coverage)),
             Needs(at.labels, CountBytes, "labels"),
             Check(at.count > (Len(input) - at.labels - CountBytes) \div CountBytes, Truncated("labels"))>>
        \o NeedsLabels(at)
        \o <<Check(~Ascending(binding.labels), Error("nonCanonicalLabels")),
             Check(Len(input) # at.end, Error("trailingBytes")),
             Check(Encode(binding) # Verdict(Ok, input), Error("nonCanonicalEncoding"))>>)
  IN Verdict(error, binding)

-----------------------------------------------------------------------------
(* What comes to the verifiers: whatever bytes, or what an engine wrote.   *)

CanonicalInit ==
  /\ input = <<>> /\ authored = None /\ stripsMark \in BOOLEAN
  /\ rust = None /\ swift = None

Unverified == rust' = None /\ swift' = None /\ UNCHANGED stripsMark

(* An input that is refused for anything but its end stays refused, so     *)
(* only the others are made longer.                                        *)
Unfinished == rust # None /\ (rust.error = Ok \/ rust.error[1] = "truncated")

ReceiveByte ==
  /\ authored = None /\ Len(input) < MaxBytes /\ Unfinished
  /\ \E byte \in Byte : input' = Append(input, byte)
  /\ UNCHANGED authored
  /\ Unverified

(* bindEvidence, up to the check of its own work. *)
Author ==
  /\ input = <<>> /\ authored = None
  /\ \E binding \in Bindings :
       /\ Encode(binding).error = Ok
       /\ input' = Encode(binding).value /\ authored' = binding
  /\ Unverified

(* Both look at what is there. *)
Verify ==
  /\ rust = None
  /\ \E at \in {Layout} : rust' = RustVerify(at) /\ swift' = SwiftVerify(at)
  /\ UNCHANGED <<input, authored, stripsMark>>

CanonicalNext == ReceiveByte \/ Author \/ Verify

CanonicalSpec == CanonicalInit /\ [][CanonicalNext]_canonicalVars

-----------------------------------------------------------------------------
CanonicalTypeOK ==
  /\ input \in Seq(Byte)
  /\ authored \in Bindings \cup {None} /\ stripsMark \in BOOLEAN
  /\ \/ rust = None /\ swift = None
     \/ DOMAIN rust = {"error", "value"} /\ DOMAIN swift = {"error", "value"}

Texts(binding) == {binding.candidate_id} \cup Range(binding.labels)

(* Foundation reads every text of the binding as it was written. *)
Plain(binding) == \A text \in Texts(binding) : Text(text, stripsMark) = text

(* Two bindings that say the same: a set of labels has one order. *)
Means(read, written) ==
  /\ read = [written EXCEPT !.labels = read.labels]
  /\ Range(read.labels) = Range(written.labels)
  /\ Ascending(read.labels)

(* What the engine wrote is accepted on both sides and means what it       *)
(* meant, whatever the order and the repetitions of its labels.  Where     *)
(* Foundation drops a mark, the engine refuses its own work rather than    *)
(* hash something else.                                                    *)
WritersAreRead ==
  authored # None /\ rust # None =>
    /\ rust.error = Ok /\ Means(rust.value, authored)
    /\ swift = IF Plain(authored) THEN rust
               ELSE Verdict(swift.error, None)

(* About no input do the two sides disagree: what the engine accepts the   *)
(* client accepts as the same binding, and but for a mark at the front of  *)
(* a text each gives the other's very error.  And a binding has no second  *)
(* encoding: the checks on the way leave nothing for the comparison with   *)
(* the encoded value to find.                                              *)
VerifiersAgree ==
  rust # None =>
    /\ swift.error = Ok => swift = rust
    /\ rust.error = Ok /\ Plain(rust.value) => swift = rust
    /\ ~stripsMark => swift = rust
    /\ rust.error # Error("nonCanonicalEncoding")
=============================================================================
