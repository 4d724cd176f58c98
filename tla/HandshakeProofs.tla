--------------------------- MODULE HandshakeProofs ---------------------------
(***************************************************************************)
(* Builds of any age, with any version and any capabilities: their         *)
(* negotiation is symmetric, what it grants passes the client's check, a   *)
(* session means the same to both, and no answer of another program gets   *)
(* the client into a session outside of its offer.                         *)
(***************************************************************************)
EXTENDS Handshake, TLAPS

-----------------------------------------------------------------------------
(* The negotiation as a function of the two hellos.                        *)

(* An acceptance names a version of each side and only what both offer.    *)
LEMMA AgreementIsAcceptance ==
  ASSUME NEW local \in Hello, NEW peer \in Hello
  PROVE  Agreement(local, peer) \in Acceptance
<1> DEFINE minor == Lesser(local.version.minor, peer.version.minor)
           version == Version(local.version.major, minor)
           common == Offered(local) \cap Offered(peer)
<1>1. local.version \in Versions /\ peer.version \in Versions /\ common \in SUBSET Capability
  BY DEF Hello, Offered
<1>2. /\ local.version.major \in Major
      /\ local.version.minor \in Minor
      /\ peer.version.minor \in Minor
  BY <1>1 DEF Versions, Version
<1>3. minor \in Minor
  BY <1>2 DEF Lesser
<1>4. version \in Versions
  BY <1>2, <1>3 DEF Versions
<1> HIDE DEF version, common
<1>5. Accepted(version, common, TRUE) \in Acceptance
  BY <1>1, <1>4 DEF Acceptance, Accepted
<1>6. QED
  BY <1>5 DEF Agreement, version, common

(* There is always an answer, and never one the client does not know.      *)
LEMMA NegotiateAnswers ==
  ASSUME NEW local \in Hello, NEW peer \in Hello
  PROVE  /\ Negotiate(local, peer) \in Answer
         /\ Negotiate(local, peer).answer \in {"accepted", "rejected"}
<1>1. CASE Negotiate(local, peer) = Agreement(local, peer)
  BY <1>1, AgreementIsAcceptance DEF Answer, Agreement, Accepted
<1>2. CASE \E code \in RejectCode : Negotiate(local, peer) = Rejected(code)
  BY <1>2 DEF Answer, Rejected
<1>3. QED
  BY <1>1, <1>2 DEF Negotiate, RejectCode

(* Hellos always carry a version, so what is accepted is the agreement of  *)
(* two builds of one major version, each offering what the other requires. *)
LEMMA AcceptedMeansAgreement ==
  ASSUME NEW local \in Hello, NEW peer \in Hello,
         Negotiate(local, peer).answer = "accepted"
  PROVE  /\ Negotiate(local, peer) = Agreement(local, peer)
         /\ local.version.major = peer.version.major
         /\ peer.required \subseteq Offered(local)
         /\ local.required \subseteq Offered(peer)
BY DEF Negotiate, Rejected

(* The lesser of two numbers is the same from either end. *)
LEMMA LesserIsSymmetric ==
  ASSUME NEW m \in Nat, NEW n \in Nat
  PROVE  Lesser(m, n) = Lesser(n, m) /\ Lesser(m, n) <= m /\ Lesser(m, n) <= n
BY DEF Lesser

(* The version numbers of a build are numbers. *)
LEMMA HelloHasNumbers ==
  ASSUME NEW h \in Hello
  PROVE  h.version.major \in Nat /\ h.version.minor \in Nat /\ h.version.present
<1>1. h.version \in Versions
  BY DEF Hello
<1>2. QED
  BY <1>1, VersionAssumption DEF Versions, Version

(* It makes no difference which of the two implementations negotiates: the *)
(* verdict is the same from either end.                                    *)
THEOREM SymmetricVerdict ==
  ASSUME NEW a \in Hello, NEW b \in Hello
  PROVE  Negotiate(a, b) = Negotiate(b, a)
<1>1. a.version.present /\ b.version.present
  BY HelloHasNumbers
<1>2. Lesser(a.version.minor, b.version.minor) = Lesser(b.version.minor, a.version.minor)
  BY HelloHasNumbers, LesserIsSymmetric
<1>3. Offered(a) \cap Offered(b) = Offered(b) \cap Offered(a)
  OBVIOUS
<1>4. a.version.major = b.version.major => Agreement(a, b) = Agreement(b, a)
  BY <1>2, <1>3 DEF Agreement
<1>5. QED
  BY <1>1, <1>4 DEF Negotiate

(* What one side grants passes the strict check of the other, and lies     *)
(* within the offers of both.                                              *)
LEMMA GrantIsValid ==
  ASSUME NEW local \in Hello, NEW peer \in Hello,
         Negotiate(local, peer).answer = "accepted"
  PROVE  /\ Valid(peer, Negotiate(local, peer))
         /\ \A h \in {local, peer} :
              /\ Negotiate(local, peer).version.major = h.version.major
              /\ Negotiate(local, peer).version.minor <= h.version.minor
              /\ h.required \subseteq Negotiate(local, peer).capabilities
              /\ Negotiate(local, peer).capabilities \subseteq Offered(h)
<1> DEFINE v == Negotiate(local, peer)
<1>1. /\ v.version.major = local.version.major
      /\ v.version.minor = Lesser(local.version.minor, peer.version.minor)
      /\ v.version.present
      /\ v.capabilities = Offered(local) \cap Offered(peer)
      /\ v.canonical
  BY AcceptedMeansAgreement DEF Agreement, Accepted, Version
<1>2. v.version.major = peer.version.major
  BY <1>1, AcceptedMeansAgreement
<1>3. v.version.minor <= local.version.minor /\ v.version.minor <= peer.version.minor
  BY <1>1, HelloHasNumbers, LesserIsSymmetric
<1>4. local.required \subseteq v.capabilities /\ peer.required \subseteq v.capabilities
  BY <1>1, AcceptedMeansAgreement DEF Offered
<1>5. v.capabilities \subseteq Offered(local) /\ v.capabilities \subseteq Offered(peer)
  BY <1>1
<1> HIDE DEF v
<1>6. Valid(peer, v)
  BY <1>1, <1>2, <1>3, <1>4, <1>5 DEF Valid
<1>7. QED
  BY <1>1, <1>2, <1>3, <1>4, <1>5, <1>6 DEF v

-----------------------------------------------------------------------------
(* The exchange, whoever answers.                                          *)

(* The hellos stay as they are, and a client is ready only with an answer  *)
(* it has checked.                                                         *)
Checked ==
  /\ TypeOK
  /\ client = "ready" =>
       /\ accepted \in Acceptance
       /\ Valid(clientHello, accepted)
       /\ ScanControl \in accepted.capabilities

(* Nothing has been said when the two meet. *)
LEMMA CheckedInit == Init => Checked
  BY DEF Init, Checked, TypeOK

(* The client leaves the handshake through its check only. *)
LEMMA ReadAnswerKeepsChecked ==
  ASSUME Checked, ReadAnswer
  PROVE  Checked'
<1> USE DEF Checked, TypeOK, ReadAnswer
<1>1. CASE answer.answer = "accepted" /\ Accept
  <2>1. answer \in Acceptance
    BY <1>1 DEF Answer, Rejected, Nothing
  <2>2. CASE client' = "ready"
    BY <1>1, <2>1, <2>2 DEF Accept, Fail
  <2>3. CASE client' # "ready"
    BY <1>1, <2>3 DEF Accept, Fail
  <2>4. QED
    BY <2>2, <2>3
<1>2. CASE \E why \in {"invalidAcceptance", "rejected", "unexpectedResponse"} : Fail(why)
  BY <1>2 DEF Fail
<1>3. QED
  BY <1>1, <1>2

(* Each step keeps it, even those of another program. *)
LEMMA CheckedStep == Checked /\ [Next]_vars => Checked'
<1> SUFFICES ASSUME Checked, [Next]_vars PROVE Checked'
  OBVIOUS
<1> USE DEF Checked, TypeOK
<1>1. CASE UNCHANGED vars
  BY <1>1 DEF vars
<1>2. CASE SendHello
  BY <1>2 DEF SendHello, Fail
<1>3. CASE ReadAnswer
  BY <1>3, ReadAnswerKeepsChecked
<1>4. CASE ReadEof \/ ReadTimesOut
  BY <1>4 DEF ReadEof, ReadTimesOut, Fail
<1>5. CASE AnswerHello
  <2> DEFINE verdict == Negotiate(engineHello, request.hello)
  <2>1. request.hello = clientHello
    BY <1>5 DEF AnswerHello
  <2>2. verdict \in Answer /\ verdict.answer \in {"accepted", "rejected"}
    BY <2>1, NegotiateAnswers
  <2> HIDE DEF verdict
  <2>3. verdict.answer = "accepted" => verdict \in Acceptance
    BY <2>2 DEF Answer, Rejected
  <2>4. answer' = verdict
    BY <1>5 DEF AnswerHello, verdict
  <2>5. granted' \in Acceptance \cup {Nothing} /\ engine' \in {"ready", "ended"}
    BY <1>5, <2>3 DEF AnswerHello, verdict
  <2>6. QED
    BY <1>5, <2>2, <2>4, <2>5 DEF AnswerHello
<1>6. CASE ReadEnd \/ Crash
  BY <1>6 DEF ReadEnd, Crash
<1>7. CASE AnswerAnything
  BY <1>7 DEF AnswerAnything
<1>8. QED
  BY <1>1, <1>2, <1>3, <1>4, <1>5, <1>6, <1>7
     DEF Next, ClientContinues, EngineContinues

(* It holds in every execution. *)
LEMMA CheckedInvariant == Spec => []Checked
  BY CheckedInit, CheckedStep, PTL DEF Spec

(* What is exchanged stays within its types. *)
THEOREM HandshakeTypeCorrect == Spec => []TypeOK
<1>1. Checked => TypeOK
  BY DEF Checked
<1>2. QED
  BY <1>1, CheckedInvariant, PTL

(* Whatever program answers, a client that is ready has a session within   *)
(* its own offer, with all that it and its user interface need.            *)
THEOREM ClientFailsClosed == Spec => []FailsClosed
<1>1. Checked => FailsClosed
  BY DEF Checked, FailsClosed, Valid
<1>2. QED
  BY <1>1, CheckedInvariant, PTL

-----------------------------------------------------------------------------
(* The exchange with an engine of this repository.                         *)

(* There is one hello and one answer to it, which both sides keep.         *)
OneAnswer ==
  /\ client = "connecting" => request = Nothing /\ answer = Nothing
  /\ client = "ready" => request = Nothing
  /\ answer # Nothing =>
       /\ request = Nothing
       /\ answer = Negotiate(engineHello, clientHello)
       /\ answer.answer = "accepted" => granted = answer
  /\ client = "ready" =>
       /\ accepted = granted
       /\ accepted = Negotiate(engineHello, clientHello)
       /\ accepted.answer = "accepted"

(* So it is with an engine of this repository, with whose answer the       *)
(* client finds no fault.                                                  *)
Honest == ours => OneAnswer /\ AnswersAreAcceptable

(* Nothing has been said when the two meet. *)
LEMMA HonestInit == Init => Honest
  BY DEF Init, Honest, OneAnswer, AnswersAreAcceptable

(* What the engine grants passes the client's check. *)
LEMMA ReadAnswerKeepsHonest ==
  ASSUME Checked, Honest, ReadAnswer, ours
  PROVE  Honest'
<1> USE DEF Honest, OneAnswer, AnswersAreAcceptable, ReadAnswer
<1>1. /\ answer = Negotiate(engineHello, clientHello)
      /\ answer.answer \in {"accepted", "rejected"}
  BY NegotiateAnswers DEF Checked, TypeOK
<1>2. answer.answer = "accepted" => Valid(clientHello, answer)
  BY <1>1, GrantIsValid DEF Checked, TypeOK
<1>3. CASE answer.answer = "accepted"
  BY <1>2, <1>3 DEF Accept, Fail
<1>4. CASE answer.answer = "rejected"
  BY <1>4 DEF Fail
<1>5. QED
  BY <1>1, <1>3, <1>4

(* Each step keeps it, and none puts another engine in place. *)
LEMMA HonestStep == Checked /\ Honest /\ [Next]_vars => Honest'
<1> SUFFICES ASSUME Checked, Honest, [Next]_vars PROVE Honest'
  OBVIOUS
<1>0. UNCHANGED ours
  BY DEF Next, vars, ClientContinues, EngineContinues, SendHello, ReadAnswer, ReadEof,
         ReadTimesOut, AnswerHello, ReadEnd, Crash, AnswerAnything
<1> SUFFICES ASSUME ours PROVE Honest'
  BY <1>0 DEF Honest
<1> USE DEF Honest, OneAnswer, AnswersAreAcceptable
<1>1. CASE UNCHANGED vars
  BY <1>1 DEF vars
<1>2. CASE SendHello
  BY <1>2 DEF SendHello, Fail
<1>3. CASE ReadAnswer
  BY <1>3, ReadAnswerKeepsHonest
<1>4. CASE ReadEof \/ ReadTimesOut
  BY <1>4 DEF ReadEof, ReadTimesOut, Fail
<1>5. CASE AnswerHello
  <2>1. request.hello = clientHello
    BY <1>5 DEF AnswerHello, Checked, TypeOK
  <2>2. /\ answer' = Negotiate(engineHello, clientHello)
        /\ answer'.answer = "accepted" => granted' = answer'
        /\ request' = Nothing
    BY <1>5, <2>1 DEF AnswerHello
  <2>3. client \notin {"connecting", "ready"}
    BY <1>5 DEF AnswerHello
  <2>4. QED
    BY <1>5, <2>2, <2>3 DEF AnswerHello
<1>6. CASE ReadEnd \/ Crash
  BY <1>6 DEF ReadEnd, Crash
<1>7. CASE AnswerAnything
  BY <1>7 DEF AnswerAnything
<1>8. QED
  BY <1>1, <1>2, <1>3, <1>4, <1>5, <1>6, <1>7
     DEF Next, ClientContinues, EngineContinues

(* It holds in every execution. *)
LEMMA HonestInvariant == Spec => []Honest
  BY HonestInit, HonestStep, CheckedInvariant, PTL DEF Spec

(* Builds of any age understand each other's answers. *)
THEOREM AcceptableAnswers == Spec => []AnswersAreAcceptable
<1>1. Honest => AnswersAreAcceptable
  BY DEF Honest, AnswersAreAcceptable
<1>2. QED
  BY <1>1, HonestInvariant, PTL

(* A session means the same to both, and lies within the offers of both.   *)
THEOREM AgreedSession == Spec => []SidesAgree
<1>1. Checked /\ Honest => SidesAgree
  BY GrantIsValid DEF Checked, TypeOK, Honest, OneAnswer, SidesAgree
<1>2. QED
  BY <1>1, CheckedInvariant, HonestInvariant, PTL
=============================================================================
