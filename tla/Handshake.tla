------------------------------ MODULE Handshake ------------------------------
(***************************************************************************)
(* The handshake that opens a session: perform_handshake and               *)
(* validate_accepted on the Rust side, the first message of the engine's   *)
(* loop on the Swift side, and the negotiation, which both sides implement *)
(* (handshake.rs and Handshake.swift).  Here the two programs may be       *)
(* builds of any age: each has a hello of its own.                         *)
(*                                                                         *)
(* A repeated field of capability names is the set of its names: their     *)
(* order decides only which missing one the detail of a rejection names.   *)
(* Of the list in an answer it is also kept whether it is canonical, that  *)
(* is sorted and without duplicates.                                       *)
(***************************************************************************)
EXTENDS Naturals

CONSTANTS
  Major, Minor,      \* the version numbers of builds
  Capability,        \* the capabilities' names
  ScanControl,       \* "scan-control-v1", which the terminal frontend needs
  Faults             \* a subset of the three below

ASSUME VersionAssumption == Major \subseteq Nat /\ Minor \subseteq Nat
ASSUME CapabilityAssumption == ScanControl \in Capability

(* The engine dies; another program may be found in its place; the client  *)
(* gives up waiting.                                                       *)
ASSUME FaultsAssumption == Faults \subseteq {"crash", "foreign", "timeout"}

VARIABLES
  clientHello, engineHello,   \* what the two builds offer; they never change
  ours,       \* the program that answers is a build of this repository's engine
  client,     \* "connecting", "awaiting", "ready" or "failed"
  engine,     \* "waiting", "ready" or "ended"
  request,    \* the hello under way to the engine, or Nothing
  answer,     \* the answer under way to the client, or Nothing
  accepted,   \* the client's session: an acceptance, or Nothing
  granted,    \* the engine's session: an acceptance, or Nothing
  reason      \* why the client failed, or "none"

vars ==
  <<clientHello, engineHello, ours, client, engine, request, answer, accepted, granted, reason>>

Nothing == [answer |-> "nothing"]
NoVersion == [major |-> 0, minor |-> 0, present |-> FALSE]

Version(m, n) == [major |-> m, minor |-> n, present |-> TRUE]
Versions == { Version(m, n) : m \in Major, n \in Minor }

Hello == [version : Versions, required : SUBSET Capability, optional : SUBSET Capability]

Accepted(v, c, sorted) ==
  [answer |-> "accepted", version |-> v, capabilities |-> c, canonical |-> sorted]
Rejected(code) == [answer |-> "rejected", code |-> code]

RejectCode == {"malformedEnvelope", "protocolMajorMismatch", "missingRequiredCapability"}

Acceptance ==
  [answer : {"accepted"}, version : Versions \cup {NoVersion},
   capabilities : SUBSET Capability, canonical : BOOLEAN]
Answer == Acceptance \cup { Rejected(c) : c \in RejectCode } \cup {[answer |-> "other"]}

Init ==
  /\ clientHello \in Hello /\ engineHello \in Hello
  /\ ours \in IF "foreign" \in Faults THEN BOOLEAN ELSE {TRUE}
  /\ client = "connecting" /\ engine = "waiting"
  /\ request = Nothing /\ answer = Nothing
  /\ accepted = Nothing /\ granted = Nothing
  /\ reason = "none"

-----------------------------------------------------------------------------
(* negotiate, in both languages *)

Offered(h) == h.required \cup h.optional

Lesser(m, n) == IF m <= n THEN m ELSE n

MutantAgreement(local, peer) ==
  Accepted(Version(local.version.major, local.version.minor),
           Offered(local) \cap Offered(peer), TRUE)

Agreement(local, peer) ==
  Accepted(Version(local.version.major, Lesser(local.version.minor, peer.version.minor)),
           Offered(local) \cap Offered(peer), TRUE)

MutantNegotiate(local, peer) ==
  IF local.version.major # peer.version.major THEN Rejected("protocolMajorMismatch")
  ELSE IF ~(peer.required \subseteq Offered(local)) THEN Rejected("missingRequiredCapability")
  ELSE Agreement(local, peer)

Negotiate(local, peer) ==
  IF ~local.version.present \/ ~peer.version.present THEN Rejected("malformedEnvelope")
  ELSE IF local.version.major # peer.version.major THEN Rejected("protocolMajorMismatch")
  ELSE IF ~(peer.required \subseteq Offered(local)) \/ ~(local.required \subseteq Offered(peer))
       THEN Rejected("missingRequiredCapability")
  ELSE Agreement(local, peer)

(* validate_accepted; the numbers of request and answer are the same here, *)
(* since no message has another.                                           *)
MutantValid(local, a) ==
  /\ a.version.present
  /\ a.version.major = local.version.major
  /\ a.version.minor <= local.version.minor
  /\ a.canonical
  /\ a.capabilities \subseteq Offered(local)

Valid(local, a) ==
  /\ a.version.present
  /\ a.version.major = local.version.major
  /\ a.version.minor <= local.version.minor
  /\ a.canonical
  /\ a.capabilities \subseteq Offered(local)
  /\ local.required \subseteq a.capabilities

-----------------------------------------------------------------------------
(* The client: perform_handshake, then the check of run_engine.            *)

Fail(why) ==
  /\ client' = "failed"
  /\ reason' = why
  /\ UNCHANGED accepted

SendHello ==
  /\ client = "connecting"
  /\ \/ /\ engine # "ended"
        /\ request' = [answer |-> "hello", hello |-> clientHello]
        /\ client' = "awaiting"
        /\ UNCHANGED <<accepted, reason>>
     \/ engine = "ended" /\ Fail("brokenPipe") /\ UNCHANGED request
  /\ UNCHANGED <<clientHello, engineHello, ours, engine, answer, granted>>

(* An engine that has ended already is noticed, if it is soon enough. *)
Accept ==
  /\ Valid(clientHello, answer)
  /\ \/ engine = "ended" /\ Fail("exitedAfterHandshake")
     \/ ScanControl \notin answer.capabilities /\ Fail("missingScanControl")
     \/ /\ ScanControl \in answer.capabilities
        /\ client' = "ready"
        /\ accepted' = answer
        /\ UNCHANGED reason

ReadAnswer ==
  /\ client = "awaiting" /\ answer # Nothing
  /\ \/ answer.answer = "accepted" /\ Accept
     \/ answer.answer = "accepted" /\ ~Valid(clientHello, answer) /\ Fail("invalidAcceptance")
     \/ answer.answer = "rejected" /\ Fail("rejected")
     \/ answer.answer = "other" /\ Fail("unexpectedResponse")
  /\ answer' = Nothing
  /\ UNCHANGED <<clientHello, engineHello, ours, engine, request, granted>>

ReadEof ==
  /\ client = "awaiting" /\ answer = Nothing /\ engine = "ended"
  /\ Fail("engineFailure")
  /\ UNCHANGED <<clientHello, engineHello, ours, engine, request, answer, granted>>

ReadTimesOut ==
  /\ "timeout" \in Faults
  /\ client = "awaiting" /\ answer = Nothing
  /\ Fail("timeout")
  /\ UNCHANGED <<clientHello, engineHello, ours, engine, request, answer, granted>>

-----------------------------------------------------------------------------
(* The engine: `run` of main.swift.                                        *)

AnswerHello ==
  /\ ours
  /\ engine = "waiting" /\ request # Nothing
  /\ LET verdict == Negotiate(engineHello, request.hello) IN
     /\ answer' = verdict
     /\ \/ verdict.answer = "accepted" /\ engine' = "ready" /\ granted' = verdict
        \/ verdict.answer = "rejected" /\ engine' = "ended" /\ UNCHANGED granted
  /\ request' = Nothing
  /\ UNCHANGED <<clientHello, engineHello, ours, client, accepted, reason>>

(* The input of its ready loop ends when the client drops the session. *)
MutantReadEnd ==
  /\ engine = "waiting" /\ request = Nothing /\ client = "failed"
  /\ engine' = "ended"
  /\ UNCHANGED <<clientHello, engineHello, ours, client, request, answer, accepted, granted, reason>>

ReadEnd ==
  /\ engine = "ready" /\ request = Nothing /\ client = "failed"
  /\ engine' = "ended"
  /\ UNCHANGED <<clientHello, engineHello, ours, client, request, answer, accepted, granted, reason>>

Crash ==
  /\ "crash" \in Faults
  /\ engine # "ended"
  /\ engine' = "ended"
  /\ UNCHANGED <<clientHello, engineHello, ours, client, request, answer, accepted, granted, reason>>

(* Some other program answers. *)
AnswerAnything ==
  /\ ~ours
  /\ engine = "waiting" /\ request # Nothing
  /\ answer' \in Answer
  /\ engine' \in {"ready", "ended"}
  /\ request' = Nothing
  /\ UNCHANGED <<clientHello, engineHello, ours, client, accepted, granted, reason>>

-----------------------------------------------------------------------------
ClientContinues == SendHello \/ ReadAnswer \/ ReadEof
EngineContinues == AnswerHello \/ ReadEnd

Settled == client = "ready" \/ (client = "failed" /\ engine = "ended")

Next ==
  \/ ClientContinues
  \/ EngineContinues
  \/ ReadTimesOut
  \/ Crash
  \/ AnswerAnything
  \/ Settled /\ UNCHANGED vars

Spec == Init /\ [][Next]_vars /\ WF_vars(ClientContinues) /\ WF_vars(EngineContinues)

-----------------------------------------------------------------------------
(* Each variable stays within its type. *)
TypeOK ==
  /\ clientHello \in Hello /\ engineHello \in Hello /\ ours \in BOOLEAN
  /\ client \in {"connecting", "awaiting", "ready", "failed"}
  /\ engine \in {"waiting", "ready", "ended"}
  /\ request = Nothing \/ request = [answer |-> "hello", hello |-> clientHello]
  /\ answer \in Answer \cup {Nothing}
  /\ accepted \in Acceptance \cup {Nothing}
  /\ granted \in Acceptance \cup {Nothing}
  /\ reason \in {"none", "brokenPipe", "exitedAfterHandshake", "missingScanControl",
                 "invalidAcceptance", "rejected", "unexpectedResponse", "engineFailure",
                 "timeout"}

(* Two builds of any age understand each other: what the engine's          *)
(* negotiation grants passes the client's strict check, so the check can   *)
(* only ever fail on an answer of some other program.                      *)
AnswersAreAcceptable == ours => reason \notin {"invalidAcceptance", "unexpectedResponse"}

(* A session that is up means the same to both: same version, which each   *)
(* supports, same capabilities, which both offer and which contain         *)
(* whatever either requires.                                               *)
SidesAgree ==
  ours /\ client = "ready" =>
    /\ accepted = granted
    /\ \A h \in {clientHello, engineHello} :
         /\ accepted.version.major = h.version.major
         /\ accepted.version.minor <= h.version.minor
         /\ h.required \subseteq accepted.capabilities
         /\ accepted.capabilities \subseteq Offered(h)

(* The client is never lured into a session it did not offer, nor into one *)
(* without what it and its user interface need.                            *)
FailsClosed ==
  client = "ready" =>
    /\ accepted.version.major = clientHello.version.major
    /\ accepted.version.minor <= clientHello.version.minor
    /\ clientHello.required \cup {ScanControl} \subseteq accepted.capabilities
    /\ accepted.capabilities \subseteq Offered(clientHello)

(* The handshake with an engine ends, and an engine whose client has given *)
(* up ends too.                                                            *)
HandshakeEnds ==
  ours => <>(client \in {"ready", "failed"}) /\ (client = "failed" ~> engine = "ended")
=============================================================================
