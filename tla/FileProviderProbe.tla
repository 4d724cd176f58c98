-------------------------- MODULE FileProviderProbe --------------------------
(***************************************************************************)
(* The boundary probe of the macOS engine: may the scan descend into the   *)
(* item a directory descriptor and a name denote?  The probe asks the File *)
(* Provider framework who owns the item.  The framework takes a path, not  *)
(* a descriptor, answers on a thread of its own, late, twice or never, and *)
(* reading a dataless item downloads it unless the process has switched    *)
(* materialization off.  So the engine does that first; the probe checks   *)
(* the policy before every access and the slot on both sides of the        *)
(* question, and waits for the answer in a box that closes at a deadline.  *)
(*                                                                         *)
(* The rest of the machine renames, replaces and evicts meanwhile: those   *)
(* actions are bounded by MaxChanges.                                      *)
(***************************************************************************)
EXTENDS Naturals

CONSTANTS
  Objects,      \* file system objects, told apart by (device, file id, type)
  Directories,  \* the objects that are directories
  Owned,        \* the objects a File Provider owns
  SyncRoots,    \* the objects whose attributes say they are a sync root
  Nothing,      \* an empty slot, or no answer
  MaxChanges,   \* bound: renames, evictions and losses of the policy together
  MaxCalls      \* bound: calls of the completion handler

ASSUME ObjectsAssumption ==
  /\ Directories \subseteq Objects
  /\ Owned \subseteq Objects
  /\ SyncRoots \subseteq Owned
  /\ Nothing \notin Objects

ASSUME BoundsAssumption ==
  MaxChanges \in Nat /\ MaxCalls \in Nat

VARIABLES
  \* the probe's thread
  pc,        \* the call it is at
  round,     \* before or after the question
  checked,   \* revalidateLive passed and the access it guards is next
  item,      \* what the first read of the item saw, which every later one confirms
  path,      \* the path of the held parent when F_GETPATH was called
  fd,        \* the directory open at that path
  result,    \* what runIdentityOperation returned
  outcome,   \* what probe returned
  \* the box and the provider
  asked,     \* startIdentity has been called
  accepting, value, permits, signalDue, \* DeadlineResultBox
  calls,     \* calls of the completion handler
  \* the file system and the process policy
  place,     \* the directory each path leads to
  entry,     \* the object the name denotes in each directory
  dataless,  \* the objects whose content is not on this machine
  policyOff, \* materialization is off, as the probe needs it
  \* history
  moves, flips, losses,
  exposed,   \* accesses made while materialization was on
  expired,   \* the wait for the answer ended by its deadline
  first      \* the first answer given

probeVars == <<pc, round, checked, item, path, fd, result, outcome>>
boxVars == <<asked, accepting, value, permits, signalDue, calls, first>>
world == <<place, entry, dataless, policyOff, moves, flips, losses>>
vars == <<probeVars, boxVars, world, exposed, expired>>

Dirs == {"held", "other"}
Paths == {"here", "there"}
Answers == {"known", "identifierAbsent", "rejected"}
Reads == [object : Objects, dataless : BOOLEAN]
Refusals == {"policyUnavailable", "rawNameUnavailable", "missing", "unreadable",
             "failed", "identityMismatch", "parentIdentityMismatch",
             "contentStateUnavailable", "contentStateMismatch", "timedOut"}
Descend == "descendMetadataOnlyProviderBoundary"
Traversals == {Descend, "doNotDescendDataless", "doNotDescendNonDirectory",
               "doNotDescendUnverifiedContentState",
               "doNotDescendUnverifiedProviderOwnership"}
Outcomes == [why : Refusals \cup {"evidence"}, traversal : Traversals,
             inherited : BOOLEAN]

\* No answer of the provider, no path and no directory is the absent one.
ASSUME NothingAssumption == Nothing \notin Answers \cup Paths \cup Dirs

\* Every stop of the probe at which it first looks at the policy.
Accesses == {"item", "heldParent", "getPath", "heldParentAgain", "open",
             "derivedParent", "derivedItem", "lookup"}

TypeOK ==
  /\ pc \in Accesses \cup {"install", "readBack", "start", "wait", "closing", "decide", "done"}
  /\ round \in {"pre", "post"} /\ checked \in BOOLEAN
  /\ item \in Reads \cup {Nothing}
  /\ path \in Paths \cup {Nothing} /\ fd \in Dirs \cup {Nothing}
  /\ result \in Answers \cup {"policyUnavailable", "timedOut", Nothing}
  /\ outcome \in Outcomes \cup {Nothing}
  /\ asked \in BOOLEAN /\ accepting \in BOOLEAN /\ signalDue \in BOOLEAN
  /\ value \in Answers \cup {Nothing} /\ first \in Answers \cup {Nothing}
  /\ permits \in {0, 1} /\ calls \in 0..MaxCalls
  /\ place \in [Paths -> Dirs \cup {Nothing}]
  /\ entry \in [Dirs -> Objects \cup {Nothing}]
  /\ dataless \subseteq Objects /\ policyOff \in BOOLEAN
  /\ {moves, flips, losses} \subseteq 0..MaxChanges
  /\ exposed \in Nat /\ expired \in BOOLEAN

Init ==
  /\ pc = "install" /\ round = "pre" /\ checked = FALSE
  /\ item = Nothing /\ path = Nothing /\ fd = Nothing
  /\ result = Nothing /\ outcome = Nothing
  /\ asked = FALSE /\ accepting = FALSE /\ value = Nothing /\ permits = 0
  /\ signalDue = FALSE /\ calls = 0 /\ first = Nothing
  /\ \E d \in {"other", Nothing} :
       place = [p \in Paths |-> IF p = "here" THEN "held" ELSE d]
  /\ \E o \in Objects, n \in Objects \cup {Nothing} :
       /\ o # n
       /\ entry = [d \in Dirs |-> IF d = "held" THEN o ELSE n]
       /\ dataless \in SUBSET ({o, n} \ {Nothing})
  /\ policyOff \in BOOLEAN
  /\ moves = 0 /\ flips = 0 /\ losses = 0
  /\ exposed = 0 /\ expired = FALSE

----------------------------------------------------------------------------
(* Steps of the probe's thread. *)

\* FileProviderProbeOutcome.traversal for the rejections.
RefusedTraversal(why) ==
  IF why \in {"contentStateMismatch", "contentStateUnavailable"}
  THEN "doNotDescendUnverifiedContentState"
  ELSE "doNotDescendUnverifiedProviderOwnership"

Refuse(why) ==
  /\ outcome' = [why |-> why, traversal |-> RefusedTraversal(why),
                 inherited |-> FALSE]
  /\ pc' = "done"
  /\ UNCHANGED round

GoTo(next) == pc' = next /\ UNCHANGED <<round, outcome>>

\* The question is over: the second round of checks begins.
CheckAgain(answer) ==
  result' = answer /\ pc' = "item" /\ round' = "post" /\ UNCHANGED outcome

\* installBeforePathAccess.  Without a policy that was set and read back there
\* is no value to call the probe with.
SetOff ==
  /\ pc = "install"
  /\ \/ policyOff' = TRUE /\ GoTo("readBack")
     \/ UNCHANGED policyOff /\ GoTo("done")
  /\ UNCHANGED <<checked, item, path, fd, result, boxVars, place, entry, dataless,
                 moves, flips, losses, exposed, expired>>

ReadBack ==
  /\ pc = "readBack"
  /\ (policyOff /\ GoTo("start")) \/ GoTo("done")
  /\ UNCHANGED <<checked, item, path, fd, result, boxVars, world, exposed, expired>>

MutantAccess(stop) ==
  /\ pc = stop /\ checked
  /\ UNCHANGED checked
  /\ exposed' = IF policyOff THEN exposed ELSE exposed + 1
  /\ UNCHANGED <<world, expired>>

\* One access to the file system or to the framework, made after a check.
Access(stop) ==
  /\ pc = stop /\ checked
  /\ checked' = FALSE
  /\ exposed' = IF policyOff THEN exposed ELSE exposed + 1
  /\ UNCHANGED <<world, expired>>

\* policy.revalidateLive(), first thing in probe and before every access.  The
\* readers of the item report a failed check as a failed read; a check that
\* fails before the question leaves the second round to be made all the same.
CheckPolicy ==
  /\ pc \in Accesses \cup {"start"} /\ ~checked
  /\ \/ /\ policyOff
        /\ checked' = (pc # "start")
        /\ GoTo(IF pc = "start" THEN "item" ELSE pc)
        /\ UNCHANGED result
     \/ /\ pc # "lookup"  \* materialization is on, or cannot be read back
        /\ Refuse(IF pc \in {"item", "derivedItem"} THEN "failed"
                  ELSE "policyUnavailable")
        /\ UNCHANGED <<checked, result>>
     \/ pc = "lookup" /\ CheckAgain("policyUnavailable") /\ UNCHANGED checked
  /\ UNCHANGED <<item, path, fd, boxVars, world, exposed, expired>>

MutantConfirm(seen, next) ==
  \/ seen.dataless # item.dataless /\ Refuse("contentStateMismatch")
  \/ seen.dataless = item.dataless /\ GoTo(next)

\* The second read of a slot must see what the first saw.
Confirm(seen, next) ==
  \/ seen.object # item.object /\ Refuse("identityMismatch")
  \/ /\ seen.object = item.object /\ seen.dataless # item.dataless
     /\ Refuse("contentStateMismatch")
  \/ seen = item /\ GoTo(next)

Seen(dir) == [object |-> entry[dir], dataless |-> entry[dir] \in dataless]

ReadFails == \E why \in {"missing", "unreadable", "failed"} : Refuse(why)

\* probeItem through the held descriptor.  Before the question it also finds
\* whether the name is UTF-8, without which there is no path to ask about.
ReadItem ==
  /\ Access("item")
  /\ \/ (ReadFails \/ Refuse("contentStateUnavailable")) /\ UNCHANGED item
     \/ /\ entry["held"] # Nothing /\ round = "pre"
        /\ item' = Seen("held")
        /\ GoTo("heldParent") \/ Refuse("rawNameUnavailable")
     \/ /\ entry["held"] # Nothing /\ round = "post"
        /\ Confirm(Seen("held"), "heldParentAgain") /\ UNCHANGED item
  /\ UNCHANGED <<path, fd, result, boxVars>>

\* probeFDIdentity of the held parent.  A descriptor keeps its object, so the
\* comparison of two such reads cannot fail, the read can.
ReadHeldParent(stop, next) ==
  /\ Access(stop)
  /\ ReadFails \/ GoTo(next)
  /\ UNCHANGED <<item, path, fd, result, boxVars>>

\* fcntl(F_GETPATH); a name the URL would spell with other bytes ends the probe.
GetPath ==
  /\ Access("getPath")
  /\ \/ (ReadFails \/ Refuse("rawNameUnavailable")) /\ UNCHANGED path
     \/ /\ path' = CHOOSE p \in Paths : place[p] = "held"
        /\ GoTo("heldParentAgain")
  /\ UNCHANGED <<item, fd, result, boxVars>>

\* open(path, O_DIRECTORY | O_NOFOLLOW): whatever directory is there now.
OpenPath ==
  /\ Access("open")
  /\ \/ ReadFails /\ UNCHANGED fd
     \/ place[path] # Nothing /\ fd' = place[path] /\ GoTo("derivedParent")
  /\ UNCHANGED <<item, path, result, boxVars>>

CompareParents ==
  /\ Access("derivedParent")
  /\ \/ ReadFails
     \/ fd # "held" /\ Refuse("parentIdentityMismatch")
     \/ fd = "held" /\ GoTo("derivedItem")
  /\ UNCHANGED <<item, path, fd, result, boxVars>>

ReadDerivedItem ==
  /\ Access("derivedItem")
  /\ \/ ReadFails \/ Refuse("contentStateUnavailable")
     \/ /\ entry[fd] # Nothing
        /\ Confirm(Seen(fd), IF round = "pre" THEN "lookup" ELSE "decide")
  /\ UNCHANGED <<item, path, fd, result, boxVars>>

\* A new box, and the question.
StartIdentity ==
  /\ Access("lookup")
  /\ asked' = TRUE /\ accepting' = TRUE
  /\ GoTo("wait")
  /\ UNCHANGED <<item, path, fd, result, value, permits, signalDue, calls, first>>

\* The semaphore was signalled: close the box and take what is in it.
TakeAnswer ==
  /\ pc = "wait" /\ permits = 1
  /\ permits' = 0 /\ accepting' = FALSE
  /\ CheckAgain(value)
  /\ UNCHANGED <<checked, item, path, fd, asked, value, signalDue, calls, first,
                 world, exposed, expired>>

MutantExpire ==
  /\ pc = "wait" /\ permits = 0 /\ calls > 0
  /\ expired' = TRUE
  /\ GoTo("closing")
  /\ UNCHANGED <<checked, item, path, fd, result, boxVars, world, exposed>>

\* The deadline passes.  The box is still open.
Expire ==
  /\ pc = "wait" /\ permits = 0
  /\ expired' = TRUE
  /\ GoTo("closing")
  /\ UNCHANGED <<checked, item, path, fd, result, boxVars, world, exposed>>

MutantCloseBox ==
  /\ pc = "closing"
  /\ accepting' = FALSE /\ UNCHANGED value
  /\ CheckAgain(IF value = Nothing THEN "timedOut" ELSE value)
  /\ UNCHANGED <<checked, item, path, fd, asked, permits, signalDue, calls, first,
                 world, exposed, expired>>

\* Whatever came in meanwhile is thrown away.
CloseBox ==
  /\ pc = "closing"
  /\ accepting' = FALSE /\ value' = Nothing
  /\ CheckAgain("timedOut")
  /\ UNCHANGED <<checked, item, path, fd, asked, permits, signalDue, calls, first,
                 world, exposed, expired>>

\* decideBoundary on an item whose type and content state are known.
BoundaryDecision(seen, syncRoot, answer, inherited) ==
  IF seen.object \notin Directories THEN "doNotDescendNonDirectory"
  ELSE IF seen.dataless THEN "doNotDescendDataless"
  ELSE IF inherited \/ syncRoot \/ answer = "known" THEN Descend
  ELSE "doNotDescendUnverifiedProviderOwnership"

\* The last statement of probe.  Whether the parent lies in a provider's domain
\* is the caller's word; the sync root attribute may not have been returned.
Decide ==
  /\ pc = "decide"
  /\ \/ result \notin Answers /\ Refuse(result)
     \/ /\ result \in Answers
        /\ \E inherited \in BOOLEAN, syncRoot \in {FALSE, item.object \in SyncRoots} :
             outcome' = [why |-> "evidence", inherited |-> inherited,
                         traversal |-> BoundaryDecision(item, syncRoot, result, inherited)]
        /\ pc' = "done" /\ UNCHANGED round
  /\ UNCHANGED <<checked, item, path, fd, result, boxVars, world, exposed, expired>>

ProbeStep ==
  \/ SetOff \/ ReadBack
  \/ CheckPolicy \/ ReadItem \/ GetPath \/ OpenPath \/ CompareParents
  \/ ReadHeldParent("heldParent", "getPath")
  \/ ReadHeldParent("heldParentAgain", "open")
  \/ ReadDerivedItem \/ StartIdentity
  \/ TakeAnswer \/ Expire \/ CloseBox \/ Decide

----------------------------------------------------------------------------
(* The provider's thread: complete, under the lock and after it. *)

\* What the path leads to when the framework resolves it.
Resolved == IF place[path] = Nothing THEN Nothing ELSE entry[place[path]]

Complete ==
  /\ asked /\ calls < MaxCalls
  /\ \E answer \in IF Resolved \in Owned THEN Answers ELSE Answers \ {"known"} :
       /\ first' = IF first = Nothing THEN answer ELSE first
       /\ IF accepting /\ value = Nothing
          THEN value' = answer /\ signalDue' = TRUE
          ELSE UNCHANGED <<value, signalDue>>
  /\ calls' = calls + 1
  /\ UNCHANGED <<probeVars, asked, accepting, permits, world, exposed, expired>>

Signal ==
  /\ signalDue
  /\ signalDue' = FALSE /\ permits' = 1
  /\ UNCHANGED <<probeVars, asked, accepting, value, calls, first, world, exposed,
                 expired>>

----------------------------------------------------------------------------
(* Everybody else, while the probe runs. *)

Elsewhere ==
  outcome = Nothing /\ UNCHANGED <<probeVars, boxVars, exposed, expired>>

Budget == moves + flips + losses < MaxChanges

\* The name comes to denote another object, in both directories at once.
ExchangeEntries ==
  /\ Elsewhere /\ Budget /\ moves' = moves + 1
  /\ entry' = [entry EXCEPT !["held"] = entry["other"], !["other"] = entry["held"]]
  /\ UNCHANGED <<place, dataless, policyOff, flips, losses>>

\* The held directory is renamed, and what was there may take its path.
MoveParent ==
  /\ Elsewhere /\ Budget /\ moves' = moves + 1
  /\ place' = [p \in Paths |-> place[CHOOSE q \in Paths : q # p]]
  /\ UNCHANGED <<entry, dataless, policyOff, flips, losses>>

\* The provider evicts an item or brings it back.
Flip ==
  /\ Elsewhere /\ Budget /\ flips' = flips + 1
  /\ \E d \in Dirs : /\ entry[d] # Nothing
                     /\ dataless' = IF entry[d] \in dataless
                                    THEN dataless \ {entry[d]}
                                    ELSE dataless \cup {entry[d]}
  /\ UNCHANGED <<place, entry, policyOff, moves, losses>>

\* Other code of the process switches materialization on, or off again.
LosePolicy ==
  /\ Elsewhere /\ policyOff /\ Budget /\ losses' = losses + 1
  /\ policyOff' = FALSE
  /\ UNCHANGED <<place, entry, dataless, moves, flips>>

RestorePolicy ==
  /\ Elsewhere /\ ~policyOff /\ policyOff' = TRUE
  /\ UNCHANGED <<place, entry, dataless, moves, flips, losses>>

Next ==
  \/ ProbeStep \/ Complete \/ Signal
  \/ ExchangeEntries \/ MoveParent \/ Flip \/ LosePolicy \/ RestorePolicy

\* The probe's thread runs, and its deadline passes.  Of the provider nothing
\* is assumed.
Spec == Init /\ [][Next]_vars /\ WF_vars(ProbeStep)

----------------------------------------------------------------------------
\* The scan descends only into a directory whose content was local, and which
\* a provider owns or whose parent's owner answers for it.  The one way to a
\* wrong answer is to rename the slot away before the framework looks and
\* back before the second round: two renames, which no check can see.
DescentIsJustified ==
  outcome # Nothing /\ outcome.traversal = Descend =>
    /\ item.object \in Directories /\ ~item.dataless
    /\ outcome.inherited \/ item.object \in Owned \/ moves >= 2

\* Each time materialization is switched on behind the probe's back, at most
\* the one access already past its check is made with it on.
OneAccessPerLoss == exposed <= losses

\* The probe uses the first answer and only if it came in time: one that comes
\* after the deadline, even before the box is closed, a second one, and one
\* after the return change nothing.
FirstAnswerInTime ==
  /\ result \in Answers => result = first /\ ~expired
  /\ asked /\ pc # "wait" /\ pc # "closing" => ~accepting
  /\ expired /\ pc # "closing" => value = Nothing

\* The probe returns, whatever the provider does.
ProbeEnds == <>(pc = "done")
=============================================================================
