--------------------------- MODULE EvidenceProofs ---------------------------
(***************************************************************************)
(* The evidence of the engine: how the boundary probe comes by it, and the *)
(* bytes it is hashed as.                                                  *)
(*                                                                         *)
(* The probe, for any set of objects, any number of renames, evictions and *)
(* losses of the policy, and a provider that calls the completion handler  *)
(* as often as it likes.                                                   *)
(*                                                                         *)
(* The encoding, for integers of any width, inputs of any length and       *)
(* bindings with any number of labels.  Both verifiers are taken apart     *)
(* into the same groups of checks.  Those before the last three throw the  *)
(* same on both sides (FrontGroups) and leave an input with nothing to     *)
(* object to (Sound, FrontMeans).  Such an input holds the record of the   *)
(* binding read from it (RecordWritten), and the record of a binding is    *)
(* read as that binding (RecordRead); so the comparison with the encoded   *)
(* value finds nothing unless Foundation has dropped a mark.               *)
(***************************************************************************)
EXTENDS FileProviderProbe, CanonicalBinary, SequenceTheorems, FiniteSetTheorems, TLAPS

-----------------------------------------------------------------------------
(* The policy: a check that has passed and whose access is still to come   *)
(* is the only way from a loss to an exposed access.                       *)

LossInv ==
  /\ exposed \in Nat /\ losses \in Nat
  /\ exposed <= losses
  /\ checked /\ ~policyOff => exposed + 1 <= losses

\* An access ends the check it was made under.
LEMMA AccessKeepsLoss ==
  ASSUME LossInv, NEW stop, Access(stop)
  PROVE  LossInv'
BY DEF LossInv, Access, world

\* Every step keeps the account of losses and exposed accesses.
LEMMA LossStep ==
  ASSUME LossInv, [Next]_vars
  PROVE  LossInv'
<1>0. CASE SetOff \/ ReadBack
  BY <1>0 DEF SetOff, ReadBack, LossInv, world
<1>1. CASE CheckPolicy
  BY <1>1 DEF CheckPolicy, LossInv, world
<1>2. CASE ReadItem
  BY <1>2, AccessKeepsLoss DEF ReadItem
<1>3. CASE GetPath
  BY <1>3, AccessKeepsLoss DEF GetPath
<1>4. CASE OpenPath
  BY <1>4, AccessKeepsLoss DEF OpenPath
<1>5. CASE CompareParents
  BY <1>5, AccessKeepsLoss DEF CompareParents
<1>6. ASSUME NEW stop, NEW next, ReadHeldParent(stop, next)
      PROVE  LossInv'
  BY <1>6, AccessKeepsLoss DEF ReadHeldParent
<1>7. CASE ReadDerivedItem
  BY <1>7, AccessKeepsLoss DEF ReadDerivedItem
<1>8. CASE StartIdentity
  BY <1>8, AccessKeepsLoss DEF StartIdentity
<1>9. CASE TakeAnswer \/ Expire \/ CloseBox \/ Decide
  <2>1. UNCHANGED <<checked, world, exposed>>
    BY <1>9, Zenon DEF TakeAnswer, Expire, CloseBox, Decide
  <2>2. QED
    BY <2>1 DEF LossInv, world
<1>10. CASE Complete \/ Signal
  BY <1>10 DEF Complete, Signal, LossInv, world, probeVars
<1>11. CASE ExchangeEntries \/ MoveParent \/ Flip
  BY <1>11 DEF ExchangeEntries, MoveParent, Flip, Elsewhere, LossInv, probeVars
<1>12. CASE LosePolicy \/ RestorePolicy
  BY <1>12 DEF LosePolicy, RestorePolicy, Elsewhere, LossInv, probeVars
<1>13. CASE UNCHANGED vars
  BY <1>13 DEF vars, probeVars, world, LossInv
<1>14. QED
  BY <1>0, <1>1, <1>2, <1>3, <1>4, <1>5, <1>6, <1>7, <1>8, <1>9, <1>10, <1>11, <1>12, <1>13
     DEF Next, ProbeStep

(* However often materialization is switched on behind the probe's back,   *)
(* each time at most the access already past its check is made with it on. *)
THEOREM OneAccessPerLossHolds == Spec => []OneAccessPerLoss
<1>1. Init => LossInv
  BY DEF Init, LossInv
<1>2. LossInv /\ [Next]_vars => LossInv'
  BY LossStep
<1>3. LossInv => OneAccessPerLoss
  BY DEF LossInv, OneAccessPerLoss
<1>4. QED
  BY <1>1, <1>2, <1>3, PTL DEF Spec

-----------------------------------------------------------------------------
(* The box: while it is open it holds the first answer, if there is one.   *)

BoxInv ==
  /\ FirstAnswerInTime
  /\ accepting => value = first
  /\ pc \in {"wait", "closing"} => asked /\ accepting
  /\ pc = "wait" => ~expired
  /\ round = "pre" => result = Nothing
  /\ round = "pre" /\ pc \notin {"wait", "closing"} => ~asked
  /\ pc \in {"lookup", "wait", "closing"} => round = "pre"
  /\ round \in {"pre", "post"}
  /\ ~asked => /\ ~accepting /\ ~signalDue /\ ~expired /\ permits = 0
               /\ value = Nothing /\ first = Nothing
  /\ permits = 1 \/ signalDue => first # Nothing

(* A step that ends the probe or goes on from one access to the next, and  *)
(* touches neither the box nor the answer.                                 *)
LEMMA ForwardKeepsBox ==
  ASSUME BoxInv, pc \notin {"wait", "closing"},
         pc' \notin {"lookup", "wait", "closing"} \/ (pc' = "lookup" /\ round = "pre"),
         UNCHANGED <<round, result, expired, boxVars>>
  PROVE  BoxInv'
BY DEF BoxInv, FirstAnswerInTime, boxVars

\* What a refusal, a failed read and a confirmation do to the control.
LEMMA RefuseStops ==
  ASSUME NEW why, Refuse(why)
  PROVE  pc' = "done" /\ round' = round
BY DEF Refuse

LEMMA ReadFailsStops ==
  ASSUME ReadFails
  PROVE  pc' = "done" /\ round' = round
BY RefuseStops DEF ReadFails

LEMMA ConfirmGoes ==
  ASSUME NEW seen, NEW next, Confirm(seen, next)
  PROVE  round' = round /\ (pc' = "done" \/ (pc' = next /\ seen = item))
BY RefuseStops DEF Confirm, GoTo

\* Every step keeps the box, whoever takes it.
LEMMA BoxStep ==
  ASSUME BoxInv, [Next]_vars
  PROVE  BoxInv'
<1>0. CASE SetOff \/ ReadBack
  BY <1>0, ForwardKeepsBox DEF SetOff, ReadBack, GoTo, boxVars
<1>1. CASE CheckPolicy
  <2>1. CASE pc # "lookup" /\ policyOff
    <3>1. pc' = (IF pc = "start" THEN "item" ELSE pc) \/ pc' = "done"
      BY <1>1, <2>1, RefuseStops DEF CheckPolicy, GoTo
    <3>2. UNCHANGED <<round, result, expired, boxVars>>
      BY <1>1, <2>1, RefuseStops DEF CheckPolicy, GoTo
    <3>3. pc \in Accesses \cup {"start"}
      BY <1>1 DEF CheckPolicy
    <3>4. QED
      BY <2>1, <3>1, <3>2, <3>3, ForwardKeepsBox DEF Accesses
  <2>2. CASE pc # "lookup" /\ ~policyOff
    BY <1>1, <2>2, ForwardKeepsBox, RefuseStops DEF CheckPolicy, Accesses
  <2>3. CASE pc = "lookup"
    BY <1>1, <2>3 DEF CheckPolicy, GoTo, CheckAgain, BoxInv, FirstAnswerInTime, boxVars, Answers
  <2>4. QED
    BY <2>1, <2>2, <2>3
<1>2. CASE ReadItem
  BY <1>2, ForwardKeepsBox, RefuseStops, ReadFailsStops, ConfirmGoes DEF ReadItem, Access, GoTo
<1>3. CASE GetPath
  BY <1>3, ForwardKeepsBox, RefuseStops, ReadFailsStops DEF GetPath, Access, GoTo
<1>4. CASE OpenPath
  BY <1>4, ForwardKeepsBox, ReadFailsStops DEF OpenPath, Access, GoTo
<1>5. CASE CompareParents
  BY <1>5, ForwardKeepsBox, RefuseStops, ReadFailsStops DEF CompareParents, Access, GoTo
<1>6. CASE \/ ReadHeldParent("heldParent", "getPath")
           \/ ReadHeldParent("heldParentAgain", "open")
  BY <1>6, ForwardKeepsBox, ReadFailsStops DEF ReadHeldParent, Access, GoTo
<1>7. CASE ReadDerivedItem
  BY <1>7, ForwardKeepsBox, RefuseStops, ReadFailsStops, ConfirmGoes
     DEF ReadDerivedItem, Access, BoxInv
<1>8. CASE StartIdentity
  BY <1>8 DEF StartIdentity, Access, GoTo, BoxInv, FirstAnswerInTime
<1>9. CASE TakeAnswer
  BY <1>9 DEF TakeAnswer, CheckAgain, BoxInv, FirstAnswerInTime
<1>10. CASE Expire
  BY <1>10, NothingAssumption DEF Answers, Expire, GoTo, BoxInv, FirstAnswerInTime, boxVars
<1>11. CASE CloseBox
  BY <1>11, NothingAssumption DEF CloseBox, CheckAgain, BoxInv, FirstAnswerInTime, Answers
<1>12. CASE Decide
  BY <1>12, ForwardKeepsBox, RefuseStops DEF Decide
<1>13. CASE Complete
  BY <1>13, NothingAssumption DEF Complete, BoxInv, FirstAnswerInTime, probeVars, Answers
<1>14. CASE Signal
  BY <1>14 DEF Signal, BoxInv, FirstAnswerInTime, probeVars
<1>15. CASE ExchangeEntries \/ MoveParent \/ Flip \/ LosePolicy \/ RestorePolicy
  BY <1>15 DEF ExchangeEntries, MoveParent, Flip, LosePolicy, RestorePolicy, Elsewhere,
               BoxInv, FirstAnswerInTime, probeVars, boxVars
<1>16. CASE UNCHANGED vars
  BY <1>16 DEF vars, BoxInv, FirstAnswerInTime, probeVars, boxVars
<1>17. QED
  BY <1>0, <1>1, <1>2, <1>3, <1>4, <1>5, <1>6, <1>7, <1>8, <1>9, <1>10, <1>11, <1>12, <1>13,
     <1>14, <1>15, <1>16
     DEF Next, ProbeStep

(* The probe uses the first answer and only if it came in time, however    *)
(* many come and whenever.                                                 *)
THEOREM FirstAnswerOnly == Spec => []FirstAnswerInTime
<1>1. Init => BoxInv
  BY NothingAssumption DEF Init, BoxInv, FirstAnswerInTime
<1>2. BoxInv /\ [Next]_vars => BoxInv'
  BY BoxStep
<1>3. BoxInv => FirstAnswerInTime
  BY DEF BoxInv
<1>4. QED
  BY <1>1, <1>2, <1>3, PTL DEF Spec

-----------------------------------------------------------------------------
(* The evidence.  A wrong "known" is explained by a slot that is not what  *)
(* it was: each check of the second round leaves less of it unseen, until  *)
(* only a second rename, back to what it was, can be the reason.           *)

\* The item has been read, and the path of its parent is known.
Looking == pc \notin {"install", "readBack", "start", "done"} /\ ~(pc = "item" /\ round = "pre")
Asking == Looking /\ pc \notin {"heldParent", "getPath"}

Rightly == item.object \in Owned \/ moves >= 2

Moved == moves = 1 /\ place[path] # "held"
Changed == moves = 1 /\ (place[path] # "held" \/ entry["held"] # item.object)

WorldTyped ==
  /\ moves \in Nat
  /\ place \in [Paths -> Dirs \cup {Nothing}]
  /\ entry \in [Dirs -> Objects \cup {Nothing}]
  /\ \E p \in Paths : place[p] = "held"

ProbeWhere ==
  /\ pc # "done" => outcome = Nothing
  /\ pc \in {"install", "readBack", "start", "heldParent", "getPath"} => round = "pre"
  /\ Asking => path \in Paths

\* As long as nothing is renamed, what was seen is what is there.
Undisturbed ==
  /\ Looking /\ moves = 0 => entry["held"] = item.object
  /\ Asking /\ moves = 0 => place[path] = "held"

Explained ==
  /\ pc \in {"wait", "closing"} /\ value = "known" => Rightly \/ Changed
  /\ pc = "item" /\ result = "known" => Rightly \/ Changed
  /\ pc \in {"heldParentAgain", "open"} /\ result = "known" => Rightly \/ Moved
  /\ pc = "derivedParent" /\ result = "known" => Rightly \/ fd # "held"
  /\ pc \in {"derivedItem", "decide"} /\ result = "known" => Rightly

DescentInv ==
  /\ BoxInv /\ WorldTyped /\ ProbeWhere /\ Undisturbed /\ Explained
  /\ DescentIsJustified

\* A refusal is no reason to descend.
LEMMA RefusalIsSafe ==
  ASSUME NEW why, Refuse(why)
  PROVE  pc' = "done" /\ round' = round /\ outcome'.traversal # Descend
BY DEF Refuse, RefusedTraversal, Descend

LEMMA ReadFailureIsSafe ==
  ASSUME ReadFails
  PROVE  pc' = "done" /\ round' = round /\ outcome'.traversal # Descend
BY RefusalIsSafe DEF ReadFails

LEMMA ConfirmIsSafe ==
  ASSUME NEW seen, NEW next, Confirm(seen, next)
  PROVE  /\ round' = round
         /\ \/ pc' = "done" /\ outcome'.traversal # Descend
            \/ pc' = next /\ seen = item /\ outcome' = outcome
BY RefusalIsSafe DEF Confirm, GoTo

\* A step that ends the probe with a refusal.
LEMMA RefusalKeepsDescent ==
  ASSUME DescentInv, BoxInv', pc' = "done", outcome'.traversal # Descend,
         UNCHANGED <<place, entry, moves>>
  PROVE  DescentInv'
<1>1. WorldTyped' /\ ProbeWhere' /\ Undisturbed'
  BY DEF DescentInv, WorldTyped, ProbeWhere, Undisturbed, Looking, Asking
<1>2. Explained' /\ DescentIsJustified'
  BY DEF Explained, DescentIsJustified
<1>3. QED
  BY <1>1, <1>2 DEF DescentInv

\* A step of the probe that goes on and has not answered yet.
LEMMA GoingOn ==
  ASSUME DescentInv, BoxInv', outcome' = outcome, pc # "done", pc' # "done",
         UNCHANGED <<place, entry, moves>>,
         pc' \in {"install", "readBack", "start", "heldParent", "getPath"} => round' = "pre",
         Asking' => path' \in Paths,
         Undisturbed', Explained'
  PROVE  DescentInv'
<1>1. outcome = Nothing
  BY DEF DescentInv, ProbeWhere
<1>2. WorldTyped' /\ ProbeWhere' /\ DescentIsJustified'
  BY <1>1 DEF DescentInv, WorldTyped, ProbeWhere, DescentIsJustified
<1>3. QED
  BY <1>2 DEF DescentInv

\* Nothing is seen before the policy is installed.
LEMMA InstallationKeepsDescent ==
  ASSUME DescentInv, BoxInv', SetOff \/ ReadBack
  PROVE  DescentInv'
<1>1. /\ pc \in {"install", "readBack"} /\ pc' \in {"readBack", "start", "done"}
      /\ UNCHANGED <<outcome, round, place, entry, moves>>
  BY DEF SetOff, ReadBack, GoTo, world
<1>2. outcome' = Nothing /\ round' = "pre"
  BY <1>1 DEF DescentInv, ProbeWhere
<1>3. WorldTyped' /\ ProbeWhere' /\ Undisturbed'
  BY <1>1, <1>2 DEF DescentInv, WorldTyped, ProbeWhere, Undisturbed, Looking, Asking
<1>4. Explained' /\ DescentIsJustified'
  BY <1>1, <1>2 DEF Explained, DescentIsJustified
<1>5. QED
  BY <1>3, <1>4 DEF DescentInv

\* The check of the policy goes on as before, or ends the probe or the
\* question.
LEMMA CheckPolicyKeepsDescent ==
  ASSUME DescentInv, BoxInv', CheckPolicy
  PROVE  DescentInv'
<1>1. UNCHANGED <<item, path, fd, boxVars, place, entry, moves>>
  BY DEF CheckPolicy, world
<1>2. pc \in Accesses \cup {"start"}
  BY DEF CheckPolicy
<1>3. CASE GoTo(IF pc = "start" THEN "item" ELSE pc) /\ UNCHANGED result
  <2>1. /\ UNCHANGED <<round, outcome, result>>
        /\ pc' = IF pc = "start" THEN "item" ELSE pc
    BY <1>3 DEF GoTo
  <2>2. (Looking' => Looking) /\ (Asking' => Asking)
    BY <2>1 DEF Looking, Asking, DescentInv, ProbeWhere
  <2>3. Undisturbed'
    BY <1>1, <2>1, <2>2 DEF DescentInv, Undisturbed
  <2>4. Explained'
    BY <1>1, <1>2, <2>1, NothingAssumption
       DEF DescentInv, ProbeWhere, Explained, Rightly, Moved, Changed, BoxInv, boxVars, Answers
  <2>5. QED
    BY <1>1, <1>2, <2>1, <2>2, <2>3, <2>4, GoingOn DEF Accesses, DescentInv, ProbeWhere
<1>4. ASSUME NEW why, Refuse(why)
      PROVE  DescentInv'
  BY <1>1, <1>4, RefusalIsSafe, RefusalKeepsDescent
<1>5. CASE pc = "lookup" /\ CheckAgain("policyUnavailable")
  <2>1. pc' = "item" /\ result' = "policyUnavailable" /\ round' = "post" /\ outcome' = outcome
    BY <1>5 DEF CheckAgain
  <2>2. Asking /\ Looking
    BY <1>5 DEF Looking, Asking
  <2>3. Undisturbed' /\ Explained'
    BY <1>1, <2>1, <2>2 DEF DescentInv, Undisturbed, Explained, Looking, Asking
  <2>4. QED
    BY <1>1, <1>5, <2>1, <2>2, <2>3, GoingOn DEF DescentInv, ProbeWhere
<1>6. QED
  BY <1>3, <1>4, <1>5 DEF CheckPolicy

\* The access itself disturbs nothing.
LEMMA AccessLeavesWorld ==
  ASSUME NEW stop, Access(stop)
  PROVE  pc = stop /\ UNCHANGED <<place, entry, moves>>
BY DEF Access, world

\* After the second read of the item, the name denotes what it denoted, so
\* only the path can still hide a rename.
LEMMA ReadItemKeepsDescent ==
  ASSUME DescentInv, BoxInv', ReadItem
  PROVE  DescentInv'
<1>1. pc = "item" /\ UNCHANGED <<place, entry, moves, path, fd, result, boxVars>>
  BY AccessLeavesWorld DEF ReadItem
<1>2. ASSUME pc' = "done" /\ round' = round /\ outcome'.traversal # Descend
      PROVE  DescentInv'
  BY <1>1, <1>2, RefusalKeepsDescent
<1>3. CASE round = "pre" /\ item' = Seen("held") /\ GoTo("heldParent")
  <2>1. pc' = "heldParent" /\ round' = "pre" /\ outcome' = outcome /\ item'.object = entry["held"]
    BY <1>3 DEF GoTo, Seen
  <2>2. Undisturbed' /\ Explained'
    BY <1>1, <2>1 DEF Undisturbed, Explained, Asking
  <2>3. QED
    BY <1>1, <2>1, <2>2, GoingOn DEF Asking
<1>4. CASE round = "post" /\ pc' = "heldParentAgain" /\ Seen("held") = item
           /\ UNCHANGED <<round, item, outcome>>
  <2>1. Looking /\ Asking
    BY <1>1, <1>4 DEF Looking, Asking
  <2>2. entry["held"] = item.object
    BY <1>4 DEF Seen
  <2>3. Undisturbed' /\ Explained'
    BY <1>1, <1>4, <2>1, <2>2
       DEF DescentInv, Undisturbed, Explained, Looking, Asking, Rightly, Moved, Changed
  <2>4. QED
    BY <1>1, <1>4, <2>1, <2>3, GoingOn DEF DescentInv, ProbeWhere
<1>5. CASE Confirm(Seen("held"), "heldParentAgain") /\ UNCHANGED item /\ round = "post"
  BY <1>2, <1>4, <1>5, ConfirmIsSafe
<1>6. ASSUME NEW why, Refuse(why)
      PROVE  DescentInv'
  BY <1>2, <1>6, RefusalIsSafe
<1>7. CASE ReadFails
  BY <1>2, <1>7, ReadFailureIsSafe
<1>8. QED
  BY <1>3, <1>5, <1>6, <1>7 DEF ReadItem

\* The held parent is a descriptor: nothing is learnt of the path.
LEMMA ReadHeldParentKeepsDescent ==
  ASSUME DescentInv, BoxInv',
         \/ ReadHeldParent("heldParent", "getPath")
         \/ ReadHeldParent("heldParentAgain", "open")
  PROVE  DescentInv'
<1>1. /\ \/ pc = "heldParent" /\ (ReadFails \/ GoTo("getPath"))
         \/ pc = "heldParentAgain" /\ (ReadFails \/ GoTo("open"))
      /\ UNCHANGED <<place, entry, moves, item, path, fd, result, boxVars>>
  BY AccessLeavesWorld DEF ReadHeldParent
<1>2. CASE ReadFails
  BY <1>1, <1>2, ReadFailureIsSafe, RefusalKeepsDescent
<1>3. CASE ~ReadFails
  <2>1. /\ \/ pc = "heldParent" /\ pc' = "getPath"
           \/ pc = "heldParentAgain" /\ pc' = "open"
        /\ UNCHANGED <<round, outcome>>
    BY <1>1, <1>3 DEF GoTo
  <2>2. Looking /\ (Asking' => Asking)
    BY <2>1 DEF Looking, Asking
  <2>3. Undisturbed' /\ Explained'
    BY <1>1, <2>1, <2>2 DEF DescentInv, Undisturbed, Explained, Rightly, Moved
  <2>4. QED
    BY <1>1, <2>1, <2>2, <2>3, GoingOn DEF DescentInv, ProbeWhere
<1>4. QED
  BY <1>2, <1>3

\* The path that is asked for leads to the held parent when it is taken.
LEMMA GetPathKeepsDescent ==
  ASSUME DescentInv, BoxInv', GetPath
  PROVE  DescentInv'
<1>1. pc = "getPath" /\ UNCHANGED <<place, entry, moves, item, fd, result, boxVars>>
  BY AccessLeavesWorld DEF GetPath
<1>2. CASE path' = (CHOOSE p \in Paths : place[p] = "held") /\ GoTo("heldParentAgain")
  <2>1. path' \in Paths /\ place[path'] = "held"
    BY <1>2 DEF DescentInv, WorldTyped
  <2>2. pc' = "heldParentAgain" /\ UNCHANGED <<round, outcome>> /\ Looking
    BY <1>1, <1>2 DEF GoTo, Looking
  <2>3. round = "pre" /\ result # "known"
    BY <1>1, NothingAssumption DEF DescentInv, ProbeWhere, BoxInv, Answers
  <2>4. Undisturbed' /\ Explained'
    BY <1>1, <2>1, <2>2, <2>3 DEF DescentInv, Undisturbed, Explained
  <2>5. QED
    BY <1>1, <2>1, <2>2, <2>4, GoingOn
<1>3. ASSUME NEW why, Refuse(why)
      PROVE  DescentInv'
  BY <1>1, <1>3, RefusalIsSafe, RefusalKeepsDescent
<1>4. CASE ReadFails
  BY <1>1, <1>4, ReadFailureIsSafe, RefusalKeepsDescent
<1>5. QED
  BY <1>2, <1>3, <1>4 DEF GetPath

\* Opening the path shows whether the parent was moved.
LEMMA OpenPathKeepsDescent ==
  ASSUME DescentInv, BoxInv', OpenPath
  PROVE  DescentInv'
<1>1. pc = "open" /\ UNCHANGED <<place, entry, moves, item, path, result, boxVars>>
  BY AccessLeavesWorld DEF OpenPath
<1>2. CASE fd' = place[path] /\ GoTo("derivedParent")
  <2>1. pc' = "derivedParent" /\ UNCHANGED <<round, outcome>> /\ Looking /\ Asking
    BY <1>1, <1>2 DEF GoTo, Looking, Asking
  <2>2. Undisturbed' /\ Explained'
    BY <1>1, <1>2, <2>1 DEF DescentInv, Undisturbed, Explained, Rightly, Moved
  <2>3. QED
    BY <1>1, <2>1, <2>2, GoingOn DEF DescentInv, ProbeWhere
<1>3. CASE ReadFails
  BY <1>1, <1>3, ReadFailureIsSafe, RefusalKeepsDescent
<1>4. QED
  BY <1>2, <1>3 DEF OpenPath

\* Behind the comparison, a wrong answer takes two renames.
LEMMA CompareParentsKeepsDescent ==
  ASSUME DescentInv, BoxInv', CompareParents
  PROVE  DescentInv'
<1>1. pc = "derivedParent" /\ UNCHANGED <<place, entry, moves, item, path, fd, result, boxVars>>
  BY AccessLeavesWorld DEF CompareParents
<1>2. CASE fd = "held" /\ GoTo("derivedItem")
  <2>1. pc' = "derivedItem" /\ UNCHANGED <<round, outcome>> /\ Looking /\ Asking
    BY <1>1, <1>2 DEF GoTo, Looking, Asking
  <2>2. Undisturbed' /\ Explained'
    BY <1>1, <1>2, <2>1 DEF DescentInv, Undisturbed, Explained, Rightly
  <2>3. QED
    BY <1>1, <2>1, <2>2, GoingOn DEF DescentInv, ProbeWhere
<1>3. CASE ReadFails \/ Refuse("parentIdentityMismatch")
  BY <1>1, <1>3, ReadFailureIsSafe, RefusalIsSafe, RefusalKeepsDescent
<1>4. QED
  BY <1>2, <1>3 DEF CompareParents

\* The last read of a round only ends it.
LEMMA ReadDerivedItemKeepsDescent ==
  ASSUME DescentInv, BoxInv', ReadDerivedItem
  PROVE  DescentInv'
<1>1. pc = "derivedItem" /\ UNCHANGED <<place, entry, moves, item, path, fd, result, boxVars>>
  BY AccessLeavesWorld DEF ReadDerivedItem
<1>2. CASE /\ pc' = (IF round = "pre" THEN "lookup" ELSE "decide")
           /\ UNCHANGED <<round, outcome>>
  <2>1. Looking /\ Asking
    BY <1>1 DEF Looking, Asking
  <2>2. Undisturbed' /\ Explained'
    BY <1>1, <1>2, <2>1 DEF DescentInv, Undisturbed, Explained, Rightly
  <2>3. QED
    BY <1>1, <1>2, <2>1, <2>2, GoingOn DEF DescentInv, ProbeWhere
<1>3. ASSUME pc' = "done" /\ outcome'.traversal # Descend
      PROVE  DescentInv'
  BY <1>1, <1>3, RefusalKeepsDescent
<1>4. ASSUME NEW seen, Confirm(seen, IF round = "pre" THEN "lookup" ELSE "decide")
      PROVE  DescentInv'
  BY <1>2, <1>3, <1>4, ConfirmIsSafe
<1>5. CASE ReadFails \/ Refuse("contentStateUnavailable")
  BY <1>3, <1>5, ReadFailureIsSafe, RefusalIsSafe
<1>6. QED
  BY <1>4, <1>5 DEF ReadDerivedItem

\* Asking, and every end of the wait.
LEMMA QuestionKeepsDescent ==
  ASSUME DescentInv, BoxInv', StartIdentity \/ TakeAnswer \/ Expire \/ CloseBox
  PROVE  DescentInv'
<1>1. UNCHANGED <<place, entry, moves, item, path, fd, outcome>>
  BY AccessLeavesWorld DEF StartIdentity, TakeAnswer, Expire, CloseBox, GoTo, CheckAgain, world
<1>2. /\ pc \in {"lookup", "wait", "closing"} /\ round = "pre"
      /\ \/ pc = "lookup" /\ pc' = "wait" /\ UNCHANGED <<round, result, value>>
         \/ pc = "wait" /\ pc' = "closing" /\ UNCHANGED <<round, result, value>>
         \/ pc = "wait" /\ pc' = "item" /\ round' = "post" /\ result' = value
         \/ pc' = "item" /\ round' = "post" /\ result' = "timedOut"
  BY DEF StartIdentity, Access, TakeAnswer, Expire, CloseBox, GoTo, CheckAgain, boxVars,
         DescentInv, BoxInv
<1>3. Looking /\ Asking
  BY <1>2 DEF Looking, Asking
<1>4. pc = "lookup" => value # "known"
  BY <1>2, NothingAssumption DEF DescentInv, BoxInv, Answers
<1>5. Undisturbed' /\ Explained'
  BY <1>1, <1>2, <1>3, <1>4 DEF DescentInv, Undisturbed, Explained, Rightly, Changed
<1>6. QED
  BY <1>1, <1>2, <1>3, <1>5, GoingOn DEF DescentInv, ProbeWhere

\* The decision is made from what the rounds confirmed.
LEMMA DecideKeepsDescent ==
  ASSUME DescentInv, BoxInv', Decide
  PROVE  DescentInv'
<1>1. pc = "decide" /\ pc' = "done"
      /\ UNCHANGED <<place, entry, moves, item, path, fd, result>>
  BY Zenon DEF Decide, Refuse, world
<1>2. ASSUME NEW inherited \in BOOLEAN, NEW syncRoot \in {FALSE, item.object \in SyncRoots},
             outcome' = [why |-> "evidence", inherited |-> inherited,
                         traversal |-> BoundaryDecision(item, syncRoot, result, inherited)]
      PROVE  DescentIsJustified'
  <2>1. CASE BoundaryDecision(item, syncRoot, result, inherited) # Descend
    BY <1>2, <2>1 DEF DescentIsJustified
  <2>2. CASE BoundaryDecision(item, syncRoot, result, inherited) = Descend
    <3>1. /\ item.object \in Directories /\ ~item.dataless
          /\ inherited \/ syncRoot \/ result = "known"
      BY <2>2 DEF BoundaryDecision, Descend
    <3>2. syncRoot => item.object \in Owned
      BY ObjectsAssumption
    <3>3. result = "known" => Rightly
      BY <1>1 DEF DescentInv, Explained
    <3>4. QED
      BY <1>1, <1>2, <3>1, <3>2, <3>3 DEF DescentIsJustified, Rightly
  <2>3. QED
    BY <2>1, <2>2
<1>3. CASE Refuse(result)
  BY <1>1, <1>3, RefusalIsSafe, RefusalKeepsDescent
<1>4. CASE DescentIsJustified'
  BY <1>1, <1>4 DEF DescentInv, WorldTyped, ProbeWhere, Undisturbed, Explained, Looking, Asking
<1>5. QED
  BY <1>2, <1>3, <1>4 DEF Decide

\* The framework can answer "known" for an item that is not a provider's only
\* if the path, or the name, has come to lead elsewhere since it was read.
LEMMA ProviderKeepsDescent ==
  ASSUME DescentInv, BoxInv', Complete \/ Signal
  PROVE  DescentInv'
<1>1. UNCHANGED <<probeVars, place, entry, moves>>
  BY DEF Complete, Signal, world
<1>2. CASE value' = "known" /\ value # "known" /\ pc \in {"wait", "closing"}
  <2>1. Resolved \in Owned
    BY <1>2 DEF Complete, Signal, Answers
  <2>2. Asking /\ Looking
    BY <1>2 DEF Asking, Looking
  <2>3. place[path] # Nothing /\ Resolved = entry[place[path]]
    BY <2>1, ObjectsAssumption DEF Resolved
  <2>4. item.object \in Owned \/ place[path] # "held" \/ entry["held"] # item.object
    BY <2>1, <2>3
  <2>5. Rightly \/ Changed
    BY <2>2, <2>4 DEF Rightly, Changed, DescentInv, Undisturbed, WorldTyped
  <2>6. QED
    BY <1>1, <1>2, <2>5 DEF DescentInv, WorldTyped, ProbeWhere, Undisturbed, Explained, Looking,
       Asking, Rightly, Changed, Moved, DescentIsJustified, probeVars
<1>3. CASE value' # "known" \/ value = "known" \/ pc \notin {"wait", "closing"}
  BY <1>1, <1>3 DEF DescentInv, WorldTyped, ProbeWhere, Undisturbed, Explained, Looking, Asking,
     Rightly, Changed, Moved, DescentIsJustified, probeVars
<1>4. QED
  BY <1>2, <1>3

\* A rename can only make a second one of a first, or disturb what is not yet
\* answered.
LEMMA RenameKeepsDescent ==
  ASSUME DescentInv, BoxInv', UNCHANGED <<probeVars, boxVars>>, outcome = Nothing,
         moves' = moves + 1, WorldTyped'
  PROVE  DescentInv'
<1>1. ProbeWhere' /\ Undisturbed'
  BY DEF DescentInv, ProbeWhere, Undisturbed, Looking, Asking, WorldTyped, probeVars
<1>2. CASE moves = 0
  <2>1. ~Changed /\ ~Moved
    BY <1>2 DEF Changed, Moved
  <2>2. Rightly => item.object \in Owned
    BY <1>2 DEF Rightly
  <2>3. Explained'
    BY <2>1, <2>2 DEF DescentInv, Explained, Rightly, probeVars, boxVars
  <2>4. DescentIsJustified'
    BY <2>2, <1>2 DEF DescentInv, DescentIsJustified, WorldTyped, probeVars
  <2>5. QED
    BY <1>1, <2>3, <2>4 DEF DescentInv
<1>3. CASE moves # 0
  <2>1. moves' >= 2
    BY <1>3 DEF DescentInv, WorldTyped
  <2>2. QED
    BY <1>1, <2>1 DEF DescentInv, Explained, Rightly, DescentIsJustified, probeVars
<1>4. QED
  BY <1>2, <1>3

\* What the rest of the machine does.
LEMMA ElsewhereKeepsDescent ==
  ASSUME DescentInv, BoxInv',
         ExchangeEntries \/ MoveParent \/ Flip \/ LosePolicy \/ RestorePolicy
  PROVE  DescentInv'
<1>1. UNCHANGED <<probeVars, boxVars>> /\ outcome = Nothing
  BY DEF ExchangeEntries, MoveParent, Flip, LosePolicy, RestorePolicy, Elsewhere
<1>2. CASE ExchangeEntries
  <2>1. moves' = moves + 1 /\ place' = place /\ entry' \in [Dirs -> Objects \cup {Nothing}]
    BY <1>2 DEF ExchangeEntries, DescentInv, WorldTyped, Dirs
  <2>2. WorldTyped'
    BY <2>1 DEF DescentInv, WorldTyped
  <2>3. QED
    BY <1>1, <2>1, <2>2, RenameKeepsDescent
<1>3. CASE MoveParent
  <2>1. /\ moves' = moves + 1 /\ entry' = entry
        /\ place' = [p \in Paths |-> place[CHOOSE q \in Paths : q # p]]
    BY <1>3 DEF MoveParent
  <2>2. /\ (CHOOSE q \in Paths : q # "here") = "there"
        /\ (CHOOSE q \in Paths : q # "there") = "here"
    BY DEF Paths
  <2>3. place' \in [Paths -> Dirs \cup {Nothing}]
        /\ place'["here"] = place["there"] /\ place'["there"] = place["here"]
    BY <2>1, <2>2 DEF DescentInv, WorldTyped, Paths
  <2>4. WorldTyped'
    BY <2>1, <2>3 DEF DescentInv, WorldTyped, Paths
  <2>5. QED
    BY <1>1, <2>1, <2>4, RenameKeepsDescent
<1>4. CASE Flip \/ LosePolicy \/ RestorePolicy
  <2>1. UNCHANGED <<place, entry, moves>>
    BY <1>4 DEF Flip, LosePolicy, RestorePolicy
  <2>2. QED
    BY <1>1, <2>1 DEF DescentInv, WorldTyped, ProbeWhere, Undisturbed, Explained, Looking,
       Asking, Rightly, Changed, Moved, DescentIsJustified, probeVars, boxVars
<1>5. QED
  BY <1>2, <1>3, <1>4

\* Every step keeps the evidence sound.
LEMMA DescentStep ==
  ASSUME DescentInv, [Next]_vars
  PROVE  DescentInv'
<1>1. BoxInv'
  BY BoxStep DEF DescentInv
<1>2. CASE UNCHANGED vars
  BY <1>1, <1>2 DEF vars, DescentInv, WorldTyped, ProbeWhere, Undisturbed, Explained, Looking,
     Asking, Rightly, Changed, Moved, DescentIsJustified, probeVars, boxVars, world
<1>3. CASE ProbeStep
  BY <1>1, <1>3, InstallationKeepsDescent, CheckPolicyKeepsDescent, ReadItemKeepsDescent, ReadHeldParentKeepsDescent,
     GetPathKeepsDescent, OpenPathKeepsDescent, CompareParentsKeepsDescent,
     ReadDerivedItemKeepsDescent, QuestionKeepsDescent, DecideKeepsDescent
     DEF ProbeStep
<1>4. QED
  BY <1>1, <1>2, <1>3, ProviderKeepsDescent, ElsewhereKeepsDescent DEF Next

\* The probe begins with nothing seen and nothing asked.
LEMMA DescentInit ==
  ASSUME Init
  PROVE  DescentInv
<1>1. BoxInv
  BY NothingAssumption DEF Init, BoxInv, FirstAnswerInTime
<1>2. PICK d \in {"other", Nothing} : place = [p \in Paths |-> IF p = "here" THEN "held" ELSE d]
  BY DEF Init
<1>3. place \in [Paths -> Dirs \cup {Nothing}] /\ place["here"] = "held" /\ "here" \in Paths
  BY <1>2 DEF Paths, Dirs
<1>4. PICK o \in Objects, n \in Objects \cup {Nothing} :
        entry = [e \in Dirs |-> IF e = "held" THEN o ELSE n]
  BY DEF Init
<1>5. entry \in [Dirs -> Objects \cup {Nothing}]
  BY <1>4
<1>6. WorldTyped
  BY <1>3, <1>5 DEF Init, WorldTyped
<1>7. ProbeWhere /\ Undisturbed /\ Explained
  BY DEF Init, ProbeWhere, Undisturbed, Explained, Looking, Asking
<1>8. QED
  BY <1>1, <1>6, <1>7 DEF DescentInv, DescentIsJustified, Init

(* The scan descends only into a directory whose content was local and     *)
(* which a provider owns, or whose parent's owner answers for it: a wrong  *)
(* answer takes two renames, whatever else happens and in whatever order.  *)
THEOREM DescentsAreJustified == Spec => []DescentIsJustified
<1>1. Init => DescentInv
  BY DescentInit
<1>2. DescentInv /\ [Next]_vars => DescentInv'
  BY DescentStep
<1>3. DescentInv => DescentIsJustified
  BY DEF DescentInv
<1>4. QED
  BY <1>1, <1>2, <1>3, PTL DEF Spec

-----------------------------------------------------------------------------
(* Recursion.  Each recursive function of the encoding is the solution of  *)
(* its equation; a number is counted up to by Induction.                   *)

(* A set of natural numbers has a least one.                               *)
LEMMA LeastNumber ==
  ASSUME NEW T \in SUBSET Nat, T # {}
  PROVE  \E x \in T : \A y \in T : x <= y
<1> DEFINE R == OpToRel(<, Nat)
<1>1. IsWellFoundedOn(R, Nat)
  BY NatLessThanWellFounded
<1> HIDE DEF R
<1>2. \E x \in T : \A y \in T : ~(<<y, x>> \in R)
  BY <1>1, WFMin
<1>3. \A x, y \in Nat : y < x => <<y, x>> \in R
  BY DEF R, OpToRel
<1>4. PICK x \in T : \A y \in T : ~(<<y, x>> \in R)
  BY <1>2
<1>5. ASSUME NEW y \in T PROVE x <= y
  <2>1. x \in Nat /\ y \in Nat /\ ~(y < x)
    BY <1>3, <1>4
  <2>2. QED
    BY <2>1
<1>6. QED
  BY <1>5

(* A set of numbers that holds zero and the next of each of its own, up to *)
(* a bound, holds them all.                                                *)
LEMMA Induction ==
  ASSUME NEW S, NEW n \in Nat, 0 \in S, \A k \in 0..(n - 1) : k \in S => k + 1 \in S
  PROVE  \A k \in 0..n : k \in S
<1> SUFFICES ASSUME {k \in 0..n : k \notin S} # {} PROVE FALSE
  OBVIOUS
<1>1. PICK k \in {j \in 0..n : j \notin S} : \A j \in {i \in 0..n : i \notin S} : k <= j
  <2>1. {j \in 0..n : j \notin S} \in SUBSET Nat
    OBVIOUS
  <2>2. QED
    BY <2>1, LeastNumber
<1>2. k # 0 /\ k - 1 \in 0..(n - 1)
  BY <1>1
<1>3. k - 1 \in S
  BY <1>1, <1>2
<1>4. QED
  BY <1>1, <1>2, <1>3

(* What is given at zero and at each number from the one before it, there  *)
(* is a function for.                                                      *)
IsStep(step, D) == step \in [Nat -> [D -> D]]

(* The function that a start and a step from each number to the next       *)
(* define.                                                                 *)
Unfolds(f, D, start, step) ==
  f \in [Nat -> D] /\ f[0] = start /\ \A k \in Nat : f[k + 1] = step[k][f[k]]

(* There is such a function: what a recursive function of the model is     *)
(* defined by has a solution.                                              *)
LEMMA Recursion ==
  ASSUME NEW D, NEW start \in D, NEW step, IsStep(step, D)
  PROVE  \E f : Unfolds(f, D, start, step)
<1>0. step \in [Nat -> [D -> D]]
  BY DEF IsStep
<1> DEFINE Upto(g, n) == /\ g \in [0..n -> D] /\ g[0] = start
                         /\ \A k \in 0..(n - 1) : g[k + 1] = step[k][g[k]]
           Reached(n) == {k \in 0..n : \E g : Upto(g, k)}
<1>1. ASSUME NEW n \in Nat PROVE \E g : Upto(g, n)
  <2>1. 0 \in Reached(n)
    <3>1. Upto([k \in 0..0 |-> start], 0)
      OBVIOUS
    <3> HIDE DEF Upto
    <3>2. QED
      BY <3>1
  <2>2. ASSUME NEW k \in 0..(n - 1), k \in Reached(n) PROVE k + 1 \in Reached(n)
    <3>1. PICK g : Upto(g, k)
      BY <2>2
    <3> DEFINE h == [j \in 0..(k + 1) |-> IF j = k + 1 THEN step[k][g[k]] ELSE g[j]]
    <3>2. step[k][g[k]] \in D
      BY <3>1, <1>0
    <3>3. h \in [0..(k + 1) -> D] /\ h[0] = start
      BY <3>1, <3>2
    <3>4. ASSUME NEW j \in 0..k PROVE h[j + 1] = step[j][h[j]]
      <4>1. CASE j = k
        <5>1. h[k + 1] = step[k][g[k]] /\ h[k] = g[k]
          OBVIOUS
        <5>2. QED
          BY <4>1, <5>1
      <4>2. CASE j # k
        <5>1. j \in 0..(k - 1)
          BY <4>2
        <5>2. h[j + 1] = g[j + 1] /\ h[j] = g[j]
          BY <5>1
        <5>3. QED
          BY <3>1, <5>1, <5>2
      <4>3. QED
        BY <4>1, <4>2
    <3>5. Upto(h, k + 1)
      <4> HIDE DEF h
      <4>1. (k + 1) - 1 = k
        OBVIOUS
      <4>2. QED
        BY <3>3, <3>4, <4>1
    <3> HIDE DEF Upto, h
    <3>6. QED
      BY <3>5
  <2>3. n \in Reached(n)
    <3> HIDE DEF Reached
    <3>1. \A k \in 0..(n - 1) : k \in Reached(n) => k + 1 \in Reached(n)
      BY <2>2
    <3>2. \A k \in 0..n : k \in Reached(n)
      BY <2>1, <3>1, Induction
    <3>3. QED
      BY <3>2
  <2>4. QED
    BY <2>3
<1>2. ASSUME NEW m \in Nat, NEW n \in Nat, m <= n, NEW g, NEW h, Upto(g, m), Upto(h, n)
      PROVE  g[m] = h[m]
  <2> DEFINE Same == {k \in 0..m : g[k] = h[k]}
  <2>1. 0 \in Same
    BY <1>2
  <2>2. ASSUME NEW k \in 0..(m - 1), k \in Same PROVE k + 1 \in Same
    <3>1. k \in 0..(n - 1) /\ k + 1 \in 0..m
      BY <1>2
    <3>2. g[k + 1] = step[k][g[k]] /\ h[k + 1] = step[k][h[k]]
      BY <1>2, <3>1
    <3>3. QED
      BY <2>2, <3>1, <3>2
  <2>3. m \in Same
    <3> HIDE DEF Same
    <3>1. \A k \in 0..(m - 1) : k \in Same => k + 1 \in Same
      BY <2>2
    <3>2. \A k \in 0..m : k \in Same
      BY <2>1, <3>1, Induction
    <3>3. QED
      BY <3>2
  <2>4. QED
    BY <2>3
<1> DEFINE G(n) == CHOOSE g : Upto(g, n)
           f == [n \in Nat |-> G(n)[n]]
<1>3. ASSUME NEW n \in Nat PROVE Upto(G(n), n)
  BY <1>1
<1> HIDE DEF G
<1>4. f \in [Nat -> D] /\ f[0] = start
  <2>1. ASSUME NEW n \in Nat PROVE G(n)[n] \in D
    <3>1. Upto(G(n), n) /\ n \in 0..n
      BY <1>3
    <3>2. QED
      BY <3>1
  <2>2. G(0)[0] = start
    BY <1>3
  <2>3. QED
    BY <2>1, <2>2
<1>5. ASSUME NEW k \in Nat PROVE f[k + 1] = step[k][f[k]]
  <2>1. G(k + 1)[k + 1] = step[k][G(k + 1)[k]]
    <3>1. Upto(G(k + 1), k + 1) /\ k \in 0..((k + 1) - 1)
      BY <1>3
    <3>2. QED
      BY <3>1
  <2>2. G(k + 1)[k] = G(k)[k]
    <3>1. Upto(G(k), k) /\ Upto(G(k + 1), k + 1) /\ k + 1 \in Nat /\ k <= k + 1
      BY <1>3
    <3> HIDE DEF Upto
    <3>2. QED
      BY <3>1, <1>2
  <2>3. QED
    BY <2>1, <2>2
<1>6. QED
  <2> HIDE DEF f
  <2>1. QED
    BY <1>4, <1>5 DEF Unfolds

(* Power is defined by its steps, and is never zero.                       *)
LEMMA PowerSteps ==
  /\ Power[0] = 1
  /\ \A k \in Nat : Power[k] \in Nat \ {0} /\ Power[k + 1] = Base * Power[k]
<1> DEFINE D == Nat \ {0}
           Steps(p) == p = [width \in Nat |-> IF width = 0 THEN 1 ELSE Base * p[width - 1]]
<1>1. PICK f \in [Nat -> D] : f[0] = 1 /\ \A k \in Nat : f[k + 1] = Base * f[k]
  <2> DEFINE step == [k \in Nat |-> [d \in D |-> Base * d]]
  <2>1. \A d \in D : Base * d \in D
    <3>1. Base \in D
      BY WidthsAssumption
    <3>2. \A a \in D, b \in D : a * b \in D
      OBVIOUS
    <3>3. QED
      BY <3>1, <3>2
  <2>2. step \in [Nat -> [D -> D]]
    BY <2>1
  <2>3. \A k \in Nat, d \in D : step[k][d] = Base * d
    OBVIOUS
  <2> HIDE DEF step, D
  <2>4. 1 \in D
    BY DEF D
  <2>5. PICK f : Unfolds(f, D, 1, step)
    BY <2>2, <2>4, Recursion DEF IsStep
  <2>6. QED
    BY <2>3, <2>5 DEF Unfolds
<1>2. Steps(f)
  <2>1. ASSUME NEW k \in Nat PROVE f[k] = IF k = 0 THEN 1 ELSE Base * f[k - 1]
    <3>1. CASE k = 0
      BY <1>1, <3>1
    <3>2. CASE k # 0
      <4>1. k - 1 \in Nat /\ (k - 1) + 1 = k
        BY <3>2
      <4>2. QED
        BY <1>1, <3>2, <4>1
    <3>3. QED
      BY <3>1, <3>2
  <2>2. f = [k \in Nat |-> f[k]]
    BY <1>1
  <2>3. QED
    BY <2>1, <2>2
<1>3. Steps(Power)
  <2>1. Power = CHOOSE p : Steps(p)
    BY DEF Power
  <2> HIDE DEF Steps
  <2>2. QED
    BY <1>2, <2>1
<1>4. \A k \in Nat : Power[k] = IF k = 0 THEN 1 ELSE Base * Power[k - 1]
  BY <1>3
<1> HIDE DEF Steps
<1>5. Power[0] = 1
  BY <1>4
<1>6. ASSUME NEW k \in Nat PROVE Power[k + 1] = Base * Power[k]
  <2>1. k + 1 \in Nat /\ k + 1 # 0 /\ (k + 1) - 1 = k
    OBVIOUS
  <2>2. QED
    BY <1>4, <2>1
<1>7. ASSUME NEW n \in Nat PROVE Power[n] = f[n]
  <2> DEFINE S == {k \in 0..n : Power[k] = f[k]}
  <2>1. 0 \in S
    BY <1>1, <1>5
  <2>2. \A k \in 0..(n - 1) : k \in S => k + 1 \in S
    <3>1. ASSUME NEW k \in 0..(n - 1), k \in S PROVE k + 1 \in S
      <4>1. Power[k + 1] = Base * f[k] /\ f[k + 1] = Base * f[k]
        BY <1>1, <1>6, <3>1
      <4>2. QED
        BY <4>1
    <3>2. QED
      BY <3>1
  <2>3. \A k \in 0..n : k \in S
    <3> HIDE DEF S
    <3>1. QED
      BY <2>1, <2>2, Induction
  <2>4. QED
    BY <2>3
<1>8. QED
  BY <1>1, <1>5, <1>6, <1>7

(* The numbers a sequence of bytes passes through as it is read.           *)
ReadUp(f, bytes) ==
  f = [k \in 0..Len(bytes) |-> IF k = 0 THEN 0 ELSE Base * f[k - 1] + bytes[k]]

(* The number of some bytes is read one byte at a time.                    *)
LEMMA NumberReads ==
  ASSUME NEW bytes \in Seq(Byte)
  PROVE  \E f : /\ f \in [0..Len(bytes) -> Nat] /\ f[0] = 0
                /\ \A k \in 1..Len(bytes) : f[k] = Base * f[k - 1] + bytes[k]
                /\ Number(bytes) = f[Len(bytes)]
<1> DEFINE n == Len(bytes)
           Digit(k) == IF k \in 1..n THEN bytes[k] ELSE 0
           step == [k \in Nat |-> [d \in Nat |-> Base * d + Digit(k + 1)]]
<1>1. n \in Nat /\ Base \in Nat /\ \A k \in Nat : Digit(k) \in Nat
  BY WidthsAssumption DEF Byte
<1>2. step \in [Nat -> [Nat -> Nat]]
  <2> HIDE DEF Digit, n
  <2>1. \A a, b, c \in Nat : a * b + c \in Nat
    OBVIOUS
  <2>2. ASSUME NEW k \in Nat, NEW d \in Nat PROVE Base * d + Digit(k + 1) \in Nat
    <3>1. Digit(k + 1) \in Nat
      BY <1>1
    <3>2. QED
      BY <1>1, <2>1, <3>1
  <2>3. QED
    BY <2>2
<1>3. \A k \in Nat, d \in Nat : step[k][d] = Base * d + Digit(k + 1)
  BY DEF step
<1>4. PICK g \in [Nat -> Nat] : g[0] = 0 /\ \A k \in Nat : g[k + 1] = step[k][g[k]]
  <2> HIDE DEF step
  <2>1. PICK g : Unfolds(g, Nat, 0, step)
    BY <1>2, Recursion DEF IsStep
  <2>2. QED
    BY <2>1 DEF Unfolds
<1> HIDE DEF step
<1> DEFINE f == [k \in 0..n |-> g[k]]
<1>5. ASSUME NEW k \in 1..n PROVE f[k] = Base * f[k - 1] + bytes[k]
  <2>1. k - 1 \in Nat /\ k - 1 \in 0..n /\ k \in 0..n /\ (k - 1) + 1 = k
    BY <1>1
  <2>2. g[k] = Base * g[k - 1] + Digit(k)
    BY <1>3, <1>4, <2>1
  <2>3. QED
    BY <2>1, <2>2
<1>6. f[0] = 0 /\ f \in [0..n -> Nat]
  BY <1>1, <1>4
<1>7. ReadUp(f, bytes)
  <2>1. f = [k \in 0..n |-> f[k]]
    OBVIOUS
  <2> HIDE DEF f
  <2>2. \A k \in 0..n : f[k] = IF k = 0 THEN 0 ELSE Base * f[k - 1] + bytes[k]
    BY <1>1, <1>5, <1>6
  <2>3. QED
    BY <2>1, <2>2 DEF ReadUp
<1> HIDE DEF f
<1>8. PICK h : h = (CHOOSE r : ReadUp(r, bytes))
  OBVIOUS
<1>9. ReadUp(h, bytes)
  BY <1>7, <1>8
<1>10. Number(bytes) = h[n]
  BY <1>8 DEF Number, ReadUp
<1>11. \A k \in 0..n : h[k] = IF k = 0 THEN 0 ELSE Base * h[k - 1] + bytes[k]
  BY <1>9 DEF ReadUp
<1>12. \A k \in 0..n : k \in {j \in 0..n : h[j] = f[j]}
  <2> DEFINE S == {j \in 0..n : h[j] = f[j]}
  <2>1. 0 \in S
    BY <1>1, <1>6, <1>11
  <2>2. ASSUME NEW k \in 0..(n - 1), k \in S PROVE k + 1 \in S
    <3>1. k + 1 \in 1..n /\ k + 1 \in 0..n /\ k + 1 # 0 /\ (k + 1) - 1 = k
      BY <1>1
    <3>2. h[k + 1] = Base * h[k] + bytes[k + 1]
      BY <1>11, <3>1
    <3>3. f[k + 1] = Base * f[k] + bytes[k + 1]
      BY <1>5, <3>1
    <3>4. h[k] = f[k]
      BY <2>2
    <3>5. QED
      BY <3>1, <3>2, <3>3, <3>4
  <2> HIDE DEF S
  <2>3. \A k \in 0..n : k \in S
    BY <1>1, <2>1, <2>2, Induction
  <2>4. QED
    BY <2>3 DEF S
<1>13. h[n] = f[n]
  BY <1>1, <1>12
<1>14. QED
  BY <1>5, <1>6, <1>10, <1>13

-----------------------------------------------------------------------------
(* Integers.                                                               *)

(* One multiple is below the next.                                         *)
LEMMA ProductBelow ==
  ASSUME NEW a \in Nat, NEW b \in Nat, NEW c \in Nat, c < b
  PROVE  a * c \in Nat /\ a * b \in Nat /\ a * c <= a * b - a
OBVIOUS

(* The quotient and the remainder.                                         *)
LEMMA Division ==
  ASSUME NEW n \in Int, NEW b \in Nat \ {0}
  PROVE  /\ n = b * (n \div b) + (n % b) /\ n % b \in 0..(b - 1) /\ n \div b \in Int
         /\ n \in Nat => n \div b \in Nat
<1>1. n = b * (n \div b) + (n % b) /\ n % b \in 0..(b - 1) /\ n \div b \in Int
  OBVIOUS
<1>2. ASSUME n \in Nat, n \div b < 0 PROVE FALSE
  <2>1. PICK q \in Int, r \in 0..(b - 1) : n = b * q + r /\ q < 0
    BY <1>1, <1>2
  <2>2. b * q <= -b
    <3>1. q <= -1
      BY <2>1
    <3>2. \A a \in Nat, s \in Int : s <= -1 => a * s <= -a
      OBVIOUS
    <3>3. QED
      BY <3>1, <3>2
  <2>3. PICK m \in Int : m = b * q
    OBVIOUS
  <2>4. n = m + r /\ m <= -b
    BY <2>1, <2>2, <2>3
  <2>5. QED
    BY <1>2, <2>1, <2>4
<1>3. QED
  BY <1>1, <1>2

(* A number put together from quotient and remainder has these.            *)
LEMMA DivisionOf ==
  ASSUME NEW q \in Int, NEW b \in Nat \ {0}, NEW r \in 0..(b - 1)
  PROVE  (b * q + r) \div b = q /\ (b * q + r) % b = r
OBVIOUS

(* To divide twice is to divide by the product.                            *)
LEMMA DivisionTwice ==
  ASSUME NEW n \in Int, NEW a \in Nat \ {0}, NEW b \in Nat \ {0}
  PROVE  (n \div a) \div b = n \div (a * b)
<1>1. PICK q \in Int, r \in 0..(a - 1) : q = n \div a /\ n = a * q + r
  BY Division
<1>2. PICK s \in Int, t \in 0..(b - 1) : s = q \div b /\ q = b * s + t
  BY Division
<1>3. a * q = (a * b) * s + a * t
  <2>1. \A x, y, z, u \in Int : x * (y * z + u) = (x * y) * z + x * u
    OBVIOUS
  <2>2. QED
    BY <1>2, <2>1
<1>4. a * t + r \in 0..(a * b - 1)
  <2>1. a * t \in Nat /\ a * t <= a * b - a
    <3>1. t < b
      OBVIOUS
    <3>2. QED
      BY <3>1, ProductBelow
  <2>2. PICK u \in Nat, v \in Int : u = a * t /\ v = a * b
    BY <2>1
  <2>3. u + r \in 0..(v - 1)
    BY <2>1, <2>2
  <2>4. QED
    BY <2>2, <2>3
<1>5. a * b \in Nat \ {0}
  OBVIOUS
<1>6. PICK c \in Nat \ {0}, w \in Nat : c = a * b /\ w = a * t + r /\ w \in 0..(c - 1)
  BY <1>4, <1>5
<1>7. n = c * s + w
  <2>1. PICK x \in Int, y \in Int, z \in Int : x = a * q /\ y = c * s /\ z = a * t
    OBVIOUS
  <2>2. x = y + z /\ n = x + r /\ w = z + r
    BY <1>1, <1>3, <1>6, <2>1
  <2>3. n = y + w
    BY <2>2
  <2>4. QED
    BY <2>1, <2>3
<1>8. n \div c = s
  BY <1>6, <1>7, DivisionOf
<1>9. QED
  BY <1>1, <1>2, <1>6, <1>8

(* What is used of Power.                                                  *)
LEMMA PowerType ==
  ASSUME NEW k \in Nat
  PROVE  Power[k] \in Nat \ {0} /\ Power[k + 1] = Base * Power[k]
BY PowerSteps

(* The values of bytes side by side multiply.                              *)
LEMMA PowerSum ==
  ASSUME NEW i \in Nat, NEW j \in Nat
  PROVE  Power[i + j] = Power[i] * Power[j]
<1> DEFINE S == {k \in 0..j : Power[i + k] = Power[i] * Power[k]}
<1>1. 0 \in S
  <2>1. Power[i] * 1 = Power[i] /\ i + 0 = i
    BY PowerType
  <2>2. QED
    BY <2>1, PowerSteps
<1>2. ASSUME NEW k \in 0..(j - 1), k \in S PROVE k + 1 \in S
  <2>1. Power[i + k] = Power[i] * Power[k]
    BY <1>2
  <2>2. Power[(i + k) + 1] = Base * Power[i + k] /\ Power[k + 1] = Base * Power[k]
    BY PowerType
  <2>3. \A a, b, c \in Int : a * (b * c) = b * (a * c)
    OBVIOUS
  <2>4. Base * (Power[i] * Power[k]) = Power[i] * (Base * Power[k])
    <3>1. Base \in Int /\ Power[i] \in Int /\ Power[k] \in Int
      BY PowerType, WidthsAssumption
    <3>2. QED
      BY <3>1, <2>3
  <2>5. i + (k + 1) = (i + k) + 1 /\ k + 1 \in 0..j
    OBVIOUS
  <2>6. Power[i + (k + 1)] = Power[i] * Power[k + 1]
    BY <2>1, <2>2, <2>4, <2>5
  <2>7. QED
    BY <2>5, <2>6
<1>3. \A k \in 0..j : k \in S
  <2> HIDE DEF S
  <2>1. QED
    BY <1>1, <1>2, Induction
<1>4. QED
  BY <1>3

(* So many bytes hold no number their width cannot.                        *)
LEMMA NumberType ==
  ASSUME NEW bytes \in Seq(Byte)
  PROVE  Number(bytes) \in 0..(Power[Len(bytes)] - 1)
<1> DEFINE n == Len(bytes)
<1>1. PICK f : /\ f \in [0..n -> Nat] /\ f[0] = 0
               /\ \A k \in 1..n : f[k] = Base * f[k - 1] + bytes[k]
               /\ Number(bytes) = f[n]
  BY NumberReads
<1> DEFINE S == {k \in 0..n : f[k] < Power[k]}
<1>2. n \in Nat /\ Base \in Nat /\ \A k \in 1..n : bytes[k] \in 0..(Base - 1)
  BY WidthsAssumption DEF Byte
<1>3. 0 \in S
  BY <1>1, <1>2, PowerSteps
<1>4. ASSUME NEW k \in 0..(n - 1), k \in S PROVE k + 1 \in S
  <2>1. PICK a \in Nat, p \in Nat, b \in 0..(Base - 1) :
          a = f[k] /\ p = Power[k] /\ b = bytes[k + 1] /\ a < p
    <3>1. f[k] \in Nat /\ f[k] < Power[k] /\ k \in Nat /\ k + 1 \in 1..n
      BY <1>1, <1>2, <1>4
    <3>2. Power[k] \in Nat /\ bytes[k + 1] \in 0..(Base - 1)
      BY <1>2, <3>1, PowerType
    <3>3. QED
      BY <3>1, <3>2
  <2>2. k + 1 \in 1..n /\ k + 1 \in 0..n /\ (k + 1) - 1 = k
    BY <1>2
  <2>3. f[k + 1] = Base * a + b /\ Power[k + 1] = Base * p
    BY <1>1, <2>1, <2>2, PowerType
  <2>4. Base * a <= Base * p - Base
    <3>1. Base \in Nat /\ a < p
      BY <1>2, <2>1
    <3>2. QED
      BY <3>1, ProductBelow
  <2>5. PICK u \in Int, v \in Int, c \in Nat : u = Base * a /\ v = Base * p /\ c = Base
    BY <1>2
  <2>6. u <= v - c /\ b < c
    BY <1>2, <2>1, <2>4, <2>5, SMTT(30)
  <2>61. u + b < v
    BY <2>6
  <2>7. QED
    BY <2>2, <2>3, <2>5, <2>61
<1>5. \A k \in 0..n : k \in S
  <2> HIDE DEF S, n
  <2>1. QED
    BY <1>2, <1>3, <1>4, Induction
<1>6. f[n] < Power[n] /\ f[n] \in Nat
  BY <1>1, <1>2, <1>5
<1>7. QED
  <2>1. n \in Nat /\ Power[n] \in Nat
    BY <1>2, PowerType
  <2> HIDE DEF n
  <2>2. f[n] \in 0..(Power[n] - 1)
    BY <1>6, <2>1
  <2>3. QED
    BY <1>1, <2>2 DEF n

(* A number is written in as many bytes as its width, from the greatest    *)
(* down.                                                                   *)
LEMMA BigEndianType ==
  ASSUME NEW n \in Int, NEW w \in Nat
  PROVE  /\ BigEndian(n, w) \in Seq(Byte) /\ Len(BigEndian(n, w)) = w
         /\ \A i \in 1..w : BigEndian(n, w)[i] = (n \div Power[w - i]) % Base
<1>1. ASSUME NEW i \in 1..w PROVE (n \div Power[w - i]) % Base \in Byte
  <2>1. Power[w - i] \in Nat \ {0} /\ Base \in Nat \ {0}
    BY PowerType, WidthsAssumption
  <2>2. n \div Power[w - i] \in Int
    BY <2>1, Division
  <2>3. QED
    BY <2>1, <2>2, Division DEF Byte
<1>2. BigEndian(n, w) \in [1..w -> Byte]
  BY <1>1 DEF BigEndian
<1>3. QED
  BY <1>2 DEF BigEndian

(* The bytes of the number that bytes are read as.                         *)
LEMMA WrittenAsRead ==
  ASSUME NEW bytes \in Seq(Byte)
  PROVE  BigEndian(Number(bytes), Len(bytes)) = bytes
<1> DEFINE n == Len(bytes)
           N == Number(bytes)
<1>1. PICK f : /\ f \in [0..n -> Nat] /\ f[0] = 0
               /\ \A k \in 1..n : f[k] = Base * f[k - 1] + bytes[k]
               /\ N = f[n]
  BY NumberReads
<1>2. n \in Nat /\ Base \in Nat \ {0} /\ \A k \in 1..n : bytes[k] \in 0..(Base - 1)
  BY WidthsAssumption DEF Byte
<1>3. N \in Nat
  BY NumberType
<1> DEFINE S == {k \in 0..n : N \div Power[k] = f[n - k]}
<1> HIDE DEF n, N
<1>4. 0 \in S
  <2>1. N \div 1 = N /\ n - 0 = n
    BY <1>2, <1>3
  <2>2. N \div Power[0] = f[n - 0]
    <3>1. N \div Power[0] = N
      BY <2>1, PowerSteps
    <3>2. QED
      BY <1>1, <2>1, <3>1
  <2>3. QED
    BY <1>2, <2>2
<1>5. ASSUME NEW k \in 1..n PROVE f[k] \div Base = f[k - 1] /\ f[k] % Base = bytes[k]
  <2>1. f[k] = Base * f[k - 1] + bytes[k] /\ f[k - 1] \in Int /\ bytes[k] \in 0..(Base - 1)
    BY <1>1, <1>2
  <2>2. PICK q \in Int, r \in 0..(Base - 1) : q = f[k - 1] /\ r = bytes[k] /\ f[k] = Base * q + r
    BY <2>1
  <2>3. (Base * q + r) \div Base = q /\ (Base * q + r) % Base = r
    BY <1>2, DivisionOf
  <2>4. QED
    BY <2>2, <2>3
<1>6. ASSUME NEW k \in 0..(n - 1), k \in S PROVE k + 1 \in S
  <2>1. k \in Nat /\ k + 1 \in 0..n /\ n - k \in 1..n /\ (n - k) - 1 = n - (k + 1)
    BY <1>2
  <2>2. Power[k] \in Nat \ {0} /\ Power[k + 1] = Power[k] * Base
    <3>1. Power[k] \in Nat \ {0} /\ Power[k + 1] = Base * Power[k]
      BY <2>1, PowerType
    <3>2. QED
      BY <1>2, <3>1
  <2>3. N \div Power[k + 1] = (N \div Power[k]) \div Base
    BY <1>2, <1>3, <2>2, DivisionTwice
  <2>4. N \div Power[k] = f[n - k]
    BY <1>6
  <2>5. f[n - k] \div Base = f[n - (k + 1)]
    BY <1>5, <2>1
  <2>6. QED
    BY <2>1, <2>3, <2>4, <2>5
<1>7. \A k \in 0..n : k \in S
  <2> HIDE DEF S
  <2>1. QED
    BY <1>2, <1>4, <1>6, Induction
<1>8. ASSUME NEW i \in 1..n PROVE BigEndian(N, n)[i] = bytes[i]
  <2>1. n - i \in 0..n /\ n - (n - i) = i
    BY <1>2
  <2>2. N \div Power[n - i] = f[i]
    BY <1>7, <2>1
  <2>3. QED
    BY <1>2, <1>3, <1>5, <2>2, BigEndianType
<1>9. QED
  <2>1. BigEndian(N, n) \in Seq(Byte) /\ Len(BigEndian(N, n)) = n
    <3>1. N \in Int
      BY <1>3
    <3>2. QED
      BY <1>2, <3>1, BigEndianType
  <2>2. QED
    BY <1>8, <2>1, SeqEqual DEF n, N

(* The number that the bytes of a number are read as.                      *)
LEMMA ReadAsWritten ==
  ASSUME NEW w \in Nat, NEW n \in 0..(Power[w] - 1)
  PROVE  Number(BigEndian(n, w)) = n
<1> DEFINE bytes == BigEndian(n, w)
<1>1. Power[w] \in Nat /\ n \in Nat /\ n < Power[w]
  BY PowerType
<1>2. /\ bytes \in Seq(Byte) /\ Len(bytes) = w
      /\ \A i \in 1..w : bytes[i] = (n \div Power[w - i]) % Base
  BY <1>1, BigEndianType
<1>3. PICK f : /\ f \in [0..w -> Nat] /\ f[0] = 0
               /\ \A k \in 1..w : f[k] = Base * f[k - 1] + bytes[k]
               /\ Number(bytes) = f[w]
  <2> HIDE DEF bytes
  <2>1. QED
    BY <1>2, NumberReads
<1> HIDE DEF bytes
<1> DEFINE S == {k \in 0..w : f[k] = n \div Power[w - k]}
<1>4. 0 \in S
  <2>1. Power[w] * 0 + n = n /\ n \in 0..(Power[w] - 1)
    BY <1>1
  <2>2. (Power[w] * 0 + n) \div Power[w] = 0
    BY PowerType, DivisionOf
  <2>3. w - 0 = w
    OBVIOUS
  <2>4. QED
    BY <1>3, <2>1, <2>2, <2>3
<1>5. ASSUME NEW k \in 0..(w - 1), k \in S PROVE k + 1 \in S
  <2> DEFINE j == w - (k + 1)
  <2>1. j \in Nat /\ j + 1 = w - k /\ k + 1 \in 1..w /\ (k + 1) - 1 = k
    OBVIOUS
  <2>2. Power[j] \in Nat \ {0} /\ Power[j + 1] = Power[j] * Base /\ Base \in Nat \ {0}
    <3>1. Power[j] \in Nat \ {0} /\ Power[j + 1] = Base * Power[j] /\ Base \in Nat \ {0}
      BY <2>1, PowerType, WidthsAssumption
    <3> HIDE DEF j
    <3>2. QED
      BY <3>1
  <2>3. f[k] = n \div Power[j + 1]
    BY <1>5, <2>1
  <2>4. f[k + 1] = Base * f[k] + ((n \div Power[j]) % Base)
    BY <1>2, <1>3, <2>1
  <2> HIDE DEF j
  <2>5. PICK q \in Int : q = n \div Power[j]
    <3>1. PICK p \in Nat \ {0} : p = Power[j]
      BY <2>2
    <3>2. n \div p \in Int
      OBVIOUS
    <3>3. QED
      BY <3>1, <3>2
  <2>6. n \div Power[j + 1] = q \div Base
    BY <1>1, <2>2, <2>5, DivisionTwice
  <2>7. q = Base * (q \div Base) + (q % Base)
    BY <2>2, <2>5, Division
  <2>8. f[k + 1] = n \div Power[j]
    BY <2>3, <2>4, <2>5, <2>6, <2>7
  <2>9. QED
    BY <2>1, <2>8 DEF j
<1>6. \A k \in 0..w : k \in S
  <2> HIDE DEF S
  <2>1. QED
    BY <1>4, <1>5, Induction
<1>7. f[w] = n \div Power[w - w]
  BY <1>6
<1>8. w - w = 0 /\ n \div 1 = n
  BY <1>1
<1>9. QED
  BY <1>3, <1>7, <1>8, PowerSteps DEF bytes

(* Two's complement: what is a whole width apart has the same bytes.       *)
LEMMA Complement ==
  ASSUME NEW n \in Int, NEW w \in Nat
  PROVE  BigEndian(n - Power[w], w) = BigEndian(n, w)
<1>1. ASSUME NEW i \in 1..w
      PROVE  ((n - Power[w]) \div Power[w - i]) % Base = (n \div Power[w - i]) % Base
  <2>1. PICK a \in Nat \ {0}, b \in Nat \ {0}, p \in Nat \ {0}, c \in Nat \ {0} :
          /\ a = Power[w - i] /\ b = Power[i] /\ p = Power[i - 1] /\ c = Base
          /\ Power[w] = a * b /\ b = c * p
    <3>1. w - i \in Nat /\ i \in Nat /\ i - 1 \in Nat /\ (w - i) + i = w /\ (i - 1) + 1 = i
      OBVIOUS
    <3>2. Power[w - i] \in Nat \ {0} /\ Power[i] \in Nat \ {0} /\ Power[i - 1] \in Nat \ {0}
      BY <3>1, PowerType
    <3>3. Power[w] = Power[w - i] * Power[i] /\ Power[i] = Base * Power[i - 1]
      BY <3>1, PowerSum, PowerType
    <3>4. Base \in Nat \ {0}
      BY WidthsAssumption
    <3>5. QED
      BY <3>2, <3>3, <3>4
  <2>2. PICK q \in Int, r \in 0..(a - 1) : q = n \div a /\ n = a * q + r
    BY Division
  <2>3. n - a * b = a * (q - b) + r
    <3>1. a * (q - b) = a * q - a * b
      OBVIOUS
    <3>2. PICK x \in Int, y \in Int, z \in Int : x = a * q /\ y = a * b /\ z = a * (q - b)
      OBVIOUS
    <3>3. n = x + r /\ z = x - y
      BY <2>2, <3>1, <3>2
    <3>4. n - y = z + r
      BY <3>3
    <3>5. QED
      BY <3>2, <3>4
  <2>4. (n - a * b) \div a = q - b
    BY <2>3, DivisionOf
  <2>5. PICK s \in Int, t \in 0..(c - 1) : t = q % c /\ q = c * s + t
    BY Division
  <2>6. q - b = c * (s - p) + t
    <3>1. c * (s - p) = c * s - c * p
      OBVIOUS
    <3>2. PICK x \in Int, y \in Int, z \in Int : x = c * s /\ y = c * p /\ z = c * (s - p)
      OBVIOUS
    <3>3. q = x + t /\ z = x - y /\ b = y
      BY <2>1, <2>5, <3>1, <3>2
    <3>4. q - b = z + t
      BY <3>3
    <3>5. QED
      BY <3>2, <3>4
  <2>7. (q - b) % c = t
    BY <2>6, DivisionOf
  <2>8. QED
    BY <2>1, <2>2, <2>4, <2>5, <2>7
<1>2. QED
  BY <1>1 DEF BigEndian

(* The numbers a signed integer of that many bytes holds.                  *)
InRange(z, w) == z \in -(Power[w] \div 2)..((Power[w] - 1) \div 2)

(* What is read as a signed integer is within its range and is written as  *)
(* the bytes it was read from.                                             *)
LEMMA SignedWrittenAsRead ==
  ASSUME NEW bytes \in Seq(Byte)
  PROVE  /\ Signed(bytes) \in Int /\ BigEndian(Signed(bytes), Len(bytes)) = bytes
         /\ InRange(Signed(bytes), Len(bytes))
<1> DEFINE n == Number(bytes)
           w == Len(bytes)
<1>1. w \in Nat /\ n \in 0..(Power[w] - 1) /\ Power[w] \in Nat \ {0}
  <2>1. w \in Nat
    OBVIOUS
  <2>2. n \in 0..(Power[w] - 1)
    BY NumberType
  <2> HIDE DEF w
  <2>3. QED
    BY <2>1, <2>2, PowerType
<1>2. Signed(bytes) = IF 2 * n < Power[w] THEN n ELSE n - Power[w]
  BY DEF Signed
<1>3. BigEndian(n, w) = bytes
  BY WrittenAsRead
<1> HIDE DEF n, w
<1>4. BigEndian(n - Power[w], w) = BigEndian(n, w)
  BY <1>1, Complement
<1>5. PICK p \in Nat \ {0} : p = Power[w] /\ n \in 0..(p - 1)
  BY <1>1
<1>6. CASE 2 * n < p
  <2>1. -(p \div 2) <= n /\ n <= (p - 1) \div 2
    BY <1>5, <1>6
  <2>2. QED
    BY <1>2, <1>3, <1>5, <1>6, <2>1 DEF n, w, InRange
<1>7. CASE ~(2 * n < p)
  <2>1. -(p \div 2) <= n - p /\ n - p <= (p - 1) \div 2
    BY <1>5, <1>7
  <2>2. QED
    BY <1>2, <1>3, <1>4, <1>5, <1>7, <2>1 DEF n, w, InRange
<1>8. QED
  BY <1>6, <1>7

(* A signed integer within its range is read back from its bytes.          *)
LEMMA SignedReadAsWritten ==
  ASSUME NEW w \in Nat, NEW z, InRange(z, w)
  PROVE  z \in Int /\ Signed(BigEndian(z, w)) = z
<1>1. PICK p \in Nat \ {0} : p = Power[w] /\ z \in -(p \div 2)..((p - 1) \div 2)
  BY PowerType DEF InRange
<1>2. z \in Int /\ p \in Int
  BY <1>1
<1>3. Len(BigEndian(z, w)) = w
  BY <1>2, BigEndianType
<1>4. CASE z >= 0
  <2>1. z \in 0..(Power[w] - 1) /\ 2 * z < p
    BY <1>1, <1>4
  <2>2. Number(BigEndian(z, w)) = z
    BY <2>1, ReadAsWritten
  <2>3. QED
    BY <1>1, <1>2, <1>3, <2>1, <2>2 DEF Signed
<1>5. CASE z < 0
  <2> DEFINE n == z + p
  <2>1. n \in 0..(p - 1) /\ ~(2 * n < p) /\ n - p = z
    BY <1>1, <1>5
  <2> HIDE DEF n
  <2>2. BigEndian(z, w) = BigEndian(n, w)
    BY <1>1, <2>1, Complement
  <2>3. Number(BigEndian(z, w)) = n
    BY <1>1, <2>1, <2>2, ReadAsWritten
  <2>4. QED
    BY <1>1, <1>2, <1>3, <2>1, <2>3 DEF Signed
<1>6. QED
  BY <1>2, <1>4, <1>5

-----------------------------------------------------------------------------
(* The order of the checks.                                                *)

(* The least of a set that has one is its minimum.                         *)
LEMMA MinIs ==
  ASSUME NEW T \in SUBSET Nat, NEW x \in T, \A y \in T : x <= y
  PROVE  Min(T) = x
<1>1. \A z \in T : (\A y \in T : z <= y) => z = x
  OBVIOUS
<1>2. QED
  BY <1>1 DEF Min

(* The errors of the decoders, but for Ok, and the checks that throw them. *)
Fields ==
  {"magic", "version", "candidate_id", "raw_path", "logical_bytes", "observed_at variant",
   "observed_at", "observed_at seconds", "observed_at nanos", "activity", "coverage",
   "labels", "label"}

(* Errors that name no field.                                              *)
Faults ==
  {"invalidMagic", "unsupportedVersion", "invalidNanoseconds", "nonCanonicalLabels",
   "trailingBytes", "nonCanonicalEncoding"}

(* All of them.                                                            *)
Errors ==
  {Error(name) : name \in Faults}
    \cup {Truncated(field) : field \in Fields} \cup {InvalidUtf8(field) : field \in Fields}
    \cup {FieldTooLong(field) : field \in Fields}
    \cup {UnknownVariant(field, byte) : field \in Fields, byte \in Nat}

(* Checks that throw one of these.                                         *)
Checks == [fails : BOOLEAN, error : Errors]

(* None of the checks throws.                                              *)
Passes(checks) == \A i \in DOMAIN checks : ~checks[i].fails

(* No error is taken for success.                                          *)
LEMMA ErrorsAreNotOk == Ok \notin Errors
BY DEF Ok, Errors, Error, Truncated, InvalidUtf8, FieldTooLong, UnknownVariant, Fields, Faults

(* If a check throws, the first that does decides the error.               *)
LEMMA FirstFailing ==
  ASSUME NEW checks \in Seq(Checks), ~Passes(checks)
  PROVE  \E i \in DOMAIN checks : /\ checks[i].fails
                                  /\ \A j \in DOMAIN checks : checks[j].fails => i <= j
                                  /\ FirstError(checks) = checks[i].error
<1> DEFINE failing == {i \in DOMAIN checks : checks[i].fails}
<1>1. failing \in SUBSET Nat /\ failing # {}
  BY DEF Passes
<1>2. PICK i \in failing : \A j \in failing : i <= j
  BY <1>1, LeastNumber
<1>3. Min(failing) = i
  BY <1>1, <1>2, MinIs
<1>4. FirstError(checks) = IF failing = {} THEN Ok ELSE checks[Min(failing)].error
  BY DEF FirstError
<1>5. FirstError(checks) = checks[i].error
  BY <1>1, <1>3, <1>4
<1>6. QED
  BY <1>2, <1>5

(* There is no error exactly if all checks pass.                           *)
LEMMA NoError ==
  ASSUME NEW checks \in Seq(Checks)
  PROVE  /\ FirstError(checks) = Ok <=> Passes(checks)
         /\ FirstError(checks) \in Errors \cup {Ok}
<1>1. ASSUME Passes(checks) PROVE FirstError(checks) = Ok
  <2>1. {i \in DOMAIN checks : checks[i].fails} = {}
    BY <1>1 DEF Passes
  <2>2. QED
    BY <2>1 DEF FirstError
<1>2. ASSUME ~Passes(checks) PROVE FirstError(checks) \in Errors
  <2>1. PICK i \in DOMAIN checks : FirstError(checks) = checks[i].error
    BY <1>2, FirstFailing
  <2>2. checks[i] \in Checks
    BY <2>1
  <2>3. QED
    BY <2>1, <2>2 DEF Checks
<1>3. QED
  BY <1>1, <1>2, ErrorsAreNotOk

(* Checks in a row pass if all of them do.                                 *)
LEMMA PassesBoth ==
  ASSUME NEW a \in Seq(Checks), NEW b \in Seq(Checks)
  PROVE  Passes(a \o b) <=> Passes(a) /\ Passes(b)
<1>1. /\ Len(a) \in Nat /\ Len(b) \in Nat /\ Len(a \o b) = Len(a) + Len(b)
      /\ DOMAIN a = 1..Len(a) /\ DOMAIN b = 1..Len(b) /\ DOMAIN (a \o b) = 1..(Len(a) + Len(b))
      /\ \A i \in 1..(Len(a) + Len(b)) : (a \o b)[i] = IF i <= Len(a) THEN a[i] ELSE b[i - Len(a)]
  BY ConcatProperties, LenProperties
<1>2. ASSUME Passes(a \o b) PROVE Passes(a) /\ Passes(b)
  <2>1. ASSUME NEW i \in DOMAIN a PROVE ~a[i].fails
    BY <1>1, <1>2 DEF Passes
  <2>2. ASSUME NEW i \in DOMAIN b PROVE ~b[i].fails
    <3>1. /\ Len(a) + i \in 1..(Len(a) + Len(b)) /\ ~(Len(a) + i <= Len(a))
          /\ (Len(a) + i) - Len(a) = i
      BY <1>1
    <3>2. QED
      BY <1>1, <1>2, <3>1 DEF Passes
  <2>3. QED
    BY <2>1, <2>2 DEF Passes
<1>3. ASSUME Passes(a), Passes(b) PROVE Passes(a \o b)
  <2>1. ASSUME NEW i \in 1..(Len(a) + Len(b)) PROVE ~(a \o b)[i].fails
    <3>1. CASE i <= Len(a)
      BY <1>1, <1>3, <3>1 DEF Passes
    <3>2. CASE ~(i <= Len(a))
      <4>1. i - Len(a) \in 1..Len(b)
        BY <1>1, <3>2
      <4>2. QED
        BY <1>1, <1>3, <3>2, <4>1 DEF Passes
    <3>3. QED
      BY <3>1, <3>2
  <2>2. QED
    BY <1>1, <2>1 DEF Passes
<1>4. QED
  BY <1>2, <1>3

(* The checks that come first decide first.                                *)
LEMMA FirstOfBoth ==
  ASSUME NEW a \in Seq(Checks), NEW b \in Seq(Checks)
  PROVE  FirstError(a \o b) = IF FirstError(a) = Ok THEN FirstError(b) ELSE FirstError(a)
<1>1. /\ Len(a) \in Nat /\ Len(b) \in Nat /\ a \o b \in Seq(Checks)
      /\ DOMAIN a = 1..Len(a) /\ DOMAIN b = 1..Len(b) /\ DOMAIN (a \o b) = 1..(Len(a) + Len(b))
      /\ \A i \in 1..(Len(a) + Len(b)) : (a \o b)[i] = IF i <= Len(a) THEN a[i] ELSE b[i - Len(a)]
  BY ConcatProperties, LenProperties
<1>2. CASE Passes(a) /\ Passes(b)
  BY <1>1, <1>2, PassesBoth, NoError
<1>3. CASE ~Passes(a)
  <2>1. PICK i \in DOMAIN a : /\ a[i].fails /\ FirstError(a) = a[i].error
                              /\ \A j \in DOMAIN a : a[j].fails => i <= j
    BY <1>3, FirstFailing
  <2>2. ~Passes(a \o b)
    BY <1>3, PassesBoth
  <2>3. PICK k \in DOMAIN (a \o b) :
          /\ (a \o b)[k].fails /\ FirstError(a \o b) = (a \o b)[k].error
          /\ \A j \in DOMAIN (a \o b) : (a \o b)[j].fails => k <= j
    BY <1>1, <2>2, FirstFailing
  <2>4. i \in 1..(Len(a) + Len(b)) /\ i <= Len(a) /\ (a \o b)[i] = a[i]
    BY <1>1, <2>1
  <2>5. k <= i
    BY <1>1, <2>1, <2>3, <2>4
  <2>6. k \in DOMAIN a /\ (a \o b)[k] = a[k]
    BY <1>1, <2>3, <2>4, <2>5
  <2>7. i <= k
    BY <2>1, <2>3, <2>6
  <2>8. k = i
    BY <1>1, <2>1, <2>3, <2>5, <2>7
  <2>9. FirstError(a) # Ok
    BY <1>3, NoError
  <2>10. QED
    BY <2>1, <2>3, <2>4, <2>8, <2>9
<1>4. CASE Passes(a) /\ ~Passes(b)
  <2>1. PICK i \in DOMAIN b : /\ b[i].fails /\ FirstError(b) = b[i].error
                              /\ \A j \in DOMAIN b : b[j].fails => i <= j
    BY <1>4, FirstFailing
  <2>2. ~Passes(a \o b)
    BY <1>4, PassesBoth
  <2>3. PICK k \in DOMAIN (a \o b) :
          /\ (a \o b)[k].fails /\ FirstError(a \o b) = (a \o b)[k].error
          /\ \A j \in DOMAIN (a \o b) : (a \o b)[j].fails => k <= j
    BY <1>1, <2>2, FirstFailing
  <2>4. /\ Len(a) + i \in 1..(Len(a) + Len(b)) /\ ~(Len(a) + i <= Len(a))
        /\ (a \o b)[Len(a) + i] = b[i]
    <3>1. /\ Len(a) + i \in 1..(Len(a) + Len(b)) /\ ~(Len(a) + i <= Len(a))
          /\ (Len(a) + i) - Len(a) = i
      BY <1>1, <2>1
    <3>2. QED
      BY <1>1, <3>1
  <2>5. k <= Len(a) + i
    BY <1>1, <2>1, <2>3, <2>4
  <2>6. ~(k <= Len(a))
    BY <1>1, <1>4, <2>3 DEF Passes
  <2>7. k - Len(a) \in DOMAIN b /\ (a \o b)[k] = b[k - Len(a)]
    BY <1>1, <2>3, <2>6
  <2>8. i <= k - Len(a)
    BY <2>1, <2>3, <2>7
  <2>9. k = Len(a) + i
    BY <1>1, <2>1, <2>3, <2>5, <2>8
  <2>10. FirstError(a) = Ok
    BY <1>4, NoError
  <2>11. QED
    BY <2>1, <2>3, <2>4, <2>9, <2>10
<1>5. QED
  BY <1>2, <1>3, <1>4

(* Checks that tell apart only what has passed the same checks before.     *)
LEMMA SameBehind ==
  ASSUME NEW a \in Seq(Checks), NEW b \in Seq(Checks), NEW c \in Seq(Checks),
         FirstError(a) = Ok => FirstError(b) = FirstError(c)
  PROVE  FirstError(a \o b) = FirstError(a \o c)
BY FirstOfBoth

-----------------------------------------------------------------------------
(* Bytes, fields and their places.                                         *)

(* The widths of the integers.                                             *)
Widths == {VersionBytes, CountBytes, LogicalBytes, SecondsBytes, NanosBytes}

(* What the assumptions say of the widths and the magic bytes.             *)
LEMMA WidthsType ==
  /\ Base \in Nat \ {0, 1} /\ VersionBytes \in Nat \ {0} /\ CountBytes \in Nat \ {0}
  /\ LogicalBytes \in Nat \ {0} /\ SecondsBytes \in Nat \ {0} /\ NanosBytes \in Nat \ {0}
  /\ Len(Magic) \in Nat /\ Magic \in Seq(Byte)
BY WidthsAssumption, FormatAssumption

(* Bytes taken from anywhere are bytes, zeros where the input has ended.   *)
LEMMA TakenType ==
  ASSUME input \in Seq(Byte), NEW at \in Nat, NEW n \in Nat
  PROVE  /\ Taken(at, n) \in Seq(Byte) /\ Len(Taken(at, n)) = n
         /\ \A i \in 1..n : Taken(at, n)[i] = IF at + i \in DOMAIN input THEN input[at + i] ELSE 0
<1>1. 0 \in Byte
  BY WidthsType DEF Byte
<1>2. \A i \in 1..n : (IF at + i \in DOMAIN input THEN input[at + i] ELSE 0) \in Byte
  BY <1>1
<1>3. Taken(at, n) \in [1..n -> Byte]
  BY <1>2 DEF Taken
<1>4. QED
  BY <1>3 DEF Taken

(* A number read anywhere is within its width.                             *)
LEMMA NumType ==
  ASSUME input \in Seq(Byte), NEW at \in Nat, NEW n \in Nat
  PROVE  Num(at, n) \in Nat /\ Num(at, n) \in 0..(Power[n] - 1)
<1>1. Taken(at, n) \in Seq(Byte) /\ Len(Taken(at, n)) = n
  BY TakenType
<1>2. Num(at, n) \in 0..(Power[n] - 1)
  BY <1>1, NumberType DEF Num
<1>3. QED
  BY <1>2, PowerType

(* What is taken in two pieces is taken in one.                            *)
LEMMA TakenSum ==
  ASSUME input \in Seq(Byte), NEW at \in Nat, NEW m \in Nat, NEW n \in Nat
  PROVE  Taken(at, m) \o Taken(at + m, n) = Taken(at, m + n)
<1> DEFINE a == Taken(at, m)
           b == Taken(at + m, n)
           c == Taken(at, m + n)
<1>0. at + m \in Nat /\ m + n \in Nat
  OBVIOUS
<1>1. /\ a \in Seq(Byte) /\ Len(a) = m
      /\ \A i \in 1..m : a[i] = IF at + i \in DOMAIN input THEN input[at + i] ELSE 0
  BY TakenType
<1>2. /\ b \in Seq(Byte) /\ Len(b) = n
      /\ \A i \in 1..n : b[i] = IF (at + m) + i \in DOMAIN input THEN input[(at + m) + i] ELSE 0
  BY <1>0, TakenType
<1>3. /\ c \in Seq(Byte) /\ Len(c) = m + n
      /\ \A i \in 1..(m + n) : c[i] = IF at + i \in DOMAIN input THEN input[at + i] ELSE 0
  BY <1>0, TakenType
<1> HIDE DEF a, b, c
<1>4. /\ a \o b \in Seq(Byte) /\ Len(a \o b) = m + n
      /\ \A i \in 1..(m + n) : (a \o b)[i] = IF i <= m THEN a[i] ELSE b[i - m]
  <2>1. /\ a \o b \in Seq(Byte) /\ Len(a \o b) = Len(a) + Len(b)
        /\ \A i \in 1..(Len(a) + Len(b)) :
             (a \o b)[i] = IF i <= Len(a) THEN a[i] ELSE b[i - Len(a)]
    BY <1>1, <1>2, ConcatProperties
  <2>2. Len(a) = m /\ Len(b) = n
    BY <1>1, <1>2
  <2>3. QED
    BY ONLY <2>1, <2>2
<1>5. ASSUME NEW i \in 1..(m + n) PROVE (a \o b)[i] = c[i]
  <2>1. CASE i <= m
    <3>1. i \in 1..m
      BY <2>1
    <3>2. a[i] = c[i]
      BY <1>1, <1>3, <3>1
    <3>3. (a \o b)[i] = a[i]
      BY <1>4, <2>1
    <3>4. QED
      BY <3>2, <3>3
  <2>2. CASE ~(i <= m)
    <3>1. i - m \in 1..n /\ (at + m) + (i - m) = at + i
      BY <2>2
    <3>2. PICK j \in 1..n : j = i - m /\ (at + m) + j = at + i
      BY <3>1
    <3>3. b[j] = IF at + i \in DOMAIN input THEN input[at + i] ELSE 0
      BY <1>2, <3>2
    <3>4. (a \o b)[i] = b[j]
      BY <1>4, <2>2, <3>2
    <3>5. QED
      BY <1>3, <3>3, <3>4
  <2>3. QED
    BY <2>1, <2>2
<1>6. QED
  BY <1>3, <1>4, <1>5, SeqEqual DEF a, b, c

(* A field with a length before it is bytes, and no longer than a length   *)
(* can say.                                                                *)
LEMMA ContentType ==
  ASSUME input \in Seq(Byte), NEW at \in Nat
  PROVE  /\ Content(at) \in Seq(Byte) /\ Len(Content(at)) = Num(at, CountBytes)
         /\ Len(Content(at)) < Power[CountBytes]
<1>1. Num(at, CountBytes) \in Nat /\ Num(at, CountBytes) < Power[CountBytes] /\ at + CountBytes \in Nat
  <2>1. Num(at, CountBytes) \in Nat /\ Num(at, CountBytes) \in 0..(Power[CountBytes] - 1)
    BY NumType, WidthsType
  <2>2. Power[CountBytes] \in Nat
    BY PowerType, WidthsType
  <2>3. QED
    BY <2>1, <2>2, WidthsType
<1>2. QED
  BY <1>1, TakenType DEF Content

(* No field ends before it begins.                                         *)
LEMMA FollowingType ==
  ASSUME input \in Seq(Byte), NEW field \in Fields, NEW at \in Nat
  PROVE  Following(field, at) \in Nat /\ at <= Following(field, at)
<1>1. Num(at, CountBytes) \in Nat
  BY NumType, WidthsType
<1>2. QED
  BY <1>1, WidthsType, SMTT(30) DEF Following

(* The fields in their order.                                              *)
LEMMA FieldNames ==
  /\ Field(1) = "candidate_id" /\ Field(2) = "raw_path" /\ Field(3) = "logical_bytes"
  /\ Field(4) = "observed_at" /\ Field(5) = "activity" /\ Field(6) = "coverage"
  /\ Field(7) = "labels" /\ \A k \in Nat : k > 7 => Field(k) = "label"
  /\ \A k \in Nat \ {0} : Field(k) \in Fields
<1>1. \A k \in Nat : k > 7 => Field(k) = "label"
  BY DEF Field
<1>2. /\ Field(1) = "candidate_id" /\ Field(2) = "raw_path" /\ Field(3) = "logical_bytes"
      /\ Field(4) = "observed_at" /\ Field(5) = "activity" /\ Field(6) = "coverage"
      /\ Field(7) = "labels"
  BY DEF Field
<1>3. ASSUME NEW k \in Nat \ {0}, ~(k > 7) PROVE k \in {1, 2, 3, 4, 5, 6, 7}
  BY <1>3
<1>4. \A k \in Nat \ {0} : Field(k) \in Fields
  <2>1. ASSUME NEW k \in Nat \ {0} PROVE Field(k) \in Fields
    <3>1. CASE k > 7
      BY <1>1, <3>1 DEF Fields
    <3>2. CASE ~(k > 7)
      BY <1>2, <1>3, <3>2 DEF Fields
    <3>3. QED
      BY <3>1, <3>2
  <2>2. QED
    BY <2>1
<1>5. QED
  BY <1>1, <1>2, <1>4

(* Each field begins where the one before it ends.                         *)
LEMMA PlaceSteps ==
  ASSUME input \in Seq(Byte)
  PROVE  /\ Place[1] = Len(Magic) + VersionBytes
         /\ \A k \in Nat \ {0} : /\ Place[k] \in Nat
                                 /\ Place[k + 1] = Following(Field(k), Place[k])
<1> DEFINE lead == Len(Magic) + VersionBytes
           step == [k \in Nat |-> [d \in Nat |-> Following(Field(k + 1), d)]]
           Steps(p) == p = [k \in Nat \ {0} |-> IF k = 1 THEN lead ELSE Following(Field(k - 1), p[k - 1])]
<1>1. IsStep(step, Nat)
  <2>1. ASSUME NEW k \in Nat, NEW d \in Nat PROVE Following(Field(k + 1), d) \in Nat
    <3>1. Field(k + 1) \in Fields
      BY FieldNames
    <3>2. QED
      BY <3>1, FollowingType
  <2>2. QED
    BY <2>1 DEF IsStep
<1>2. \A k, d \in Nat : step[k][d] = Following(Field(k + 1), d)
  OBVIOUS
<1>3. lead \in Nat
  BY WidthsType
<1>4. PICK g : Unfolds(g, Nat, lead, step)
  <2> HIDE DEF step, lead
  <2>1. QED
    BY <1>1, <1>3, Recursion
<1> HIDE DEF step
<1>5. /\ g \in [Nat -> Nat] /\ g[0] = lead
      /\ \A k \in Nat : g[k + 1] = Following(Field(k + 1), g[k])
  BY <1>2, <1>4 DEF Unfolds
<1> HIDE DEF lead
<1> DEFINE f == [k \in Nat \ {0} |-> g[k - 1]]
<1>6. Steps(f)
  <2>1. ASSUME NEW k \in Nat \ {0}
        PROVE  f[k] = IF k = 1 THEN lead ELSE Following(Field(k - 1), f[k - 1])
    <3>1. CASE k = 1
      BY <1>5, <3>1
    <3>2. CASE k # 1
      <4>1. k - 2 \in Nat /\ (k - 2) + 1 = k - 1 /\ k - 1 \in Nat \ {0} /\ (k - 1) - 1 = k - 2
        BY <3>2
      <4>2. f[k] = g[k - 1] /\ f[k - 1] = g[k - 2]
        BY <4>1
      <4>3. g[k - 1] = Following(Field(k - 1), g[k - 2])
        BY <1>5, <4>1
      <4>4. QED
        BY <3>2, <4>2, <4>3
    <3>3. QED
      BY <3>1, <3>2
  <2>2. f = [k \in Nat \ {0} |-> f[k]]
    OBVIOUS
  <2> HIDE DEF f
  <2>3. QED
    BY <2>1, <2>2
<1>7. Steps(Place)
  <2>1. Place = CHOOSE p : Steps(p)
    BY DEF Place, lead
  <2> HIDE DEF Steps, f
  <2>2. QED
    BY <1>6, <2>1
<1>8. \A k \in Nat \ {0} : Place[k] = IF k = 1 THEN lead ELSE Following(Field(k - 1), Place[k - 1])
  BY <1>7
<1> HIDE DEF Steps, f
<1>9. Place[1] = lead
  BY <1>8
<1>10. ASSUME NEW k \in Nat \ {0} PROVE Place[k + 1] = Following(Field(k), Place[k])
  <2>1. k + 1 \in Nat \ {0} /\ k + 1 # 1 /\ (k + 1) - 1 = k
    OBVIOUS
  <2>2. QED
    BY <1>8, <2>1
<1>11. ASSUME NEW n \in Nat PROVE Place[n + 1] \in Nat
  <2> DEFINE T == {k \in 0..n : Place[k + 1] \in Nat}
  <2>1. 0 \in T
    BY <1>3, <1>9
  <2>2. ASSUME NEW k \in 0..(n - 1), k \in T PROVE k + 1 \in T
    <3>1. k + 1 \in Nat \ {0} /\ Field(k + 1) \in Fields /\ k + 1 \in 0..n
      BY FieldNames
    <3>2. Place[(k + 1) + 1] = Following(Field(k + 1), Place[k + 1]) /\ Place[k + 1] \in Nat
      BY <1>10, <2>2, <3>1
    <3>3. QED
      BY <3>1, <3>2, FollowingType
  <2>3. \A k \in 0..n : k \in T
    <3> HIDE DEF T
    <3>1. QED
      BY <2>1, <2>2, Induction
  <2>4. QED
    BY <2>3
<1>12. ASSUME NEW k \in Nat \ {0} PROVE Place[k] \in Nat
  <2>1. k - 1 \in Nat /\ (k - 1) + 1 = k
    OBVIOUS
  <2>2. QED
    BY <1>11, <2>1
<1>13. QED
  BY <1>9, <1>10, <1>12 DEF lead

-----------------------------------------------------------------------------
(* Sequences of sequences.                                                 *)

(* What FlattenSeq passes through, one part after the other.               *)
LEMMA FlattenSteps ==
  ASSUME NEW S, NEW seqs \in Seq(Seq(S))
  PROVE  \E f : /\ f \in [0..Len(seqs) -> Seq(S)] /\ f[0] = <<>>
                /\ \A k \in 1..Len(seqs) : f[k] = f[k - 1] \o seqs[k]
                /\ FlattenSeq(seqs) = f[Len(seqs)]
<1> DEFINE n == Len(seqs)
           D == Seq(S)
           Part(k) == IF k \in 1..n THEN seqs[k] ELSE <<>>
           step == [k \in Nat |-> [d \in D |-> d \o Part(k + 1)]]
           Steps(p) == p = [i \in 1..n |-> IF i = 1 THEN seqs[i] ELSE p[i - 1] \o seqs[i]]
<1>1. n \in Nat /\ <<>> \in D /\ \A k \in Nat : Part(k) \in D
  <2>1. \A k \in 1..n : seqs[k] \in D
    OBVIOUS
  <2>2. <<>> \in D /\ n \in Nat
    OBVIOUS
  <2> HIDE DEF D
  <2>3. QED
    BY <2>1, <2>2
<1>2. ASSUME NEW d \in D, NEW e \in D PROVE d \o e \in D
  BY <1>2, ConcatProperties
<1> HIDE DEF D, Part
<1>3. IsStep(step, D)
  <2>1. ASSUME NEW k \in Nat, NEW d \in D PROVE d \o Part(k + 1) \in D
    BY <1>1, <1>2
  <2>2. QED
    BY <2>1 DEF IsStep
<1>4. \A k \in Nat, d \in D : step[k][d] = d \o Part(k + 1)
  OBVIOUS
<1>5. PICK g : Unfolds(g, D, <<>>, step)
  <2> HIDE DEF step
  <2>1. QED
    BY <1>1, <1>3, Recursion
<1> HIDE DEF step
<1>6. g \in [Nat -> D] /\ g[0] = <<>> /\ \A k \in Nat : g[k + 1] = g[k] \o Part(k + 1)
  BY <1>4, <1>5 DEF Unfolds
<1> DEFINE f == [k \in 0..n |-> g[k]]
<1>7. f \in [0..n -> D] /\ f[0] = <<>>
  BY <1>1, <1>6
<1>8. ASSUME NEW k \in 1..n PROVE f[k] = f[k - 1] \o seqs[k]
  <2>1. k - 1 \in Nat /\ k - 1 \in 0..n /\ k \in 0..n /\ (k - 1) + 1 = k
    BY <1>1
  <2>2. g[k] = g[k - 1] \o Part(k)
    BY <1>6, <2>1
  <2>3. QED
    BY <2>1, <2>2 DEF Part
<1> HIDE DEF f
<1>9. CASE n = 0
  <2>1. FlattenSeq(seqs) = <<>>
    BY <1>9 DEF FlattenSeq
  <2>2. QED
    BY <1>1, <1>7, <1>8, <1>9, <2>1 DEF D
<1>10. CASE n # 0
  <2> DEFINE r == [i \in 1..n |-> f[i]]
  <2>1. f[1] = seqs[1]
    <3>1. 1 \in 1..n /\ 1 - 1 = 0
      BY <1>1, <1>10
    <3>2. f[1] = <<>> \o seqs[1]
      BY <1>7, <1>8, <3>1
    <3>3. seqs[1] \in Seq(S)
      BY <3>1
    <3>4. QED
      BY <3>2, <3>3, ConcatEmptySeq
  <2>2. Steps(r)
    <3>1. ASSUME NEW i \in 1..n PROVE r[i] = IF i = 1 THEN seqs[i] ELSE r[i - 1] \o seqs[i]
      <4>1. CASE i = 1
        BY <2>1, <4>1
      <4>2. CASE i # 1
        <5>1. i - 1 \in 1..n
          BY <1>1, <4>2
        <5>2. r[i] = f[i] /\ r[i - 1] = f[i - 1]
          BY <5>1
        <5>3. QED
          BY <1>8, <4>2, <5>2
      <4>3. QED
        BY <4>1, <4>2
    <3>2. r = [i \in 1..n |-> r[i]]
      OBVIOUS
    <3> HIDE DEF r, n
    <3>3. QED
      BY <3>1, <3>2
  <2>3. PICK h : h = (CHOOSE p : Steps(p))
    OBVIOUS
  <2>4. Steps(h)
    <3> HIDE DEF Steps, r
    <3>1. QED
      BY <2>2, <2>3
  <2>5. FlattenSeq(seqs) = h[n]
    BY <1>10, <2>3 DEF FlattenSeq
  <2>6. \A i \in 1..n : h[i] = IF i = 1 THEN seqs[i] ELSE h[i - 1] \o seqs[i]
    BY <2>4
  <2> HIDE DEF Steps, r
  <2> DEFINE T == {k \in 0..(n - 1) : h[k + 1] = f[k + 1]}
  <2>7. 0 \in T
    BY <1>1, <1>10, <2>1, <2>6
  <2>8. ASSUME NEW k \in 0..((n - 1) - 1), k \in T PROVE k + 1 \in T
    <3>1. /\ k + 1 \in 0..(n - 1) /\ (k + 1) + 1 \in 1..n /\ (k + 1) + 1 # 1
          /\ ((k + 1) + 1) - 1 = k + 1
      BY <1>1
    <3>2. h[(k + 1) + 1] = h[k + 1] \o seqs[(k + 1) + 1]
      BY <2>6, <3>1
    <3>3. f[(k + 1) + 1] = f[k + 1] \o seqs[(k + 1) + 1]
      BY <1>8, <3>1
    <3>4. h[k + 1] = f[k + 1]
      BY <2>8
    <3>5. QED
      BY <3>1, <3>2, <3>3, <3>4
  <2>9. \A k \in 0..(n - 1) : k \in T
    <3>1. n - 1 \in Nat
      BY <1>1, <1>10
    <3> HIDE DEF T, n
    <3>2. QED
      BY <3>1, <2>7, <2>8, Induction
  <2>10. h[n] = f[n]
    <3>1. n - 1 \in 0..(n - 1) /\ (n - 1) + 1 = n
      BY <1>1, <1>10
    <3>2. QED
      BY <2>9, <3>1
  <2>11. QED
    BY <1>7, <1>8, <2>5, <2>10 DEF D
<1>11. QED
  BY <1>9, <1>10

-----------------------------------------------------------------------------
(* The order of byte strings.                                              *)

(* The place where it shows that one byte string precedes another.         *)
LessAt(a, b, i) ==
  /\ i \in 1..Len(b) /\ i <= Len(a) + 1
  /\ \A j \in 1..(i - 1) : a[j] = b[j]
  /\ i <= Len(a) => a[i] < b[i]

(* Two prefixes are the same if their bytes are.                           *)
LEMMA SamePrefix ==
  ASSUME NEW a \in Seq(Byte), NEW b \in Seq(Byte), NEW k \in Nat, k <= Len(a), k <= Len(b)
  PROVE  SubSeq(a, 1, k) = SubSeq(b, 1, k) <=> \A j \in 1..k : a[j] = b[j]
<1>1. /\ SubSeq(a, 1, k) = [j \in 1..k |-> a[j]]
      /\ SubSeq(b, 1, k) = [j \in 1..k |-> b[j]]
  <2>1. k \in 0..Len(a) /\ k \in 0..Len(b)
    OBVIOUS
  <2>2. /\ SubSeq(a, 1, k) \in Seq(Byte) /\ Len(SubSeq(a, 1, k)) = k
        /\ \A j \in 1..k : SubSeq(a, 1, k)[j] = a[j]
    BY <2>1
  <2>3. /\ SubSeq(b, 1, k) \in Seq(Byte) /\ Len(SubSeq(b, 1, k)) = k
        /\ \A j \in 1..k : SubSeq(b, 1, k)[j] = b[j]
    BY <2>1
  <2>4. \A s \in Seq(Byte) : Len(s) = k => s = [j \in 1..k |-> s[j]]
    OBVIOUS
  <2>5. QED
    BY <2>2, <2>3, <2>4
<1>2. ([j \in 1..k |-> a[j]] = [j \in 1..k |-> b[j]]) <=> \A j \in 1..k : a[j] = b[j]
  <2>1. ASSUME [j \in 1..k |-> a[j]] = [j \in 1..k |-> b[j]], NEW i \in 1..k PROVE a[i] = b[i]
    <3>1. [j \in 1..k |-> a[j]][i] = a[i] /\ [j \in 1..k |-> b[j]][i] = b[i]
      OBVIOUS
    <3>2. QED
      BY <2>1, <3>1
  <2>2. QED
    BY <2>1
<1>3. QED
  BY <1>1, <1>2

(* The order of byte strings is decided at the first byte that differs,    *)
(* or where the one of them ends.                                          *)
LEMMA LessMeans ==
  ASSUME NEW a \in Seq(Byte), NEW b \in Seq(Byte)
  PROVE  Less(a, b) <=> \E i \in Nat : LessAt(a, b, i)
<1>0. (Len(a) = Len(b) /\ \A j \in 1..Len(a) : a[j] = b[j]) => a = b
  BY SeqEqual
<1>1. Len(a) \in Nat /\ Len(b) \in Nat /\ DOMAIN a = 1..Len(a) /\ DOMAIN b = 1..Len(b)
  OBVIOUS
<1>2. ASSUME IsStrictPrefix(a, b) PROVE LessAt(a, b, Len(a) + 1)
  <2>1. Len(a) <= Len(b) /\ SubSeq(a, 1, Len(a)) = SubSeq(b, 1, Len(a)) /\ a # b
    BY <1>2 DEF IsStrictPrefix, IsPrefix
  <2>2. \A j \in 1..Len(a) : a[j] = b[j]
    BY <1>1, <2>1, SamePrefix
  <2>3. Len(a) # Len(b)
    BY <1>0, <2>1, <2>2
  <2>4. QED
    <3>1. /\ Len(a) + 1 \in 1..Len(b) /\ (Len(a) + 1) - 1 = Len(a) /\ ~(Len(a) + 1 <= Len(a))
          /\ Len(a) + 1 <= Len(a) + 1
      <4>1. Len(a) \in Nat /\ Len(b) \in Nat /\ Len(a) <= Len(b) /\ Len(a) # Len(b)
        BY <1>1, <2>1, <2>3
      <4>2. QED
        BY ONLY <4>1, SMTT(30)
    <3>2. \A j \in 1..((Len(a) + 1) - 1) : a[j] = b[j]
      BY <2>2, <3>1
    <3>3. QED
      BY <3>1, <3>2 DEF LessAt
<1>3. ASSUME NEW i \in DOMAIN a \cap DOMAIN b, a[i] < b[i],
             SubSeq(a, 1, i - 1) = SubSeq(b, 1, i - 1)
      PROVE  i \in Nat /\ LessAt(a, b, i)
  <2>1. i - 1 \in Nat /\ i - 1 <= Len(a) /\ i - 1 <= Len(b)
    BY <1>1
  <2>2. \A j \in 1..(i - 1) : a[j] = b[j]
    BY <1>3, <2>1, SamePrefix
  <2>3. QED
    BY <1>1, <1>3, <2>2 DEF LessAt
<1>4. ASSUME NEW i \in Nat, LessAt(a, b, i) PROVE Less(a, b)
  <2>1. CASE i = Len(a) + 1
    <3>0. i \in 1..Len(b) /\ \A j \in 1..(i - 1) : a[j] = b[j]
      BY <1>4 DEF LessAt
    <3>1. Len(a) <= Len(b) /\ Len(a) # Len(b) /\ i - 1 = Len(a)
      <4>1. Len(a) \in Nat /\ Len(b) \in Nat /\ i = Len(a) + 1 /\ i \in 1..Len(b)
        BY <1>1, <2>1, <3>0
      <4>2. QED
        BY ONLY <4>1
    <3>2. \A j \in 1..Len(a) : a[j] = b[j]
      BY <3>0, <3>1
    <3>3. SubSeq(a, 1, Len(a)) = SubSeq(b, 1, Len(a))
      <4>1. Len(a) <= Len(a)
        BY <1>1
      <4>2. QED
        BY <1>1, <3>1, <3>2, <4>1, SamePrefix
    <3>4. QED
      BY <3>1, <3>3 DEF Less, IsStrictPrefix, IsPrefix
  <2>2. CASE i # Len(a) + 1
    <3>1. i \in DOMAIN a \cap DOMAIN b /\ a[i] < b[i] /\ \A j \in 1..(i - 1) : a[j] = b[j]
      BY <1>1, <1>4, <2>2 DEF LessAt
    <3>2. i - 1 \in Nat /\ i - 1 <= Len(a) /\ i - 1 <= Len(b)
      BY <1>1, <3>1
    <3>3. SubSeq(a, 1, i - 1) = SubSeq(b, 1, i - 1)
      BY <3>1, <3>2, SamePrefix
    <3>4. QED
      BY <3>1, <3>3 DEF Less
  <2>3. QED
    BY <2>1, <2>2
<1>5. QED
  <2>1. Len(a) + 1 \in Nat
    BY <1>1
  <2>2. QED
    BY <1>2, <1>3, <1>4, <2>1 DEF Less

(* Bytes are numbers.                                                      *)
LEMMA BytesCompare ==
  ASSUME NEW a \in Seq(Byte), NEW i \in 1..Len(a)
  PROVE  a[i] \in Nat
BY WidthsType DEF Byte

(* No byte string precedes itself.                                         *)
LEMMA LessIrreflexive ==
  ASSUME NEW a \in Seq(Byte)
  PROVE  ~Less(a, a)
<1> SUFFICES ASSUME NEW i \in Nat, LessAt(a, a, i) PROVE FALSE
  BY LessMeans
<1>1. i \in 1..Len(a) /\ a[i] < a[i]
  BY DEF LessAt
<1>2. QED
  BY <1>1, BytesCompare

(* The order of byte strings is transitive.                                *)
LEMMA LessTransitive ==
  ASSUME NEW a \in Seq(Byte), NEW b \in Seq(Byte), NEW c \in Seq(Byte), Less(a, b), Less(b, c)
  PROVE  Less(a, c)
<1>1. PICK i \in Nat : LessAt(a, b, i)
  BY LessMeans
<1>2. PICK j \in Nat : LessAt(b, c, j)
  BY LessMeans
<1>3. Len(a) \in Nat /\ Len(b) \in Nat /\ Len(c) \in Nat
  OBVIOUS
<1>4. CASE i < j
  <2>1. i \in 1..Len(c) /\ i <= Len(a) + 1 /\ b[i] = c[i]
    BY <1>1, <1>2, <1>3, <1>4 DEF LessAt
  <2>2. ASSUME NEW k \in 1..(i - 1) PROVE a[k] = c[k]
    <3>1. k \in 1..(j - 1)
      BY <1>4
    <3>2. a[k] = b[k] /\ b[k] = c[k]
      BY <1>1, <1>2, <3>1 DEF LessAt
    <3>3. QED
      BY <3>2
  <2>3. i <= Len(a) => a[i] < c[i]
    BY <1>1, <2>1 DEF LessAt
  <2>4. LessAt(a, c, i)
    BY <2>1, <2>2, <2>3 DEF LessAt
  <2>5. QED
    BY <2>4, LessMeans
<1>5. CASE j < i
  <2>1. j \in 1..Len(c) /\ j <= Len(a) /\ j <= Len(b) /\ a[j] = b[j]
    BY <1>1, <1>2, <1>3, <1>5 DEF LessAt
  <2>2. ASSUME NEW k \in 1..(j - 1) PROVE a[k] = c[k]
    <3>1. k \in 1..(i - 1)
      BY <1>5
    <3>2. a[k] = b[k] /\ b[k] = c[k]
      BY <1>1, <1>2, <3>1 DEF LessAt
    <3>3. QED
      BY <3>2
  <2>3. a[j] < c[j]
    BY <1>2, <2>1 DEF LessAt
  <2>4. LessAt(a, c, j)
    BY <1>3, <2>1, <2>2, <2>3 DEF LessAt
  <2>5. QED
    BY <2>4, LessMeans
<1>6. CASE i = j
  <2>1. i \in 1..Len(c) /\ i \in 1..Len(b) /\ i <= Len(a) + 1 /\ b[i] < c[i]
    BY <1>1, <1>2, <1>3, <1>6 DEF LessAt
  <2>2. ASSUME NEW k \in 1..(i - 1) PROVE a[k] = c[k]
    <3>1. a[k] = b[k] /\ b[k] = c[k]
      BY <1>1, <1>2, <1>6 DEF LessAt
    <3>2. QED
      BY <3>1
  <2>3. ASSUME i <= Len(a) PROVE a[i] < c[i]
    <3>1. a[i] < b[i] /\ i \in 1..Len(a)
      BY <1>1, <2>1, <2>3 DEF LessAt
    <3>2. a[i] \in Nat /\ b[i] \in Nat /\ c[i] \in Nat
      BY <2>1, <3>1, BytesCompare
    <3>3. QED
      BY <2>1, <3>1, <3>2
  <2>4. LessAt(a, c, i)
    BY <2>1, <2>2, <2>3 DEF LessAt
  <2>5. QED
    BY <2>4, LessMeans
<1>7. QED
  BY <1>4, <1>5, <1>6

(* Of two different byte strings one precedes the other.                   *)
LEMMA LessTotal ==
  ASSUME NEW a \in Seq(Byte), NEW b \in Seq(Byte), a # b
  PROVE  Less(a, b) \/ Less(b, a)
<1>1. Len(a) \in Nat /\ Len(b) \in Nat
  OBVIOUS
<1> DEFINE T == {j \in Nat : /\ j \in 1..(Len(a) + 1) /\ j \in 1..(Len(b) + 1)
                             /\ (j <= Len(a) /\ j <= Len(b) => a[j] # b[j])}
<1>2. T # {}
  <2>1. CASE Len(a) <= Len(b)
    BY <1>1, <2>1
  <2>2. CASE Len(b) <= Len(a)
    BY <1>1, <2>2
  <2>3. QED
    BY <1>1, <2>1, <2>2
<1>3. PICK i \in T : \A j \in T : i <= j
  <2>1. T \in SUBSET Nat
    OBVIOUS
  <2> HIDE DEF T
  <2>2. QED
    BY <1>2, <2>1, LeastNumber
<1>4. ASSUME NEW j \in 1..(i - 1) PROVE a[j] = b[j] /\ b[j] = a[j]
  <2>1. j \in Nat /\ ~(i <= j) /\ j <= Len(a) /\ j <= Len(b) /\ i \in Nat
    BY <1>1, <1>3
  <2>2. j \notin T
    BY <1>3, <2>1
  <2>3. QED
    BY <1>1, <2>1, <2>2
<1>5. CASE i = Len(a) + 1 /\ i = Len(b) + 1
  <2>1. Len(a) = Len(b) /\ \A j \in 1..Len(a) : a[j] = b[j]
    BY <1>1, <1>4, <1>5
  <2>2. QED
    BY <2>1, SeqEqual
<1>6. CASE i = Len(a) + 1 /\ i <= Len(b)
  <2>1. LessAt(a, b, i)
    BY <1>1, <1>3, <1>4, <1>6 DEF LessAt
  <2>2. QED
    BY <1>3, <2>1, LessMeans
<1>7. CASE i = Len(b) + 1 /\ i <= Len(a)
  <2>1. LessAt(b, a, i)
    BY <1>1, <1>3, <1>4, <1>7 DEF LessAt
  <2>2. QED
    BY <1>3, <2>1, LessMeans
<1>8. CASE i <= Len(a) /\ i <= Len(b)
  <2>1. i \in 1..Len(a) /\ i \in 1..Len(b) /\ a[i] # b[i]
    <3>1. i \in T
      <4> HIDE DEF T
      <4>1. QED
        BY <1>3
    <3>2. i \in 1..(Len(a) + 1) /\ i \in 1..(Len(b) + 1)
      BY <3>1
    <3>3. a[i] # b[i]
      BY <1>8, <3>1
    <3>4. QED
      BY <1>1, <1>8, <3>2, <3>3
  <2>2. a[i] \in Nat /\ b[i] \in Nat
    BY <2>1, BytesCompare
  <2>3. a[i] < b[i] \/ b[i] < a[i]
    BY <2>1, <2>2
  <2>4. LessAt(a, b, i) \/ LessAt(b, a, i)
    BY <1>1, <1>4, <2>1, <2>3 DEF LessAt
  <2>5. QED
    BY <1>3, <2>4, LessMeans
<1>9. QED
  BY <1>1, <1>3, <1>5, <1>6, <1>7, <1>8

-----------------------------------------------------------------------------
(* The order of labels.                                                    *)

(* Labels that ascend from one to the next ascend over any distance.       *)
LEMMA AscendingApart ==
  ASSUME NEW s \in Seq(Seq(Byte)), Ascending(s), NEW i \in 1..Len(s), NEW j \in 1..Len(s), i < j
  PROVE  Less(s[i], s[j])
<1> DEFINE n == Len(s)
           T == {k \in 0..(j - i - 1) : Less(s[i], s[i + 1 + k])}
<1>1. n \in Nat /\ \A k \in 1..n : s[k] \in Seq(Byte)
  OBVIOUS
<1>2. ASSUME NEW k \in 2..n PROVE Less(s[k - 1], s[k])
  BY DEF Ascending
<1>3. 0 \in T
  <2>1. i + 1 \in 2..n /\ (i + 1) - 1 = i /\ i + 1 + 0 = i + 1 /\ 0 \in 0..(j - i - 1)
    BY <1>1
  <2>2. Less(s[i], s[i + 1])
    BY <1>2, <2>1
  <2>3. QED
    BY <2>1, <2>2
<1>4. ASSUME NEW k \in 0..((j - i - 1) - 1), k \in T PROVE k + 1 \in T
  <2>1. /\ i + 1 + k \in 1..n /\ i + 1 + (k + 1) \in 2..n /\ (i + 1 + (k + 1)) - 1 = i + 1 + k
        /\ k + 1 \in 0..(j - i - 1) /\ i + 1 + (k + 1) \in 1..n
    BY <1>1
  <2>2. Less(s[i], s[i + 1 + k])
    BY <1>4
  <2>3. Less(s[i + 1 + k], s[i + 1 + (k + 1)])
    BY <1>2, <2>1
  <2>4. Less(s[i], s[i + 1 + (k + 1)])
    BY <1>1, <2>1, <2>2, <2>3, LessTransitive
  <2>5. QED
    BY <2>1, <2>4
<1>5. j - i - 1 \in Nat
  BY <1>1
<1>6. \A k \in 0..(j - i - 1) : k \in T
  <2> HIDE DEF T
  <2>1. QED
    BY <1>3, <1>4, <1>5, Induction
<1>7. j - i - 1 \in 0..(j - i - 1) /\ i + 1 + (j - i - 1) = j
  BY <1>1, <1>5
<1>8. QED
  BY <1>6, <1>7

(* A way to put the labels in order.                                       *)
Orders(p, s) ==
  /\ p \in [DOMAIN s -> DOMAIN s] /\ IsInjective(p)
  /\ \A i, j \in DOMAIN s : i < j => ~Less(s[p[j]], s[p[i]])

(* There is one: each label has its rank, the number of those that do not  *)
(* stand behind it.                                                        *)
LEMMA OrderExists ==
  ASSUME NEW s \in Seq(Seq(Byte))
  PROVE  \E p : Orders(p, s)
<1> DEFINE n == Len(s)
           I == 1..n
           Before(j, i) == Less(s[j], s[i]) \/ (s[j] = s[i] /\ j <= i)
           Behind(i) == {j \in I : Before(j, i)}
           rank == [i \in I |-> Cardinality(Behind(i))]
<1>1. n \in Nat /\ DOMAIN s = I /\ \A i \in I : s[i] \in Seq(Byte)
  OBVIOUS
<1>2. IsFiniteSet(I) /\ Cardinality(I) = n
  <2>1. 1 \in Int /\ n \in Int
    BY <1>1
  <2>2. IsFiniteSet(I) /\ Cardinality(I) = IF 1 > n THEN 0 ELSE n - 1 + 1
    BY <2>1, FS_Interval
  <2>3. QED
    BY <1>1, <2>2
<1>3. ASSUME NEW i \in I PROVE /\ Behind(i) \in SUBSET I /\ IsFiniteSet(Behind(i))
                               /\ Cardinality(Behind(i)) \in Nat /\ Cardinality(Behind(i)) <= n
                               /\ i \in Behind(i)
  <2>1. Behind(i) \in SUBSET I
    OBVIOUS
  <2>2. i \in Behind(i)
    BY <1>1
  <2> HIDE DEF Behind, I
  <2>3. IsFiniteSet(Behind(i)) /\ Cardinality(Behind(i)) <= n
    BY <1>2, <2>1, FS_Subset
  <2>4. QED
    BY <2>1, <2>2, <2>3, FS_CardinalityType
<1>4. ASSUME NEW i \in I PROVE rank[i] \in I
  <2>1. Behind(i) # {}
    BY <1>3
  <2> HIDE DEF Behind
  <2>2. Cardinality(Behind(i)) # 0
    BY <1>3, <2>1, FS_EmptySet
  <2>3. QED
    BY <1>1, <1>3, <2>2
<1>5. ASSUME NEW i \in I, NEW k \in I, i # k PROVE Before(i, k) \/ Before(k, i)
  BY <1>1, <1>5, LessTotal
<1>6. ASSUME NEW i \in I, NEW k \in I, i # k, Before(i, k) PROVE rank[i] < rank[k]
  <2>1. ASSUME NEW j \in Behind(i) PROVE j \in Behind(k)
    <3>1. j \in I /\ Before(j, i)
      OBVIOUS
    <3>2. Before(j, k)
      <4>1. s[j] \in Seq(Byte) /\ s[i] \in Seq(Byte) /\ s[k] \in Seq(Byte)
        BY <1>1, <3>1
      <4>2. CASE Less(s[j], s[i]) /\ Less(s[i], s[k])
        BY <4>1, <4>2, LessTransitive
      <4>3. CASE Less(s[j], s[i]) /\ s[i] = s[k]
        BY <4>3
      <4>4. CASE s[j] = s[i] /\ Less(s[i], s[k])
        BY <4>4
      <4>5. CASE s[j] = s[i] /\ s[i] = s[k] /\ j <= i /\ i <= k
        BY <1>1, <3>1, <4>5
      <4>6. QED
        BY <1>6, <3>1, <4>2, <4>3, <4>4, <4>5
    <3>3. QED
      BY <3>1, <3>2
  <2>2. k \notin Behind(i)
    <3>1. SUFFICES ASSUME Before(k, i) PROVE FALSE
      OBVIOUS
    <3>2. s[i] \in Seq(Byte) /\ s[k] \in Seq(Byte)
      BY <1>1
    <3>3. ~(Less(s[k], s[i]) /\ Less(s[i], s[k]))
      BY <3>2, LessTransitive, LessIrreflexive
    <3>4. ~(Less(s[k], s[i]) /\ s[i] = s[k]) /\ ~(Less(s[i], s[k]) /\ s[k] = s[i])
      BY <3>2, LessIrreflexive
    <3>5. k <= i /\ i <= k
      BY <1>6, <3>1, <3>3, <3>4
    <3>6. QED
      BY <1>1, <1>6, <3>5
  <2>3. k \in Behind(k) /\ Behind(i) \in SUBSET Behind(k) /\ Behind(i) # Behind(k)
    <3>1. k \in Behind(k)
      BY <1>3
    <3> HIDE DEF Behind
    <3>2. QED
      BY <2>1, <2>2, <3>1
  <2> HIDE DEF Behind
  <2>4. Cardinality(Behind(i)) <= Cardinality(Behind(k)) /\ Cardinality(Behind(i)) # Cardinality(Behind(k))
    <3>1. IsFiniteSet(Behind(k))
      BY <1>3
    <3>2. QED
      BY <2>3, <3>1, FS_Subset
  <2>5. QED
    BY <1>3, <2>4
<1>7. rank \in [I -> I]
  BY <1>4
<1> HIDE DEF rank, Before, I
<1>8. rank \in Injection(I, I)
  <2>1. ASSUME NEW i \in I, NEW k \in I, rank[i] = rank[k], i # k PROVE FALSE
    <3>1. rank[i] < rank[k] \/ rank[k] < rank[i]
      BY <1>5, <1>6, <2>1
    <3>2. rank[i] \in Nat
      BY <1>1, <1>4 DEF I
    <3>3. QED
      BY <2>1, <3>1, <3>2
  <2>2. IsInjective(rank)
    BY <1>7, <2>1 DEF IsInjective
  <2>3. QED
    BY <1>7, <2>2 DEF Injection
<1>9. rank \in Surjection(I, I)
  BY <1>2, <1>8, FS_Injection
<1>10. \A i \in I : \E k \in I : rank[k] = i
  BY <1>9 DEF Surjection
<1> DEFINE p == [i \in I |-> CHOOSE k \in I : rank[k] = i]
<1>11. ASSUME NEW i \in I PROVE p[i] \in I /\ rank[p[i]] = i
  BY <1>10
<1>12. p \in [I -> I]
  BY <1>11
<1> HIDE DEF p
<1>13. IsInjective(p)
  <2>1. ASSUME NEW a \in I, NEW b \in I, p[a] = p[b] PROVE a = b
    BY <1>11, <2>1
  <2>2. QED
    BY <1>12, <2>1 DEF IsInjective
<1>14. ASSUME NEW i \in I, NEW j \in I, i < j, Less(s[p[j]], s[p[i]]) PROVE FALSE
  <2>1. p[i] \in I /\ p[j] \in I /\ rank[p[i]] = i /\ rank[p[j]] = j
    BY <1>11
  <2>2. i \in Nat /\ j \in Nat
    BY <1>1 DEF I
  <2>3. p[i] # p[j]
    BY <1>14, <2>1, <2>2
  <2>4. Before(p[j], p[i])
    BY <1>14 DEF Before
  <2>5. rank[p[j]] < rank[p[i]]
    BY <1>6, <2>1, <2>3, <2>4
  <2>6. QED
    BY <1>14, <2>1, <2>2, <2>5
<1>15. QED
  BY <1>1, <1>12, <1>13, <1>14 DEF Orders

(* Sorted takes such an ordering.                                          *)
LEMMA SortedOrders ==
  ASSUME NEW s \in Seq(Seq(Byte))
  PROVE  \E p : Orders(p, s) /\ Sorted(s) = [i \in DOMAIN s |-> s[p[i]]]
<1>1. PICK p : p = CHOOSE q \in [DOMAIN s -> DOMAIN s] :
        /\ IsInjective(q)
        /\ \A i, j \in DOMAIN s : i < j => ~Less(s[q[j]], s[q[i]])
  OBVIOUS
<1>2. Orders(p, s)
  <2>1. PICK r : Orders(r, s)
    BY OrderExists
  <2>2. QED
    BY <1>1, <2>1 DEF Orders
<1>3. Sorted(s) = [i \in DOMAIN s |-> s[p[i]]]
  BY <1>1 DEF Sorted
<1>4. QED
  BY <1>2, <1>3

(* The sorted labels are the labels, and none stands behind one it         *)
(* precedes.                                                               *)
LEMMA SortedProperties ==
  ASSUME NEW s \in Seq(Seq(Byte))
  PROVE  /\ Sorted(s) \in Seq(Seq(Byte)) /\ Len(Sorted(s)) = Len(s)
         /\ \A i, j \in 1..Len(s) : i < j => ~Less(Sorted(s)[j], Sorted(s)[i])
         /\ Range(Sorted(s)) = Range(s)
<1> DEFINE n == Len(s)
           I == 1..n
           t == Sorted(s)
<1>1. n \in Nat /\ DOMAIN s = I /\ \A i \in I : s[i] \in Seq(Byte)
  OBVIOUS
<1>2. PICK p : Orders(p, s) /\ t = [i \in I |-> s[p[i]]]
  BY <1>1, SortedOrders
<1>3. /\ p \in [I -> I] /\ IsInjective(p)
      /\ \A i, j \in I : i < j => ~Less(s[p[j]], s[p[i]])
  BY <1>1, <1>2 DEF Orders
<1> HIDE DEF t
<1>4. ASSUME NEW i \in I PROVE t[i] = s[p[i]] /\ p[i] \in I
  BY <1>2, <1>3
<1>5. t \in [I -> Seq(Byte)]
  BY <1>1, <1>2, <1>4
<1>6. t \in Seq(Seq(Byte)) /\ Len(t) = n
  BY <1>1, <1>5
<1>7. p \in Surjection(I, I)
  <2>1. p \in Injection(I, I)
    BY <1>3 DEF Injection
  <2>2. IsFiniteSet(I)
    <3>1. 1 \in Int /\ n \in Int
      BY <1>1
    <3>2. QED
      BY <3>1, FS_Interval
  <2> HIDE DEF I
  <2>3. QED
    BY <2>1, <2>2, FS_Injection
<1>8. \A k \in I : \E i \in I : p[i] = k
  BY <1>7 DEF Surjection
<1>9. DOMAIN t = I
  BY <1>5
<1>10. Range(t) = Range(s)
  <2>1. ASSUME NEW x \in Range(t) PROVE x \in Range(s)
    <3>1. PICK i \in I : x = t[i]
      BY <1>9 DEF Range
    <3>2. QED
      BY <1>1, <1>4, <3>1 DEF Range
  <2>2. ASSUME NEW x \in Range(s) PROVE x \in Range(t)
    <3>1. PICK k \in I : x = s[k]
      BY <1>1 DEF Range
    <3>2. PICK i \in I : p[i] = k
      BY <1>8
    <3>3. QED
      BY <1>4, <1>9, <3>1, <3>2 DEF Range
  <2>3. QED
    BY <2>1, <2>2
<1>11. \A i, j \in I : i < j => ~Less(t[j], t[i])
  BY <1>3, <1>4
<1>12. QED
  BY <1>6, <1>10, <1>11 DEF t

(* What is in order stays as it is.                                        *)
LEMMA SortedAscending ==
  ASSUME NEW s \in Seq(Seq(Byte)), Ascending(s)
  PROVE  Sorted(s) = s
<1> DEFINE n == Len(s)
           I == 1..n
<1>1. n \in Nat /\ DOMAIN s = I /\ \A i \in I : s[i] \in Seq(Byte)
  OBVIOUS
<1>2. PICK p : Orders(p, s) /\ Sorted(s) = [i \in I |-> s[p[i]]]
  BY <1>1, SortedOrders
<1>3. /\ p \in [I -> I] /\ IsInjective(p)
      /\ \A i, j \in I : i < j => ~Less(s[p[j]], s[p[i]])
  BY <1>1, <1>2 DEF Orders
<1>4. ASSUME NEW i \in I, NEW j \in I, i < j PROVE p[i] < p[j]
  <2>1. p[i] \in I /\ p[j] \in I /\ p[i] # p[j]
    <3>1. p[i] \in I /\ p[j] \in I
      BY <1>3
    <3>2. i # j
      BY <1>1, <1>4
    <3>3. QED
      BY <1>3, <3>1, <3>2 DEF IsInjective
  <2>2. ~(p[j] < p[i])
    <3>1. ~Less(s[p[j]], s[p[i]])
      BY <1>3, <1>4
    <3>2. QED
      BY <2>1, <3>1, AscendingApart
  <2>3. QED
    BY <1>1, <2>1, <2>2
<1>15. ASSUME NEW k \in I PROVE p[k] \in I /\ p[k] \in Nat
  <2>1. p[k] \in I
    BY <1>3
  <2>2. QED
    BY <1>1, <2>1
<1> HIDE DEF n
<1>5. \A k \in I : p[k] >= k
  <2> DEFINE T == {k \in 0..(n - 1) : p[k + 1] >= k + 1}
  <2>1. CASE n = 0
    BY <2>1
  <2>2. CASE n # 0
    <3>1. n - 1 \in Nat
      BY <1>1, <2>2
    <3>2. 0 \in T
      <4>1. 1 \in I
        BY <1>1, <2>2
      <4>2. p[1] \in I
        BY <1>3, <4>1
      <4>3. 0 + 1 = 1 /\ 0 \in 0..(n - 1)
        BY <3>1
      <4>4. QED
        BY <4>2, <4>3
    <3>3. ASSUME NEW k \in 0..((n - 1) - 1), k \in T PROVE k + 1 \in T
      <4>1. k + 1 \in I /\ (k + 1) + 1 \in I /\ k + 1 < (k + 1) + 1 /\ k + 1 \in 0..(n - 1)
        BY <1>1
      <4>2. p[k + 1] < p[(k + 1) + 1] /\ p[k + 1] >= k + 1
        BY <1>4, <3>3, <4>1
      <4>3. p[k + 1] \in Nat /\ p[(k + 1) + 1] \in Nat
        BY <1>15, <4>1
      <4>4. p[(k + 1) + 1] >= (k + 1) + 1
        BY <4>2, <4>3
      <4>5. QED
        BY <4>1, <4>4
    <3>4. \A k \in 0..(n - 1) : k \in T
      <4> HIDE DEF T
      <4>1. QED
        BY <3>1, <3>2, <3>3, Induction
    <3>5. ASSUME NEW k \in I PROVE p[k] >= k
      <4>1. k - 1 \in 0..(n - 1) /\ (k - 1) + 1 = k
        BY <1>1
      <4>2. QED
        BY <3>4, <4>1
    <3>6. QED
      BY <3>5
  <2>3. QED
    BY <2>1, <2>2
<1>6. \A k \in I : p[k] <= k
  <2> DEFINE T == {k \in 0..(n - 1) : p[n - k] <= n - k}
  <2>1. CASE n = 0
    BY <2>1
  <2>2. CASE n # 0
    <3>1. n - 1 \in Nat
      BY <1>1, <2>2
    <3>2. 0 \in T
      <4>1. n \in I /\ n - 0 = n /\ 0 \in 0..(n - 1)
        BY <1>1, <3>1
      <4>2. p[n] \in I
        BY <1>3, <4>1
      <4>3. QED
        BY <4>1, <4>2
    <3>3. ASSUME NEW k \in 0..((n - 1) - 1), k \in T PROVE k + 1 \in T
      <4>1. n - k \in I /\ n - (k + 1) \in I /\ n - (k + 1) < n - k /\ k + 1 \in 0..(n - 1)
        BY <1>1
      <4>2. p[n - (k + 1)] < p[n - k] /\ p[n - k] <= n - k
        BY <1>4, <3>3, <4>1
      <4>3. p[n - k] \in Nat /\ p[n - (k + 1)] \in Nat
        BY <1>15, <4>1
      <4>4. p[n - (k + 1)] <= n - (k + 1)
        BY <1>1, <4>2, <4>3
      <4>5. QED
        BY <4>1, <4>4
    <3>4. \A k \in 0..(n - 1) : k \in T
      <4> HIDE DEF T
      <4>1. QED
        BY <3>1, <3>2, <3>3, Induction
    <3>5. ASSUME NEW k \in I PROVE p[k] <= k
      <4>1. n - k \in 0..(n - 1) /\ n - (n - k) = k
        BY <1>1
      <4>2. QED
        BY <3>4, <4>1
    <3>6. QED
      BY <3>5
  <2>3. QED
    BY <2>1, <2>2
<1>7. ASSUME NEW k \in I PROVE p[k] = k
  <2>1. p[k] \in Nat /\ k \in Nat /\ p[k] <= k /\ p[k] >= k
    BY <1>1, <1>3, <1>5, <1>6
  <2>2. QED
    BY <2>1
<1>8. Sorted(s) = [i \in I |-> s[i]]
  BY <1>2, <1>7
<1>9. s = [i \in I |-> s[i]]
  BY <1>1 DEF n
<1>10. QED
  BY <1>8, <1>9

-----------------------------------------------------------------------------
(* Labels without repetitions.                                             *)

(* A label that the label before it equals is dropped.                     *)
Repeats(s, k) == k > 1 /\ s[k] = s[k - 1]

(* The labels are gone through from the first to the last.                 *)
LEMMA DeduplicatedSteps ==
  ASSUME NEW s \in Seq(Seq(Byte))
  PROVE  \E f : /\ f \in [0..Len(s) -> Seq(Seq(Byte))] /\ f[0] = <<>>
                /\ \A k \in 1..Len(s) :
                     f[k] = IF Repeats(s, k) THEN f[k - 1] ELSE Append(f[k - 1], s[k])
                /\ Deduplicated(s) = f[Len(s)]
<1> DEFINE n == Len(s)
           L == Seq(Byte)
           D == Seq(L)
           With(k, d) == IF k \in 1..n /\ ~Repeats(s, k) THEN Append(d, s[k]) ELSE d
           step == [k \in Nat |-> [d \in D |-> With(k + 1, d)]]
           Steps(h) == h = [k \in 0..n |-> IF k = 0 THEN <<>>
                                           ELSE IF Repeats(s, k) THEN h[k - 1]
                                           ELSE Append(h[k - 1], s[k])]
<1>1. n \in Nat /\ \A k \in 1..n : s[k] \in L
  OBVIOUS
<1>2. <<>> \in D /\ \A d \in D, x \in L : Append(d, x) \in D
  <2>1. ASSUME NEW d \in D, NEW x \in L PROVE Append(d, x) \in D
    BY AppendProperties
  <2>2. QED
    BY <2>1
<1> HIDE DEF n, L, D
<1>3. IsStep(step, D)
  <2>1. ASSUME NEW k \in Nat, NEW d \in D PROVE With(k + 1, d) \in D
    BY <1>1, <1>2
  <2>2. QED
    BY <2>1 DEF IsStep
<1>4. \A k \in Nat, d \in D : step[k][d] = With(k + 1, d)
  OBVIOUS
<1>5. PICK g : Unfolds(g, D, <<>>, step)
  <2> HIDE DEF step
  <2>1. QED
    BY <1>2, <1>3, Recursion
<1> HIDE DEF step
<1>6. g \in [Nat -> D] /\ g[0] = <<>> /\ \A k \in Nat : g[k + 1] = With(k + 1, g[k])
  BY <1>4, <1>5 DEF Unfolds
<1> DEFINE f == [k \in 0..n |-> g[k]]
<1>7. f \in [0..n -> D] /\ f[0] = <<>>
  BY <1>1, <1>6
<1>8. ASSUME NEW k \in 1..n
      PROVE  f[k] = IF Repeats(s, k) THEN f[k - 1] ELSE Append(f[k - 1], s[k])
  <2>1. k - 1 \in Nat /\ k - 1 \in 0..n /\ k \in 0..n /\ (k - 1) + 1 = k
    BY <1>1
  <2>2. g[k] = With(k, g[k - 1])
    BY <1>6, <2>1
  <2>3. f[k] = g[k] /\ f[k - 1] = g[k - 1]
    BY <2>1
  <2>4. QED
    BY <2>2, <2>3
<1> HIDE DEF f, With
<1>9. Steps(f)
  <2>1. ASSUME NEW k \in 0..n
        PROVE  f[k] = IF k = 0 THEN <<>>
                      ELSE IF Repeats(s, k) THEN f[k - 1] ELSE Append(f[k - 1], s[k])
    <3>1. k # 0 => k \in 1..n
      BY <1>1
    <3>2. QED
      BY <1>7, <1>8, <3>1
  <2>2. f = [k \in 0..n |-> f[k]]
    BY <1>7
  <2>3. QED
    BY <2>1, <2>2
<1>10. PICK h : h = (CHOOSE r : Steps(r))
  OBVIOUS
<1>11. Steps(h)
  <2> HIDE DEF Steps
  <2>1. QED
    BY <1>9, <1>10
<1>12. Deduplicated(s) = h[n]
  BY <1>10 DEF Deduplicated, Repeats, n
<1>13. \A k \in 0..n : h[k] = IF k = 0 THEN <<>>
                              ELSE IF Repeats(s, k) THEN h[k - 1] ELSE Append(h[k - 1], s[k])
  BY <1>11
<1> HIDE DEF Steps
<1> DEFINE T == {k \in 0..n : h[k] = f[k]}
<1>14. 0 \in T
  BY <1>1, <1>7, <1>13
<1>15. ASSUME NEW k \in 0..(n - 1), k \in T PROVE k + 1 \in T
  <2>1. k + 1 \in 0..n /\ k + 1 \in 1..n /\ k + 1 # 0 /\ (k + 1) - 1 = k
    BY <1>1
  <2>2. h[k + 1] = IF Repeats(s, k + 1) THEN h[k] ELSE Append(h[k], s[k + 1])
    BY <1>13, <2>1
  <2>3. f[k + 1] = IF Repeats(s, k + 1) THEN f[k] ELSE Append(f[k], s[k + 1])
    BY <1>8, <2>1
  <2>4. h[k] = f[k]
    BY <1>15
  <2>5. QED
    BY <2>1, <2>2, <2>3, <2>4
<1>16. \A k \in 0..n : k \in T
  <2> HIDE DEF T
  <2>1. QED
    BY <1>1, <1>14, <1>15, Induction
<1>17. h[n] = f[n]
  BY <1>1, <1>16
<1>18. QED
  BY <1>7, <1>8, <1>12, <1>17 DEF n, L, D

(* What a label is appended to is kept.                                    *)
LEMMA AppendedTo ==
  ASSUME NEW t \in Seq(Seq(Byte)), NEW x \in Seq(Byte)
  PROVE  /\ Append(t, x) \in Seq(Seq(Byte)) /\ Len(Append(t, x)) = Len(t) + 1
         /\ \A i \in 1..Len(t) : Append(t, x)[i] = t[i]
         /\ Append(t, x)[Len(t) + 1] = x
BY AppendProperties

(* Of sorted labels, the labels without repetitions are the same set and   *)
(* ascend.                                                                 *)
LEMMA DeduplicatedProperties ==
  ASSUME NEW s \in Seq(Seq(Byte)),
         \A i, j \in 1..Len(s) : i < j => ~Less(s[j], s[i])
  PROVE  /\ Deduplicated(s) \in Seq(Seq(Byte))
         /\ Ascending(Deduplicated(s)) /\ Range(Deduplicated(s)) = Range(s)
<1> DEFINE n == Len(s)
<1>1. n \in Nat /\ DOMAIN s = 1..n /\ \A k \in 1..n : s[k] \in Seq(Byte)
  OBVIOUS
<1>2. PICK f : /\ f \in [0..n -> Seq(Seq(Byte))] /\ f[0] = <<>>
               /\ \A k \in 1..n : f[k] = IF Repeats(s, k) THEN f[k - 1] ELSE Append(f[k - 1], s[k])
               /\ Deduplicated(s) = f[n]
  BY DeduplicatedSteps
<1> DEFINE Holds(t, k) == /\ \A i \in 1..Len(t) : \E j \in 1..k : t[i] = s[j]
                          /\ \A j \in 1..k : \E i \in 1..Len(t) : t[i] = s[j]
                          /\ k # 0 => Len(t) # 0 /\ t[Len(t)] = s[k]
           T == {k \in 0..n : Ascending(f[k]) /\ Holds(f[k], k)}
<1>3. 0 \in T
  <2>1. Len(<<>>) = 0
    OBVIOUS
  <2>2. Ascending(<<>>) /\ Holds(<<>>, 0)
    BY <2>1 DEF Ascending
  <2>3. QED
    BY <1>1, <1>2, <2>2
<1> HIDE DEF n
<1>4. ASSUME NEW k \in 0..(n - 1), k \in T PROVE k + 1 \in T
  <2>1. k + 1 \in 0..n /\ k + 1 \in 1..n /\ k + 1 # 0 /\ (k + 1) - 1 = k /\ k \in 0..n
    BY <1>1
  <2>2. PICK t \in Seq(Seq(Byte)) : t = f[k]
    BY <1>2, <2>1
  <2>3. Ascending(t) /\ Holds(t, k) /\ Len(t) \in Nat
    BY <1>4, <2>2
  <2>4. f[k + 1] = IF Repeats(s, k + 1) THEN t ELSE Append(t, s[k + 1])
    BY <1>2, <2>1, <2>2
  <2>5. CASE Repeats(s, k + 1)
    <3>1. f[k + 1] = t /\ k # 0 /\ s[k + 1] = s[k] /\ k \in 1..n
      BY <2>1, <2>4, <2>5 DEF Repeats
    <3>2. \A j \in 1..(k + 1) : j \in 1..k \/ j = k + 1
      BY <2>1
    <3>3. Holds(t, k + 1)
      <4>1. ASSUME NEW i \in 1..Len(t) PROVE \E j \in 1..(k + 1) : t[i] = s[j]
        <5>1. PICK j \in 1..k : t[i] = s[j]
          BY <2>3
        <5>2. j \in 1..(k + 1)
          BY <2>1
        <5>3. QED
          BY <5>1, <5>2
      <4>2. ASSUME NEW j \in 1..(k + 1) PROVE \E i \in 1..Len(t) : t[i] = s[j]
        <5>1. k \in 1..k
          BY <3>1
        <5>2. QED
          BY <2>3, <3>1, <3>2, <5>1
      <4>3. Len(t) # 0 /\ t[Len(t)] = s[k + 1]
        BY <2>3, <3>1
      <4>4. QED
        BY <4>1, <4>2, <4>3
    <3>4. QED
      BY <2>1, <2>3, <3>1, <3>3
  <2>6. CASE ~Repeats(s, k + 1)
    <3>1. PICK x \in Seq(Byte), u \in Seq(Seq(Byte)) : x = s[k + 1] /\ u = Append(t, x) /\ f[k + 1] = u
      BY <1>1, <2>1, <2>4, <2>6, AppendedTo
    <3>2. Len(u) = Len(t) + 1 /\ u[Len(t) + 1] = x /\ \A i \in 1..Len(t) : u[i] = t[i]
      BY <3>1, AppendedTo
    <3>3. ASSUME k # 0 PROVE Less(t[Len(t)], x)
      <4>1. k \in 1..n /\ k + 1 > 1 /\ k < k + 1
        BY <2>1, <3>3
      <4>2. s[k + 1] # s[k]
        BY <2>1, <2>6, <4>1 DEF Repeats
      <4>3. ~Less(s[k + 1], s[k])
        BY <2>1, <4>1 DEF n
      <4>4. t[Len(t)] = s[k] /\ s[k] \in Seq(Byte)
        BY <1>1, <2>3, <3>3, <4>1
      <4>5. QED
        BY <3>1, <4>2, <4>3, <4>4, LessTotal
    <3>4. Ascending(u)
      <4>1. ASSUME NEW i \in 2..Len(u) PROVE Less(u[i - 1], u[i])
        <5>1. CASE i <= Len(t)
          <6>1. i \in 2..Len(t) /\ i \in 1..Len(t) /\ i - 1 \in 1..Len(t)
            BY <2>3, <5>1
          <6>2. Less(t[i - 1], t[i])
            BY <2>3, <6>1 DEF Ascending
          <6>3. QED
            BY <3>2, <6>1, <6>2
        <5>2. CASE i = Len(t) + 1
          <6>1. i - 1 = Len(t) /\ Len(t) \in 1..Len(t)
            BY <2>3, <5>2
          <6>2. k # 0
            <7>1. \A j \in 1..0 : FALSE
              OBVIOUS
            <7>2. QED
              BY <2>3, <6>1, <7>1
          <6>3. QED
            BY <3>2, <3>3, <5>2, <6>1, <6>2
        <5>3. QED
          BY <2>3, <3>2, <5>1, <5>2
      <4>2. QED
        BY <4>1 DEF Ascending
    <3>5. Holds(u, k + 1)
      <4>0. Len(t) + 1 \in 1..Len(u) /\ \A i \in 1..Len(u) : i \in 1..Len(t) \/ i = Len(t) + 1
        BY <2>3, <3>2
      <4>01. k + 1 \in 1..(k + 1) /\ \A j \in 1..(k + 1) : j \in 1..k \/ j = k + 1
        BY <2>1
      <4>1. ASSUME NEW i \in 1..Len(u) PROVE \E j \in 1..(k + 1) : u[i] = s[j]
        <5>1. CASE i \in 1..Len(t)
          <6>1. PICK j \in 1..k : t[i] = s[j]
            BY <2>3, <5>1
          <6>2. j \in 1..(k + 1)
            BY <2>1
          <6>3. QED
            BY <3>2, <5>1, <6>1, <6>2
        <5>2. CASE i = Len(t) + 1
          BY <3>1, <3>2, <4>01, <5>2
        <5>3. QED
          BY <4>0, <5>1, <5>2
      <4>2. ASSUME NEW j \in 1..(k + 1) PROVE \E i \in 1..Len(u) : u[i] = s[j]
        <5>1. CASE j \in 1..k
          <6>1. PICK i \in 1..Len(t) : t[i] = s[j]
            BY <2>3, <5>1
          <6>2. i \in 1..Len(u)
            BY <2>3, <3>2
          <6>3. QED
            BY <3>2, <6>1, <6>2
        <5>2. CASE j = k + 1
          BY <3>1, <3>2, <4>0, <5>2
        <5>3. QED
          BY <4>01, <5>1, <5>2
      <4>3. Len(u) # 0 /\ u[Len(u)] = s[k + 1]
        BY <2>3, <3>1, <3>2
      <4>4. QED
        BY <4>1, <4>2, <4>3
    <3>6. QED
      BY <2>1, <3>1, <3>4, <3>5
  <2>7. QED
    BY <2>5, <2>6
<1>5. n \in T
  <2>1. \A k \in 0..n : k \in T
    <3> HIDE DEF T
    <3>1. QED
      BY <1>1, <1>3, <1>4, Induction
  <2>2. n \in 0..n
    BY <1>1
  <2> HIDE DEF T
  <2>3. QED
    BY <2>1, <2>2
<1>6. PICK t \in Seq(Seq(Byte)) : t = Deduplicated(s) /\ Ascending(t) /\ Holds(t, n)
  <2>1. Ascending(f[n]) /\ Holds(f[n], n)
    BY <1>5
  <2>2. f[n] \in Seq(Seq(Byte))
    BY <1>1, <1>2
  <2> HIDE DEF Holds
  <2>3. QED
    BY <1>2, <2>1, <2>2
<1>7. DOMAIN t = 1..Len(t)
  OBVIOUS
<1>8. Range(t) = Range(s)
  <2>0. DOMAIN s = 1..n
    BY <1>1
  <2>1. ASSUME NEW x \in Range(t) PROVE x \in Range(s)
    <3>1. PICK i \in 1..Len(t) : x = t[i]
      BY <1>7 DEF Range
    <3>2. PICK j \in 1..n : t[i] = s[j]
      BY <1>6, <3>1
    <3>3. QED
      BY <2>0, <3>1, <3>2 DEF Range
  <2>2. ASSUME NEW x \in Range(s) PROVE x \in Range(t)
    <3>1. PICK j \in 1..n : x = s[j]
      BY <2>0 DEF Range
    <3>2. PICK i \in 1..Len(t) : t[i] = s[j]
      BY <1>6, <3>1
    <3>3. QED
      BY <1>7, <3>1, <3>2 DEF Range
  <2>3. QED
    BY <2>1, <2>2
<1>9. QED
  BY <1>6, <1>8

(* What repeats nothing stays as it is.                                    *)
LEMMA DeduplicatedAscending ==
  ASSUME NEW s \in Seq(Seq(Byte)), Ascending(s)
  PROVE  Deduplicated(s) = s
<1> DEFINE n == Len(s)
<1>1. n \in Nat /\ \A k \in 1..n : s[k] \in Seq(Byte)
  OBVIOUS
<1>2. PICK f : /\ f \in [0..n -> Seq(Seq(Byte))] /\ f[0] = <<>>
               /\ \A k \in 1..n : f[k] = IF Repeats(s, k) THEN f[k - 1] ELSE Append(f[k - 1], s[k])
               /\ Deduplicated(s) = f[n]
  BY DeduplicatedSteps
<1>3. \A k \in 2..n : Less(s[k - 1], s[k])
  BY DEF Ascending
<1> HIDE DEF n
<1> DEFINE T == {k \in 0..n : Len(f[k]) = k /\ \A i \in 1..k : f[k][i] = s[i]}
<1>4. 0 \in T
  BY <1>1, <1>2
<1>5. ASSUME NEW k \in 0..(n - 1), k \in T PROVE k + 1 \in T
  <2>1. k + 1 \in 0..n /\ k + 1 \in 1..n /\ (k + 1) - 1 = k /\ k \in 0..n
    BY <1>1
  <2>2. ~Repeats(s, k + 1)
    <3>1. SUFFICES ASSUME k + 1 > 1, s[k + 1] = s[k] PROVE FALSE
      BY <2>1 DEF Repeats
    <3>2. k + 1 \in 2..n /\ s[k + 1] \in Seq(Byte)
      BY <1>1, <2>1, <3>1
    <3>3. Less(s[k], s[k + 1])
      BY <1>3, <2>1, <3>2
    <3>4. QED
      BY <3>1, <3>2, <3>3, LessIrreflexive
  <2>3. PICK t \in Seq(Seq(Byte)), x \in Seq(Byte) :
          t = f[k] /\ x = s[k + 1] /\ f[k + 1] = Append(t, x)
    BY <1>1, <1>2, <2>1, <2>2
  <2>4. Len(t) = k /\ \A i \in 1..k : t[i] = s[i]
    BY <1>5, <2>3
  <2>5. /\ Len(Append(t, x)) = k + 1 /\ Append(t, x)[k + 1] = s[k + 1]
        /\ \A i \in 1..k : Append(t, x)[i] = s[i]
    BY <2>3, <2>4, AppendedTo
  <2>6. \A i \in 1..(k + 1) : i \in 1..k \/ i = k + 1
    BY <2>1
  <2>7. \A i \in 1..(k + 1) : f[k + 1][i] = s[i]
    BY <2>3, <2>5, <2>6
  <2>8. QED
    BY <2>1, <2>3, <2>5, <2>7
<1>6. \A k \in 0..n : k \in T
  <2> HIDE DEF T
  <2>1. QED
    BY <1>1, <1>4, <1>5, Induction
<1>7. Len(f[n]) = n /\ (\A i \in 1..n : f[n][i] = s[i]) /\ f[n] \in Seq(Seq(Byte))
  <2>1. n \in 0..n
    BY <1>1
  <2>2. n \in T
    <3> HIDE DEF T
    <3>1. QED
      BY <1>6, <2>1
  <2>3. QED
    BY <1>2, <2>1, <2>2
<1>8. f[n] = s
  BY <1>7, SeqEqual DEF n
<1>9. QED
  BY <1>2, <1>8

(* What an encoder makes of the labels is the same set of them and         *)
(* ascends strictly.                                                       *)
LEMMA CanonicalLabelsProperties ==
  ASSUME NEW s \in Seq(Seq(Byte))
  PROVE  /\ CanonicalLabels(s) \in Seq(Seq(Byte))
         /\ Ascending(CanonicalLabels(s)) /\ Range(CanonicalLabels(s)) = Range(s)
<1>1. PICK t \in Seq(Seq(Byte)) :
        /\ t = Sorted(s) /\ Range(t) = Range(s)
        /\ \A i, j \in 1..Len(t) : i < j => ~Less(t[j], t[i])
  BY SortedProperties
<1>2. QED
  BY <1>1, DeduplicatedProperties DEF CanonicalLabels

(* Labels that ascend are kept as they are.                                *)
LEMMA CanonicalLabelsAscending ==
  ASSUME NEW s \in Seq(Seq(Byte)), Ascending(s)
  PROVE  CanonicalLabels(s) = s
BY SortedAscending, DeduplicatedAscending DEF CanonicalLabels

-----------------------------------------------------------------------------
(* The layout.                                                             *)

(* The checks of all labels in a row pass if those of each label do.       *)
LEMMA FlattenPasses ==
  ASSUME NEW seqs \in Seq(Seq(Checks))
  PROVE  /\ FlattenSeq(seqs) \in Seq(Checks)
         /\ Passes(FlattenSeq(seqs)) <=> \A k \in 1..Len(seqs) : Passes(seqs[k])
<1> DEFINE n == Len(seqs)
           D == Seq(Checks)
<1>1. PICK f : /\ f \in [0..n -> D] /\ f[0] = <<>>
               /\ \A k \in 1..n : f[k] = f[k - 1] \o seqs[k]
               /\ FlattenSeq(seqs) = f[n]
  BY FlattenSteps
<1>2. n \in Nat /\ \A k \in 1..n : seqs[k] \in D
  OBVIOUS
<1> HIDE DEF n
<1> DEFINE T == {k \in 0..n : Passes(f[k]) <=> \A j \in 1..k : Passes(seqs[j])}
<1>3. 0 \in T
  <2>1. Passes(<<>>)
    BY DEF Passes
  <2>2. QED
    BY <1>1, <1>2, <2>1
<1>4. ASSUME NEW k \in 0..(n - 1), k \in T PROVE k + 1 \in T
  <2>1. k + 1 \in 0..n /\ k + 1 \in 1..n /\ (k + 1) - 1 = k /\ k \in 0..n
    BY <1>2
  <2>2. f[k + 1] = f[k] \o seqs[k + 1] /\ f[k] \in D /\ seqs[k + 1] \in D
    BY <1>1, <1>2, <2>1
  <2>3. Passes(f[k + 1]) <=> Passes(f[k]) /\ Passes(seqs[k + 1])
    BY <2>2, PassesBoth
  <2>4. Passes(f[k]) <=> \A j \in 1..k : Passes(seqs[j])
    BY <1>4
  <2>5. (\A j \in 1..(k + 1) : Passes(seqs[j])) <=>
          (\A j \in 1..k : Passes(seqs[j])) /\ Passes(seqs[k + 1])
    <3>1. 1..(k + 1) = 1..k \cup {k + 1}
      BY <2>1
    <3>2. QED
      BY <3>1
  <2>6. QED
    BY <2>1, <2>3, <2>4, <2>5
<1>5. n \in T
  <2>1. n \in 0..n
    BY <1>2
  <2> HIDE DEF T
  <2>2. \A k \in 0..n : k \in T
    BY <1>2, <1>3, <1>4, Induction
  <2>3. QED
    BY <2>1, <2>2
<1>6. f[n] \in D
  BY <1>1, <1>2
<1>7. QED
  BY <1>1, <1>5, <1>6 DEF n

(* The layout, field by field.                                             *)
LaidOut(at, m) ==
  /\ at.id = Place[1] /\ at.path = Place[2] /\ at.logical = Place[3] /\ at.variant = Place[4]
  /\ at.seconds = at.variant + 1 /\ at.nanos = at.variant + 1 + SecondsBytes
  /\ at.activity = Place[5] /\ at.coverage = Place[6] /\ at.labels = Place[7]
  /\ at.count = Num(at.labels, CountBytes)
  /\ m \in Nat /\ m = IF at.count <= Len(input) THEN at.count ELSE Len(input)
  /\ DOMAIN at.label = 1..m /\ at.label = [k \in 1..m |-> Place[7 + k]]
  /\ at.end = Place[8 + m]

(* Where the fields are.                                                   *)
Distances(at) ==
  /\ at.id = Len(Magic) + VersionBytes
  /\ at.path = at.id + CountBytes + Num(at.id, CountBytes)
  /\ at.logical = at.path + CountBytes + Num(at.path, CountBytes)
  /\ at.variant = at.logical + LogicalBytes
  /\ at.activity = at.variant + 1 + IF Num(at.variant, 1) = 1 THEN SecondsBytes + NanosBytes ELSE 0
  /\ at.coverage = at.activity + 1 /\ at.labels = at.coverage + 1
  /\ Place[8] = at.labels + CountBytes

(* The places of the layout are places.                                    *)
PlaceTypes(at) ==
  /\ at.id \in Nat /\ at.path \in Nat /\ at.logical \in Nat /\ at.variant \in Nat
  /\ at.seconds \in Nat /\ at.nanos \in Nat /\ at.activity \in Nat /\ at.coverage \in Nat
  /\ at.labels \in Nat /\ at.count \in Nat /\ at.end \in Nat

(* Where each field ends.                                                  *)
LEMMA FollowingMeans ==
  ASSUME NEW at
  PROVE  /\ Following("candidate_id", at) = at + (CountBytes + Num(at, CountBytes))
         /\ Following("raw_path", at) = at + (CountBytes + Num(at, CountBytes))
         /\ Following("label", at) = at + (CountBytes + Num(at, CountBytes))
         /\ Following("logical_bytes", at) = at + LogicalBytes
         /\ Following("observed_at", at) =
              at + (1 + IF Num(at, 1) = 1 THEN SecondsBytes + NanosBytes ELSE 0)
         /\ Following("activity", at) = at + 1 /\ Following("coverage", at) = at + 1
         /\ Following("labels", at) = at + CountBytes
<1> DEFINE lengthen == CountBytes + Num(at, CountBytes)
           timed == 1 + IF Num(at, 1) = 1 THEN SecondsBytes + NanosBytes ELSE 0
<1>1. \A field : Following(field, at) =
        at + CASE field \in {"candidate_id", "raw_path", "label"} -> lengthen
               [] field = "logical_bytes" -> LogicalBytes
               [] field = "observed_at" -> timed
               [] field = "labels" -> CountBytes
               [] OTHER -> 1
  BY DEF Following
<1> HIDE DEF lengthen, timed
<1>2. /\ Following("candidate_id", at) = at + lengthen /\ Following("raw_path", at) = at + lengthen
      /\ Following("label", at) = at + lengthen
      /\ Following("logical_bytes", at) = at + LogicalBytes /\ Following("observed_at", at) = at + timed
      /\ Following("activity", at) = at + 1 /\ Following("coverage", at) = at + 1
      /\ Following("labels", at) = at + CountBytes
  BY <1>1
<1>3. QED
  BY <1>2 DEF lengthen, timed

(* Each field begins somewhere.                                            *)
LEMMA PlaceType ==
  ASSUME input \in Seq(Byte), NEW k \in Nat \ {0}
  PROVE  Place[k] \in Nat
BY PlaceSteps

(* A label ends behind its length and its content.                         *)
LEMMA PlaceOfLabel ==
  ASSUME input \in Seq(Byte), NEW k \in Nat, k > 7
  PROVE  Place[k + 1] = Place[k] + CountBytes + Num(Place[k], CountBytes)
<1>1. k \in Nat \ {0} /\ Field(k) = "label"
  BY FieldNames
<1>2. Place[k + 1] = Following("label", Place[k]) /\ Place[k] \in Nat
  BY <1>1, PlaceSteps
<1>3. Num(Place[k], CountBytes) \in Nat
  BY <1>2, NumType, WidthsType
<1>4. PICK p \in Nat, w \in Nat, n \in Nat :
        p = Place[k] /\ w = CountBytes /\ n = Num(Place[k], CountBytes)
  BY <1>2, <1>3, WidthsType
<1>5. Place[k + 1] = p + (w + n)
  BY <1>2, <1>4, FollowingMeans
<1>6. p + (w + n) = p + w + n
  OBVIOUS
<1>7. QED
  BY <1>4, <1>5, <1>6

(* The layout is one with some number of labels.                           *)
LEMMA LayoutProperties ==
  ASSUME input \in Seq(Byte)
  PROVE  \E m \in Nat : LaidOut(Layout, m)
<1> DEFINE count == Num(Place[7], CountBytes)
           m == IF count <= Len(input) THEN count ELSE Len(input)
<1>1. count \in Nat /\ Len(input) \in Nat
  <2>1. Place[7] \in Nat
    BY PlaceType
  <2>2. count \in Nat
    BY <2>1, NumType, WidthsType
  <2>3. Len(input) \in Nat
    BY LenProperties
  <2>4. QED
    BY ONLY <2>2, <2>3
<1>2. Min({count, Len(input)}) = m
  <2> HIDE DEF count
  <2>1. {count, Len(input)} \in SUBSET Nat /\ m \in {count, Len(input)}
        /\ \A y \in {count, Len(input)} : m <= y
    BY <1>1
  <2> HIDE DEF m
  <2>2. QED
    BY <2>1, MinIs
<1>3. m \in Nat
  BY <1>1
<1>4. Layout = [id |-> Place[1], path |-> Place[2], logical |-> Place[3], variant |-> Place[4],
      seconds |-> Place[4] + 1, nanos |-> Place[4] + 1 + SecondsBytes,
      activity |-> Place[5], coverage |-> Place[6], labels |-> Place[7], count |-> count,
      label |-> [k \in 1..m |-> Place[7 + k]], end |-> Place[8 + m]]
  <2> HIDE DEF m
  <2>1. QED
    BY <1>2 DEF Layout
<1>5. LaidOut(Layout, m)
  <2>1. m = IF count <= Len(input) THEN count ELSE Len(input)
    OBVIOUS
  <2> HIDE DEF m
  <2>2. QED
    BY <1>3, <1>4, <2>1 DEF LaidOut
<1>6. QED
  <2> HIDE DEF m
  <2>1. QED
    BY <1>3, <1>5

(* What such a layout is like.                                             *)
LEMMA LaidOutProperties ==
  ASSUME input \in Seq(Byte), NEW at, NEW m, LaidOut(at, m)
  PROVE  /\ Distances(at) /\ PlaceTypes(at)
         /\ \A k \in 1..m : at.label[k] = Place[7 + k] /\ at.label[k] \in Nat
<1>1. /\ Place[1] \in Nat /\ Place[2] \in Nat /\ Place[3] \in Nat /\ Place[4] \in Nat
      /\ Place[5] \in Nat /\ Place[6] \in Nat /\ Place[7] \in Nat /\ Place[8] \in Nat
      /\ Place[8 + m] \in Nat
  BY PlaceType DEF LaidOut
<1>2. /\ Place[1] = Len(Magic) + VersionBytes
      /\ Place[2] = Following("candidate_id", Place[1]) /\ Place[3] = Following("raw_path", Place[2])
      /\ Place[4] = Following("logical_bytes", Place[3])
      /\ Place[5] = Following("observed_at", Place[4])
      /\ Place[6] = Following("activity", Place[5]) /\ Place[7] = Following("coverage", Place[6])
      /\ Place[8] = Following("labels", Place[7])
  <2>1. /\ Place[1] = Len(Magic) + VersionBytes
        /\ Place[1 + 1] = Following(Field(1), Place[1]) /\ Place[2 + 1] = Following(Field(2), Place[2])
        /\ Place[3 + 1] = Following(Field(3), Place[3]) /\ Place[4 + 1] = Following(Field(4), Place[4])
        /\ Place[5 + 1] = Following(Field(5), Place[5]) /\ Place[6 + 1] = Following(Field(6), Place[6])
        /\ Place[7 + 1] = Following(Field(7), Place[7])
    BY PlaceSteps
  <2>2. 1 + 1 = 2 /\ 2 + 1 = 3 /\ 3 + 1 = 4 /\ 4 + 1 = 5 /\ 5 + 1 = 6 /\ 6 + 1 = 7 /\ 7 + 1 = 8
    OBVIOUS
  <2>3. QED
    BY <2>1, <2>2, FieldNames
<1>3. /\ Num(Place[1], CountBytes) \in Nat /\ Num(Place[2], CountBytes) \in Nat
      /\ Num(Place[7], CountBytes) \in Nat
  BY <1>1, NumType, WidthsType
<1> DEFINE timed == IF Num(Place[4], 1) = 1 THEN SecondsBytes + NanosBytes ELSE 0
<1>4. timed \in Nat
  BY WidthsType
<1>5. /\ Place[2] = Place[1] + (CountBytes + Num(Place[1], CountBytes))
      /\ Place[3] = Place[2] + (CountBytes + Num(Place[2], CountBytes))
      /\ Place[4] = Place[3] + LogicalBytes
      /\ Place[5] = Place[4] + (1 + timed)
      /\ Place[6] = Place[5] + 1 /\ Place[7] = Place[6] + 1 /\ Place[8] = Place[7] + CountBytes
  BY <1>2, FollowingMeans
<1> HIDE DEF timed
<1>6. PICK p \in Nat, q \in Nat, r \in Nat, i \in Nat, j \in Nat, w \in Nat, t \in Nat :
        /\ p = Place[1] /\ q = Place[2] /\ r = Place[4] /\ w = CountBytes /\ t = timed
        /\ i = Num(Place[1], CountBytes) /\ j = Num(Place[2], CountBytes)
  BY <1>1, <1>3, <1>4, WidthsType
<1>7. /\ Place[2] = Place[1] + CountBytes + Num(Place[1], CountBytes)
      /\ Place[3] = Place[2] + CountBytes + Num(Place[2], CountBytes)
      /\ Place[5] = Place[4] + 1 + timed
  <2>1. p + (w + i) = p + w + i /\ q + (w + j) = q + w + j /\ r + (1 + t) = r + 1 + t
    OBVIOUS
  <2>2. Place[2] = p + (w + i) /\ Place[3] = q + (w + j) /\ Place[5] = r + (1 + t)
    BY <1>5, <1>6
  <2>3. QED
    BY <1>6, <2>1, <2>2
<1>8. Distances(at)
  BY <1>2, <1>5, <1>7 DEF LaidOut, Distances, timed
<1>9. PlaceTypes(at)
  <2>1. /\ at.id \in Nat /\ at.path \in Nat /\ at.logical \in Nat /\ at.variant \in Nat
        /\ at.activity \in Nat /\ at.coverage \in Nat
        /\ at.labels \in Nat /\ at.count \in Nat /\ at.end \in Nat
    BY <1>1, <1>3 DEF LaidOut
  <2>2. at.seconds \in Nat /\ at.nanos \in Nat
    <3>1. at.seconds = at.variant + 1 /\ at.nanos = at.variant + 1 + SecondsBytes
      BY DEF LaidOut
    <3>2. QED
      BY <2>1, <3>1, WidthsType, SMTT(30)
  <2>3. QED
    BY <2>1, <2>2 DEF PlaceTypes
<1>10. ASSUME NEW k \in 1..m PROVE at.label[k] = Place[7 + k] /\ at.label[k] \in Nat
  <2>1. 7 + k \in Nat \ {0} /\ at.label[k] = Place[7 + k]
    BY DEF LaidOut
  <2>2. QED
    BY <2>1, PlaceType
<1>11. QED
  BY <1>8, <1>9, <1>10

-----------------------------------------------------------------------------
(* What the input holds at a place.                                        *)

(* The input holds these bytes at that place.                              *)
Holds(at, x) == at + Len(x) <= Len(input) /\ Taken(at, Len(x)) = x

(* Bytes behind bytes are bytes.                                           *)
LEMMA BothTogether ==
  ASSUME NEW x \in Seq(Byte), NEW y \in Seq(Byte)
  PROVE  x \o y \in Seq(Byte) /\ Len(x \o y) = Len(x) + Len(y)
BY ConcatProperties

(* Pieces of the same lengths that make the same whole are the same.       *)
LEMMA SamePieces ==
  ASSUME NEW a \in Seq(Byte), NEW b \in Seq(Byte), NEW x \in Seq(Byte), NEW y \in Seq(Byte),
         Len(a) = Len(x), Len(b) = Len(y)
  PROVE  a \o b = x \o y => a = x /\ b = y
<1>1. PICK m \in Nat, n \in Nat : m = Len(a) /\ n = Len(b) /\ m = Len(x) /\ n = Len(y)
  OBVIOUS
<1>2. ASSUME a \o b = x \o y PROVE a = x /\ b = y
  <2>1. /\ \A i \in 1..(m + n) : (a \o b)[i] = IF i <= m THEN a[i] ELSE b[i - m]
        /\ \A i \in 1..(m + n) : (x \o y)[i] = IF i <= m THEN x[i] ELSE y[i - m]
    BY <1>1, ConcatProperties
  <2>2. ASSUME NEW i \in 1..m PROVE a[i] = x[i]
    <3>1. i \in 1..(m + n) /\ i <= m
      OBVIOUS
    <3>2. QED
      BY <1>2, <2>1, <3>1
  <2>3. ASSUME NEW i \in 1..n PROVE b[i] = y[i]
    <3>1. PICK j \in 1..(m + n) : j = m + i /\ ~(j <= m) /\ j - m = i
      OBVIOUS
    <3>2. (a \o b)[j] = b[i] /\ (x \o y)[j] = y[i]
      BY <2>1, <3>1
    <3>3. QED
      BY <1>2, <3>2
  <2>4. a = x
    BY <1>1, <2>2, SeqEqual
  <2>5. b = y
    BY <1>1, <2>3, SeqEqual
  <2>6. QED
    BY <2>4, <2>5
<1>3. QED
  BY <1>2

(* To hold two pieces in a row is to hold the one and behind it the        *)
(* other.                                                                  *)
LEMMA HoldsBoth ==
  ASSUME input \in Seq(Byte), NEW at \in Nat, NEW x \in Seq(Byte), NEW y \in Seq(Byte)
  PROVE  Holds(at, x \o y) <=> Holds(at, x) /\ Holds(at + Len(x), y)
<1>1. PICK m \in Nat, n \in Nat, l \in Nat, p \in Nat :
        m = Len(x) /\ n = Len(y) /\ l = Len(input) /\ p = at + m
  OBVIOUS
<1>2. Len(x \o y) = m + n /\ m + n \in Nat
  BY <1>1, ConcatProperties
<1>3. /\ Taken(at, m) \in Seq(Byte) /\ Len(Taken(at, m)) = m
      /\ Taken(at + m, n) \in Seq(Byte) /\ Len(Taken(at + m, n)) = n
      /\ Taken(at, m + n) = Taken(at, m) \o Taken(at + m, n)
  <2>1. Taken(at, m) \in Seq(Byte) /\ Len(Taken(at, m)) = m
    BY TakenType
  <2>2. Taken(p, n) \in Seq(Byte) /\ Len(Taken(p, n)) = n
    BY TakenType
  <2>3. Taken(at, m + n) = Taken(at, m) \o Taken(at + m, n)
    BY TakenSum
  <2>4. QED
    BY <1>1, <2>1, <2>2, <2>3
<1>4. Taken(at, m + n) = x \o y <=> Taken(at, m) = x /\ Taken(at + m, n) = y
  <2>1. PICK a \in Seq(Byte), b \in Seq(Byte) :
          a = Taken(at, m) /\ b = Taken(at + m, n) /\ Len(a) = Len(x) /\ Len(b) = Len(y)
    BY <1>1, <1>3
  <2>2. a \o b = x \o y => a = x /\ b = y
    BY <2>1, SamePieces
  <2>3. QED
    BY <1>3, <2>1, <2>2
<1>5. at + (m + n) <= l <=> (at + m <= l /\ (at + m) + n <= l)
  OBVIOUS
<1>6. QED
  BY <1>1, <1>2, <1>4, <1>5 DEF Holds

(* To hold as many bytes as there are is to be them.                       *)
LEMMA HoldsAll ==
  ASSUME input \in Seq(Byte), NEW x \in Seq(Byte), Len(x) = Len(input)
  PROVE  Holds(0, x) <=> x = input
<1>1. PICK l \in Nat : l = Len(input)
  OBVIOUS
<1>2. /\ Taken(0, l) \in Seq(Byte) /\ Len(Taken(0, l)) = l
      /\ \A i \in 1..l : Taken(0, l)[i] = IF 0 + i \in DOMAIN input THEN input[0 + i] ELSE 0
  BY TakenType
<1>3. ASSUME NEW i \in 1..l PROVE Taken(0, l)[i] = input[i]
  <2>1. 0 + i = i /\ i \in DOMAIN input
    BY <1>1
  <2>2. QED
    BY <1>2, <2>1
<1>4. Taken(0, l) = input
  BY <1>1, <1>2, <1>3, SeqEqual
<1>5. 0 + l <= l
  OBVIOUS
<1>6. QED
  BY <1>1, <1>4, <1>5 DEF Holds

(* To hold a number written down is to read it.                            *)
LEMMA HoldsNumber ==
  ASSUME input \in Seq(Byte), NEW at \in Nat, NEW w \in Nat, NEW n \in 0..(Power[w] - 1)
  PROVE  Holds(at, BigEndian(n, w)) <=> at + w <= Len(input) /\ Num(at, w) = n
<1>0. Power[w] \in Nat /\ n \in Int
  BY PowerType, SMTT(30)
<1>1. BigEndian(n, w) \in Seq(Byte) /\ Len(BigEndian(n, w)) = w
  BY <1>0, BigEndianType
<1>2. Taken(at, w) \in Seq(Byte) /\ Len(Taken(at, w)) = w
  BY TakenType
<1>3. Number(BigEndian(n, w)) = n
  BY ReadAsWritten
<1>4. BigEndian(Number(Taken(at, w)), w) = Taken(at, w)
  BY <1>2, WrittenAsRead
<1>5. Taken(at, w) = BigEndian(n, w) <=> Num(at, w) = n
  BY <1>3, <1>4 DEF Num
<1>6. QED
  BY <1>1, <1>5 DEF Holds

(* To hold a signed integer written down is to read it.                    *)
LEMMA HoldsSigned ==
  ASSUME input \in Seq(Byte), NEW at \in Nat, NEW w \in Nat, NEW z, InRange(z, w)
  PROVE  Holds(at, BigEndian(z, w)) <=> at + w <= Len(input) /\ Signed(Taken(at, w)) = z
<1>1. z \in Int /\ Signed(BigEndian(z, w)) = z
  BY SignedReadAsWritten
<1>2. BigEndian(z, w) \in Seq(Byte) /\ Len(BigEndian(z, w)) = w
  BY <1>1, BigEndianType
<1>3. Taken(at, w) \in Seq(Byte) /\ Len(Taken(at, w)) = w
  BY TakenType
<1>4. BigEndian(Signed(Taken(at, w)), w) = Taken(at, w)
  BY <1>3, SignedWrittenAsRead
<1>5. Taken(at, w) = BigEndian(z, w) <=> Signed(Taken(at, w)) = z
  BY <1>1, <1>4
<1>6. QED
  BY <1>2, <1>5 DEF Holds

(* A byte is a number one byte wide.                                       *)
LEMMA OneByte ==
  ASSUME NEW byte \in Byte
  PROVE  BigEndian(byte, 1) = <<byte>> /\ byte \in 0..(Power[1] - 1)
<1>1. byte \in Nat /\ byte < Base /\ Base \in Nat \ {0}
  BY WidthsType DEF Byte
<1>2. Power[0] = 1 /\ Power[1] = Base
  <2>1. Power[0 + 1] = Base * Power[0] /\ Power[0] = 1
    BY PowerSteps
  <2>2. Base * 1 = Base /\ 0 + 1 = 1
    BY <1>1
  <2>3. QED
    BY <2>1, <2>2
<1>3. (byte \div 1) % Base = byte
  <2>1. byte \div 1 = byte /\ byte % Base = byte
    <3>1. \A x \in Nat, b \in Nat \ {0} : x < b => x \div 1 = x /\ x % b = x
      OBVIOUS
    <3>2. QED
      BY <1>1, <3>1
  <2>2. QED
    BY <2>1
<1>4. BigEndian(byte, 1) \in Seq(Byte) /\ Len(BigEndian(byte, 1)) = 1
      /\ BigEndian(byte, 1)[1] = byte
  <2>1. /\ BigEndian(byte, 1) \in Seq(Byte) /\ Len(BigEndian(byte, 1)) = 1
        /\ \A i \in 1..1 : BigEndian(byte, 1)[i] = (byte \div Power[1 - i]) % Base
    <3>1. byte \in Int /\ 1 \in Nat
      BY <1>1
    <3>2. QED
      BY <3>1, BigEndianType
  <2>2. 1 - 1 = 0 /\ 1 \in 1..1
    OBVIOUS
  <2>3. QED
    BY <1>2, <1>3, <2>1, <2>2
<1>5. BigEndian(byte, 1) = <<byte>>
  BY <1>4
<1>6. QED
  BY <1>1, <1>2, <1>5

(* To hold a byte is to read it.                                           *)
LEMMA HoldsByte ==
  ASSUME input \in Seq(Byte), NEW at \in Nat, NEW byte \in Byte
  PROVE  Holds(at, <<byte>>) <=> at + 1 <= Len(input) /\ Num(at, 1) = byte
<1>1. BigEndian(byte, 1) = <<byte>> /\ byte \in 0..(Power[1] - 1)
  BY OneByte
<1>2. Holds(at, BigEndian(byte, 1)) <=> at + 1 <= Len(input) /\ Num(at, 1) = byte
  BY <1>1, HoldsNumber
<1>3. QED
  BY <1>1, <1>2

(* A field with its length before it is bytes.                             *)
LEMMA PrefixedType ==
  ASSUME NEW x \in Seq(Byte)
  PROVE  Prefixed(x) \in Seq(Byte) /\ Len(Prefixed(x)) = CountBytes + Len(x)
<1>1. Len(x) \in Int /\ CountBytes \in Nat
  BY WidthsType
<1>2. BigEndian(Len(x), CountBytes) \in Seq(Byte) /\ Len(BigEndian(Len(x), CountBytes)) = CountBytes
  BY <1>1, BigEndianType
<1>3. QED
  BY <1>2, ConcatProperties DEF Prefixed

(* To hold a field with its length is to read the field.                   *)
LEMMA HoldsPrefixed ==
  ASSUME input \in Seq(Byte), NEW at \in Nat, NEW x \in Seq(Byte), Len(x) < Power[CountBytes]
  PROVE  Holds(at, Prefixed(x)) <=> /\ at + CountBytes + Num(at, CountBytes) <= Len(input)
                                    /\ Content(at) = x
<1>1. PICK n \in Nat, w \in Nat, l \in Nat : n = Len(x) /\ w = CountBytes /\ l = Len(input)
  BY WidthsType
<1>2. n \in 0..(Power[w] - 1)
  <2>1. Power[w] \in Nat /\ n < Power[w]
    BY <1>1, PowerType
  <2>2. QED
    BY ONLY n \in Nat, <2>1
<1>3. BigEndian(n, w) \in Seq(Byte) /\ Len(BigEndian(n, w)) = w
  <2>1. n \in Int
    OBVIOUS
  <2>2. QED
    BY <2>1, BigEndianType
<1>4. at + w \in Nat
  OBVIOUS
<1>5. Holds(at, Prefixed(x)) <=> Holds(at, BigEndian(n, w)) /\ Holds(at + w, x)
  BY <1>1, <1>3, HoldsBoth DEF Prefixed
<1>6. Holds(at, BigEndian(n, w)) <=> at + w <= l /\ Num(at, w) = n
  BY <1>1, <1>2, HoldsNumber
<1>7. Holds(at + w, x) <=> at + w + n <= l /\ Taken(at + w, n) = x
  BY <1>1 DEF Holds
<1>8. Len(Content(at)) = Num(at, w) /\ Content(at) = Taken(at + w, Num(at, w))
  BY <1>1, ContentType DEF Content
<1>9. at + w + n <= l => at + w <= l
  OBVIOUS
<1>10. QED
  BY <1>1, <1>5, <1>6, <1>7, <1>8, <1>9

(* Later fields begin no earlier.                                          *)
LEMMA PlacesRise ==
  ASSUME input \in Seq(Byte), NEW j \in Nat \ {0}, NEW n \in Nat
  PROVE  Place[j] <= Place[j + n]
<1> DEFINE T == {i \in 0..n : Place[j] <= Place[j + i]}
<1>1. 0 \in T
  <2>1. j + 0 = j /\ Place[j] \in Nat
    BY PlaceType
  <2>2. QED
    BY <2>1
<1>2. ASSUME NEW i \in 0..(n - 1), i \in T PROVE i + 1 \in T
  <2>1. /\ i + 1 \in 0..n /\ j + i \in Nat \ {0} /\ j + (i + 1) = (j + i) + 1
        /\ Place[j] <= Place[j + i]
    BY <1>2
  <2>2. /\ Place[(j + i) + 1] = Following(Field(j + i), Place[j + i])
        /\ Place[j + i] \in Nat /\ Place[j] \in Nat /\ Field(j + i) \in Fields
    BY <2>1, PlaceSteps, FieldNames
  <2>3. Following(Field(j + i), Place[j + i]) \in Nat
        /\ Place[j + i] <= Following(Field(j + i), Place[j + i])
    BY <2>2, FollowingType
  <2>4. PICK a \in Nat, b \in Nat, c \in Nat :
          a = Place[j] /\ b = Place[j + i] /\ c = Place[j + (i + 1)] /\ a <= b /\ b <= c
    BY <2>1, <2>2, <2>3
  <2>5. Place[j] <= Place[j + (i + 1)]
    BY <2>4
  <2>6. QED
    BY <2>1, <2>5
<1>3. \A i \in 0..n : i \in T
  <2> HIDE DEF T
  <2>1. QED
    BY <1>1, <1>2, Induction
<1>4. QED
  BY <1>3

(* A label takes its length and what that says.                            *)
LEMMA LabelsGrow ==
  ASSUME input \in Seq(Byte), NEW n \in Nat
  PROVE  Place[8] + n * CountBytes <= Place[8 + n]
<1> DEFINE T == {i \in 0..n : Place[8] + i * CountBytes <= Place[8 + i]}
<1>1. 0 \in T
  <2>1. Place[8] \in Nat /\ CountBytes \in Nat
    BY PlaceType, WidthsType
  <2>2. QED
    BY <2>1
<1>2. ASSUME NEW i \in 0..(n - 1), i \in T PROVE i + 1 \in T
  <2>1. /\ i + 1 \in 0..n /\ 8 + i \in Nat \ {0} /\ 8 + i > 7 /\ 8 + (i + 1) = (8 + i) + 1
        /\ Place[8] + i * CountBytes <= Place[8 + i]
    BY <1>2
  <2>2. Place[(8 + i) + 1] = Place[8 + i] + CountBytes + Num(Place[8 + i], CountBytes)
    BY <2>1, PlaceOfLabel
  <2>3. /\ Place[8 + i] \in Nat /\ Place[8] \in Nat /\ CountBytes \in Nat
        /\ Place[8 + (i + 1)] \in Nat
    <3>1. 8 + (i + 1) \in Nat \ {0}
      BY <2>1
    <3>2. QED
      BY <2>1, <3>1, PlaceType, WidthsType
  <2>4. Num(Place[8 + i], CountBytes) \in Nat
    BY <2>3, NumType
  <2>5. PICK a \in Nat, b \in Nat, c \in Nat, w \in Nat, l \in Nat :
          /\ a = Place[8] /\ b = Place[8 + i] /\ c = Place[8 + (i + 1)] /\ w = CountBytes
          /\ l = Num(Place[8 + i], CountBytes)
    BY <2>1, <2>2, <2>3, <2>4
  <2>6. c = b + w + l /\ a + i * w <= b
    BY <2>1, <2>2, <2>5
  <2>7. (i + 1) * w = i * w + w /\ i * w \in Nat
    OBVIOUS
  <2>8. a + (i + 1) * w <= c
    BY <2>6, <2>7
  <2>9. QED
    BY <2>1, <2>5, <2>8
<1>3. \A i \in 0..n : i \in T
  <2> HIDE DEF T
  <2>1. QED
    BY <1>1, <1>2, Induction
<1>4. QED
  BY <1>3

(* Labels one behind the other, as an encoder writes them.                 *)
Written(ls) == FlattenSeq([i \in DOMAIN ls |-> Prefixed(ls[i])])

(* Labels whose lengths can be written.                                    *)
Short(ls) == \A i \in 1..Len(ls) : Len(ls[i]) < Power[CountBytes]

(* The labels are written one behind the other.                            *)
LEMMA WrittenSteps ==
  ASSUME NEW ls \in Seq(Seq(Byte))
  PROVE  /\ Written(ls) \in Seq(Byte)
         /\ \E f : /\ f \in [0..Len(ls) -> Seq(Byte)] /\ f[0] = <<>>
                   /\ \A k \in 1..Len(ls) : f[k] = f[k - 1] \o Prefixed(ls[k])
                   /\ Written(ls) = f[Len(ls)]
<1> DEFINE n == Len(ls)
           parts == [i \in DOMAIN ls |-> Prefixed(ls[i])]
<1>1. n \in Nat /\ DOMAIN ls = 1..n /\ \A i \in 1..n : ls[i] \in Seq(Byte)
  OBVIOUS
<1>2. \A i \in 1..n : Prefixed(ls[i]) \in Seq(Byte)
  BY <1>1, PrefixedType
<1>3. parts \in Seq(Seq(Byte)) /\ Len(parts) = n /\ \A i \in 1..n : parts[i] = Prefixed(ls[i])
  <2>1. parts \in [1..n -> Seq(Byte)]
    BY <1>1, <1>2
  <2>2. parts \in Seq(Seq(Byte)) /\ Len(parts) = n
    BY <1>1, <2>1
  <2>3. QED
    BY <1>1, <2>2
<1> HIDE DEF parts
<1>4. PICK f : /\ f \in [0..Len(parts) -> Seq(Byte)] /\ f[0] = <<>>
               /\ \A k \in 1..Len(parts) : f[k] = f[k - 1] \o parts[k]
               /\ FlattenSeq(parts) = f[Len(parts)]
  BY <1>3, FlattenSteps
<1>5. Written(ls) = f[n]
  BY <1>3, <1>4 DEF Written, parts
<1>6. f[n] \in Seq(Byte)
  BY <1>1, <1>3, <1>4
<1>7. \A k \in 1..n : f[k] = f[k - 1] \o Prefixed(ls[k])
  BY <1>3, <1>4
<1>8. f \in [0..n -> Seq(Byte)] /\ f[0] = <<>>
  BY <1>3, <1>4
<1> HIDE DEF n
<1>9. QED
  BY <1>5, <1>6, <1>7, <1>8 DEF n

(* What stands at a place, label by label: on the left as it is read, on   *)
(* the right as it is written.                                             *)
LEMMA LabelsRead ==
  ASSUME input \in Seq(Byte), NEW ls \in Seq(Seq(Byte)), Short(ls), Holds(Place[8], Written(ls))
  PROVE  /\ \A k \in 1..Len(ls) : Content(Place[7 + k]) = ls[k]
         /\ Place[8 + Len(ls)] = Place[8] + Len(Written(ls))
<1> DEFINE n == Len(ls)
<1>1. PICK f : /\ f \in [0..n -> Seq(Byte)] /\ f[0] = <<>>
               /\ \A k \in 1..n : f[k] = f[k - 1] \o Prefixed(ls[k])
               /\ Written(ls) = f[n]
  BY WrittenSteps
<1>2. /\ n \in Nat /\ \A k \in 1..n : ls[k] \in Seq(Byte) /\ Len(ls[k]) < Power[CountBytes]
      /\ Holds(Place[8], f[n])
  BY <1>1 DEF Short
<1>3. Place[8] \in Nat
  BY PlaceType
<1> HIDE DEF n
<1> DEFINE T == {j \in 0..n : Holds(Place[8], f[n - j])}
<1>4. 0 \in T
  <2>1. n - 0 = n
    BY <1>2
  <2>2. QED
    BY <1>2, <2>1
<1>5. ASSUME NEW j \in 0..(n - 1), j \in T PROVE j + 1 \in T
  <2>1. /\ j + 1 \in 0..n /\ n - j \in 1..n /\ (n - j) - 1 = n - (j + 1)
        /\ n - (j + 1) \in 0..n
    BY <1>2
  <2>2. f[n - j] = f[n - (j + 1)] \o Prefixed(ls[n - j]) /\ f[n - (j + 1)] \in Seq(Byte)
    BY <1>1, <2>1
  <2>3. Prefixed(ls[n - j]) \in Seq(Byte)
    BY <1>2, <2>1, PrefixedType
  <2>4. Holds(Place[8], f[n - j])
    BY <1>5
  <2>5. Holds(Place[8], f[n - (j + 1)])
    BY <1>3, <2>2, <2>3, <2>4, HoldsBoth
  <2>6. QED
    BY <2>1, <2>5
<1>6. \A j \in 0..n : j \in T
  <2> HIDE DEF T
  <2>1. QED
    BY <1>2, <1>4, <1>5, Induction
<1>7. ASSUME NEW k \in 0..n PROVE Holds(Place[8], f[k])
  <2>1. n - k \in 0..n /\ n - (n - k) = k
    BY <1>2
  <2>2. QED
    BY <1>6, <2>1
<1> HIDE DEF T
<1> DEFINE U == {k \in 0..n : Place[8 + k] = Place[8] + Len(f[k])}
<1>8. 0 \in U
  <2>1. Len(f[0]) = 0 /\ 8 + 0 = 8 /\ 0 \in 0..n
    BY <1>1, <1>2
  <2>2. QED
    BY <1>3, <2>1
<1>9. ASSUME NEW k \in 0..(n - 1), k \in U
      PROVE  k + 1 \in U /\ Content(Place[8 + k]) = ls[k + 1]
  <2>1. /\ k + 1 \in 0..n /\ k + 1 \in 1..n /\ (k + 1) - 1 = k /\ k \in 0..n
        /\ 8 + k \in Nat \ {0} /\ 8 + k > 7 /\ 8 + (k + 1) = (8 + k) + 1
    BY <1>2
  <2>2. Place[8 + k] = Place[8] + Len(f[k])
    BY <1>9
  <2>3. f[k + 1] = f[k] \o Prefixed(ls[k + 1]) /\ f[k] \in Seq(Byte)
    BY <1>1, <2>1
  <2>4. /\ ls[k + 1] \in Seq(Byte) /\ Len(ls[k + 1]) < Power[CountBytes]
        /\ Prefixed(ls[k + 1]) \in Seq(Byte)
        /\ Len(Prefixed(ls[k + 1])) = CountBytes + Len(ls[k + 1])
    BY <1>2, <2>1, PrefixedType
  <2>5. Holds(Place[8], f[k] \o Prefixed(ls[k + 1]))
    BY <1>7, <2>1, <2>3
  <2>6. Holds(Place[8] + Len(f[k]), Prefixed(ls[k + 1]))
    BY <1>3, <2>3, <2>4, <2>5, HoldsBoth
  <2>7. Place[8 + k] \in Nat
    BY <2>1, PlaceType
  <2>8. Content(Place[8 + k]) = ls[k + 1]
    BY <2>2, <2>4, <2>6, <2>7, HoldsPrefixed
  <2>9. Num(Place[8 + k], CountBytes) = Len(ls[k + 1])
    BY <2>7, <2>8, ContentType
  <2>10. Place[(8 + k) + 1] = Place[8 + k] + CountBytes + Num(Place[8 + k], CountBytes)
    BY <2>1, PlaceOfLabel
  <2>11. Len(f[k + 1]) = Len(f[k]) + (CountBytes + Len(ls[k + 1]))
    <3>1. Len(f[k] \o Prefixed(ls[k + 1])) = Len(f[k]) + Len(Prefixed(ls[k + 1]))
      BY <2>3, <2>4, BothTogether
    <3>2. QED
      BY <2>3, <2>4, <3>1
  <2>12. PICK a \in Nat, b \in Nat, w \in Nat, l \in Nat :
           a = Place[8] /\ b = Len(f[k]) /\ w = CountBytes /\ l = Len(ls[k + 1])
    BY <1>3, <2>3, <2>4, WidthsType, LenProperties
  <2>13. (a + b) + w + l = a + (b + (w + l))
    OBVIOUS
  <2>14. Place[8 + (k + 1)] = Place[8] + Len(f[k + 1])
    <3>1. Place[8 + (k + 1)] = (a + b) + w + l
      BY <2>1, <2>2, <2>9, <2>10, <2>12
    <3>2. Place[8] + Len(f[k + 1]) = a + (b + (w + l))
      BY <2>11, <2>12
    <3>3. QED
      BY <2>13, <3>1, <3>2
  <2>15. QED
    BY <2>1, <2>8, <2>14
<1>10. \A k \in 0..n : k \in U
  <2> HIDE DEF U
  <2>1. QED
    BY <1>2, <1>8, <1>9, Induction
<1>11. ASSUME NEW k \in 1..n PROVE Content(Place[7 + k]) = ls[k]
  <2>1. k - 1 \in 0..(n - 1) /\ k - 1 \in 0..n /\ (k - 1) + 1 = k /\ 8 + (k - 1) = 7 + k
    BY <1>2
  <2>2. k - 1 \in U
    BY <1>10, <2>1
  <2> HIDE DEF U
  <2>3. QED
    BY <1>9, <2>1, <2>2
<1>12. n \in U
  <2>1. n \in 0..n
    BY <1>2
  <2> HIDE DEF U
  <2>2. QED
    BY <1>10, <2>1
<1>13. QED
  BY <1>1, <1>11, <1>12 DEF n

(* If those labels are read and the input goes as far, it holds them.      *)
LEMMA LabelsWritten ==
  ASSUME input \in Seq(Byte), NEW ls \in Seq(Seq(Byte)), Short(ls),
         \A k \in 1..Len(ls) : Content(Place[7 + k]) = ls[k],
         Place[8 + Len(ls)] <= Len(input)
  PROVE  Holds(Place[8], Written(ls)) /\ Place[8 + Len(ls)] = Place[8] + Len(Written(ls))
<1> DEFINE n == Len(ls)
<1>1. PICK f : /\ f \in [0..n -> Seq(Byte)] /\ f[0] = <<>>
               /\ \A k \in 1..n : f[k] = f[k - 1] \o Prefixed(ls[k])
               /\ Written(ls) = f[n]
  BY WrittenSteps
<1>2. /\ n \in Nat /\ \A k \in 1..n : ls[k] \in Seq(Byte) /\ Len(ls[k]) < Power[CountBytes]
      /\ \A k \in 1..n : Content(Place[7 + k]) = ls[k]
      /\ Place[8 + n] <= Len(input)
  BY DEF Short
<1>3. Place[8] \in Nat /\ Len(input) \in Nat
  BY PlaceType, LenProperties
<1> HIDE DEF n
<1> DEFINE U == {k \in 0..n : Holds(Place[8], f[k]) /\ Place[8 + k] = Place[8] + Len(f[k])}
<1>4. ASSUME NEW k \in 0..n PROVE Place[8 + k] <= Len(input) /\ Place[8 + k] \in Nat
  <2>1. 8 + k \in Nat \ {0} /\ n - k \in Nat /\ (8 + k) + (n - k) = 8 + n /\ 8 + n \in Nat \ {0}
    BY <1>2
  <2>2. Place[8 + k] <= Place[8 + n]
    <3>1. Place[8 + k] <= Place[(8 + k) + (n - k)]
      BY <2>1, PlacesRise
    <3>2. QED
      BY <2>1, <3>1
  <2>3. Place[8 + k] \in Nat /\ Place[8 + n] \in Nat
    BY <2>1, PlaceType
  <2>4. PICK a \in Nat, b \in Nat, c \in Nat :
          a = Place[8 + k] /\ b = Place[8 + n] /\ c = Len(input) /\ a <= b /\ b <= c
    BY <1>2, <1>3, <2>2, <2>3
  <2>5. QED
    BY <2>4
<1>5. 0 \in U
  <2>1. Len(f[0]) = 0 /\ 8 + 0 = 8 /\ 0 \in 0..n
    BY <1>1, <1>2
  <2>2. Holds(Place[8], <<>>)
    <3>1. Place[8] + 0 <= Len(input) /\ Len(<<>>) = 0
      BY <1>3, <1>4, <2>1
    <3>2. Taken(Place[8], 0) = <<>>
      <4>1. Taken(Place[8], 0) \in Seq(Byte) /\ Len(Taken(Place[8], 0)) = 0
        BY <1>3, TakenType
      <4>2. QED
        BY <4>1
    <3>3. QED
      BY <3>1, <3>2 DEF Holds
  <2>3. QED
    BY <1>1, <1>3, <2>1, <2>2
<1>6. ASSUME NEW k \in 0..(n - 1), k \in U PROVE k + 1 \in U
  <2>1. /\ k + 1 \in 0..n /\ k + 1 \in 1..n /\ (k + 1) - 1 = k /\ k \in 0..n /\ 7 + (k + 1) = 8 + k
        /\ 8 + k \in Nat \ {0} /\ 8 + k > 7 /\ 8 + (k + 1) = (8 + k) + 1
    BY <1>2
  <2>2. Place[8 + k] = Place[8] + Len(f[k]) /\ Holds(Place[8], f[k])
    BY <1>6
  <2>3. f[k + 1] = f[k] \o Prefixed(ls[k + 1]) /\ f[k] \in Seq(Byte)
    BY <1>1, <2>1
  <2>4. /\ ls[k + 1] \in Seq(Byte) /\ Len(ls[k + 1]) < Power[CountBytes]
        /\ Prefixed(ls[k + 1]) \in Seq(Byte)
        /\ Len(Prefixed(ls[k + 1])) = CountBytes + Len(ls[k + 1])
    BY <1>2, <2>1, PrefixedType
  <2>5. Place[8 + k] \in Nat /\ Place[8 + (k + 1)] <= Len(input)
    BY <1>4, <2>1
  <2>6. Content(Place[8 + k]) = ls[k + 1]
    BY <1>2, <2>1
  <2>7. Place[(8 + k) + 1] = Place[8 + k] + CountBytes + Num(Place[8 + k], CountBytes)
    BY <2>1, PlaceOfLabel
  <2>8. Holds(Place[8 + k], Prefixed(ls[k + 1]))
    BY <2>1, <2>4, <2>5, <2>6, <2>7, HoldsPrefixed
  <2>9. Holds(Place[8], f[k] \o Prefixed(ls[k + 1]))
    BY <1>3, <2>2, <2>3, <2>4, <2>8, HoldsBoth, SMTT(30)
  <2>10. Num(Place[8 + k], CountBytes) = Len(ls[k + 1])
    BY <2>5, <2>6, ContentType
  <2>11. Len(f[k + 1]) = Len(f[k]) + (CountBytes + Len(ls[k + 1]))
    <3>1. Len(f[k] \o Prefixed(ls[k + 1])) = Len(f[k]) + Len(Prefixed(ls[k + 1]))
      BY <2>3, <2>4, BothTogether
    <3>2. QED
      BY <2>3, <2>4, <3>1
  <2>12. PICK a \in Nat, b \in Nat, w \in Nat, l \in Nat :
           a = Place[8] /\ b = Len(f[k]) /\ w = CountBytes /\ l = Len(ls[k + 1])
    BY <1>3, <2>3, <2>4, WidthsType, LenProperties
  <2>13. (a + b) + w + l = a + (b + (w + l))
    OBVIOUS
  <2>14. Place[8 + (k + 1)] = Place[8] + Len(f[k + 1])
    <3>1. Place[8 + (k + 1)] = (a + b) + w + l
      BY <2>1, <2>2, <2>7, <2>10, <2>12
    <3>2. Place[8] + Len(f[k + 1]) = a + (b + (w + l))
      BY <2>11, <2>12
    <3>3. QED
      BY <2>13, <3>1, <3>2
  <2>15. QED
    BY <2>1, <2>3, <2>9, <2>14
<1>7. n \in U
  <2>1. n \in 0..n
    BY <1>2
  <2> HIDE DEF U
  <2>2. \A k \in 0..n : k \in U
    BY <1>2, <1>5, <1>6, Induction
  <2>3. QED
    BY <2>1, <2>2
<1>8. QED
  BY <1>1, <1>7 DEF n

(* To hold a record up to the next piece is to hold it so far and the      *)
(* piece behind it.                                                        *)
LEMMA HoldsNext ==
  ASSUME input \in Seq(Byte), NEW x \in Seq(Byte), NEW y \in Seq(Byte), NEW p \in Nat, p = Len(x)
  PROVE  /\ x \o y \in Seq(Byte) /\ Len(x \o y) = p + Len(y)
         /\ Holds(0, x \o y) <=> Holds(0, x) /\ Holds(p, y)
<1>1. x \o y \in Seq(Byte) /\ Len(x \o y) = p + Len(y)
  BY BothTogether
<1>2. Holds(0, x \o y) <=> Holds(0, x) /\ Holds(0 + Len(x), y)
  BY HoldsBoth
<1>3. 0 + Len(x) = p
  OBVIOUS
<1>4. QED
  BY <1>1, <1>2, <1>3

(* To hold a time is to read that there is one, and which.                 *)
LEMMA HoldsTime ==
  ASSUME input \in Seq(Byte), NEW at \in Nat, NEW time \in Timestamp
  PROVE  /\ time # None /\ ObservedAt(time) \in Seq(Byte)
         /\ Len(ObservedAt(time)) = 1 + SecondsBytes + NanosBytes
         /\ Holds(at, ObservedAt(time)) <=>
              /\ at + 1 + SecondsBytes + NanosBytes <= Len(input) /\ Num(at, 1) = 1
              /\ Signed(Taken(at + 1, SecondsBytes)) = time.seconds
              /\ Num(at + 1 + SecondsBytes, NanosBytes) = time.nanos
<1>1. /\ time.seconds \in Int /\ InRange(time.seconds, SecondsBytes)
      /\ time.nanos \in 0..(Power[NanosBytes] - 1) /\ time.nanos \in Nat
      /\ time = [seconds |-> time.seconds, nanos |-> time.nanos]
  <2>1. Power[NanosBytes] \in Nat
    BY PowerType, WidthsType
  <2>2. /\ time.seconds \in -(Power[SecondsBytes] \div 2)..((Power[SecondsBytes] - 1) \div 2)
        /\ time.nanos \in 0..(Power[NanosBytes] - 1)
        /\ time = [seconds |-> time.seconds, nanos |-> time.nanos]
    BY DEF Timestamp
  <2>3. InRange(time.seconds, SecondsBytes)
    BY <2>2 DEF InRange
  <2>4. time.seconds \in Int
    BY <2>3, WidthsType, SignedReadAsWritten
  <2>5. QED
    BY <2>1, <2>2, <2>3, <2>4
<1>2. time # None
  <2>1. time \in [seconds : Int, nanos : Nat]
    BY <1>1
  <2>2. QED
    BY <2>1, BindingsAssumption
<1>3. PICK v \in Nat, w \in Nat, l \in Nat, q \in Nat, r \in Nat :
        /\ v = SecondsBytes /\ w = NanosBytes /\ l = Len(input) /\ q = at + 1 /\ r = at + 1 + v
  <2>1. Len(input) \in Nat
    BY LenProperties
  <2>2. PICK v \in Nat : v = SecondsBytes
    BY WidthsType
  <2>3. at + 1 + v \in Nat /\ at + 1 \in Nat
    OBVIOUS
  <2>4. NanosBytes \in Nat
    BY WidthsType
  <2>5. QED
    BY <2>1, <2>2, <2>3, <2>4
<1>4. PICK x \in Seq(Byte), y \in Seq(Byte) :
        /\ x = BigEndian(time.seconds, v) /\ Len(x) = v
        /\ y = BigEndian(time.nanos, w) /\ Len(y) = w
  <2>1. BigEndian(time.seconds, v) \in Seq(Byte) /\ Len(BigEndian(time.seconds, v)) = v
    BY <1>1, BigEndianType
  <2>2. time.nanos \in Int
    BY <1>1
  <2>3. BigEndian(time.nanos, w) \in Seq(Byte) /\ Len(BigEndian(time.nanos, w)) = w
    BY <2>2, BigEndianType
  <2>4. QED
    BY <2>1, <2>3
<1>5. 1 \in Byte /\ <<1>> \in Seq(Byte) /\ Len(<<1>>) = 1
  BY WidthsType DEF Byte
<1>6. ObservedAt(time) = <<1>> \o x \o y
  BY <1>2, <1>3, <1>4 DEF ObservedAt
<1>7. <<1>> \o x \in Seq(Byte) /\ Len(<<1>> \o x) = 1 + v
  BY <1>4, <1>5, BothTogether
<1>8. <<1>> \o x \o y \in Seq(Byte) /\ Len(<<1>> \o x \o y) = 1 + v + w
  BY <1>4, <1>7, BothTogether
<1>9. Holds(at, <<1>> \o x \o y) <=> Holds(at, <<1>>) /\ Holds(q, x) /\ Holds(r, y)
  <2>1. Holds(at, <<1>> \o x \o y) <=> Holds(at, <<1>> \o x) /\ Holds(at + Len(<<1>> \o x), y)
    BY <1>4, <1>7, HoldsBoth
  <2>2. Holds(at, <<1>> \o x) <=> Holds(at, <<1>>) /\ Holds(at + Len(<<1>>), x)
    BY <1>4, <1>5, HoldsBoth
  <2>3. at + Len(<<1>> \o x) = r /\ at + Len(<<1>>) = q
    BY <1>3, <1>5, <1>7
  <2>4. QED
    BY <2>1, <2>2, <2>3
<1>10. Holds(at, <<1>>) <=> at + 1 <= l /\ Num(at, 1) = 1
  BY <1>3, <1>5, HoldsByte
<1>11. Holds(q, x) <=> q + v <= l /\ Signed(Taken(q, v)) = time.seconds
  BY <1>1, <1>3, <1>4, HoldsSigned
<1>12. Holds(r, y) <=> r + w <= l /\ Num(r, w) = time.nanos
  BY <1>1, <1>3, <1>4, HoldsNumber
<1>13. at + 1 + v + w <= l <=> (at + 1 <= l /\ q + v <= l /\ r + w <= l)
  BY <1>3
<1>14. /\ at + 1 + SecondsBytes + NanosBytes = at + 1 + v + w
       /\ at + 1 = q /\ at + 1 + SecondsBytes = r /\ 1 + SecondsBytes + NanosBytes = 1 + v + w
  BY <1>3
<1>15. QED
  BY <1>2, <1>3, <1>6, <1>8, <1>9, <1>10, <1>11, <1>12, <1>13, <1>14

(* To hold no time is to read that there is none.                          *)
LEMMA HoldsNoTime ==
  ASSUME input \in Seq(Byte), NEW at \in Nat
  PROVE  /\ ObservedAt(None) \in Seq(Byte) /\ Len(ObservedAt(None)) = 1
         /\ Holds(at, ObservedAt(None)) <=> at + 1 <= Len(input) /\ Num(at, 1) = 0
<1>1. 0 \in Byte /\ <<0>> \in Seq(Byte) /\ Len(<<0>>) = 1
  BY WidthsType DEF Byte
<1>2. ObservedAt(None) = <<0>>
  BY DEF ObservedAt
<1>3. QED
  BY <1>1, <1>2, HoldsByte

(* To hold the two enumerations is to read them.                           *)
LEMMA HoldsPair ==
  ASSUME input \in Seq(Byte), NEW at \in Nat, NEW x \in Byte, NEW y \in Byte
  PROVE  /\ <<x, y>> \in Seq(Byte) /\ Len(<<x, y>>) = 2
         /\ Holds(at, <<x, y>>) <=> at + 2 <= Len(input) /\ Num(at, 1) = x /\ Num(at + 1, 1) = y
<1>1. <<x>> \in Seq(Byte) /\ <<y>> \in Seq(Byte) /\ <<x, y>> \in Seq(Byte) /\ Len(<<x, y>>) = 2
      /\ Len(<<x>>) = 1
  OBVIOUS
<1>2. <<x, y>> = <<x>> \o <<y>>
  <2>1. /\ <<x>> \o <<y>> \in Seq(Byte) /\ Len(<<x>> \o <<y>>) = 2
        /\ \A i \in 1..2 : (<<x>> \o <<y>>)[i] = IF i <= 1 THEN <<x>>[i] ELSE <<y>>[i - 1]
    BY <1>1, ConcatProperties
  <2>2. (<<x>> \o <<y>>)[1] = x /\ (<<x>> \o <<y>>)[2] = y
    BY <2>1
  <2>3. PICK s \in Seq(Byte) : s = <<x>> \o <<y>> /\ Len(s) = 2 /\ s[1] = x /\ s[2] = y
    BY <2>1, <2>2
  <2>4. s = <<x, y>>
    <3>1. PICK t \in Seq(Byte) : t = <<x, y>> /\ Len(t) = 2 /\ t[1] = x /\ t[2] = y
      BY <1>1
    <3>2. ASSUME NEW i \in 1..2 PROVE s[i] = t[i]
      <4>1. i = 1 \/ i = 2
        OBVIOUS
      <4>2. QED
        BY <2>3, <3>1, <4>1
    <3>3. s = t
      BY <2>3, <3>1, <3>2, SeqEqual
    <3>4. QED
      BY <3>1, <3>3
  <2>5. QED
    BY <2>3, <2>4
<1>3. PICK q \in Nat, l \in Nat : q = at + 1 /\ l = Len(input)
  <2>1. Len(input) \in Nat
    BY LenProperties
  <2>2. QED
    BY <2>1
<1>4. Holds(at, <<x>> \o <<y>>) <=> Holds(at, <<x>>) /\ Holds(at + Len(<<x>>), <<y>>)
  BY <1>1, HoldsBoth
<1>5. Holds(at, <<x>>) <=> at + 1 <= l /\ Num(at, 1) = x
  BY <1>3, HoldsByte
<1>6. Holds(q, <<y>>) <=> q + 1 <= l /\ Num(q, 1) = y
  BY <1>3, HoldsByte
<1>7. at + 2 <= l <=> at + 1 <= l /\ q + 1 <= l
  BY <1>3
<1>8. QED
  BY <1>1, <1>2, <1>3, <1>4, <1>5, <1>6, <1>7

-----------------------------------------------------------------------------
(* Records.                                                                *)

(* A binding, and the labels it is written with, that fit into a record.   *)
Writable(b, ls) ==
  /\ b \in EvidenceBinding
  /\ b.observed_at # None => b.observed_at.nanos < NanosLimit
  /\ Len(b.candidate_id) < Power[CountBytes] /\ Len(b.raw_path) < Power[CountBytes]
  /\ ls \in Seq(Utf8) /\ Len(ls) < Power[CountBytes] /\ Short(ls)

(* What the input says where it is laid out so.                            *)
SaysTime(at, time) ==
  IF time = None THEN Num(at.variant, 1) = 0
  ELSE /\ Num(at.variant, 1) = 1 /\ Signed(Taken(at.seconds, SecondsBytes)) = time.seconds
       /\ Num(at.nanos, NanosBytes) = time.nanos

(* The binding, field by field.                                            *)
Says(at, b, ls) ==
  /\ Taken(0, Len(Magic)) = Magic /\ Num(Len(Magic), VersionBytes) = Version
  /\ Content(at.id) = b.candidate_id /\ Content(at.path) = b.raw_path
  /\ Num(at.logical, LogicalBytes) = b.logical_bytes
  /\ SaysTime(at, b.observed_at)
  /\ Num(at.activity, 1) = b.activity /\ Num(at.coverage, 1) = b.coverage
  /\ at.count = Len(ls) /\ \A k \in 1..Len(ls) : Content(Place[7 + k]) = ls[k]

(* Texts are bytes.                                                        *)
LEMMA Utf8IsBytes ==
  /\ Utf8 \subseteq Seq(Byte)
  /\ \A ls \in Seq(Utf8) : ls \in Seq(Seq(Byte)) /\ \A k \in 1..Len(ls) : IsUtf8(ls[k])
<1>1. \A x \in Utf8 : x \in Seq(Byte) /\ IsUtf8(x)
  BY DEF Utf8
<1>2. ASSUME NEW ls \in Seq(Utf8)
      PROVE  ls \in Seq(Seq(Byte)) /\ \A k \in 1..Len(ls) : IsUtf8(ls[k])
  <2>1. Len(ls) \in Nat /\ ls \in [1..Len(ls) -> Utf8]
    BY LenProperties
  <2>2. ls \in [1..Len(ls) -> Seq(Byte)]
    BY <1>1, <2>1
  <2>3. QED
    BY <1>1, <2>1, <2>2
<1>3. QED
  BY <1>1, <1>2

(* What is in a binding that fits into a record.                           *)
LEMMA WritableTypes ==
  ASSUME NEW b, NEW ls, Writable(b, ls)
  PROVE  /\ b.candidate_id \in Seq(Byte) /\ b.raw_path \in Seq(Byte)
         /\ IsUtf8(b.candidate_id)
         /\ Len(b.candidate_id) \in Nat /\ Len(b.raw_path) \in Nat /\ Len(ls) \in Nat
         /\ b.logical_bytes \in 0..(Power[LogicalBytes] - 1)
         /\ b.observed_at \in Timestamp \cup {None}
         /\ b.activity \in 0..LastActivity /\ b.coverage \in 0..LastCoverage
         /\ b.activity \in Byte /\ b.coverage \in Byte
         /\ ls \in Seq(Seq(Byte)) /\ Short(ls)
         /\ Len(ls) \in 0..(Power[CountBytes] - 1)
         /\ \A k \in 1..Len(ls) : IsUtf8(ls[k])
<1>1. /\ b.candidate_id \in Utf8 /\ b.raw_path \in Seq(Byte)
      /\ b.logical_bytes \in 0..(Power[LogicalBytes] - 1)
      /\ b.observed_at \in Timestamp \cup {None}
      /\ b.activity \in 0..LastActivity /\ b.coverage \in 0..LastCoverage
  BY DEF Writable, EvidenceBinding
<1>2. b.candidate_id \in Seq(Byte) /\ IsUtf8(b.candidate_id)
  BY <1>1 DEF Utf8
<1>3. /\ ls \in Seq(Seq(Byte)) /\ Short(ls) /\ \A k \in 1..Len(ls) : IsUtf8(ls[k])
      /\ Len(ls) < Power[CountBytes]
  BY Utf8IsBytes DEF Writable
<1>4. Len(b.candidate_id) \in Nat /\ Len(b.raw_path) \in Nat /\ Len(ls) \in Nat
  BY <1>1, <1>2, <1>3, LenProperties
<1>5. Power[CountBytes] \in Nat
  BY PowerType, WidthsType
<1>6. Len(ls) \in 0..(Power[CountBytes] - 1)
  BY <1>3, <1>4, <1>5
<1>7. b.activity \in Byte /\ b.coverage \in Byte
  <2>1. /\ LastActivity \in 0..(Base - 1) /\ LastCoverage \in 0..(Base - 1) /\ Base \in Nat
    BY FormatAssumption, WidthsType DEF Byte
  <2>2. QED
    BY <1>1, <2>1 DEF Byte
<1>8. QED
  BY <1>1, <1>2, <1>3, <1>4, <1>6, <1>7

(* To hold the time of a binding, or that it has none, is to read it.      *)
LEMMA TimeIsRead ==
  ASSUME input \in Seq(Byte), NEW at, at.variant \in Nat, at.seconds = at.variant + 1,
         at.nanos = at.variant + 1 + SecondsBytes, NEW time \in Timestamp \cup {None}
  PROVE  /\ ObservedAt(time) \in Seq(Byte) /\ Len(ObservedAt(time)) \in Nat
         /\ Holds(at.variant, ObservedAt(time)) <=>
              /\ at.variant + Len(ObservedAt(time)) <= Len(input) /\ SaysTime(at, time)
         /\ SaysTime(at, time) =>
              Len(ObservedAt(time)) = 1 + IF Num(at.variant, 1) = 1 THEN SecondsBytes + NanosBytes ELSE 0
<1>1. CASE time = None
  <2>1. /\ ObservedAt(None) \in Seq(Byte) /\ Len(ObservedAt(None)) = 1
        /\ Holds(at.variant, ObservedAt(None)) <=>
             at.variant + 1 <= Len(input) /\ Num(at.variant, 1) = 0
    BY HoldsNoTime
  <2>2. SaysTime(at, time) <=> Num(at.variant, 1) = 0
    BY <1>1 DEF SaysTime
  <2>3. QED
    BY <1>1, <2>1, <2>2
<1>2. CASE time # None
  <2>1. time \in Timestamp
    BY <1>2
  <2>2. PICK p \in Nat, v \in Nat, w \in Nat, l \in Nat :
          p = at.variant /\ v = SecondsBytes /\ w = NanosBytes /\ l = Len(input)
    BY WidthsType, LenProperties
  <2>3. /\ ObservedAt(time) \in Seq(Byte)
        /\ Len(ObservedAt(time)) = 1 + v + w
        /\ Holds(p, ObservedAt(time)) <=>
             /\ p + 1 + v + w <= l /\ Num(p, 1) = 1
             /\ Signed(Taken(p + 1, v)) = time.seconds /\ Num(p + 1 + v, w) = time.nanos
    BY <2>1, <2>2, HoldsTime
  <2>4. SaysTime(at, time) <=> /\ Num(p, 1) = 1 /\ Signed(Taken(p + 1, v)) = time.seconds
                               /\ Num(p + 1 + v, w) = time.nanos
    BY <1>2, <2>2 DEF SaysTime
  <2>5. p + (1 + v + w) = p + 1 + v + w /\ 1 + v + w = 1 + (v + w) /\ 1 + v + w \in Nat
    OBVIOUS
  <2>6. QED
    BY <2>2, <2>3, <2>4, <2>5
<1>3. QED
  BY <1>1, <1>2

(* Places that follow each other as the parts of this binding do.          *)
Spread(b, id, raw, logical, variant, activity, labels, label) ==
  /\ id \in Nat /\ raw \in Nat /\ logical \in Nat /\ variant \in Nat
  /\ activity \in Nat /\ labels \in Nat /\ label \in Nat
  /\ id = Len(Magic) + VersionBytes /\ raw = id + (CountBytes + Len(b.candidate_id))
  /\ logical = raw + (CountBytes + Len(b.raw_path)) /\ variant = logical + LogicalBytes
  /\ activity = variant + Len(ObservedAt(b.observed_at)) /\ labels = activity + 2
  /\ label = labels + CountBytes /\ ObservedAt(b.observed_at) \in Seq(Byte)

(* To hold a record is to hold each of its parts where it belongs.         *)
LEMMA RecordParts ==
  ASSUME input \in Seq(Byte), NEW b, NEW ls, Writable(b, ls),
         NEW id, NEW raw, NEW logical, NEW variant, NEW activity, NEW labels, NEW label,
         Spread(b, id, raw, logical, variant, activity, labels, label)
  PROVE  /\ Record(b, ls) \in Seq(Byte) /\ Len(Record(b, ls)) = label + Len(Written(ls))
         /\ Holds(0, Record(b, ls)) <=>
              /\ Holds(0, Magic) /\ Holds(Len(Magic), BigEndian(Version, VersionBytes))
              /\ Holds(id, Prefixed(b.candidate_id)) /\ Holds(raw, Prefixed(b.raw_path))
              /\ Holds(logical, BigEndian(b.logical_bytes, LogicalBytes))
              /\ Holds(variant, ObservedAt(b.observed_at))
              /\ Holds(activity, <<b.activity, b.coverage>>)
              /\ Holds(labels, BigEndian(Len(ls), CountBytes)) /\ Holds(label, Written(ls))
<1>0. /\ id \in Nat /\ raw \in Nat /\ logical \in Nat /\ variant \in Nat
      /\ activity \in Nat /\ labels \in Nat /\ label \in Nat
      /\ id = Len(Magic) + VersionBytes /\ raw = id + (CountBytes + Len(b.candidate_id))
      /\ logical = raw + (CountBytes + Len(b.raw_path)) /\ variant = logical + LogicalBytes
      /\ activity = variant + Len(ObservedAt(b.observed_at)) /\ labels = activity + 2
      /\ label = labels + CountBytes /\ ObservedAt(b.observed_at) \in Seq(Byte)
  BY DEF Spread
<1>1. PICK a3 \in Seq(Byte), a4 \in Seq(Byte) :
        /\ a3 = Prefixed(b.candidate_id) /\ Len(a3) = CountBytes + Len(b.candidate_id)
        /\ a4 = Prefixed(b.raw_path) /\ Len(a4) = CountBytes + Len(b.raw_path)
  BY WritableTypes, PrefixedType
<1>2. PICK a2 \in Seq(Byte), a5 \in Seq(Byte), a8 \in Seq(Byte) :
        /\ a2 = BigEndian(Version, VersionBytes) /\ Len(a2) = VersionBytes
        /\ a5 = BigEndian(b.logical_bytes, LogicalBytes) /\ Len(a5) = LogicalBytes
        /\ a8 = BigEndian(Len(ls), CountBytes) /\ Len(a8) = CountBytes
  <2>1. Version \in Int /\ b.logical_bytes \in Int /\ Len(ls) \in Int
    <3>1. Power[VersionBytes] \in Nat /\ Power[LogicalBytes] \in Nat
      BY PowerType, WidthsType
    <3>2. Version \in 0..(Power[VersionBytes] - 1)
      BY FormatAssumption
    <3>3. b.logical_bytes \in 0..(Power[LogicalBytes] - 1) /\ Len(ls) \in Nat
      BY WritableTypes
    <3>4. QED
      BY ONLY <3>1, <3>2, <3>3
  <2>2. BigEndian(Version, VersionBytes) \in Seq(Byte) /\ Len(BigEndian(Version, VersionBytes)) = VersionBytes
    BY <2>1, WidthsType, BigEndianType
  <2>3. /\ BigEndian(b.logical_bytes, LogicalBytes) \in Seq(Byte)
        /\ Len(BigEndian(b.logical_bytes, LogicalBytes)) = LogicalBytes
    BY <2>1, WidthsType, BigEndianType
  <2>4. BigEndian(Len(ls), CountBytes) \in Seq(Byte) /\ Len(BigEndian(Len(ls), CountBytes)) = CountBytes
    BY <2>1, WidthsType, BigEndianType
  <2>5. QED
    BY <2>2, <2>3, <2>4
<1>3. PICK a7 \in Seq(Byte) : a7 = <<b.activity, b.coverage>> /\ Len(a7) = 2
  <2>1. PICK x \in Byte, y \in Byte : x = b.activity /\ y = b.coverage
    BY WritableTypes
  <2>2. <<x, y>> \in Seq(Byte) /\ Len(<<x, y>>) = 2
    OBVIOUS
  <2>3. QED
    BY <2>1, <2>2
<1>4. PICK a9 \in Seq(Byte) : a9 = Written(ls)
  BY WritableTypes, WrittenSteps
<1>5. PICK a1 \in Seq(Byte), a6 \in Seq(Byte), p \in Nat :
        a1 = Magic /\ a6 = ObservedAt(b.observed_at) /\ p = Len(a1)
  BY <1>0, WidthsType
<1>6. Record(b, ls) = a1 \o a2 \o a3 \o a4 \o a5 \o a6 \o a7 \o a8 \o a9
  BY <1>1, <1>2, <1>3, <1>4, <1>5 DEF Record, Written
<1>7. /\ id = p + Len(a2) /\ raw = id + Len(a3) /\ logical = raw + Len(a4)
      /\ variant = logical + Len(a5) /\ activity = variant + Len(a6) /\ labels = activity + Len(a7)
      /\ label = labels + Len(a8)
  BY <1>0, <1>1, <1>2, <1>3, <1>5
<1> DEFINE b2 == a1 \o a2
           b3 == b2 \o a3
           b4 == b3 \o a4
           b5 == b4 \o a5
           b6 == b5 \o a6
           b7 == b6 \o a7
           b8 == b7 \o a8
           b9 == b8 \o a9
<1>8. b2 \in Seq(Byte) /\ Len(b2) = id /\ (Holds(0, b2) <=> Holds(0, a1) /\ Holds(p, a2))
  <2>1. p = Len(a1) /\ id = p + Len(a2)
    BY <1>5, <1>7
  <2>2. b2 \in Seq(Byte) /\ Len(b2) = p + Len(a2) /\ (Holds(0, b2) <=> Holds(0, a1) /\ Holds(p, a2))
    BY ONLY <1>0, <2>1, HoldsNext, a1 \in Seq(Byte), a2 \in Seq(Byte), p \in Nat, input \in Seq(Byte), ZenonT(40)
  <2>3. QED
    BY <2>1, <2>2
<1>9. b3 \in Seq(Byte) /\ Len(b3) = raw /\ (Holds(0, b3) <=> Holds(0, b2) /\ Holds(id, a3))
  <2> HIDE DEF b2
  <2>1. QED
    BY <1>0, <1>7, <1>8, HoldsNext
<1>10. b4 \in Seq(Byte) /\ Len(b4) = logical /\ (Holds(0, b4) <=> Holds(0, b3) /\ Holds(raw, a4))
  <2> HIDE DEF b3
  <2>1. QED
    BY <1>0, <1>7, <1>9, HoldsNext
<1>11. b5 \in Seq(Byte) /\ Len(b5) = variant /\ (Holds(0, b5) <=> Holds(0, b4) /\ Holds(logical, a5))
  <2> HIDE DEF b4
  <2>1. QED
    BY <1>0, <1>7, <1>10, HoldsNext
<1>12. b6 \in Seq(Byte) /\ Len(b6) = activity /\ (Holds(0, b6) <=> Holds(0, b5) /\ Holds(variant, a6))
  <2> HIDE DEF b5
  <2>1. variant = Len(b5) /\ b5 \in Seq(Byte) /\ activity = variant + Len(a6)
    BY <1>0, <1>7, <1>11
  <2>2. /\ b6 \in Seq(Byte) /\ Len(b6) = variant + Len(a6)
        /\ Holds(0, b6) <=> Holds(0, b5) /\ Holds(variant, a6)
    BY ONLY <1>0, <2>1, HoldsNext, a6 \in Seq(Byte), variant \in Nat, input \in Seq(Byte)
  <2>3. QED
    BY <2>1, <2>2
<1>13. b7 \in Seq(Byte) /\ Len(b7) = labels /\ (Holds(0, b7) <=> Holds(0, b6) /\ Holds(activity, a7))
  <2> HIDE DEF b6
  <2>1. QED
    BY <1>0, <1>7, <1>12, HoldsNext
<1>14. b8 \in Seq(Byte) /\ Len(b8) = label /\ (Holds(0, b8) <=> Holds(0, b7) /\ Holds(labels, a8))
  <2> HIDE DEF b7
  <2>1. QED
    BY <1>0, <1>7, <1>13, HoldsNext
<1>15. b9 \in Seq(Byte) /\ Len(b9) = label + Len(a9) /\ (Holds(0, b9) <=> Holds(0, b8) /\ Holds(label, a9))
  <2> HIDE DEF b8
  <2>1. QED
    BY <1>0, <1>7, <1>14, HoldsNext
<1>16. Record(b, ls) = b9
  BY <1>6
<1> HIDE DEF b2, b3, b4, b5, b6, b7, b8, b9
<1>17. /\ b9 \in Seq(Byte) /\ Len(b9) = label + Len(a9)
       /\ Holds(0, b9) <=>
            /\ Holds(0, a1) /\ Holds(p, a2) /\ Holds(id, a3) /\ Holds(raw, a4) /\ Holds(logical, a5)
            /\ Holds(variant, a6) /\ Holds(activity, a7) /\ Holds(labels, a8) /\ Holds(label, a9)
  BY <1>8, <1>9, <1>10, <1>11, <1>12, <1>13, <1>14, <1>15, Zenon
<1>18. QED
  BY <1>1, <1>2, <1>3, <1>4, <1>5, <1>16, <1>17

(* The parts of a record at their places, and what they say.               *)
LEMMA PartsSay ==
  ASSUME input \in Seq(Byte), NEW at, NEW m, LaidOut(at, m), NEW b, NEW ls, Writable(b, ls)
  PROVE  /\ Holds(0, Magic) <=> Len(Magic) <= Len(input) /\ Taken(0, Len(Magic)) = Magic
         /\ Holds(Len(Magic), BigEndian(Version, VersionBytes)) <=>
              at.id <= Len(input) /\ Num(Len(Magic), VersionBytes) = Version
         /\ Holds(at.id, Prefixed(b.candidate_id)) <=>
              at.path <= Len(input) /\ Content(at.id) = b.candidate_id
         /\ Holds(at.path, Prefixed(b.raw_path)) <=>
              at.logical <= Len(input) /\ Content(at.path) = b.raw_path
         /\ Holds(at.logical, BigEndian(b.logical_bytes, LogicalBytes)) <=>
              at.variant <= Len(input) /\ Num(at.logical, LogicalBytes) = b.logical_bytes
         /\ Holds(at.activity, <<b.activity, b.coverage>>) <=>
              at.labels <= Len(input) /\ Num(at.activity, 1) = b.activity /\ Num(at.coverage, 1) = b.coverage
         /\ Holds(at.labels, BigEndian(Len(ls), CountBytes)) <=>
              Place[8] <= Len(input) /\ at.count = Len(ls)
<1>1. /\ Distances(at) /\ PlaceTypes(at) /\ at.count = Num(at.labels, CountBytes)
  BY LaidOutProperties DEF LaidOut
<1>2. PICK id \in Nat, raw \in Nat, logical \in Nat, variant \in Nat, activity \in Nat, labels \in Nat :
        /\ id = at.id /\ raw = at.path /\ logical = at.logical /\ variant = at.variant
        /\ activity = at.activity /\ labels = at.labels
  BY <1>1 DEF PlaceTypes
<1>3. PICK l \in Nat, q \in Nat : l = Len(input) /\ q = Len(Magic)
  BY WidthsType, LenProperties
<1>4. /\ b.candidate_id \in Seq(Byte) /\ Len(b.candidate_id) < Power[CountBytes]
      /\ b.raw_path \in Seq(Byte) /\ Len(b.raw_path) < Power[CountBytes]
      /\ b.activity \in Byte /\ b.coverage \in Byte
      /\ b.logical_bytes \in 0..(Power[LogicalBytes] - 1) /\ Len(ls) \in 0..(Power[CountBytes] - 1)
  BY WritableTypes DEF Writable
<1>5. /\ VersionBytes \in Nat /\ LogicalBytes \in Nat /\ CountBytes \in Nat
      /\ Version \in 0..(Power[VersionBytes] - 1)
  BY WidthsType, FormatAssumption
<1>6. Holds(0, Magic) <=> q <= l /\ Taken(0, q) = Magic
  <2>1. 0 + q = q
    OBVIOUS
  <2>2. QED
    BY <1>3, <2>1 DEF Holds
<1>7. Holds(q, BigEndian(Version, VersionBytes)) <=> q + VersionBytes <= l /\ Num(q, VersionBytes) = Version
  BY <1>3, <1>5, HoldsNumber
<1>8. Holds(id, Prefixed(b.candidate_id)) <=>
        id + CountBytes + Num(id, CountBytes) <= l /\ Content(id) = b.candidate_id
  BY <1>3, <1>4, HoldsPrefixed
<1>9. Holds(raw, Prefixed(b.raw_path)) <=>
        raw + CountBytes + Num(raw, CountBytes) <= l /\ Content(raw) = b.raw_path
  BY <1>3, <1>4, HoldsPrefixed
<1>10. Holds(logical, BigEndian(b.logical_bytes, LogicalBytes)) <=>
         logical + LogicalBytes <= l /\ Num(logical, LogicalBytes) = b.logical_bytes
  BY <1>3, <1>4, <1>5, HoldsNumber
<1>11. Holds(activity, <<b.activity, b.coverage>>) <=>
         activity + 2 <= l /\ Num(activity, 1) = b.activity /\ Num(activity + 1, 1) = b.coverage
  BY <1>3, <1>4, HoldsPair
<1>12. Holds(labels, BigEndian(Len(ls), CountBytes)) <=>
         labels + CountBytes <= l /\ Num(labels, CountBytes) = Len(ls)
  BY <1>3, <1>4, <1>5, HoldsNumber
<1>13. /\ q + VersionBytes = id /\ id + CountBytes + Num(id, CountBytes) = raw
       /\ raw + CountBytes + Num(raw, CountBytes) = logical /\ logical + LogicalBytes = variant
       /\ activity + 1 = at.coverage /\ at.coverage + 1 = labels
       /\ labels + CountBytes = Place[8]
  BY <1>1, <1>2, <1>3 DEF Distances
<1>14. activity + 2 = labels
  <2>1. (activity + 1) + 1 = activity + 2
    OBVIOUS
  <2>2. QED
    BY <1>13, <2>1
<1>15. Holds(0, Magic) <=> Len(Magic) <= Len(input) /\ Taken(0, Len(Magic)) = Magic
  BY <1>3, <1>6
<1>16. Holds(Len(Magic), BigEndian(Version, VersionBytes)) <=>
              at.id <= Len(input) /\ Num(Len(Magic), VersionBytes) = Version
  BY <1>2, <1>3, <1>7, <1>13
<1>17. Holds(at.id, Prefixed(b.candidate_id)) <=>
              at.path <= Len(input) /\ Content(at.id) = b.candidate_id
  BY <1>2, <1>3, <1>8, <1>13
<1>18. Holds(at.path, Prefixed(b.raw_path)) <=>
              at.logical <= Len(input) /\ Content(at.path) = b.raw_path
  BY <1>2, <1>3, <1>9, <1>13
<1>19. Holds(at.logical, BigEndian(b.logical_bytes, LogicalBytes)) <=>
              at.variant <= Len(input) /\ Num(at.logical, LogicalBytes) = b.logical_bytes
  BY <1>2, <1>3, <1>10, <1>13
<1>20. Holds(at.activity, <<b.activity, b.coverage>>) <=>
              at.labels <= Len(input) /\ Num(at.activity, 1) = b.activity /\ Num(at.coverage, 1) = b.coverage
  BY <1>2, <1>3, <1>11, <1>13, <1>14
<1>21. Holds(at.labels, BigEndian(Len(ls), CountBytes)) <=>
              Place[8] <= Len(input) /\ at.count = Len(ls)
  BY <1>1, <1>2, <1>3, <1>12, <1>13
<1>22. QED
  BY <1>15, <1>16, <1>17, <1>18, <1>19, <1>20, <1>21

(* What was written is read: every part is found at its place.             *)
LEMMA RecordRead ==
  ASSUME input \in Seq(Byte), NEW at, NEW m, LaidOut(at, m), NEW b, NEW ls, Writable(b, ls),
         input = Record(b, ls)
  PROVE  Says(at, b, ls) /\ m = Len(ls) /\ at.end = Len(input)
<1>1. Distances(at) /\ PlaceTypes(at)
  BY LaidOutProperties
<1>2. /\ at.seconds = at.variant + 1 /\ at.nanos = at.variant + 1 + SecondsBytes
      /\ at.end = Place[8 + m] /\ m = IF at.count <= Len(input) THEN at.count ELSE Len(input)
  BY DEF LaidOut
<1>3. /\ at.id \in Nat /\ at.path \in Nat /\ at.logical \in Nat /\ at.variant \in Nat
      /\ at.activity \in Nat /\ at.labels \in Nat
  BY <1>1 DEF PlaceTypes
<1>4. /\ ObservedAt(b.observed_at) \in Seq(Byte) /\ Len(ObservedAt(b.observed_at)) \in Nat
      /\ Holds(at.variant, ObservedAt(b.observed_at)) <=>
           at.variant + Len(ObservedAt(b.observed_at)) <= Len(input) /\ SaysTime(at, b.observed_at)
      /\ SaysTime(at, b.observed_at) =>
           Len(ObservedAt(b.observed_at)) =
             1 + IF Num(at.variant, 1) = 1 THEN SecondsBytes + NanosBytes ELSE 0
  BY <1>2, <1>3, WritableTypes, TimeIsRead
<1>5. PICK c \in Nat, x \in Nat, y \in Nat, z \in Nat, v \in Nat, g \in Nat, q \in Nat, t \in Nat :
        /\ c = CountBytes /\ x = Len(b.candidate_id) /\ y = Len(b.raw_path)
        /\ z = Len(ObservedAt(b.observed_at)) /\ v = VersionBytes /\ g = LogicalBytes /\ q = Len(Magic)
        /\ t = IF Num(at.variant, 1) = 1 THEN SecondsBytes + NanosBytes ELSE 0
  <2>1. (IF Num(at.variant, 1) = 1 THEN SecondsBytes + NanosBytes ELSE 0) \in Nat
    BY WidthsType
  <2>2. Len(b.candidate_id) \in Nat /\ Len(b.raw_path) \in Nat
    BY WritableTypes
  <2>3. QED
    BY <1>4, <2>1, <2>2, WidthsType
<1>6. PICK id \in Nat, raw \in Nat, logical \in Nat, variant \in Nat, activity \in Nat,
           labels \in Nat, label \in Nat :
        /\ id = q + v /\ raw = id + (c + x) /\ logical = raw + (c + y) /\ variant = logical + g
        /\ activity = variant + z /\ labels = activity + 2 /\ label = labels + c
  OBVIOUS
<1>7. /\ Len(Record(b, ls)) = label + Len(Written(ls))
      /\ Holds(0, Record(b, ls)) <=>
           /\ Holds(0, Magic) /\ Holds(q, BigEndian(Version, VersionBytes))
           /\ Holds(id, Prefixed(b.candidate_id)) /\ Holds(raw, Prefixed(b.raw_path))
           /\ Holds(logical, BigEndian(b.logical_bytes, LogicalBytes))
           /\ Holds(variant, ObservedAt(b.observed_at))
           /\ Holds(activity, <<b.activity, b.coverage>>)
           /\ Holds(labels, BigEndian(Len(ls), CountBytes)) /\ Holds(label, Written(ls))
  <2>1. /\ id = Len(Magic) + VersionBytes /\ raw = id + (CountBytes + Len(b.candidate_id))
        /\ logical = raw + (CountBytes + Len(b.raw_path)) /\ variant = logical + LogicalBytes
        /\ activity = variant + Len(ObservedAt(b.observed_at)) /\ labels = activity + 2
        /\ label = labels + CountBytes
    BY <1>5, <1>6
  <2>2. /\ Record(b, ls) \in Seq(Byte) /\ Len(Record(b, ls)) = label + Len(Written(ls))
        /\ Holds(0, Record(b, ls)) <=>
             /\ Holds(0, Magic) /\ Holds(Len(Magic), BigEndian(Version, VersionBytes))
             /\ Holds(id, Prefixed(b.candidate_id)) /\ Holds(raw, Prefixed(b.raw_path))
             /\ Holds(logical, BigEndian(b.logical_bytes, LogicalBytes))
             /\ Holds(variant, ObservedAt(b.observed_at))
             /\ Holds(activity, <<b.activity, b.coverage>>)
             /\ Holds(labels, BigEndian(Len(ls), CountBytes)) /\ Holds(label, Written(ls))
    <3>1. Spread(b, id, raw, logical, variant, activity, labels, label)
      BY <1>4, <2>1 DEF Spread
    <3>2. QED
      BY <3>1, RecordParts
  <2>3. QED
    BY <1>5, <2>2
<1>8. Holds(0, input)
  BY HoldsAll
<1>9. /\ Holds(0, Magic) /\ Holds(q, BigEndian(Version, VersionBytes))
      /\ Holds(id, Prefixed(b.candidate_id)) /\ Holds(raw, Prefixed(b.raw_path))
      /\ Holds(logical, BigEndian(b.logical_bytes, LogicalBytes))
      /\ Holds(variant, ObservedAt(b.observed_at))
      /\ Holds(activity, <<b.activity, b.coverage>>)
      /\ Holds(labels, BigEndian(Len(ls), CountBytes)) /\ Holds(label, Written(ls))
  BY <1>7, <1>8
<1>10. /\ at.id = q + v /\ at.path = at.id + c + Num(at.id, c) /\ at.logical = at.path + c + Num(at.path, c)
       /\ at.variant = at.logical + g /\ at.activity = at.variant + 1 + t
       /\ at.coverage = at.activity + 1 /\ at.labels = at.coverage + 1 /\ Place[8] = at.labels + c
  BY <1>1, <1>5 DEF Distances
<1>11. at.id = id
  BY <1>6, <1>10
<1>12. Content(at.id) = b.candidate_id /\ at.path = raw
  <2>1. Content(at.id) = b.candidate_id
    BY <1>9, <1>11, PartsSay
  <2>2. Num(at.id, c) = x
    BY <1>3, <1>5, <2>1, ContentType
  <2>3. id + c + x = id + (c + x)
    OBVIOUS
  <2>4. QED
    BY <1>6, <1>10, <1>11, <2>1, <2>2, <2>3
<1>13. Content(at.path) = b.raw_path /\ at.logical = logical
  <2>1. Content(at.path) = b.raw_path
    BY <1>9, <1>12, PartsSay
  <2>2. Num(at.path, c) = y
    BY <1>3, <1>5, <2>1, ContentType
  <2>3. raw + c + y = raw + (c + y)
    OBVIOUS
  <2>4. QED
    BY <1>6, <1>10, <1>12, <2>1, <2>2, <2>3
<1>14. Num(at.logical, LogicalBytes) = b.logical_bytes /\ at.variant = variant
  <2>1. Num(at.logical, LogicalBytes) = b.logical_bytes
    BY <1>9, <1>13, PartsSay
  <2>2. QED
    BY <1>6, <1>10, <1>13, <2>1
<1>15. SaysTime(at, b.observed_at) /\ at.activity = activity
  <2>1. SaysTime(at, b.observed_at)
    BY <1>4, <1>9, <1>14
  <2>2. z = 1 + t
    BY <1>4, <1>5, <2>1
  <2>3. variant + 1 + t = variant + (1 + t)
    OBVIOUS
  <2>4. QED
    BY <1>6, <1>10, <1>14, <2>1, <2>2, <2>3
<1>16. Num(at.activity, 1) = b.activity /\ Num(at.coverage, 1) = b.coverage /\ at.labels = labels
  <2>1. Num(at.activity, 1) = b.activity /\ Num(at.coverage, 1) = b.coverage
    BY <1>9, <1>15, PartsSay
  <2>2. activity + 1 + 1 = activity + 2
    OBVIOUS
  <2>3. QED
    BY <1>6, <1>10, <1>15, <2>1, <2>2
<1>17. at.count = Len(ls) /\ Place[8] = label
  <2>1. at.count = Len(ls)
    BY <1>9, <1>16, PartsSay
  <2>2. QED
    BY <1>6, <1>10, <1>16, <2>1
<1>18. /\ \A k \in 1..Len(ls) : Content(Place[7 + k]) = ls[k]
       /\ Place[8 + Len(ls)] = Place[8] + Len(Written(ls))
  BY <1>9, <1>17, WritableTypes, LabelsRead
<1>19. Place[8 + Len(ls)] = Len(input)
  BY <1>7, <1>17, <1>18
<1>20. m = Len(ls)
  <2>1. Len(ls) \in Nat /\ Len(input) \in Nat /\ Place[8] \in Nat
    BY WritableTypes, LenProperties, PlaceType
  <2>2. Place[8] + Len(ls) * CountBytes <= Len(input)
    BY <1>19, <2>1, LabelsGrow
  <2>3. PICK n \in Nat, l \in Nat, p \in Nat, w \in Nat \ {0} :
          n = Len(ls) /\ l = Len(input) /\ p = Place[8] /\ w = CountBytes
    BY <2>1, WidthsType
  <2>4. n <= n * w /\ n * w \in Nat
    OBVIOUS
  <2>5. n <= l
    BY <2>2, <2>3, <2>4
  <2>6. QED
    BY <1>2, <1>17, <2>3, <2>5
<1>21. Says(at, b, ls)
  <2>1. Taken(0, Len(Magic)) = Magic /\ Num(Len(Magic), VersionBytes) = Version
    BY <1>5, <1>9, PartsSay
  <2>2. QED
    BY <1>12, <1>13, <1>14, <1>15, <1>16, <1>17, <1>18, <2>1 DEF Says
<1>22. QED
  BY <1>2, <1>19, <1>20, <1>21

(* What is read is written: the parts in their order are the input.        *)
LEMMA RecordWritten ==
  ASSUME input \in Seq(Byte), NEW at, NEW m, LaidOut(at, m), NEW b, NEW ls, Writable(b, ls),
         Says(at, b, ls), m = Len(ls), at.end = Len(input)
  PROVE  Record(b, ls) = input
<1>1. Distances(at) /\ PlaceTypes(at)
  BY LaidOutProperties
<1>2. /\ at.seconds = at.variant + 1 /\ at.nanos = at.variant + 1 + SecondsBytes
      /\ at.end = Place[8 + m] /\ m \in Nat
      /\ at.id = Place[1] /\ at.path = Place[2] /\ at.logical = Place[3] /\ at.variant = Place[4]
      /\ at.activity = Place[5] /\ at.labels = Place[7]
  BY DEF LaidOut
<1>3. /\ at.id \in Nat /\ at.path \in Nat /\ at.logical \in Nat /\ at.variant \in Nat
      /\ at.activity \in Nat /\ at.labels \in Nat /\ Place[8] \in Nat
  BY <1>1, PlaceType DEF PlaceTypes
<1>4. ASSUME NEW k \in 1..8 PROVE Place[k] <= Len(input)
  <2>1. k \in Nat \ {0} /\ (8 + m) - k \in Nat /\ k + ((8 + m) - k) = 8 + m
    BY <1>2
  <2>2. Place[k] <= Place[k + ((8 + m) - k)]
    BY <2>1, PlacesRise
  <2>3. QED
    BY <1>2, <2>1, <2>2
<1>5. /\ at.id <= Len(input) /\ at.path <= Len(input) /\ at.logical <= Len(input)
      /\ at.variant <= Len(input) /\ at.activity <= Len(input) /\ at.labels <= Len(input)
      /\ Place[8] <= Len(input)
  <2>1. 1 \in 1..8 /\ 2 \in 1..8 /\ 3 \in 1..8 /\ 4 \in 1..8 /\ 5 \in 1..8 /\ 7 \in 1..8 /\ 8 \in 1..8
    OBVIOUS
  <2>2. QED
    BY <1>2, <1>4, <2>1
<1>6. /\ ObservedAt(b.observed_at) \in Seq(Byte) /\ Len(ObservedAt(b.observed_at)) \in Nat
      /\ Holds(at.variant, ObservedAt(b.observed_at)) <=>
           at.variant + Len(ObservedAt(b.observed_at)) <= Len(input) /\ SaysTime(at, b.observed_at)
      /\ SaysTime(at, b.observed_at) =>
           Len(ObservedAt(b.observed_at)) =
             1 + IF Num(at.variant, 1) = 1 THEN SecondsBytes + NanosBytes ELSE 0
  BY <1>2, <1>3, WritableTypes, TimeIsRead
<1>7. PICK c \in Nat, x \in Nat, y \in Nat, z \in Nat, v \in Nat, g \in Nat, q \in Nat, t \in Nat :
        /\ c = CountBytes /\ x = Len(b.candidate_id) /\ y = Len(b.raw_path)
        /\ z = Len(ObservedAt(b.observed_at)) /\ v = VersionBytes /\ g = LogicalBytes /\ q = Len(Magic)
        /\ t = IF Num(at.variant, 1) = 1 THEN SecondsBytes + NanosBytes ELSE 0
  <2>1. (IF Num(at.variant, 1) = 1 THEN SecondsBytes + NanosBytes ELSE 0) \in Nat
    BY WidthsType
  <2>2. Len(b.candidate_id) \in Nat /\ Len(b.raw_path) \in Nat
    BY WritableTypes
  <2>3. QED
    BY <1>6, <2>1, <2>2, WidthsType
<1>8. PICK id \in Nat, raw \in Nat, logical \in Nat, variant \in Nat, activity \in Nat,
           labels \in Nat, label \in Nat :
        /\ id = at.id /\ raw = at.path /\ logical = at.logical /\ variant = at.variant
        /\ activity = at.activity /\ labels = at.labels /\ label = Place[8]
  BY <1>3
<1>9. z = 1 + t /\ Num(at.id, c) = x /\ Num(at.path, c) = y
  <2>1. SaysTime(at, b.observed_at) /\ Content(at.id) = b.candidate_id /\ Content(at.path) = b.raw_path
    BY DEF Says
  <2>2. QED
    BY <1>3, <1>6, <1>7, <2>1, ContentType
<1>10. /\ at.id = q + v /\ at.path = at.id + c + Num(at.id, c) /\ at.logical = at.path + c + Num(at.path, c)
       /\ at.variant = at.logical + g /\ at.activity = at.variant + 1 + t
       /\ at.coverage = at.activity + 1 /\ at.labels = at.coverage + 1 /\ Place[8] = at.labels + c
  BY <1>1, <1>7 DEF Distances
<1>11. /\ id = q + v /\ raw = id + (c + x) /\ logical = raw + (c + y) /\ variant = logical + g
       /\ activity = variant + z /\ labels = activity + 2 /\ label = labels + c
  <2>1. /\ id + c + x = id + (c + x) /\ raw + c + y = raw + (c + y)
        /\ variant + 1 + t = variant + (1 + t) /\ activity + 1 + 1 = activity + 2
    OBVIOUS
  <2>2. /\ id = q + v /\ raw = id + c + x /\ logical = raw + c + y /\ variant = logical + g
        /\ activity = variant + 1 + t /\ labels = activity + 1 + 1 /\ label = labels + c
    BY <1>8, <1>9, <1>10
  <2>3. QED
    BY <1>9, <2>1, <2>2
<1>12. /\ Record(b, ls) \in Seq(Byte) /\ Len(Record(b, ls)) = label + Len(Written(ls))
       /\ Holds(0, Record(b, ls)) <=>
           /\ Holds(0, Magic) /\ Holds(q, BigEndian(Version, VersionBytes))
           /\ Holds(id, Prefixed(b.candidate_id)) /\ Holds(raw, Prefixed(b.raw_path))
           /\ Holds(logical, BigEndian(b.logical_bytes, LogicalBytes))
           /\ Holds(variant, ObservedAt(b.observed_at))
           /\ Holds(activity, <<b.activity, b.coverage>>)
           /\ Holds(labels, BigEndian(Len(ls), CountBytes)) /\ Holds(label, Written(ls))
  <2>1. /\ id = Len(Magic) + VersionBytes /\ raw = id + (CountBytes + Len(b.candidate_id))
        /\ logical = raw + (CountBytes + Len(b.raw_path)) /\ variant = logical + LogicalBytes
        /\ activity = variant + Len(ObservedAt(b.observed_at)) /\ labels = activity + 2
        /\ label = labels + CountBytes
    BY <1>7, <1>11
  <2>2. /\ Record(b, ls) \in Seq(Byte) /\ Len(Record(b, ls)) = label + Len(Written(ls))
        /\ Holds(0, Record(b, ls)) <=>
             /\ Holds(0, Magic) /\ Holds(Len(Magic), BigEndian(Version, VersionBytes))
             /\ Holds(id, Prefixed(b.candidate_id)) /\ Holds(raw, Prefixed(b.raw_path))
             /\ Holds(logical, BigEndian(b.logical_bytes, LogicalBytes))
             /\ Holds(variant, ObservedAt(b.observed_at))
             /\ Holds(activity, <<b.activity, b.coverage>>)
             /\ Holds(labels, BigEndian(Len(ls), CountBytes)) /\ Holds(label, Written(ls))
    <3>1. Spread(b, id, raw, logical, variant, activity, labels, label)
      BY <1>6, <2>1 DEF Spread
    <3>2. QED
      BY <3>1, RecordParts
  <2>3. QED
    BY <1>7, <2>2
<1>13. Holds(label, Written(ls)) /\ Place[8 + Len(ls)] = label + Len(Written(ls))
  <2>1. \A k \in 1..Len(ls) : Content(Place[7 + k]) = ls[k]
    BY DEF Says
  <2>2. Place[8 + Len(ls)] <= Len(input)
    <3>1. Len(input) \in Nat
      BY LenProperties
    <3>2. Place[8 + Len(ls)] = Len(input)
      BY <1>2
    <3>3. QED
      BY <3>1, <3>2
  <2>3. QED
    BY <1>8, <2>1, <2>2, WritableTypes, LabelsWritten
<1>14. Holds(at.variant, ObservedAt(b.observed_at))
  <2>1. at.variant + z <= Len(input)
    BY <1>5, <1>8, <1>11
  <2>2. SaysTime(at, b.observed_at)
    BY DEF Says
  <2>3. QED
    BY <1>6, <1>7, <2>1, <2>2
<1>15. Len(Magic) <= Len(input)
  <2>1. Len(input) \in Nat /\ q <= id /\ id <= Len(input)
    BY <1>5, <1>8, <1>11, LenProperties
  <2>2. QED
    BY <1>7, <2>1
<1>16. /\ Holds(0, Magic) /\ Holds(q, BigEndian(Version, VersionBytes))
       /\ Holds(id, Prefixed(b.candidate_id)) /\ Holds(raw, Prefixed(b.raw_path))
       /\ Holds(logical, BigEndian(b.logical_bytes, LogicalBytes))
       /\ Holds(activity, <<b.activity, b.coverage>>)
       /\ Holds(labels, BigEndian(Len(ls), CountBytes))
  <2>1. /\ Taken(0, Len(Magic)) = Magic /\ Num(Len(Magic), VersionBytes) = Version
        /\ Content(at.id) = b.candidate_id /\ Content(at.path) = b.raw_path
        /\ Num(at.logical, LogicalBytes) = b.logical_bytes
        /\ Num(at.activity, 1) = b.activity /\ Num(at.coverage, 1) = b.coverage
        /\ at.count = Len(ls)
    BY DEF Says
  <2>2. QED
    BY <1>5, <1>7, <1>8, <1>15, <2>1, PartsSay
<1>17. Holds(0, Record(b, ls))
  BY <1>8, <1>12, <1>13, <1>14, <1>16
<1>18. Len(Record(b, ls)) = Len(input)
  BY <1>2, <1>12, <1>13
<1>19. QED
  BY <1>12, <1>17, <1>18, HoldsAll

-----------------------------------------------------------------------------
(* The verifiers, part by part.                                            *)

(* The checks before the last, which compares with the encoded value.      *)
Early == [fails : BOOLEAN, error : Errors \ {Error("nonCanonicalEncoding")}]

(* The errors of these checks, none of which is that of the comparison.    *)
LEMMA EarlyErrors ==
  /\ \A name \in Faults : name # "nonCanonicalEncoding" =>
       Error(name) \in Errors \ {Error("nonCanonicalEncoding")}
  /\ \A field \in Fields : /\ Truncated(field) \in Errors \ {Error("nonCanonicalEncoding")}
                           /\ InvalidUtf8(field) \in Errors \ {Error("nonCanonicalEncoding")}
                           /\ FieldTooLong(field) \in Errors \ {Error("nonCanonicalEncoding")}
  /\ \A field \in Fields, byte \in Nat :
       UnknownVariant(field, byte) \in Errors \ {Error("nonCanonicalEncoding")}
BY DEF Errors, Error, Truncated, InvalidUtf8, FieldTooLong, UnknownVariant, Fields, Faults

(* A check that throws one of them is one of these.                        *)
LEMMA EarlyCheck ==
  ASSUME NEW fails \in BOOLEAN, NEW error \in Errors \ {Error("nonCanonicalEncoding")}
  PROVE  Check(fails, error) \in Early /\ Check(fails, error).fails = fails
BY DEF Check, Early

(* These are checks, and never find that the encoding is not canonical.    *)
LEMMA EarlyIsCheck ==
  ASSUME NEW checks \in Seq(Early)
  PROVE  checks \in Seq(Checks) /\ FirstError(checks) # Error("nonCanonicalEncoding")
<1>1. Early \subseteq Checks
  BY DEF Early, Checks
<1>2. checks \in Seq(Checks)
  <2>1. Len(checks) \in Nat /\ checks \in [1..Len(checks) -> Early]
    BY LenProperties
  <2>2. checks \in [1..Len(checks) -> Checks]
    BY <1>1, <2>1
  <2>3. QED
    BY <2>1, <2>2
<1>3. Ok # Error("nonCanonicalEncoding")
  BY DEF Ok, Error
<1>4. CASE Passes(checks)
  BY <1>2, <1>3, <1>4, NoError
<1>5. CASE ~Passes(checks)
  <2>1. PICK i \in DOMAIN checks : FirstError(checks) = checks[i].error
    BY <1>2, <1>5, FirstFailing
  <2>2. checks[i] \in Early
    BY <2>1
  <2>3. QED
    BY <1>2, <2>1, <2>2 DEF Early
<1>6. QED
  BY <1>2, <1>4, <1>5

(* They come in groups that pass if their parts do.                        *)
LEMMA EarlyTogether ==
  ASSUME NEW a \in Seq(Early), NEW b \in Seq(Early)
  PROVE  a \o b \in Seq(Early) /\ (Passes(a \o b) <=> Passes(a) /\ Passes(b))
<1>1. a \o b \in Seq(Early)
  BY ConcatProperties
<1>2. a \in Seq(Checks) /\ b \in Seq(Checks)
  BY EarlyIsCheck
<1>3. QED
  BY <1>1, <1>2, PassesBoth

(* The groups of checks in the order of the code.                          *)
Opening ==
  <<Needs(0, Len(Magic), "magic"),
    Check(Taken(0, Len(Magic)) # Magic, Error("invalidMagic")),
    Needs(Len(Magic), VersionBytes, "version"),
    Check(Num(Len(Magic), VersionBytes) # Version, Error("unsupportedVersion"))>>

(* Between the path and the time.                                          *)
Middle(at) ==
  <<Needs(at.logical, LogicalBytes, "logical_bytes"), Needs(at.variant, 1, "observed_at variant")>>

(* The checks of a time that is there.                                     *)
Timed(at) ==
  <<Needs(at.seconds, SecondsBytes, "observed_at seconds"),
    Needs(at.nanos, NanosBytes, "observed_at nanos"),
    Check(Num(at.nanos, NanosBytes) >= NanosLimit, Error("invalidNanoseconds"))>>

(* The checks of the time, as the client makes them.                       *)
RustTime(at) ==
  IF Num(at.variant, 1) = 1 THEN Timed(at)
  ELSE <<Check(Num(at.variant, 1) > 1, UnknownVariant("observed_at", Num(at.variant, 1)))>>

(* The checks of the time, as the engine makes them.                       *)
SwiftTime(at) ==
  CASE Num(at.variant, 1) = 0 -> <<>>
    [] Num(at.variant, 1) = 1 -> Timed(at)
    [] OTHER -> <<Check(TRUE, UnknownVariant("observed_at", Num(at.variant, 1)))>>

(* The enumerations and the number of labels in the client.                *)
RustVariants(at) ==
  <<Needs(at.activity, 1, "activity"),
    Check(Num(at.activity, 1) > LastActivity, UnknownVariant("activity", Num(at.activity, 1))),
    Needs(at.coverage, 1, "coverage"),
    Check(Num(at.coverage, 1) > LastCoverage, UnknownVariant("coverage", Num(at.coverage, 1))),
    Needs(at.labels, CountBytes, "labels"),
    Check(at.count > (Len(input) - at.labels - CountBytes) \div CountBytes, Truncated("labels"))>>

(* The enumerations and the number of labels in the engine.                *)
SwiftVariants(at) ==
  <<Needs(at.activity, 1, "activity"),
    Check(Num(at.activity, 1) \notin 0..LastActivity, UnknownVariant("activity", Num(at.activity, 1))),
    Needs(at.coverage, 1, "coverage"),
    Check(Num(at.coverage, 1) \notin 0..LastCoverage, UnknownVariant("coverage", Num(at.coverage, 1))),
    Needs(at.labels, CountBytes, "labels"),
    Check(at.count > (Len(input) - at.labels - CountBytes) \div CountBytes, Truncated("labels"))>>

(* The comparison with the encoded value.                                  *)
Unencoded(binding) == Check(Encode(binding) # Verdict(Ok, input), Error("nonCanonicalEncoding"))

(* The last three checks of the client.                                    *)
RustClosing(at) ==
  <<Check(~Ascending(Binding(at, FALSE).labels), Error("nonCanonicalLabels")),
    Check(Len(input) > at.end, Error("trailingBytes")), Unencoded(Binding(at, FALSE))>>

(* The last three checks of the engine.                                    *)
SwiftClosing(at) ==
  <<Check(~Ascending(Binding(at, stripsMark).labels), Error("nonCanonicalLabels")),
    Check(Len(input) # at.end, Error("trailingBytes")), Unencoded(Binding(at, stripsMark))>>

(* The checks up to the time, which are the same.                          *)
Start(at) ==
  Opening \o NeedsString(at.id, "candidate_id") \o NeedsBytes(at.path, "raw_path") \o Middle(at)

(* All checks of the client but the last three.                            *)
RustFront(at) == Start(at) \o RustTime(at) \o RustVariants(at) \o NeedsLabels(at)

(* All checks of the engine but the last three.                            *)
SwiftFront(at) == Start(at) \o SwiftTime(at) \o SwiftVariants(at) \o NeedsLabels(at)

(* The verifiers make these checks in this order.                          *)
LEMMA VerifiersMeans ==
  ASSUME NEW at
  PROVE  /\ RustVerify(at) =
              Verdict(FirstError(RustFront(at) \o RustClosing(at)), Binding(at, FALSE))
         /\ SwiftVerify(at) =
              Verdict(FirstError(SwiftFront(at) \o SwiftClosing(at)), Binding(at, stripsMark))
<1>1. RustVerify(at) = Verdict(FirstError(RustFront(at) \o RustClosing(at)), Binding(at, FALSE))
  BY DEF RustVerify, RustFront, RustClosing, Start, Opening, Middle, Timed, RustTime, RustVariants,
     Unencoded
<1>2. SwiftVerify(at) = Verdict(FirstError(SwiftFront(at) \o SwiftClosing(at)), Binding(at, stripsMark))
  BY DEF SwiftVerify, SwiftFront, SwiftClosing, Start, Opening, Middle, Timed, SwiftTime, SwiftVariants,
     Unencoded
<1>3. QED
  BY <1>1, <1>2

(* Two, three, four and six checks.                                        *)
LEMMA FewChecks ==
  ASSUME NEW a \in Early, NEW b \in Early, NEW c \in Early, NEW d \in Early, NEW e \in Early, NEW f \in Early
  PROVE  /\ <<>> \in Seq(Early) /\ Passes(<<>>)
         /\ <<a>> \in Seq(Early) /\ (Passes(<<a>>) <=> ~a.fails)
         /\ <<a, b>> \in Seq(Early) /\ (Passes(<<a, b>>) <=> ~a.fails /\ ~b.fails)
         /\ <<a, b, c>> \in Seq(Early) /\ (Passes(<<a, b, c>>) <=> ~a.fails /\ ~b.fails /\ ~c.fails)
         /\ <<a, b, c, d>> \in Seq(Early)
         /\ Passes(<<a, b, c, d>>) <=> ~a.fails /\ ~b.fails /\ ~c.fails /\ ~d.fails
         /\ <<a, b, c, d, e, f>> \in Seq(Early)
         /\ Passes(<<a, b, c, d, e, f>>) <=>
              ~a.fails /\ ~b.fails /\ ~c.fails /\ ~d.fails /\ ~e.fails /\ ~f.fails
<1>1. <<>> \in Seq(Early) /\ Passes(<<>>)
  BY DEF Passes
<1>2. <<a>> \in Seq(Early) /\ (Passes(<<a>>) <=> ~a.fails)
  BY DEF Passes
<1>3. <<a, b>> \in Seq(Early) /\ (Passes(<<a, b>>) <=> ~a.fails /\ ~b.fails)
  BY DEF Passes
<1>4. <<a, b, c>> \in Seq(Early) /\ (Passes(<<a, b, c>>) <=> ~a.fails /\ ~b.fails /\ ~c.fails)
  BY DEF Passes
<1>5. /\ <<a, b, c, d>> \in Seq(Early)
      /\ Passes(<<a, b, c, d>>) <=> ~a.fails /\ ~b.fails /\ ~c.fails /\ ~d.fails
  BY DEF Passes
<1>6. /\ <<a, b, c, d, e, f>> \in Seq(Early)
      /\ Passes(<<a, b, c, d, e, f>>) <=>
           ~a.fails /\ ~b.fails /\ ~c.fails /\ ~d.fails /\ ~e.fails /\ ~f.fails
  BY DEF Passes
<1>7. QED
  BY <1>1, <1>2, <1>3, <1>4, <1>5, <1>6

-----------------------------------------------------------------------------
(* What each part checks.                                                  *)

(* The check that bytes are there.                                         *)
LEMMA NeedsType ==
  ASSUME NEW at, NEW n, NEW field \in Fields
  PROVE  Needs(at, n, field) \in Early /\ (Needs(at, n, field).fails <=> Len(input) < at + n)
<1>1. (Len(input) < at + n) \in BOOLEAN
  OBVIOUS
<1>2. QED
  BY <1>1, EarlyErrors, EarlyCheck DEF Needs

(* The names of the fields.                                                *)
LEMMA FieldsAre ==
  /\ "magic" \in Fields /\ "version" \in Fields /\ "candidate_id" \in Fields /\ "raw_path" \in Fields
  /\ "logical_bytes" \in Fields /\ "observed_at variant" \in Fields /\ "observed_at" \in Fields
  /\ "observed_at seconds" \in Fields /\ "observed_at nanos" \in Fields /\ "activity" \in Fields
  /\ "coverage" \in Fields /\ "labels" \in Fields /\ "label" \in Fields
BY DEF Fields

(* The errors of the first checks.                                         *)
LEMMA FaultsAre ==
  /\ Error("invalidMagic") \in Errors \ {Error("nonCanonicalEncoding")}
  /\ Error("unsupportedVersion") \in Errors \ {Error("nonCanonicalEncoding")}
  /\ Error("invalidNanoseconds") \in Errors \ {Error("nonCanonicalEncoding")}
  /\ Error("nonCanonicalLabels") \in Errors \ {Error("nonCanonicalEncoding")}
  /\ Error("trailingBytes") \in Errors \ {Error("nonCanonicalEncoding")}
BY EarlyErrors DEF Faults

(* The input begins with the magic bytes and the version.                  *)
LEMMA OpeningPasses ==
  /\ Opening \in Seq(Early)
  /\ Passes(Opening) <=> /\ ~(Len(input) < 0 + Len(Magic)) /\ Taken(0, Len(Magic)) = Magic
                         /\ ~(Len(input) < Len(Magic) + VersionBytes)
                         /\ Num(Len(Magic), VersionBytes) = Version
<1> DEFINE b == Check(Taken(0, Len(Magic)) # Magic, Error("invalidMagic"))
           d == Check(Num(Len(Magic), VersionBytes) # Version, Error("unsupportedVersion"))
<1>1. /\ Needs(0, Len(Magic), "magic") \in Early
      /\ Needs(0, Len(Magic), "magic").fails <=> Len(input) < 0 + Len(Magic)
  BY FieldsAre, NeedsType
<1>2. /\ Needs(Len(Magic), VersionBytes, "version") \in Early
      /\ Needs(Len(Magic), VersionBytes, "version").fails <=> Len(input) < Len(Magic) + VersionBytes
  BY FieldsAre, NeedsType
<1>3. b \in Early /\ b.fails = (Taken(0, Len(Magic)) # Magic)
  BY FaultsAre, EarlyCheck
<1>4. d \in Early /\ d.fails = (Num(Len(Magic), VersionBytes) # Version)
  BY FaultsAre, EarlyCheck
<1> HIDE DEF b, d
<1>5. /\ Opening \in Seq(Early)
      /\ Passes(Opening) <=> /\ ~Needs(0, Len(Magic), "magic").fails /\ ~b.fails
                             /\ ~Needs(Len(Magic), VersionBytes, "version").fails /\ ~d.fails
  <2>1. Opening = <<Needs(0, Len(Magic), "magic"), b, Needs(Len(Magic), VersionBytes, "version"), d>>
    BY DEF Opening, b, d
  <2>2. QED
    BY <1>1, <1>2, <1>3, <1>4, <2>1, FewChecks
<1>6. QED
  BY <1>1, <1>2, <1>3, <1>4, <1>5

(* A field with its length is there.                                       *)
LEMMA NeedsBytesPasses ==
  ASSUME NEW at, NEW field \in Fields
  PROVE  /\ NeedsBytes(at, field) \in Seq(Early)
         /\ Passes(NeedsBytes(at, field)) <=>
              /\ ~(Len(input) < at + CountBytes)
              /\ ~(Len(input) < at + CountBytes + Num(at, CountBytes))
<1> DEFINE n == Num(at, CountBytes)
           p == at + CountBytes
<1>1. /\ Needs(at, CountBytes, field) \in Early
      /\ Needs(at, CountBytes, field).fails <=> Len(input) < at + CountBytes
  BY NeedsType
<1>2. Needs(p, n, field) \in Early /\ (Needs(p, n, field).fails <=> Len(input) < p + n)
  <2> HIDE DEF p, n
  <2>1. QED
    BY NeedsType
<1>3. NeedsBytes(at, field) = <<Needs(at, CountBytes, field), Needs(p, n, field)>>
  BY DEF NeedsBytes
<1> HIDE DEF p, n
<1>4. /\ NeedsBytes(at, field) \in Seq(Early)
      /\ Passes(NeedsBytes(at, field)) <=>
           ~Needs(at, CountBytes, field).fails /\ ~Needs(p, n, field).fails
  BY <1>1, <1>2, <1>3, FewChecks
<1>5. QED
  BY <1>1, <1>2, <1>4 DEF p, n

(* A text with its length is there.                                        *)
LEMMA NeedsStringPasses ==
  ASSUME NEW at, NEW field \in Fields
  PROVE  /\ NeedsString(at, field) \in Seq(Early)
         /\ Passes(NeedsString(at, field)) <=>
              /\ ~(Len(input) < at + CountBytes)
              /\ ~(Len(input) < at + CountBytes + Num(at, CountBytes))
              /\ IsUtf8(Content(at))
<1> DEFINE c == Check(~IsUtf8(Content(at)), InvalidUtf8(field))
<1>1. c \in Early /\ c.fails = (~IsUtf8(Content(at)))
  BY EarlyErrors, EarlyCheck
<1> HIDE DEF c
<1>2. <<c>> \in Seq(Early) /\ (Passes(<<c>>) <=> ~c.fails)
  BY <1>1, FewChecks
<1>3. NeedsString(at, field) = NeedsBytes(at, field) \o <<c>>
  BY DEF NeedsString, c
<1>4. NeedsBytes(at, field) \in Seq(Early)
  BY NeedsBytesPasses
<1>5. /\ NeedsString(at, field) \in Seq(Early)
      /\ Passes(NeedsString(at, field)) <=> Passes(NeedsBytes(at, field)) /\ Passes(<<c>>)
  BY <1>2, <1>3, <1>4, EarlyTogether
<1>6. IsUtf8(Content(at)) \in BOOLEAN
  BY DEF IsUtf8
<1>7. ~c.fails <=> IsUtf8(Content(at))
  BY <1>1, <1>6
<1>8. QED
  BY <1>2, <1>5, <1>7, NeedsBytesPasses

(* The size is there and the variant of the time.                          *)
LEMMA MiddlePasses ==
  ASSUME NEW at
  PROVE  /\ Middle(at) \in Seq(Early)
         /\ Passes(Middle(at)) <=> /\ ~(Len(input) < at.logical + LogicalBytes)
                                   /\ ~(Len(input) < at.variant + 1)
<1> DEFINE a == Needs(at.logical, LogicalBytes, "logical_bytes")
           b == Needs(at.variant, 1, "observed_at variant")
<1>1. a \in Early /\ (a.fails <=> Len(input) < at.logical + LogicalBytes)
  BY FieldsAre, NeedsType
<1>2. b \in Early /\ (b.fails <=> Len(input) < at.variant + 1)
  BY FieldsAre, NeedsType
<1>3. Middle(at) = <<a, b>>
  BY DEF Middle
<1> HIDE DEF a, b
<1>4. Middle(at) \in Seq(Early) /\ (Passes(Middle(at)) <=> ~a.fails /\ ~b.fails)
  BY <1>1, <1>2, <1>3, FewChecks
<1>5. QED
  BY <1>1, <1>2, <1>4

(* The time is checked alike: the client tells the variants apart by one   *)
(* comparison, the engine by a switch.                                     *)
LEMMA TimePasses ==
  ASSUME NEW at, Num(at.variant, 1) \in Nat
  PROVE  /\ RustTime(at) \in Seq(Early) /\ SwiftTime(at) \in Seq(Early)
         /\ FirstError(RustTime(at)) = FirstError(SwiftTime(at))
         /\ Passes(RustTime(at)) <=>
              \/ Num(at.variant, 1) = 0
              \/ /\ Num(at.variant, 1) = 1
                 /\ ~(Len(input) < at.seconds + SecondsBytes) /\ ~(Len(input) < at.nanos + NanosBytes)
                 /\ ~(Num(at.nanos, NanosBytes) >= NanosLimit)
<1> DEFINE v == Num(at.variant, 1)
           error == UnknownVariant("observed_at", v)
           a == Needs(at.seconds, SecondsBytes, "observed_at seconds")
           b == Needs(at.nanos, NanosBytes, "observed_at nanos")
           c == Check(Num(at.nanos, NanosBytes) >= NanosLimit, Error("invalidNanoseconds"))
           d == Check(v > 1, error)
           e == Check(TRUE, error)
<1>1. a \in Early /\ (a.fails <=> Len(input) < at.seconds + SecondsBytes)
  BY FieldsAre, NeedsType
<1>2. b \in Early /\ (b.fails <=> Len(input) < at.nanos + NanosBytes)
  BY FieldsAre, NeedsType
<1>3. c \in Early /\ (c.fails <=> Num(at.nanos, NanosBytes) >= NanosLimit)
  <2>1. (Num(at.nanos, NanosBytes) >= NanosLimit) \in BOOLEAN
    OBVIOUS
  <2>2. QED
    BY <2>1, FaultsAre, EarlyCheck
<1>4. error \in Errors \ {Error("nonCanonicalEncoding")}
  BY FieldsAre, EarlyErrors
<1>5. v \in Nat
  OBVIOUS
<1>6. RustTime(at) = IF v = 1 THEN <<a, b, c>> ELSE <<d>>
  BY DEF RustTime, Timed
<1>7. SwiftTime(at) = CASE v = 0 -> <<>> [] v = 1 -> <<a, b, c>> [] OTHER -> <<e>>
  BY DEF SwiftTime, Timed
<1>8. d \in Early /\ (d.fails <=> v > 1) /\ e \in Early /\ e.fails
  <2>1. (v > 1) \in BOOLEAN
    OBVIOUS
  <2> HIDE DEF v, error
  <2>2. QED
    BY <1>4, <2>1, EarlyCheck
<1>9. d.error = error /\ e.error = error
  BY DEF Check
<1> HIDE DEF v, a, b, c, d, e, error
<1>10. CASE v = 1
  <2>1. RustTime(at) = <<a, b, c>> /\ SwiftTime(at) = <<a, b, c>>
    BY <1>6, <1>7, <1>10
  <2>2. /\ <<a, b, c>> \in Seq(Early) /\ (Passes(<<a, b, c>>) <=> ~a.fails /\ ~b.fails /\ ~c.fails)
    BY <1>1, <1>2, <1>3, FewChecks
  <2>3. v # 0
    BY <1>10
  <2>4. Passes(RustTime(at)) <=> \/ v = 0
                                 \/ /\ v = 1
                                    /\ ~(Len(input) < at.seconds + SecondsBytes)
                                    /\ ~(Len(input) < at.nanos + NanosBytes)
                                    /\ ~(Num(at.nanos, NanosBytes) >= NanosLimit)
    BY <1>1, <1>2, <1>3, <1>10, <2>1, <2>2, <2>3
  <2>5. QED
    BY <2>1, <2>2, <2>4 DEF v
<1>11. CASE v # 1
  <2>0. v > 1 <=> v # 0
    BY <1>5, <1>11
  <2>1. RustTime(at) = <<d>> /\ SwiftTime(at) = IF v = 0 THEN <<>> ELSE <<e>>
    BY <1>6, <1>7, <1>11
  <2>2. /\ <<d>> \in Seq(Early) /\ <<e>> \in Seq(Early) /\ <<>> \in Seq(Early)
        /\ Passes(<<d>>) <=> ~d.fails
        /\ Passes(<<e>>) <=> ~e.fails
        /\ Passes(<<>>)
    BY <1>8, FewChecks
  <2>3. Passes(RustTime(at)) <=> v = 0
    BY <1>8, <2>0, <2>1, <2>2
  <2>4. FirstError(RustTime(at)) = FirstError(SwiftTime(at))
    <3>1. CASE v = 0
      <4>1. Passes(RustTime(at)) /\ Passes(SwiftTime(at))
        BY <2>1, <2>2, <2>3, <3>1
      <4>2. RustTime(at) \in Seq(Checks) /\ SwiftTime(at) \in Seq(Checks)
        BY <2>1, <2>2, EarlyIsCheck
      <4>3. QED
        BY <4>1, <4>2, NoError
    <3>2. CASE v # 0
      <4>1. d.fails /\ e.fails
        BY <1>8, <2>0, <3>2
      <4>2. d = e
        <5>1. (v > 1) = TRUE
          BY <1>5, <1>11, <3>2
        <5>2. QED
          BY <5>1 DEF d, e
      <4>3. QED
        BY <2>1, <3>2, <4>2
    <3>3. QED
      BY <3>1, <3>2
  <2>5. QED
    BY <1>11, <2>1, <2>2, <2>3, <2>4 DEF v
<1>12. QED
  BY <1>10, <1>11

(* The enumerations are checked alike: the client compares them with a     *)
(* table, the engine with the values that have a case.                     *)
LEMMA VariantsPass ==
  ASSUME NEW at, Num(at.activity, 1) \in Nat, Num(at.coverage, 1) \in Nat
  PROVE  /\ RustVariants(at) \in Seq(Early) /\ SwiftVariants(at) = RustVariants(at)
         /\ Passes(RustVariants(at)) <=>
              /\ ~(Len(input) < at.activity + 1) /\ Num(at.activity, 1) \in 0..LastActivity
              /\ ~(Len(input) < at.coverage + 1) /\ Num(at.coverage, 1) \in 0..LastCoverage
              /\ ~(Len(input) < at.labels + CountBytes)
              /\ ~(at.count > (Len(input) - at.labels - CountBytes) \div CountBytes)
<1> DEFINE x == Num(at.activity, 1)
           y == Num(at.coverage, 1)
           room == (Len(input) - at.labels - CountBytes) \div CountBytes
           a == Needs(at.activity, 1, "activity")
           b == Check(x \notin 0..LastActivity, UnknownVariant("activity", x))
           c == Needs(at.coverage, 1, "coverage")
           d == Check(y \notin 0..LastCoverage, UnknownVariant("coverage", y))
           e == Needs(at.labels, CountBytes, "labels")
           f == Check(at.count > room, Truncated("labels"))
<1>1. LastActivity \in Nat /\ LastCoverage \in Nat
  BY FormatAssumption, WidthsType DEF Byte
<1>2. (x > LastActivity) = (x \notin 0..LastActivity) /\ (y > LastCoverage) = (y \notin 0..LastCoverage)
  <2> HIDE DEF x, y
  <2>1. x \in Nat /\ y \in Nat
    BY DEF x, y
  <2>2. QED
    BY <1>1, <2>1
<1>3. a \in Early /\ (a.fails <=> Len(input) < at.activity + 1)
  BY FieldsAre, NeedsType
<1>4. c \in Early /\ (c.fails <=> Len(input) < at.coverage + 1)
  BY FieldsAre, NeedsType
<1>5. e \in Early /\ (e.fails <=> Len(input) < at.labels + CountBytes)
  BY FieldsAre, NeedsType
<1>6. b \in Early /\ b.fails = (x \notin 0..LastActivity)
  <2>1. UnknownVariant("activity", x) \in Errors \ {Error("nonCanonicalEncoding")}
    BY FieldsAre, EarlyErrors
  <2> HIDE DEF x
  <2>2. QED
    BY <2>1, EarlyCheck
<1>7. d \in Early /\ d.fails = (y \notin 0..LastCoverage)
  <2>1. UnknownVariant("coverage", y) \in Errors \ {Error("nonCanonicalEncoding")}
    BY FieldsAre, EarlyErrors
  <2> HIDE DEF y
  <2>2. QED
    BY <2>1, EarlyCheck
<1>8. f \in Early /\ f.fails = (at.count > room)
  <2>1. Truncated("labels") \in Errors \ {Error("nonCanonicalEncoding")}
    BY FieldsAre, EarlyErrors
  <2> HIDE DEF room
  <2>2. (at.count > room) \in BOOLEAN
    OBVIOUS
  <2>3. QED
    BY <2>1, <2>2, EarlyCheck
<1>9. SwiftVariants(at) = <<a, b, c, d, e, f>>
  BY DEF SwiftVariants
<1>10. RustVariants(at) =
         <<a, Check(x > LastActivity, UnknownVariant("activity", x)), c,
           Check(y > LastCoverage, UnknownVariant("coverage", y)), e, f>>
  BY DEF RustVariants
<1>11. RustVariants(at) = <<a, b, c, d, e, f>>
  <2> HIDE DEF a, c, e, f, x, y
  <2>1. QED
    BY <1>2, <1>10
<1> HIDE DEF a, b, c, d, e, f, x, y, room
<1>12. /\ <<a, b, c, d, e, f>> \in Seq(Early)
       /\ Passes(<<a, b, c, d, e, f>>) <=>
            ~a.fails /\ ~b.fails /\ ~c.fails /\ ~d.fails /\ ~e.fails /\ ~f.fails
  BY <1>3, <1>4, <1>5, <1>6, <1>7, <1>8, FewChecks
<1>13. /\ RustVariants(at) \in Seq(Early) /\ SwiftVariants(at) = RustVariants(at)
       /\ Passes(RustVariants(at)) <=>
              /\ ~(Len(input) < at.activity + 1) /\ x \in 0..LastActivity
              /\ ~(Len(input) < at.coverage + 1) /\ y \in 0..LastCoverage
              /\ ~(Len(input) < at.labels + CountBytes) /\ ~(at.count > room)
  BY <1>3, <1>4, <1>5, <1>6, <1>7, <1>8, <1>9, <1>11, <1>12
<1>14. QED
  BY <1>13 DEF x, y, room

(* Every label is there and is a text.                                     *)
LEMMA LabelsPass ==
  ASSUME NEW at, NEW m \in Nat, DOMAIN at.label = 1..m
  PROVE  /\ NeedsLabels(at) \in Seq(Early)
         /\ Passes(NeedsLabels(at)) <=> \A k \in 1..m : Passes(NeedsString(at.label[k], "label"))
<1> DEFINE seqs == [k \in DOMAIN at.label |-> NeedsString(at.label[k], "label")]
<1>1. ASSUME NEW p PROVE NeedsString(p, "label") \in Seq(Early)
  BY FieldsAre, NeedsStringPasses
<1>2. seqs \in [1..m -> Seq(Early)] /\ \A k \in 1..m : seqs[k] = NeedsString(at.label[k], "label")
  BY <1>1
<1>3. seqs \in Seq(Seq(Early)) /\ Len(seqs) = m
  <2> HIDE DEF seqs
  <2>1. QED
    BY <1>2
<1>4. seqs \in Seq(Seq(Checks))
  <2>1. ASSUME NEW k \in 1..m PROVE seqs[k] \in Seq(Checks)
    BY <1>1, <1>2, EarlyIsCheck
  <2>2. seqs \in [1..m -> Seq(Checks)]
    BY <1>2, <2>1
  <2> HIDE DEF seqs
  <2>3. QED
    BY <2>2
<1>5. NeedsLabels(at) = FlattenSeq(seqs)
  BY DEF NeedsLabels
<1> HIDE DEF seqs
<1>6. Passes(FlattenSeq(seqs)) <=> \A k \in 1..Len(seqs) : Passes(seqs[k])
  BY <1>4, FlattenPasses
<1>7. FlattenSeq(seqs) \in Seq(Early)
  <2>1. PICK f : f \in [0..Len(seqs) -> Seq(Early)] /\ FlattenSeq(seqs) = f[Len(seqs)]
    BY <1>3, FlattenSteps
  <2>2. QED
    BY <1>3, <2>1
<1>8. QED
  BY <1>2, <1>3, <1>5, <1>6, <1>7

(* Checks that throw the same are the same to the checks behind them.      *)
LEMMA SameBefore ==
  ASSUME NEW a \in Seq(Checks), NEW b \in Seq(Checks), NEW c \in Seq(Checks),
         FirstError(a) = FirstError(b)
  PROVE  FirstError(a \o c) = FirstError(b \o c)
<1>1. FirstError(a \o c) = IF FirstError(a) = Ok THEN FirstError(c) ELSE FirstError(a)
  BY FirstOfBoth
<1>2. FirstError(b \o c) = IF FirstError(b) = Ok THEN FirstError(c) ELSE FirstError(b)
  BY FirstOfBoth
<1>3. QED
  BY <1>1, <1>2

(* Up to the last three checks the two sides throw the same.               *)
LEMMA FrontGroups ==
  ASSUME input \in Seq(Byte), NEW at, NEW m, LaidOut(at, m)
  PROVE  /\ RustFront(at) \in Seq(Early) /\ SwiftFront(at) \in Seq(Early)
         /\ FirstError(RustFront(at)) = FirstError(SwiftFront(at))
         /\ Passes(RustFront(at)) <=>
              /\ Passes(Opening) /\ Passes(NeedsString(at.id, "candidate_id"))
              /\ Passes(NeedsBytes(at.path, "raw_path")) /\ Passes(Middle(at))
              /\ Passes(RustTime(at)) /\ Passes(RustVariants(at)) /\ Passes(NeedsLabels(at))
<1> DEFINE a == Opening
           b == NeedsString(at.id, "candidate_id")
           c == NeedsBytes(at.path, "raw_path")
           d == Middle(at)
           r == RustTime(at)
           s == SwiftTime(at)
           e == RustVariants(at)
           f == NeedsLabels(at)
<1>1. /\ Num(at.variant, 1) \in Nat /\ Num(at.activity, 1) \in Nat /\ Num(at.coverage, 1) \in Nat
      /\ m \in Nat /\ DOMAIN at.label = 1..m
  <2>1. at.variant \in Nat /\ at.activity \in Nat /\ at.coverage \in Nat /\ 1 \in Nat
    BY LaidOutProperties DEF PlaceTypes
  <2>2. QED
    BY <2>1, NumType DEF LaidOut
<1>2. /\ a \in Seq(Early) /\ b \in Seq(Early) /\ c \in Seq(Early) /\ d \in Seq(Early)
  BY FieldsAre, OpeningPasses, NeedsStringPasses, NeedsBytesPasses, MiddlePasses
<1>3. r \in Seq(Early) /\ s \in Seq(Early) /\ FirstError(r) = FirstError(s)
  BY <1>1, TimePasses
<1>4. e \in Seq(Early) /\ SwiftVariants(at) = e
  BY <1>1, VariantsPass
<1>5. f \in Seq(Early)
  BY <1>1, LabelsPass
<1>6. RustFront(at) = a \o b \o c \o d \o r \o e \o f /\ SwiftFront(at) = a \o b \o c \o d \o s \o e \o f
  BY <1>4 DEF RustFront, SwiftFront, Start
<1> HIDE DEF a, b, c, d, r, s, e, f
<1>7. /\ a \o b \in Seq(Early) /\ a \o b \o c \in Seq(Early) /\ a \o b \o c \o d \in Seq(Early)
      /\ Passes(a \o b \o c \o d) <=> Passes(a) /\ Passes(b) /\ Passes(c) /\ Passes(d)
  <2>1. a \o b \in Seq(Early) /\ (Passes(a \o b) <=> Passes(a) /\ Passes(b))
    BY <1>2, EarlyTogether
  <2>2. a \o b \o c \in Seq(Early) /\ (Passes(a \o b \o c) <=> Passes(a \o b) /\ Passes(c))
    BY <1>2, <2>1, EarlyTogether
  <2>3. /\ a \o b \o c \o d \in Seq(Early)
        /\ Passes(a \o b \o c \o d) <=> Passes(a \o b \o c) /\ Passes(d)
    BY <1>2, <2>2, EarlyTogether
  <2>4. QED
    BY <2>1, <2>2, <2>3
<1>8. PICK g \in Seq(Early) : g = a \o b \o c \o d
  BY <1>7
<1>9. /\ g \o r \in Seq(Early) /\ g \o s \in Seq(Early)
      /\ Passes(g \o r) <=> Passes(g) /\ Passes(r)
  BY <1>3, EarlyTogether
<1>10. /\ g \o r \o e \in Seq(Early) /\ g \o s \o e \in Seq(Early)
       /\ Passes(g \o r \o e) <=> Passes(g \o r) /\ Passes(e)
  BY <1>4, <1>9, EarlyTogether
<1>11. /\ g \o r \o e \o f \in Seq(Early) /\ g \o s \o e \o f \in Seq(Early)
       /\ Passes(g \o r \o e \o f) <=> Passes(g \o r \o e) /\ Passes(f)
  BY <1>5, <1>10, EarlyTogether
<1>12. FirstError(g \o r \o e \o f) = FirstError(g \o s \o e \o f)
  <2>1. /\ g \in Seq(Checks) /\ r \in Seq(Checks) /\ s \in Seq(Checks) /\ e \in Seq(Checks)
        /\ f \in Seq(Checks) /\ g \o r \in Seq(Checks) /\ g \o s \in Seq(Checks)
        /\ g \o r \o e \in Seq(Checks) /\ g \o s \o e \in Seq(Checks)
    BY <1>3, <1>4, <1>5, <1>9, <1>10, EarlyIsCheck
  <2>2. FirstError(g \o r) = FirstError(g \o s)
    BY <1>3, <2>1, FirstOfBoth
  <2>3. FirstError(g \o r \o e) = FirstError(g \o s \o e)
    BY <2>1, <2>2, SameBefore, ZenonT(40)
  <2>4. QED
    BY <2>1, <2>3, SameBefore
<1>13. RustFront(at) = g \o r \o e \o f /\ SwiftFront(at) = g \o s \o e \o f
  BY <1>6, <1>8
<1>14. Passes(g) <=> Passes(a) /\ Passes(b) /\ Passes(c) /\ Passes(d)
  BY <1>7, <1>8
<1>15. QED
  BY <1>9, <1>10, <1>11, <1>12, <1>13, <1>14 DEF a, b, c, d, r, e, f

(* What the checks up to the last three leave to be said of the input.     *)
Sound(at, m) ==
  /\ Taken(0, Len(Magic)) = Magic /\ Num(Len(Magic), VersionBytes) = Version
  /\ IsUtf8(Content(at.id))
  /\ \/ Num(at.variant, 1) = 0
     \/ Num(at.variant, 1) = 1 /\ Num(at.nanos, NanosBytes) < NanosLimit
  /\ Num(at.activity, 1) \in 0..LastActivity /\ Num(at.coverage, 1) \in 0..LastCoverage
  /\ m = at.count /\ \A k \in 1..m : IsUtf8(Content(at.label[k]))
  /\ at.end <= Len(input)

(* So many fields fit if a field of the least size does so often.          *)
LEMMA RoomFor ==
  ASSUME NEW n \in Nat, NEW x \in Nat, NEW w \in Nat \ {0}
  PROVE  n <= x \div w <=> n * w <= x
<1>1. PICK q \in Nat, r \in 0..(w - 1) : q = x \div w /\ x = w * q + r
  BY Division
<1>2. ASSUME n <= q PROVE n * w <= x
  <2>1. PICK d \in Nat : q = n + d
    <3>1. q - n \in Nat /\ q = n + (q - n)
      BY <1>2
    <3>2. QED
      BY <3>1
  <2>2. w * (n + d) = n * w + w * d /\ w * d \in Nat /\ n * w \in Nat
    OBVIOUS
  <2>3. QED
    BY <1>1, <2>1, <2>2
<1>3. ASSUME ~(n <= q) PROVE ~(n * w <= x)
  <2>1. PICK d \in Nat : n = q + 1 + d
    <3>1. n - q - 1 \in Nat /\ n = q + 1 + (n - q - 1)
      BY <1>3
    <3>2. QED
      BY <3>1
  <2>2. (q + 1 + d) * w = w * q + w + d * w /\ d * w \in Nat /\ w * q \in Nat
    OBVIOUS
  <2>3. QED
    BY <1>1, <2>1, <2>2
<1>4. QED
  BY <1>1, <1>2, <1>3

(* These checks leave exactly that to be said.                             *)
LEMMA FrontMeans ==
  ASSUME input \in Seq(Byte), NEW at, NEW m, LaidOut(at, m)
  PROVE  Passes(RustFront(at)) <=> Sound(at, m)
<1>1. /\ Distances(at) /\ PlaceTypes(at)
      /\ \A k \in 1..m : at.label[k] = Place[7 + k] /\ at.label[k] \in Nat
  BY LaidOutProperties
<1>2. /\ at.seconds = at.variant + 1 /\ at.nanos = at.variant + 1 + SecondsBytes
      /\ at.end = Place[8 + m] /\ m \in Nat /\ DOMAIN at.label = 1..m
      /\ m = IF at.count <= Len(input) THEN at.count ELSE Len(input)
      /\ at.id = Place[1] /\ at.path = Place[2] /\ at.logical = Place[3] /\ at.variant = Place[4]
      /\ at.activity = Place[5] /\ at.coverage = Place[6] /\ at.labels = Place[7]
  BY DEF LaidOut
<1>3. PICK id \in Nat, raw \in Nat, logical \in Nat, variant \in Nat, activity \in Nat,
           coverage \in Nat, labels \in Nat, label \in Nat, end \in Nat, count \in Nat :
        /\ id = at.id /\ raw = at.path /\ logical = at.logical /\ variant = at.variant
        /\ activity = at.activity /\ coverage = at.coverage /\ labels = at.labels /\ label = Place[8]
        /\ end = at.end /\ count = at.count
  <2>1. Place[8] \in Nat
    BY PlaceType
  <2>2. QED
    BY <1>1, <2>1 DEF PlaceTypes
<1>4. PICK l \in Nat, p \in Nat, v \in Nat, w \in Nat \ {0}, g \in Nat, sb \in Nat, nb \in Nat :
        /\ l = Len(input) /\ p = Len(Magic) /\ v = VersionBytes /\ w = CountBytes /\ g = LogicalBytes
        /\ sb = SecondsBytes /\ nb = NanosBytes
  BY WidthsType, LenProperties
<1>5. PICK x \in Nat, y \in Nat, t \in Nat, a \in Nat, c \in Nat, z \in Nat :
        /\ x = Num(id, w) /\ y = Num(raw, w) /\ t = Num(variant, 1)
        /\ a = Num(activity, 1) /\ c = Num(coverage, 1) /\ z = Num(at.nanos, NanosBytes)
  <2>1. at.nanos \in Nat /\ NanosBytes \in Nat
    BY <1>1, WidthsType DEF PlaceTypes
  <2>2. Num(at.nanos, NanosBytes) \in Nat
    BY <2>1, NumType
  <2>3. Num(id, w) \in Nat /\ Num(raw, w) \in Nat
    BY NumType
  <2>4. Num(variant, 1) \in Nat /\ Num(activity, 1) \in Nat /\ Num(coverage, 1) \in Nat
    BY NumType
  <2>5. QED
    BY <2>2, <2>3, <2>4
<1>6. /\ id = p + v /\ raw = id + w + x /\ logical = raw + w + y /\ variant = logical + g
      /\ activity = variant + 1 + IF t = 1 THEN sb + nb ELSE 0
      /\ coverage = activity + 1 /\ labels = coverage + 1 /\ label = labels + w
  <2>1. /\ at.id = Len(Magic) + VersionBytes
        /\ at.path = at.id + CountBytes + Num(at.id, CountBytes)
        /\ at.logical = at.path + CountBytes + Num(at.path, CountBytes)
        /\ at.variant = at.logical + LogicalBytes
        /\ at.activity = at.variant + 1 + IF Num(at.variant, 1) = 1 THEN SecondsBytes + NanosBytes ELSE 0
        /\ at.coverage = at.activity + 1 /\ at.labels = at.coverage + 1
        /\ Place[8] = at.labels + CountBytes
    BY <1>1 DEF Distances
  <2>2. QED
    BY <1>3, <1>4, <1>5, <2>1
<1>7. Passes(RustFront(at)) <=>
        /\ Passes(Opening) /\ Passes(NeedsString(at.id, "candidate_id"))
        /\ Passes(NeedsBytes(at.path, "raw_path")) /\ Passes(Middle(at))
        /\ Passes(RustTime(at)) /\ Passes(RustVariants(at)) /\ Passes(NeedsLabels(at))
  BY FrontGroups
<1>8. Passes(Opening) <=> /\ ~(l < 0 + p) /\ Taken(0, Len(Magic)) = Magic /\ ~(l < p + v)
                          /\ Num(Len(Magic), VersionBytes) = Version
  BY <1>4, OpeningPasses
<1>9. Passes(NeedsString(at.id, "candidate_id")) <=>
        ~(l < id + w) /\ ~(l < id + w + x) /\ IsUtf8(Content(at.id))
  BY <1>3, <1>4, <1>5, FieldsAre, NeedsStringPasses
<1>10. Passes(NeedsBytes(at.path, "raw_path")) <=> ~(l < raw + w) /\ ~(l < raw + w + y)
  BY <1>3, <1>4, <1>5, FieldsAre, NeedsBytesPasses
<1>11. Passes(Middle(at)) <=> ~(l < logical + g) /\ ~(l < variant + 1)
  BY <1>3, <1>4, MiddlePasses
<1>12. Passes(RustTime(at)) <=>
         \/ t = 0
         \/ t = 1 /\ ~(l < variant + 1 + sb) /\ ~(l < variant + 1 + sb + nb) /\ ~(z >= NanosLimit)
  <2>1. Passes(RustTime(at)) <=>
              \/ Num(at.variant, 1) = 0
              \/ /\ Num(at.variant, 1) = 1
                 /\ ~(Len(input) < at.seconds + SecondsBytes) /\ ~(Len(input) < at.nanos + NanosBytes)
                 /\ ~(Num(at.nanos, NanosBytes) >= NanosLimit)
    <3>1. Num(at.variant, 1) \in Nat
      BY <1>3, <1>5
    <3>2. QED
      BY <3>1, TimePasses
  <2>2. at.seconds + SecondsBytes = variant + 1 + sb /\ at.nanos + NanosBytes = variant + 1 + sb + nb
    BY <1>2, <1>3, <1>4
  <2>3. QED
    BY <1>3, <1>4, <1>5, <2>1, <2>2
<1>13. Passes(RustVariants(at)) <=>
         /\ ~(l < activity + 1) /\ a \in 0..LastActivity /\ ~(l < coverage + 1) /\ c \in 0..LastCoverage
         /\ ~(l < labels + w) /\ ~(count > (l - labels - w) \div w)
  <2>1. Num(at.activity, 1) \in Nat /\ Num(at.coverage, 1) \in Nat
    BY <1>3, <1>5
  <2>2. Passes(RustVariants(at)) <=>
              /\ ~(Len(input) < at.activity + 1) /\ Num(at.activity, 1) \in 0..LastActivity
              /\ ~(Len(input) < at.coverage + 1) /\ Num(at.coverage, 1) \in 0..LastCoverage
              /\ ~(Len(input) < at.labels + CountBytes)
              /\ ~(at.count > (Len(input) - at.labels - CountBytes) \div CountBytes)
    BY <2>1, VariantsPass
  <2>3. QED
    BY <1>3, <1>4, <1>5, <2>2
<1>14. Passes(NeedsLabels(at)) <=>
         \A k \in 1..m : /\ Place[8 + k] <= l /\ Place[7 + k] + w <= l
                         /\ IsUtf8(Content(at.label[k]))
  <2>1. Passes(NeedsLabels(at)) <=> \A k \in 1..m : Passes(NeedsString(at.label[k], "label"))
    BY <1>2, LabelsPass
  <2>2. ASSUME NEW k \in 1..m
        PROVE  Passes(NeedsString(at.label[k], "label")) <=>
                 /\ Place[8 + k] <= l /\ Place[7 + k] + w <= l
                 /\ IsUtf8(Content(at.label[k]))
    <3>1. PICK h \in Nat : h = at.label[k] /\ h = Place[7 + k]
      BY <1>1
    <3>2. 7 + k \in Nat /\ 7 + k > 7 /\ (7 + k) + 1 = 8 + k /\ 8 + k \in Nat \ {0}
      BY <1>2
    <3>3. PICK n \in Nat : n = Num(h, w)
      BY NumType
    <3>4. Place[8 + k] = h + w + n
      BY <1>4, <3>1, <3>2, <3>3, PlaceOfLabel
    <3>5. Passes(NeedsString(h, "label")) <=>
            ~(l < h + w) /\ ~(l < h + w + n) /\ IsUtf8(Content(h))
      BY <1>4, <3>3, FieldsAre, NeedsStringPasses
    <3>6. (~(l < h + w) <=> h + w <= l) /\ (~(l < h + w + n) <=> h + w + n <= l)
      OBVIOUS
    <3>7. QED
      BY <3>1, <3>4, <3>5, <3>6
  <2>3. QED
    BY <2>1, <2>2
<1>15. (~(z >= NanosLimit)) <=> z < NanosLimit
  <2>1. NanosLimit \in Nat
    <3>1. Power[NanosBytes] \in Nat
      BY PowerType, WidthsType
    <3>2. QED
      BY <3>1, FormatAssumption
  <2>2. QED
    BY <2>1
<1>16. m = IF count <= l THEN count ELSE l
  BY <1>2, <1>3, <1>4
<1>17. ASSUME Passes(RustFront(at)) PROVE Sound(at, m)
  <2>1. ~(l < labels + w) /\ ~(count > (l - labels - w) \div w)
    BY <1>7, <1>13, <1>17
  <2>2. PICK u \in Nat : u = l - labels - w /\ u <= l
    BY <2>1
  <2>3. count <= u \div w
    <3>1. u \div w \in Nat
      BY Division
    <3>2. QED
      BY <2>1, <2>2, <3>1
  <2>4. count * w <= u
    BY <2>3, RoomFor
  <2>5. count <= count * w /\ count * w \in Nat
    OBVIOUS
  <2>6. m = count
    BY <1>16, <2>2, <2>4, <2>5
  <2>7. end <= l
    <3>1. CASE m = 0
      <4>1. 8 + m = 8
        BY <3>1
      <4>2. end = label
        BY <1>2, <1>3, <4>1
      <4>3. QED
        BY <1>6, <2>1, <4>2
    <3>2. CASE m # 0
      <4>1. m \in 1..m
        BY <1>2, <3>2
      <4>2. QED
        BY <1>2, <1>3, <1>7, <1>14, <1>17, <4>1
    <3>3. QED
      BY <3>1, <3>2
  <2>8. /\ Taken(0, Len(Magic)) = Magic /\ Num(Len(Magic), VersionBytes) = Version
        /\ IsUtf8(Content(at.id))
        /\ t = 0 \/ (t = 1 /\ z < NanosLimit)
        /\ a \in 0..LastActivity /\ c \in 0..LastCoverage
        /\ \A k \in 1..m : IsUtf8(Content(at.label[k]))
    BY <1>7, <1>8, <1>9, <1>12, <1>13, <1>14, <1>15, <1>17
  <2>9. QED
    BY <1>3, <1>4, <1>5, <2>6, <2>7, <2>8 DEF Sound
<1>18. ASSUME Sound(at, m) PROVE Passes(RustFront(at))
  <2>1. /\ Taken(0, Len(Magic)) = Magic /\ Num(Len(Magic), VersionBytes) = Version
        /\ IsUtf8(Content(at.id))
        /\ t = 0 \/ (t = 1 /\ z < NanosLimit)
        /\ a \in 0..LastActivity /\ c \in 0..LastCoverage
        /\ m = count /\ \A k \in 1..m : IsUtf8(Content(at.label[k]))
        /\ end <= l
    BY <1>3, <1>4, <1>5, <1>18 DEF Sound
  <2>2. label + m * w <= end
    BY <1>2, <1>3, <1>4, LabelsGrow
  <2>3. m * w \in Nat
    BY <1>2, SMTT(30)
  <2>4. label <= l
    BY <2>1, <2>2, <2>3
  <2>5. labels + w <= l
    BY <1>6, <2>4
  <2>6. /\ coverage + 1 <= l /\ activity + 1 <= l
        /\ activity <= l
    BY <1>6, <2>5
  <2>7. /\ variant + 1 <= l
        /\ t = 1 => variant + 1 + sb <= l /\ variant + 1 + sb + nb <= l
    BY <1>6, <2>6
  <2>8. logical + g <= l /\ raw + w <= l /\ raw + w + y <= l
    BY <1>6, <2>7
  <2>9. id + w <= l /\ id + w + x <= l /\ p + v <= l /\ p <= l /\ 0 + p <= l
    BY <1>6, <2>8
  <2>10. ~(count > (l - labels - w) \div w)
    <3>1. PICK u \in Nat : u = l - labels - w
      BY <2>5
    <3>2. u \div w \in Nat
      BY Division
    <3>3. m * w <= u
      BY <1>6, <2>1, <2>2, <2>3, <3>1
    <3>4. m <= u \div w
      BY <1>2, <3>3, RoomFor
    <3>5. QED
      BY <1>2, <2>1, <3>1, <3>2, <3>4
  <2>11. ASSUME NEW k \in 1..m PROVE Place[8 + k] <= l /\ Place[7 + k] + w <= l
    <3>1. /\ 8 + k \in Nat \ {0} /\ m - k \in Nat /\ (8 + k) + (m - k) = 8 + m
          /\ 7 + k \in Nat \ {0} /\ 7 + k > 7 /\ (7 + k) + 1 = 8 + k
      BY <1>2
    <3>2. Place[8 + k] <= Place[(8 + k) + (m - k)]
      BY <3>1, PlacesRise
    <3>3. Place[8 + k] <= end
      BY <1>2, <1>3, <3>1, <3>2
    <3>4. PICK h \in Nat, j \in Nat : h = Place[7 + k] /\ j = Place[8 + k]
      BY <3>1, PlaceType
    <3>5. PICK n \in Nat : n = Num(h, w)
      BY NumType
    <3>6. j = h + w + n
      BY <1>4, <3>1, <3>4, <3>5, PlaceOfLabel
    <3>7. QED
      BY <2>1, <3>3, <3>4, <3>6, SMTT(30)
  <2>12. Passes(Opening) /\ Passes(NeedsString(at.id, "candidate_id"))
    BY <1>8, <1>9, <2>1, <2>9
  <2>13. Passes(NeedsBytes(at.path, "raw_path")) /\ Passes(Middle(at))
    BY <1>10, <1>11, <2>7, <2>8
  <2>14. Passes(RustTime(at))
    BY <1>12, <1>15, <2>1, <2>7
  <2>15. Passes(RustVariants(at))
    BY <1>13, <2>1, <2>5, <2>6, <2>10
  <2>16. Passes(NeedsLabels(at))
    BY <1>14, <2>1, <2>11
  <2>17. QED
    BY <1>7, <2>12, <2>13, <2>14, <2>15, <2>16
<1>19. QED
  BY <1>17, <1>18

-----------------------------------------------------------------------------
(* What is read, and what is written.                                      *)

(* A text read with its mark dropped is a text no longer than it was;      *)
(* read otherwise it is what it was.                                       *)
LEMMA TextProperties ==
  ASSUME NEW bytes \in Seq(Byte), NEW strips
  PROVE  /\ Text(bytes, strips) \in Seq(Byte) /\ Len(Text(bytes, strips)) <= Len(bytes)
         /\ IsUtf8(bytes) => IsUtf8(Text(bytes, strips))
         /\ Text(bytes, FALSE) = bytes
<1>1. Text(bytes, FALSE) = bytes
  BY DEF Text
<1>2. CASE Text(bytes, strips) = bytes
  <2>1. Len(bytes) <= Len(bytes)
    <3>1. Len(bytes) \in Nat
      BY LenProperties
    <3>2. QED
      BY <3>1
  <2>2. IsUtf8(bytes) => IsUtf8(Text(bytes, strips))
    BY <1>2
  <2>3. QED
    BY <1>1, <1>2, <2>1, <2>2
<1>3. CASE Text(bytes, strips) # bytes
  <2>1. Text(bytes, strips) = Tail(bytes) /\ bytes # <<>>
    BY <1>3 DEF Text
  <2>2. PICK n \in Nat : n = Len(bytes) /\ n # 0 /\ bytes \in [1..n -> Byte]
    BY <2>1
  <2>3. PICK t \in Seq(Byte) : /\ t = Tail(bytes) /\ Len(t) = n - 1
                               /\ \A i \in 1..(n - 1) : t[i] = bytes[i + 1]
    <3>1. Tail(bytes) \in Seq(Byte) /\ Len(Tail(bytes)) = Len(bytes) - 1
      BY <2>1, HeadTailProperties
    <3>2. \A i \in 1..Len(Tail(bytes)) : Tail(bytes)[i] = bytes[i + 1]
      BY <2>1, HeadTailProperties
    <3>3. QED
      BY <2>2, <3>1, <3>2
  <2>4. ASSUME IsUtf8(bytes) PROVE IsUtf8(t)
    <3>1. ASSUME NEW x \in Range(t) PROVE x \in Range(bytes)
      <4>1. PICK i \in 1..(n - 1) : x = t[i]
        BY <2>2, <2>3 DEF Range
      <4>2. i + 1 \in 1..n /\ x = bytes[i + 1]
        BY <2>2, <2>3, <4>1
      <4>3. QED
        BY <2>2, <4>2 DEF Range
    <3>2. QED
      BY <2>4, <3>1 DEF IsUtf8
  <2>5. n - 1 <= n
    OBVIOUS
  <2>6. QED
    BY <1>1, <2>1, <2>2, <2>3, <2>4, <2>5
<1>4. QED
  BY <1>2, <1>3

(* The limit of the nanoseconds.                                           *)
LEMMA LimitType ==
  NanosLimit \in Nat /\ NanosLimit <= Power[NanosBytes] /\ Power[NanosBytes] \in Nat
<1>1. Power[NanosBytes] \in Nat
  BY PowerType, WidthsType
<1>2. NanosLimit \in 0..Power[NanosBytes]
  BY FormatAssumption
<1>3. QED
  BY <1>1, <1>2

(* The labels that are read.                                               *)
LEMMA BindingLabels ==
  ASSUME input \in Seq(Byte), NEW at, NEW m, LaidOut(at, m), NEW strips,
         \A k \in 1..m : IsUtf8(Content(at.label[k]))
  PROVE  /\ Binding(at, strips).labels \in Seq(Utf8) /\ Len(Binding(at, strips).labels) = m
         /\ Short(Binding(at, strips).labels)
         /\ \A k \in 1..m : Binding(at, strips).labels[k] = Text(Content(at.label[k]), strips)
<1> DEFINE ls == Binding(at, strips).labels
<1>1. m \in Nat /\ DOMAIN at.label = 1..m /\ \A k \in 1..m : at.label[k] \in Nat
  BY LaidOutProperties DEF LaidOut
<1>2. ls = [k \in 1..m |-> Text(Content(at.label[k]), strips)]
  BY <1>1 DEF Binding, Labels
<1> HIDE DEF ls
<1>3. ASSUME NEW k \in 1..m PROVE ls[k] \in Utf8 /\ Len(ls[k]) < Power[CountBytes]
  <2>1. at.label[k] \in Nat
    BY <1>1
  <2>2. /\ Content(at.label[k]) \in Seq(Byte)
        /\ Len(Content(at.label[k])) < Power[CountBytes]
    BY <2>1, ContentType
  <2>3. PICK x \in Seq(Byte) : x = Content(at.label[k])
    BY <2>2
  <2>4. Text(x, strips) \in Seq(Byte) /\ Len(Text(x, strips)) <= Len(x) /\ IsUtf8(Text(x, strips))
    BY <2>3, TextProperties
  <2>5. Power[CountBytes] \in Nat /\ Len(x) \in Nat /\ Len(Text(x, strips)) \in Nat
    BY <2>4, PowerType, WidthsType, LenProperties
  <2>6. Len(Text(x, strips)) < Power[CountBytes]
    <3>1. Len(x) < Power[CountBytes]
      BY <2>2, <2>3
    <3>2. QED
      BY <2>4, <2>5, <3>1
  <2>7. ls[k] = Text(x, strips)
    BY <1>2, <2>3
  <2>8. QED
    BY <2>4, <2>6, <2>7 DEF Utf8
<1>4. ls \in [1..m -> Utf8]
  BY <1>2, <1>3
<1>5. ls \in Seq(Utf8) /\ Len(ls) = m
  BY <1>1, <1>4
<1>6. QED
  BY <1>2, <1>3, <1>5 DEF ls, Short

(* The fields that are read.                                               *)
LEMMA BindingFields ==
  ASSUME input \in Seq(Byte), NEW at, NEW m, LaidOut(at, m), NEW strips
  PROVE  LET b == Binding(at, strips)
         IN  /\ b = [candidate_id |-> b.candidate_id, raw_path |-> b.raw_path,
                     logical_bytes |-> b.logical_bytes, observed_at |-> b.observed_at,
                     activity |-> b.activity, coverage |-> b.coverage, labels |-> b.labels]
             /\ b.candidate_id = Text(Content(at.id), strips) /\ b.raw_path = Content(at.path)
             /\ b.logical_bytes = Num(at.logical, LogicalBytes)
             /\ b.observed_at =
                  IF Num(at.variant, 1) = 0 THEN None
                  ELSE [seconds |-> Signed(Taken(at.seconds, SecondsBytes)),
                        nanos |-> Num(at.nanos, NanosBytes)]
             /\ b.activity = Num(at.activity, 1) /\ b.coverage = Num(at.coverage, 1)
BY DEF Binding

(* What is read from an input with nothing to object to fits into a        *)
(* record, even with marks dropped.                                        *)
LEMMA BindingWritable ==
  ASSUME input \in Seq(Byte), NEW at, NEW m, LaidOut(at, m), Sound(at, m), NEW strips
  PROVE  Writable(Binding(at, strips), Binding(at, strips).labels)
<1> DEFINE b == Binding(at, strips)
           time == [seconds |-> Signed(Taken(at.seconds, SecondsBytes)), nanos |-> Num(at.nanos, NanosBytes)]
<1>1. /\ IsUtf8(Content(at.id))
      /\ Num(at.variant, 1) = 0 \/ (Num(at.variant, 1) = 1 /\ Num(at.nanos, NanosBytes) < NanosLimit)
      /\ Num(at.activity, 1) \in 0..LastActivity /\ Num(at.coverage, 1) \in 0..LastCoverage
      /\ m = at.count /\ \A k \in 1..m : IsUtf8(Content(at.label[k]))
  BY DEF Sound
<1>2. /\ at.id \in Nat /\ at.path \in Nat /\ at.logical \in Nat /\ at.seconds \in Nat /\ at.nanos \in Nat
      /\ at.labels \in Nat /\ at.count = Num(at.labels, CountBytes)
  BY LaidOutProperties DEF PlaceTypes, LaidOut
<1>3. PICK x \in Seq(Byte), y \in Seq(Byte) :
        /\ x = Content(at.id) /\ Len(x) < Power[CountBytes]
        /\ y = Content(at.path) /\ Len(y) < Power[CountBytes]
  BY <1>2, ContentType
<1>4. Text(x, strips) \in Seq(Byte) /\ Len(Text(x, strips)) <= Len(x) /\ IsUtf8(Text(x, strips))
  BY <1>1, <1>3, TextProperties
<1>5. Power[CountBytes] \in Nat /\ Len(x) \in Nat /\ Len(Text(x, strips)) \in Nat
  BY <1>4, PowerType, WidthsType, LenProperties
<1>6. b.candidate_id \in Utf8 /\ Len(b.candidate_id) < Power[CountBytes]
  <2>1. b.candidate_id = Text(x, strips)
    BY <1>3, BindingFields
  <2>2. Len(Text(x, strips)) < Power[CountBytes]
    BY <1>3, <1>4, <1>5
  <2>3. QED
    BY <1>4, <2>1, <2>2 DEF Utf8
<1>7. b.raw_path \in Seq(Byte) /\ Len(b.raw_path) < Power[CountBytes]
  BY <1>3, BindingFields
<1>8. b.logical_bytes \in 0..(Power[LogicalBytes] - 1)
  <2>1. b.logical_bytes = Num(at.logical, LogicalBytes)
    BY BindingFields
  <2>2. QED
    BY <1>2, <2>1, NumType, WidthsType, ZenonT(40)
<1>9. time \in Timestamp
  <2>1. Taken(at.seconds, SecondsBytes) \in Seq(Byte) /\ Len(Taken(at.seconds, SecondsBytes)) = SecondsBytes
    BY <1>2, TakenType, WidthsType
  <2>2. InRange(Signed(Taken(at.seconds, SecondsBytes)), SecondsBytes)
    BY <2>1, SignedWrittenAsRead
  <2>3. Num(at.nanos, NanosBytes) \in 0..(Power[NanosBytes] - 1)
    BY <1>2, NumType, WidthsType
  <2>4. QED
    BY <2>2, <2>3 DEF InRange, Timestamp
<1>10. /\ b.observed_at \in Timestamp \cup {None}
       /\ b.observed_at # None => b.observed_at.nanos < NanosLimit
  <2>1. b.observed_at = IF Num(at.variant, 1) = 0 THEN None ELSE time
    BY BindingFields
  <2>2. time.nanos = Num(at.nanos, NanosBytes)
    OBVIOUS
  <2> HIDE DEF time
  <2>3. QED
    BY <1>1, <1>9, <2>1, <2>2
<1>11. b.activity \in 0..LastActivity /\ b.coverage \in 0..LastCoverage
  BY <1>1, BindingFields
<1>12. b.labels \in Seq(Utf8) /\ Len(b.labels) = m /\ Short(b.labels)
  BY <1>1, BindingLabels
<1>13. m < Power[CountBytes]
  <2>1. Num(at.labels, CountBytes) \in 0..(Power[CountBytes] - 1)
    BY <1>2, NumType, WidthsType
  <2>2. m \in 0..(Power[CountBytes] - 1)
    BY <1>1, <1>2, <2>1
  <2>3. QED
    BY <1>5, <2>2
<1>14. b \in EvidenceBinding
  <2>1. b = [candidate_id |-> b.candidate_id, raw_path |-> b.raw_path,
             logical_bytes |-> b.logical_bytes, observed_at |-> b.observed_at,
             activity |-> b.activity, coverage |-> b.coverage, labels |-> b.labels]
    BY BindingFields
  <2> HIDE DEF b
  <2>2. QED
    BY <1>6, <1>7, <1>8, <1>10, <1>11, <1>12, <2>1 DEF EvidenceBinding
<1> HIDE DEF b
<1>15. Writable(b, b.labels)
  BY <1>6, <1>7, <1>10, <1>12, <1>13, <1>14 DEF Writable
<1>16. QED
  BY <1>15 DEF b

(* Without dropped marks the binding is what the input says.               *)
LEMMA BindingSays ==
  ASSUME input \in Seq(Byte), NEW at, NEW m, LaidOut(at, m), Sound(at, m)
  PROVE  /\ Says(at, Binding(at, FALSE), Binding(at, FALSE).labels)
         /\ Len(Binding(at, FALSE).labels) = m
<1> DEFINE b == Binding(at, FALSE)
<1>1. /\ Taken(0, Len(Magic)) = Magic /\ Num(Len(Magic), VersionBytes) = Version
      /\ Num(at.variant, 1) = 0 \/ Num(at.variant, 1) = 1
      /\ m = at.count /\ \A k \in 1..m : IsUtf8(Content(at.label[k]))
  BY DEF Sound
<1>2. /\ at.id \in Nat /\ at.seconds \in Nat /\ at.nanos \in Nat
      /\ \A k \in 1..m : at.label[k] = Place[7 + k] /\ at.label[k] \in Nat
  BY LaidOutProperties DEF PlaceTypes
<1>3. b.candidate_id = Content(at.id)
  <2>1. Content(at.id) \in Seq(Byte)
    BY <1>2, ContentType
  <2>2. QED
    BY <2>1, BindingFields, TextProperties
<1>4. /\ b.raw_path = Content(at.path) /\ b.logical_bytes = Num(at.logical, LogicalBytes)
      /\ b.activity = Num(at.activity, 1) /\ b.coverage = Num(at.coverage, 1)
      /\ b.observed_at =
           IF Num(at.variant, 1) = 0 THEN None
           ELSE [seconds |-> Signed(Taken(at.seconds, SecondsBytes)), nanos |-> Num(at.nanos, NanosBytes)]
  BY BindingFields
<1>5. Len(b.labels) = m /\ \A k \in 1..m : b.labels[k] = Content(Place[7 + k])
  <2>1. Len(b.labels) = m /\ \A k \in 1..m : b.labels[k] = Text(Content(at.label[k]), FALSE)
    BY <1>1, BindingLabels, ZenonT(40)
  <2>2. ASSUME NEW k \in 1..m PROVE Text(Content(at.label[k]), FALSE) = Content(Place[7 + k])
    <3>1. Content(at.label[k]) \in Seq(Byte) /\ at.label[k] = Place[7 + k]
      BY <1>2, ContentType
    <3>2. QED
      BY <3>1, TextProperties
  <2>3. QED
    BY <2>1, <2>2
<1>6. Writable(b, b.labels)
  BY BindingWritable
<1> HIDE DEF b
<1>7. SaysTime(at, b.observed_at)
  <2>1. CASE Num(at.variant, 1) = 0
    BY <1>4, <2>1 DEF SaysTime
  <2>2. CASE Num(at.variant, 1) # 0
    <3>1. b.observed_at = [seconds |-> Signed(Taken(at.seconds, SecondsBytes)),
                           nanos |-> Num(at.nanos, NanosBytes)]
      BY <1>4, <2>2
    <3>2. Signed(Taken(at.seconds, SecondsBytes)) \in Int /\ Num(at.nanos, NanosBytes) \in Nat
      <4>1. Taken(at.seconds, SecondsBytes) \in Seq(Byte)
        BY <1>2, TakenType, WidthsType
      <4>2. QED
        BY <1>2, <4>1, SignedWrittenAsRead, NumType, WidthsType
    <3>3. b.observed_at # None
      <4>1. b.observed_at \in [seconds : Int, nanos : Nat]
        BY <3>1, <3>2
      <4>2. QED
        BY <4>1, BindingsAssumption
    <3>4. QED
      BY <1>1, <2>2, <3>1, <3>3 DEF SaysTime
  <2>3. QED
    BY <2>1, <2>2
<1>8. Says(at, b, b.labels) /\ Len(b.labels) = m
  BY <1>1, <1>3, <1>4, <1>5, <1>7 DEF Says
<1>9. QED
  BY <1>8 DEF b

(* What the input says is the binding, and there is nothing to object to.  *)
LEMMA SaysBinding ==
  ASSUME input \in Seq(Byte), NEW at, NEW m, LaidOut(at, m), NEW b, NEW ls, Writable(b, ls),
         Says(at, b, ls), m = Len(ls), at.end = Len(input)
  PROVE  Binding(at, FALSE) = [b EXCEPT !.labels = ls] /\ Sound(at, m)
<1>1. /\ Taken(0, Len(Magic)) = Magic /\ Num(Len(Magic), VersionBytes) = Version
      /\ Content(at.id) = b.candidate_id /\ Content(at.path) = b.raw_path
      /\ Num(at.logical, LogicalBytes) = b.logical_bytes
      /\ SaysTime(at, b.observed_at)
      /\ Num(at.activity, 1) = b.activity /\ Num(at.coverage, 1) = b.coverage
      /\ at.count = Len(ls) /\ \A k \in 1..Len(ls) : Content(Place[7 + k]) = ls[k]
  BY DEF Says
<1>2. /\ b.candidate_id \in Seq(Byte) /\ IsUtf8(b.candidate_id)
      /\ b.observed_at \in Timestamp \cup {None}
      /\ b.activity \in 0..LastActivity /\ b.coverage \in 0..LastCoverage
      /\ ls \in Seq(Seq(Byte)) /\ Len(ls) \in Nat
      /\ \A k \in 1..Len(ls) : IsUtf8(ls[k])
      /\ b.observed_at # None => b.observed_at.nanos < NanosLimit
  BY WritableTypes DEF Writable
<1>3. \A k \in 1..m : at.label[k] = Place[7 + k]
  BY LaidOutProperties
<1>4. \A k \in 1..m : Content(at.label[k]) = ls[k] /\ IsUtf8(Content(at.label[k]))
  BY <1>1, <1>2, <1>3
<1>5. /\ Binding(at, FALSE).observed_at = b.observed_at
      /\ \/ Num(at.variant, 1) = 0
         \/ Num(at.variant, 1) = 1 /\ Num(at.nanos, NanosBytes) < NanosLimit
  <2>1. Binding(at, FALSE).observed_at =
          IF Num(at.variant, 1) = 0 THEN None
          ELSE [seconds |-> Signed(Taken(at.seconds, SecondsBytes)), nanos |-> Num(at.nanos, NanosBytes)]
    BY BindingFields
  <2>2. CASE b.observed_at = None
    BY <1>1, <2>1, <2>2 DEF SaysTime
  <2>3. CASE b.observed_at # None
    <3>1. /\ Num(at.variant, 1) = 1 /\ Signed(Taken(at.seconds, SecondsBytes)) = b.observed_at.seconds
          /\ Num(at.nanos, NanosBytes) = b.observed_at.nanos
      BY <1>1, <2>3 DEF SaysTime
    <3>2. b.observed_at = [seconds |-> b.observed_at.seconds, nanos |-> b.observed_at.nanos]
      BY <1>2, <2>3 DEF Timestamp
    <3>3. Binding(at, FALSE).observed_at = b.observed_at
      <4>1. Num(at.variant, 1) # 0
        BY <3>1
      <4>2. Binding(at, FALSE).observed_at =
              [seconds |-> Signed(Taken(at.seconds, SecondsBytes)), nanos |-> Num(at.nanos, NanosBytes)]
        BY <2>1, <4>1
      <4>3. QED
        BY <3>1, <3>2, <4>2
    <3>4. Num(at.nanos, NanosBytes) < NanosLimit
      BY <1>2, <2>3, <3>1
    <3>5. QED
      BY <3>1, <3>3, <3>4
  <2>4. QED
    BY <2>2, <2>3
<1>6. Sound(at, m)
  <2>1. Len(input) \in Nat
    BY LenProperties
  <2>2. at.end <= Len(input)
    BY <2>1
  <2>3. QED
    BY <1>1, <1>2, <1>4, <1>5, <2>2 DEF Sound
<1> DEFINE c == Binding(at, FALSE)
<1>7. /\ c = [candidate_id |-> c.candidate_id, raw_path |-> c.raw_path,
              logical_bytes |-> c.logical_bytes, observed_at |-> c.observed_at,
              activity |-> c.activity, coverage |-> c.coverage, labels |-> c.labels]
      /\ c.candidate_id = Text(Content(at.id), FALSE) /\ c.raw_path = Content(at.path)
      /\ c.logical_bytes = Num(at.logical, LogicalBytes)
      /\ c.activity = Num(at.activity, 1) /\ c.coverage = Num(at.coverage, 1)
  BY BindingFields
<1>8. c.candidate_id = b.candidate_id
  BY <1>1, <1>2, <1>7, TextProperties
<1>9. c.labels = ls
  <2>1. /\ c.labels \in Seq(Utf8) /\ Len(c.labels) = m
        /\ \A k \in 1..m : c.labels[k] = Text(Content(at.label[k]), FALSE)
    <3>1. \A k \in 1..m : IsUtf8(Content(at.label[k]))
      BY <1>4
    <3>2. /\ Binding(at, FALSE).labels \in Seq(Utf8) /\ Len(Binding(at, FALSE).labels) = m
          /\ \A k \in 1..m : Binding(at, FALSE).labels[k] = Text(Content(at.label[k]), FALSE)
      BY ONLY <3>1, BindingLabels, input \in Seq(Byte), LaidOut(at, m)
    <3>3. QED
      BY ONLY <3>2
  <2>2. ASSUME NEW k \in 1..m PROVE c.labels[k] = ls[k]
    <3>1. Content(at.label[k]) = ls[k] /\ ls[k] \in Seq(Byte)
      BY <1>2, <1>4
    <3>2. Text(ls[k], FALSE) = ls[k]
      BY <3>1, TextProperties
    <3>3. QED
      BY <2>1, <3>1, <3>2
  <2>3. PICK cs \in Seq(Seq(Byte)) : cs = c.labels
    BY <2>1, Utf8IsBytes
  <2>4. cs = ls
    <3>1. Len(cs) = Len(ls) /\ \A k \in 1..Len(cs) : cs[k] = ls[k]
      BY <2>1, <2>2, <2>3
    <3>2. QED
      BY <1>2, <3>1, SeqEqual
  <2>5. QED
    BY <2>3, <2>4
<1> HIDE DEF c
<1>10. b = [candidate_id |-> b.candidate_id, raw_path |-> b.raw_path,
            logical_bytes |-> b.logical_bytes, observed_at |-> b.observed_at,
            activity |-> b.activity, coverage |-> b.coverage, labels |-> b.labels]
  BY DEF Writable, EvidenceBinding
<1>11. [b EXCEPT !.labels = ls] =
         [candidate_id |-> b.candidate_id, raw_path |-> b.raw_path,
          logical_bytes |-> b.logical_bytes, observed_at |-> b.observed_at,
          activity |-> b.activity, coverage |-> b.coverage, labels |-> ls]
  BY <1>10
<1>12. c.observed_at = b.observed_at
  BY <1>5 DEF c
<1>13. c = [b EXCEPT !.labels = ls]
  BY <1>1, <1>7, <1>8, <1>9, <1>11, <1>12
<1>14. QED
  BY <1>6, <1>13 DEF c

(* The labels an encoder writes are texts like those it is given.          *)
LEMMA Utf8Labels ==
  ASSUME NEW s \in Seq(Utf8)
  PROVE  CanonicalLabels(s) \in Seq(Utf8) /\ s \in Seq(Seq(Byte))
<1>1. s \in Seq(Seq(Byte)) /\ \A x \in Range(s) : x \in Utf8
  BY Utf8IsBytes DEF Range
<1>2. PICK t \in Seq(Seq(Byte)) : t = CanonicalLabels(s) /\ Range(t) = Range(s)
  BY <1>1, CanonicalLabelsProperties
<1>3. Len(t) \in Nat /\ t \in [1..Len(t) -> Seq(Byte)]
  BY LenProperties
<1>4. ASSUME NEW k \in 1..Len(t) PROVE t[k] \in Utf8
  <2>1. t[k] \in Range(t)
    BY <1>3 DEF Range
  <2>2. QED
    BY <1>1, <1>2, <2>1
<1>5. t \in [1..Len(t) -> Utf8]
  BY <1>3, <1>4
<1>6. t \in Seq(Utf8)
  BY <1>3, <1>5
<1>7. QED
  BY <1>1, <1>2, <1>6

(* The encoder writes what fits, and nothing else.                         *)
LEMMA EncodeWrites ==
  ASSUME NEW b \in EvidenceBinding
  PROVE  /\ Encode(b).error = Ok <=> Writable(b, CanonicalLabels(b.labels))
         /\ Writable(b, CanonicalLabels(b.labels)) =>
              Encode(b) = Verdict(Ok, Record(b, CanonicalLabels(b.labels)))
<1> DEFINE ls == CanonicalLabels(b.labels)
           late == b.observed_at # None /\ b.observed_at.nanos >= NanosLimit
           c1 == Check(late, Error("invalidNanoseconds"))
           c2 == Check(TooLong(Len(b.candidate_id)), FieldTooLong("candidate_id"))
           c3 == Check(TooLong(Len(b.raw_path)), FieldTooLong("raw_path"))
           c4 == Check(TooLong(Len(ls)), FieldTooLong("labels"))
           long == \E i \in DOMAIN ls : TooLong(Len(ls[i]))
           c5 == Check(long, FieldTooLong("label"))
           checks == <<c1, c2, c3, c4, c5>>
<1>1. Encode(b) = Verdict(FirstError(checks), Record(b, ls))
  BY DEF Encode
<1>2. /\ b.candidate_id \in Utf8 /\ b.raw_path \in Seq(Byte) /\ b.labels \in Seq(Utf8)
      /\ b.observed_at \in Timestamp \cup {None}
  BY DEF EvidenceBinding
<1>3. ls \in Seq(Utf8) /\ ls \in Seq(Seq(Byte)) /\ b.candidate_id \in Seq(Byte)
  BY <1>2, Utf8Labels, Utf8IsBytes
<1> HIDE DEF ls
<1>4. PICK p \in Nat, x \in Nat, y \in Nat, n \in Nat :
        /\ p = Power[CountBytes] /\ x = Len(b.candidate_id) /\ y = Len(b.raw_path) /\ n = Len(ls)
  BY <1>2, <1>3, PowerType, WidthsType, LenProperties
<1>5. DOMAIN ls = 1..n /\ \A i \in 1..n : Len(ls[i]) \in Nat
  BY <1>3, <1>4, LenProperties
<1>6. /\ late \in BOOLEAN /\ TooLong(x) \in BOOLEAN /\ TooLong(y) \in BOOLEAN /\ TooLong(n) \in BOOLEAN
      /\ long \in BOOLEAN
  BY DEF TooLong
<1>7. /\ TooLong(x) <=> ~(x < p)
      /\ TooLong(y) <=> ~(y < p)
      /\ TooLong(n) <=> ~(n < p)
  BY <1>4 DEF TooLong
<1>8. long <=> ~Short(ls)
  <2>1. \A i \in 1..n : TooLong(Len(ls[i])) <=> ~(Len(ls[i]) < p)
    BY <1>4, <1>5 DEF TooLong
  <2>2. QED
    BY <1>4, <1>5, <2>1 DEF Short
<1>9. late <=> ~(b.observed_at # None => b.observed_at.nanos < NanosLimit)
  <2>1. b.observed_at # None => b.observed_at.nanos \in Nat
    <3>1. Power[NanosBytes] \in Nat
      BY LimitType
    <3>2. b.observed_at # None => b.observed_at.nanos \in 0..(Power[NanosBytes] - 1)
      BY <1>2 DEF Timestamp
    <3>3. QED
      BY <3>1, <3>2
  <2>2. QED
    BY <2>1, LimitType
<1>10. c1 \in Early /\ c1.fails = late
  <2> HIDE DEF late
  <2>1. QED
    BY <1>6, FaultsAre, EarlyCheck
<1>11. c2 \in Early /\ c2.fails = TooLong(x)
  BY <1>4, <1>6, FieldsAre, EarlyErrors, EarlyCheck
<1>12. c3 \in Early /\ c3.fails = TooLong(y)
  BY <1>4, <1>6, FieldsAre, EarlyErrors, EarlyCheck
<1>13. c4 \in Early /\ c4.fails = TooLong(n)
  BY <1>4, <1>6, FieldsAre, EarlyErrors, EarlyCheck
<1>14. c5 \in Early /\ c5.fails = long
  <2> HIDE DEF long
  <2>1. QED
    BY <1>6, FieldsAre, EarlyErrors, EarlyCheck
<1> HIDE DEF late, long, c1, c2, c3, c4, c5
<1>15. /\ checks \in Seq(Early)
       /\ Passes(checks) <=> ~c1.fails /\ ~c2.fails /\ ~c3.fails /\ ~c4.fails /\ ~c5.fails
  BY <1>10, <1>11, <1>12, <1>13, <1>14 DEF Passes
<1> HIDE DEF checks
<1>16. FirstError(checks) = Ok <=> Passes(checks)
  BY <1>15, EarlyIsCheck, NoError
<1>17. Writable(b, ls) <=>
         /\ b.observed_at # None => b.observed_at.nanos < NanosLimit
         /\ x < p /\ y < p /\ n < p /\ Short(ls)
  BY <1>3, <1>4 DEF Writable
<1>18. Passes(checks) <=> Writable(b, ls)
  BY <1>7, <1>8, <1>9, <1>10, <1>11, <1>12, <1>13, <1>14, <1>15, <1>17
<1>19. Encode(b).error = FirstError(checks)
  BY <1>1 DEF Verdict
<1>20. QED
  BY <1>1, <1>16, <1>18, <1>19 DEF ls

-----------------------------------------------------------------------------
(* The last three checks.                                                  *)

(* What the last three checks find.                                        *)
LEMMA ClosingMeans ==
  ASSUME NEW asc \in BOOLEAN, NEW trails \in BOOLEAN, NEW b, NEW closing,
         closing = <<Check(~asc, Error("nonCanonicalLabels")), Check(trails, Error("trailingBytes")),
                     Unencoded(b)>>
  PROVE  /\ closing \in Seq(Checks)
         /\ Passes(closing) <=> asc /\ ~trails /\ Encode(b) = Verdict(Ok, input)
         /\ FirstError(closing) = Error("nonCanonicalEncoding") =>
              asc /\ ~trails /\ Encode(b) # Verdict(Ok, input)
<1> DEFINE c == Check(~asc, Error("nonCanonicalLabels"))
           d == Check(trails, Error("trailingBytes"))
           e == Unencoded(b)
<1>1. c \in Early /\ (c.fails <=> ~asc) /\ d \in Early /\ (d.fails <=> trails)
  BY FaultsAre, EarlyCheck
<1>2. /\ e = [fails |-> Encode(b) # Verdict(Ok, input), error |-> Error("nonCanonicalEncoding")]
  BY DEF Unencoded, Check
<1>3. Error("nonCanonicalEncoding") \in Errors
  BY DEF Errors, Faults
<1>4. e \in Checks /\ (e.fails <=> Encode(b) # Verdict(Ok, input))
  <2> HIDE DEF e
  <2>1. QED
    BY <1>2, <1>3 DEF Checks
<1>5. closing = <<c, d, e>>
  OBVIOUS
<1> HIDE DEF c, d, e
<1>6. c \in Checks /\ d \in Checks /\ c.error # Error("nonCanonicalEncoding")
      /\ d.error # Error("nonCanonicalEncoding")
  BY <1>1 DEF Early, Checks
<1>7. /\ closing \in Seq(Checks) /\ DOMAIN closing = {1, 2, 3}
      /\ closing[1] = c /\ closing[2] = d /\ closing[3] = e
  BY <1>4, <1>5, <1>6
<1>8. Passes(closing) <=> ~c.fails /\ ~d.fails /\ ~e.fails
  BY <1>7 DEF Passes
<1>9. ASSUME FirstError(closing) = Error("nonCanonicalEncoding") PROVE ~c.fails /\ ~d.fails /\ e.fails
  <2>1. Ok # Error("nonCanonicalEncoding")
    BY DEF Ok, Error
  <2>2. ~Passes(closing)
    BY <1>7, <1>9, <2>1, NoError
  <2>3. PICK i \in DOMAIN closing : /\ closing[i].fails
                                    /\ \A j \in DOMAIN closing : closing[j].fails => i <= j
                                    /\ FirstError(closing) = closing[i].error
    BY <1>7, <2>2, FirstFailing
  <2>4. i = 3
    BY <1>6, <1>7, <1>9, <2>3
  <2>5. QED
    BY <1>7, <2>3, <2>4
<1>10. QED
  BY <1>1, <1>4, <1>7, <1>8, <1>9

(* The verdict has a value only where there is no error.                   *)
LEMMA VerdictOf ==
  ASSUME NEW error, NEW read
  PROVE  /\ Verdict(error, read).error = error
         /\ error = Ok => Verdict(error, read).value = read
         /\ error # Ok => Verdict(error, read) = Verdict(error, None)
BY DEF Verdict

(* A record that is read without dropped marks is the encoding of what is  *)
(* read.                                                                   *)
LEMMA ReadIsEncoded ==
  ASSUME input \in Seq(Byte), NEW at, NEW m, LaidOut(at, m), Sound(at, m),
         Ascending(Binding(at, FALSE).labels), at.end = Len(input)
  PROVE  Encode(Binding(at, FALSE)) = Verdict(Ok, input)
<1>1. PICK b : b = Binding(at, FALSE)
  OBVIOUS
<1>2. Writable(b, b.labels) /\ Says(at, b, b.labels) /\ Len(b.labels) = m
  BY <1>1, BindingWritable, BindingSays
<1>3. Record(b, b.labels) = input
  BY <1>2, RecordWritten
<1>4. b \in EvidenceBinding /\ b.labels \in Seq(Seq(Byte))
  BY <1>2, WritableTypes DEF Writable
<1>5. CanonicalLabels(b.labels) = b.labels
  BY <1>1, <1>4, CanonicalLabelsAscending
<1>6. Encode(b) = Verdict(Ok, Record(b, b.labels))
  BY <1>2, <1>4, <1>5, EncodeWrites
<1>7. QED
  BY <1>1, <1>3, <1>6

(* Where the bytes are the encoding of a binding, that is the binding read *)
(* from them.                                                              *)
LEMMA EncodedIsRead ==
  ASSUME input \in Seq(Byte), NEW at, NEW m, LaidOut(at, m), NEW b \in EvidenceBinding,
         Encode(b) = Verdict(Ok, input)
  PROVE  /\ Sound(at, m) /\ at.end = Len(input)
         /\ Binding(at, FALSE) = [b EXCEPT !.labels = CanonicalLabels(b.labels)]
<1>1. PICK ls : ls = CanonicalLabels(b.labels)
  OBVIOUS
<1>2. Encode(b).error = Ok
  BY VerdictOf
<1>3. Writable(b, ls) /\ Encode(b) = Verdict(Ok, Record(b, ls))
  BY <1>1, <1>2, EncodeWrites
<1>4. Verdict(Ok, input).value = input /\ Verdict(Ok, Record(b, ls)).value = Record(b, ls)
  BY VerdictOf
<1>5. input = Record(b, ls)
  BY <1>3, <1>4
<1>6. Says(at, b, ls) /\ m = Len(ls) /\ at.end = Len(input)
  BY <1>3, <1>5, RecordRead
<1>7. QED
  BY <1>1, <1>3, <1>6, SaysBinding

(* The two read the same exactly if no text of the binding begins with a   *)
(* mark that is dropped.                                                   *)
LEMMA PlainReading ==
  ASSUME input \in Seq(Byte), NEW at, NEW m, LaidOut(at, m)
  PROVE  Plain(Binding(at, FALSE)) <=> Binding(at, stripsMark) = Binding(at, FALSE)
<1> DEFINE b == Binding(at, FALSE)
           c == Binding(at, stripsMark)
<1>1. /\ m \in Nat /\ DOMAIN at.label = 1..m /\ at.id \in Nat
      /\ \A k \in 1..m : at.label[k] \in Nat
  BY LaidOutProperties DEF LaidOut, PlaceTypes
<1>2. Content(at.id) \in Seq(Byte) /\ \A k \in 1..m : Content(at.label[k]) \in Seq(Byte)
  BY <1>1, ContentType
<1>3. b.candidate_id = Content(at.id) /\ c.candidate_id = Text(Content(at.id), stripsMark)
  BY <1>2, BindingFields, TextProperties
<1>4. /\ b.labels = [k \in 1..m |-> Text(Content(at.label[k]), FALSE)]
      /\ c.labels = [k \in 1..m |-> Text(Content(at.label[k]), stripsMark)]
  BY <1>1 DEF Binding, Labels
<1>5. \A k \in 1..m : Text(Content(at.label[k]), FALSE) = Content(at.label[k])
  BY <1>2, TextProperties
<1>6. /\ DOMAIN b.labels = 1..m /\ DOMAIN c.labels = 1..m
      /\ \A k \in 1..m : c.labels[k] = Text(b.labels[k], stripsMark)
  <2>1. /\ DOMAIN b.labels = 1..m /\ DOMAIN c.labels = 1..m
        /\ \A k \in 1..m : /\ b.labels[k] = Text(Content(at.label[k]), FALSE)
                           /\ c.labels[k] = Text(Content(at.label[k]), stripsMark)
    <3> HIDE DEF b, c
    <3>1. QED
      BY <1>4
  <2> HIDE DEF b, c
  <2>2. QED
    BY <1>5, <2>1
<1>7. /\ b = [candidate_id |-> b.candidate_id, raw_path |-> b.raw_path,
              logical_bytes |-> b.logical_bytes, observed_at |-> b.observed_at,
              activity |-> b.activity, coverage |-> b.coverage, labels |-> b.labels]
      /\ c = [candidate_id |-> c.candidate_id, raw_path |-> c.raw_path,
              logical_bytes |-> c.logical_bytes, observed_at |-> c.observed_at,
              activity |-> c.activity, coverage |-> c.coverage, labels |-> c.labels]
  BY BindingFields
<1>8. /\ c.raw_path = b.raw_path /\ c.logical_bytes = b.logical_bytes /\ c.observed_at = b.observed_at
      /\ c.activity = b.activity /\ c.coverage = b.coverage
  <2> DEFINE time == IF Num(at.variant, 1) = 0 THEN None
                     ELSE [seconds |-> Signed(Taken(at.seconds, SecondsBytes)),
                           nanos |-> Num(at.nanos, NanosBytes)]
  <2>1. /\ b.raw_path = Content(at.path) /\ b.logical_bytes = Num(at.logical, LogicalBytes)
        /\ b.observed_at = time /\ b.activity = Num(at.activity, 1)
        /\ b.coverage = Num(at.coverage, 1)
    BY BindingFields
  <2>2. /\ c.raw_path = Content(at.path) /\ c.logical_bytes = Num(at.logical, LogicalBytes)
        /\ c.observed_at = time /\ c.activity = Num(at.activity, 1)
        /\ c.coverage = Num(at.coverage, 1)
    BY BindingFields
  <2> HIDE DEF b, c, time
  <2>3. QED
    BY <2>1, <2>2
<1>9. Plain(b) <=> /\ Text(b.candidate_id, stripsMark) = b.candidate_id
                   /\ \A k \in 1..m : Text(b.labels[k], stripsMark) = b.labels[k]
  <2> HIDE DEF b
  <2>1. Range(b.labels) = {b.labels[k] : k \in 1..m}
    BY <1>6 DEF Range
  <2>2. QED
    BY <2>1 DEF Plain, Texts
<1>10. /\ c.labels = [k \in 1..m |-> c.labels[k]] /\ b.labels = [k \in 1..m |-> b.labels[k]]
  <2>1. /\ c.labels = [k \in DOMAIN c.labels |-> c.labels[k]]
        /\ b.labels = [k \in DOMAIN b.labels |-> b.labels[k]]
    BY <1>4
  <2>2. QED
    BY <1>6, <2>1
<1> HIDE DEF b, c
<1>11. c.labels = b.labels <=> \A k \in 1..m : c.labels[k] = b.labels[k]
  BY <1>10
<1>12. ASSUME Plain(b) PROVE c = b
  <2>1. c.candidate_id = b.candidate_id /\ c.labels = b.labels
    BY <1>3, <1>6, <1>9, <1>11, <1>12
  <2>2. QED
    BY <1>7, <1>8, <2>1
<1>13. ASSUME c = b PROVE Plain(b)
  <2>1. c.candidate_id = b.candidate_id /\ \A k \in 1..m : c.labels[k] = b.labels[k]
    BY <1>13
  <2>2. QED
    BY <1>3, <1>6, <1>9, <2>1
<1>14. QED
  BY <1>12, <1>13 DEF b, c

-----------------------------------------------------------------------------
(* The verdicts.                                                           *)

(* What a verifier accepts: with the checks up to the last three as the    *)
(* two share them, and the last three as either of them writes them.       *)
LEMMA AcceptsMeans ==
  ASSUME input \in Seq(Byte), NEW at, NEW m, LaidOut(at, m),
         NEW front \in Seq(Early), FirstError(front) = FirstError(RustFront(at)),
         NEW asc \in BOOLEAN, NEW trails \in BOOLEAN, NEW b, NEW closing,
         closing = <<Check(~asc, Error("nonCanonicalLabels")), Check(trails, Error("trailingBytes")),
                     Unencoded(b)>>,
         Sound(at, m) => (trails <=> at.end # Len(input))
  PROVE  /\ FirstError(front \o closing) = Ok <=>
              Sound(at, m) /\ at.end = Len(input) /\ asc /\ Encode(b) = Verdict(Ok, input)
         /\ FirstError(front \o closing) = Error("nonCanonicalEncoding") =>
              Sound(at, m) /\ at.end = Len(input) /\ asc /\ Encode(b) # Verdict(Ok, input)
<1>1. /\ closing \in Seq(Checks)
      /\ Passes(closing) <=> asc /\ ~trails /\ Encode(b) = Verdict(Ok, input)
      /\ FirstError(closing) = Error("nonCanonicalEncoding") =>
           asc /\ ~trails /\ Encode(b) # Verdict(Ok, input)
  BY ClosingMeans
<1>2. RustFront(at) \in Seq(Early)
  BY FrontGroups
<1>3. front \in Seq(Checks) /\ RustFront(at) \in Seq(Checks)
  BY <1>2, EarlyIsCheck
<1>4. FirstError(front) = Ok <=> Sound(at, m)
  BY <1>3, NoError, FrontMeans
<1>5. FirstError(front) # Error("nonCanonicalEncoding")
  BY EarlyIsCheck
<1>6. FirstError(closing) = Ok <=> Passes(closing)
  BY <1>1, NoError
<1>7. FirstError(front \o closing) = IF FirstError(front) = Ok THEN FirstError(closing) ELSE FirstError(front)
  BY <1>1, <1>3, FirstOfBoth
<1>8. QED
  BY <1>1, <1>4, <1>5, <1>6, <1>7

(* Where the input goes as far as the layout, more than that and other     *)
(* than that are the same.                                                 *)
LEMMA Trailing ==
  ASSUME input \in Seq(Byte), NEW at, NEW m, LaidOut(at, m)
  PROVE  /\ (Len(input) > at.end) \in BOOLEAN /\ (Len(input) # at.end) \in BOOLEAN
         /\ Sound(at, m) => /\ Len(input) > at.end <=> at.end # Len(input)
                            /\ Len(input) # at.end <=> at.end # Len(input)
                            /\ (Len(input) > at.end) = (Len(input) # at.end)
<1>1. PICK l \in Nat, e \in Nat : l = Len(input) /\ e = at.end
  BY LaidOutProperties, LenProperties DEF PlaceTypes
<1>2. Sound(at, m) => e <= l
  BY <1>1 DEF Sound
<1>3. /\ (l > e) \in BOOLEAN /\ (l # e) \in BOOLEAN
      /\ e <= l => (l > e <=> l # e)
  OBVIOUS
<1>4. QED
  BY <1>1, <1>2, <1>3

(* What the client accepts, and what it never finds.                       *)
LEMMA RustMeans ==
  ASSUME input \in Seq(Byte), NEW at, NEW m, LaidOut(at, m)
  PROVE  /\ RustVerify(at).error = Ok <=>
              /\ Sound(at, m) /\ at.end = Len(input) /\ Ascending(Binding(at, FALSE).labels)
              /\ Encode(Binding(at, FALSE)) = Verdict(Ok, input)
         /\ RustVerify(at).error = Ok => RustVerify(at) = Verdict(Ok, Binding(at, FALSE))
         /\ RustVerify(at).error # Error("nonCanonicalEncoding")
<1>1. PICK asc, trails, b, closing, front :
        /\ asc \in BOOLEAN /\ trails \in BOOLEAN
        /\ asc = Ascending(Binding(at, FALSE).labels) /\ trails = (Len(input) > at.end)
        /\ b = Binding(at, FALSE) /\ closing = RustClosing(at) /\ front = RustFront(at)
  <2>1. Ascending(Binding(at, FALSE).labels) \in BOOLEAN
    BY DEF Ascending
  <2>2. (Len(input) > at.end) \in BOOLEAN
    BY Trailing
  <2>3. QED
    BY <2>1, <2>2
<1>2. closing = <<Check(~asc, Error("nonCanonicalLabels")), Check(trails, Error("trailingBytes")),
                  Unencoded(b)>>
  BY <1>1 DEF RustClosing
<1>3. Sound(at, m) => (trails <=> at.end # Len(input))
  BY <1>1, Trailing
<1>4. /\ asc \in BOOLEAN /\ trails \in BOOLEAN
      /\ front \in Seq(Early) /\ FirstError(front) = FirstError(RustFront(at))
  BY <1>1, FrontGroups
<1>5. /\ FirstError(front \o closing) = Ok <=>
           Sound(at, m) /\ at.end = Len(input) /\ asc /\ Encode(b) = Verdict(Ok, input)
      /\ FirstError(front \o closing) = Error("nonCanonicalEncoding") =>
           Sound(at, m) /\ at.end = Len(input) /\ asc /\ Encode(b) # Verdict(Ok, input)
  BY <1>2, <1>3, <1>4, AcceptsMeans
<1>6. RustVerify(at) = Verdict(FirstError(front \o closing), b)
  BY <1>1, VerifiersMeans
<1>7. RustVerify(at).error = FirstError(front \o closing)
  BY <1>6, VerdictOf
<1>8. Sound(at, m) /\ at.end = Len(input) /\ asc => Encode(b) = Verdict(Ok, input)
  BY <1>1, ReadIsEncoded
<1>9. QED
  BY <1>1, <1>5, <1>6, <1>7, <1>8

(* What the engine accepts.                                                *)
LEMMA SwiftMeans ==
  ASSUME input \in Seq(Byte), NEW at, NEW m, LaidOut(at, m)
  PROVE  /\ SwiftVerify(at).error = Ok <=>
              /\ Sound(at, m) /\ at.end = Len(input) /\ Ascending(Binding(at, stripsMark).labels)
              /\ Encode(Binding(at, stripsMark)) = Verdict(Ok, input)
         /\ SwiftVerify(at) = Verdict(SwiftVerify(at).error, Binding(at, stripsMark))
<1>1. PICK asc, trails, b, closing, front :
        /\ asc \in BOOLEAN /\ trails \in BOOLEAN
        /\ asc = Ascending(Binding(at, stripsMark).labels) /\ trails = (Len(input) # at.end)
        /\ b = Binding(at, stripsMark) /\ closing = SwiftClosing(at) /\ front = SwiftFront(at)
  <2>1. Ascending(Binding(at, stripsMark).labels) \in BOOLEAN
    BY DEF Ascending
  <2>2. (Len(input) # at.end) \in BOOLEAN
    BY Trailing
  <2>3. QED
    BY <2>1, <2>2
<1>2. closing = <<Check(~asc, Error("nonCanonicalLabels")), Check(trails, Error("trailingBytes")),
                  Unencoded(b)>>
  BY <1>1 DEF SwiftClosing
<1>3. Sound(at, m) => (trails <=> at.end # Len(input))
  BY <1>1, Trailing
<1>4. /\ asc \in BOOLEAN /\ trails \in BOOLEAN
      /\ front \in Seq(Early) /\ FirstError(front) = FirstError(RustFront(at))
  BY <1>1, FrontGroups
<1>5. FirstError(front \o closing) = Ok <=>
        Sound(at, m) /\ at.end = Len(input) /\ asc /\ Encode(b) = Verdict(Ok, input)
  BY <1>2, <1>3, <1>4, AcceptsMeans
<1>6. SwiftVerify(at) = Verdict(FirstError(front \o closing), b)
  BY <1>1, VerifiersMeans
<1>7. SwiftVerify(at).error = FirstError(front \o closing)
  BY <1>6, VerdictOf
<1>8. QED
  BY <1>1, <1>5, <1>6, <1>7

(* Where no mark is dropped the two give the same verdict, error for error. *)
LEMMA SameReading ==
  ASSUME input \in Seq(Byte), NEW at, NEW m, LaidOut(at, m),
         Binding(at, stripsMark) = Binding(at, FALSE)
  PROVE  SwiftVerify(at) = RustVerify(at)
<1>1. PICK b, r, s, f, g :
        /\ b = Binding(at, FALSE) /\ b = Binding(at, stripsMark) /\ r = RustClosing(at)
        /\ s = SwiftClosing(at) /\ f = RustFront(at) /\ g = SwiftFront(at)
  OBVIOUS
<1>2. /\ RustVerify(at) = Verdict(FirstError(f \o r), b)
      /\ SwiftVerify(at) = Verdict(FirstError(g \o s), b)
  BY <1>1, VerifiersMeans
<1>3. /\ f \in Seq(Early) /\ g \in Seq(Early) /\ FirstError(f) = FirstError(g)
      /\ Passes(f) <=> Sound(at, m)
  BY <1>1, FrontGroups, FrontMeans
<1>4. f \in Seq(Checks) /\ g \in Seq(Checks)
  BY <1>3, EarlyIsCheck
<1>5. PICK asc \in BOOLEAN, rt \in BOOLEAN, st \in BOOLEAN :
        /\ asc = Ascending(b.labels) /\ rt = (Len(input) > at.end) /\ st = (Len(input) # at.end)
  <2>1. Ascending(b.labels) \in BOOLEAN
    BY DEF Ascending
  <2>2. QED
    BY <2>1, Trailing
<1>6. /\ r = <<Check(~asc, Error("nonCanonicalLabels")), Check(rt, Error("trailingBytes")), Unencoded(b)>>
      /\ s = <<Check(~asc, Error("nonCanonicalLabels")), Check(st, Error("trailingBytes")), Unencoded(b)>>
  BY <1>1, <1>5 DEF RustClosing, SwiftClosing
<1>7. r \in Seq(Checks) /\ s \in Seq(Checks)
  BY <1>6, ClosingMeans
<1>8. Sound(at, m) => r = s
  <2>1. Sound(at, m) => rt = st
    BY <1>5, Trailing
  <2>2. QED
    BY <1>6, <2>1
<1>9. FirstError(f) = Ok => FirstError(r) = FirstError(s)
  BY <1>3, <1>4, <1>8, NoError
<1>10. /\ FirstError(f \o r) = IF FirstError(f) = Ok THEN FirstError(r) ELSE FirstError(f)
       /\ FirstError(g \o s) = IF FirstError(g) = Ok THEN FirstError(s) ELSE FirstError(g)
  BY <1>4, <1>7, FirstOfBoth
<1>11. QED
  BY <1>2, <1>3, <1>9, <1>10

(* What the engine accepts it has read as it stands.                       *)
LEMMA AcceptedIsPlain ==
  ASSUME input \in Seq(Byte), NEW at, NEW m, LaidOut(at, m), SwiftVerify(at).error = Ok
  PROVE  Binding(at, stripsMark) = Binding(at, FALSE)
<1>1. PICK b : b = Binding(at, stripsMark)
  OBVIOUS
<1>2. Sound(at, m) /\ Ascending(b.labels) /\ Encode(b) = Verdict(Ok, input)
  BY <1>1, SwiftMeans
<1>3. Writable(b, b.labels)
  BY <1>1, <1>2, BindingWritable
<1>4. b \in EvidenceBinding /\ b.labels \in Seq(Seq(Byte))
  BY <1>3, WritableTypes DEF Writable
<1>5. CanonicalLabels(b.labels) = b.labels
  BY <1>2, <1>4, CanonicalLabelsAscending
<1>6. Binding(at, FALSE) = [b EXCEPT !.labels = CanonicalLabels(b.labels)]
  BY <1>2, <1>4, EncodedIsRead
<1>7. [b EXCEPT !.labels = b.labels] = b
  BY <1>4 DEF EvidenceBinding
<1>8. QED
  BY <1>1, <1>5, <1>6, <1>7

-----------------------------------------------------------------------------
(* The specification.                                                      *)

(* What an encoder writes is bytes.                                        *)
LEMMA EncodedType ==
  ASSUME input \in Seq(Byte), NEW b \in EvidenceBinding, Encode(b).error = Ok
  PROVE  Encode(b).value \in Seq(Byte) /\ Encode(b) = Verdict(Ok, Encode(b).value)
<1>1. PICK ls : ls = CanonicalLabels(b.labels)
  OBVIOUS
<1>2. Writable(b, ls) /\ Encode(b) = Verdict(Ok, Record(b, ls))
  BY <1>1, EncodeWrites
<1>3. Encode(b).value = Record(b, ls)
  BY <1>2, VerdictOf
<1>4. ObservedAt(b.observed_at) \in Seq(Byte) /\ Len(ObservedAt(b.observed_at)) \in Nat
  <2>1. b.observed_at \in Timestamp \cup {None}
    BY <1>2, WritableTypes
  <2>2. PICK at : at.variant = 0 /\ at.seconds = 1 /\ at.nanos = 1 + SecondsBytes
    <3>1. [variant |-> 0, seconds |-> 1, nanos |-> 1 + SecondsBytes].variant = 0
      OBVIOUS
    <3>2. [variant |-> 0, seconds |-> 1, nanos |-> 1 + SecondsBytes].seconds = 1
      OBVIOUS
    <3>3. [variant |-> 0, seconds |-> 1, nanos |-> 1 + SecondsBytes].nanos = 1 + SecondsBytes
      OBVIOUS
    <3>4. QED
      BY <3>1, <3>2, <3>3
  <2>3. at.variant \in Nat /\ at.seconds = at.variant + 1 /\ at.nanos = at.variant + 1 + SecondsBytes
    BY <2>2
  <2>4. QED
    BY <2>1, <2>3, TimeIsRead
<1>5. PICK c \in Nat, d \in Nat, v \in Nat, w \in Nat, g \in Nat, o \in Nat, p \in Nat :
        /\ c = Len(b.candidate_id) /\ d = Len(b.raw_path) /\ v = VersionBytes /\ w = CountBytes
        /\ g = LogicalBytes /\ o = Len(ObservedAt(b.observed_at)) /\ p = Len(Magic)
  BY <1>2, <1>4, WritableTypes, WidthsType
<1>6. PICK id \in Nat, second \in Nat, third \in Nat, fourth \in Nat, fifth \in Nat, sixth \in Nat,
           seventh \in Nat :
        /\ id = p + v /\ second = id + (w + c) /\ third = second + (w + d) /\ fourth = third + g
        /\ fifth = fourth + o /\ sixth = fifth + 2 /\ seventh = sixth + w
  OBVIOUS
<1>7. Spread(b, id, second, third, fourth, fifth, sixth, seventh)
  BY <1>4, <1>5, <1>6 DEF Spread
<1>8. Record(b, ls) \in Seq(Byte)
  BY <1>2, <1>7, RecordParts
<1>9. QED
  BY <1>2, <1>3, <1>8

(* What VerifiersAgree says, of any input and its layout.                  *)
LEMMA VerdictsAgree ==
  ASSUME input \in Seq(Byte), stripsMark \in BOOLEAN, NEW at, NEW m, LaidOut(at, m)
  PROVE  /\ SwiftVerify(at).error = Ok => SwiftVerify(at) = RustVerify(at)
         /\ RustVerify(at).error = Ok /\ Plain(RustVerify(at).value) =>
              SwiftVerify(at) = RustVerify(at)
         /\ ~stripsMark => SwiftVerify(at) = RustVerify(at)
         /\ RustVerify(at).error # Error("nonCanonicalEncoding")
<1>1. ASSUME SwiftVerify(at).error = Ok PROVE SwiftVerify(at) = RustVerify(at)
  BY <1>1, AcceptedIsPlain, SameReading
<1>2. ASSUME RustVerify(at).error = Ok, Plain(RustVerify(at).value)
      PROVE  SwiftVerify(at) = RustVerify(at)
  <2>1. RustVerify(at) = Verdict(Ok, Binding(at, FALSE))
    BY <1>2, RustMeans
  <2>2. RustVerify(at).value = Binding(at, FALSE)
    BY <2>1, VerdictOf
  <2>3. QED
    BY <1>2, <2>2, PlainReading, SameReading
<1>3. ASSUME ~stripsMark PROVE SwiftVerify(at) = RustVerify(at)
  <2>1. stripsMark = FALSE
    BY <1>3
  <2>2. Binding(at, stripsMark) = Binding(at, FALSE)
    BY <2>1
  <2>3. QED
    BY <2>2, SameReading
<1>4. QED
  BY <1>1, <1>2, <1>3, RustMeans

(* What WritersAreRead says, of any input that is the encoding of a        *)
(* binding.                                                                *)
LEMMA WrittenIsRead ==
  ASSUME input \in Seq(Byte), NEW at, NEW m, LaidOut(at, m), NEW b \in EvidenceBinding,
         Encode(b) = Verdict(Ok, input)
  PROVE  /\ RustVerify(at).error = Ok /\ Means(RustVerify(at).value, b)
         /\ SwiftVerify(at) = IF Plain(b) THEN RustVerify(at) ELSE Verdict(SwiftVerify(at).error, None)
<1>1. PICK ls, c : /\ ls = CanonicalLabels(b.labels) /\ c = Binding(at, FALSE)
                   /\ c = [b EXCEPT !.labels = ls]
  BY EncodedIsRead
<1>2. Sound(at, m) /\ at.end = Len(input)
  BY EncodedIsRead
<1>3. b.labels \in Seq(Seq(Byte))
  <2>1. b.labels \in Seq(Utf8)
    BY DEF EvidenceBinding
  <2>2. QED
    BY <2>1, Utf8IsBytes
<1>4. ls \in Seq(Seq(Byte)) /\ Ascending(ls) /\ Range(ls) = Range(b.labels)
  BY <1>1, <1>3, CanonicalLabelsProperties
<1>5. c.labels = ls /\ c.candidate_id = b.candidate_id
  BY <1>1 DEF EvidenceBinding
<1>6. Means(c, b)
  BY <1>1, <1>4, <1>5 DEF Means
<1>7. Encode(c) = Verdict(Ok, input)
  BY <1>1, <1>2, <1>4, <1>5, ReadIsEncoded
<1>8. RustVerify(at).error = Ok /\ RustVerify(at) = Verdict(Ok, c)
  BY <1>1, <1>2, <1>4, <1>5, <1>7, RustMeans
<1>9. RustVerify(at).value = c
  BY <1>8, VerdictOf
<1>10. Plain(b) <=> Plain(c)
  BY <1>4, <1>5 DEF Plain, Texts
<1>11. ASSUME Plain(b) PROVE SwiftVerify(at) = RustVerify(at)
  BY <1>1, <1>10, <1>11, PlainReading, SameReading
<1>12. ASSUME ~Plain(b) PROVE SwiftVerify(at) = Verdict(SwiftVerify(at).error, None)
  <2>1. SwiftVerify(at).error # Ok
    BY <1>1, <1>10, <1>12, AcceptedIsPlain, PlainReading
  <2>2. SwiftVerify(at) = Verdict(SwiftVerify(at).error, Binding(at, stripsMark))
    BY SwiftMeans
  <2>3. PICK e, x : e = SwiftVerify(at).error /\ x = Binding(at, stripsMark)
    OBVIOUS
  <2>4. Verdict(e, x) = Verdict(e, None)
    BY <2>1, <2>3, VerdictOf
  <2>5. QED
    BY <2>2, <2>3, <2>4
<1>13. QED
  BY <1>6, <1>8, <1>9, <1>11, <1>12

-----------------------------------------------------------------------------
(* The bytes at hand are what the authored binding encodes to.             *)
WrittenFrom ==
  authored # None =>
    authored \in Bindings /\ Encode(authored).error = Ok /\ input = Encode(authored).value

(* What holds at every moment.                                             *)
CanonicalInv == CanonicalTypeOK /\ WrittenFrom /\ WritersAreRead /\ VerifiersAgree

(* Nothing has been written or verified at first.                          *)
LEMMA CanonicalInitially == CanonicalInit => CanonicalInv
<1> SUFFICES ASSUME CanonicalInit PROVE CanonicalInv
  OBVIOUS
<1>1. CanonicalTypeOK
  BY DEF CanonicalInit, CanonicalTypeOK
<1>2. WrittenFrom /\ WritersAreRead /\ VerifiersAgree
  BY DEF CanonicalInit, WrittenFrom, WritersAreRead, VerifiersAgree
<1>3. QED
  BY <1>1, <1>2 DEF CanonicalInv

(* An input that nobody has verified has been judged by neither.           *)
LEMMA UnverifiedHolds ==
  ASSUME Unverified
  PROVE  WritersAreRead' /\ VerifiersAgree'
BY DEF Unverified, WritersAreRead, VerifiersAgree

(* Another byte leaves nothing verified.                                   *)
LEMMA ReceiveByteHolds ==
  ASSUME CanonicalInv, ReceiveByte
  PROVE  CanonicalInv'
<1>1. PICK byte \in Byte : input' = Append(input, byte)
  BY DEF ReceiveByte
<1>2. input' \in Seq(Byte)
  BY <1>1 DEF CanonicalInv, CanonicalTypeOK
<1>3. authored = None /\ authored' = None /\ Unverified
  BY DEF ReceiveByte
<1>4. CanonicalTypeOK'
  BY <1>2, <1>3 DEF CanonicalInv, CanonicalTypeOK, Unverified
<1>5. WrittenFrom'
  BY <1>3 DEF WrittenFrom
<1>6. QED
  BY <1>3, <1>4, <1>5, UnverifiedHolds DEF CanonicalInv

(* An engine writes the encoding of a binding.                             *)
LEMMA AuthorHolds ==
  ASSUME CanonicalInv, Author
  PROVE  CanonicalInv'
<1>1. PICK b \in Bindings : /\ Encode(b).error = Ok /\ input' = Encode(b).value
                            /\ authored' = b
  BY DEF Author
<1>2. input \in Seq(Byte) /\ stripsMark \in BOOLEAN /\ Unverified
  BY DEF CanonicalInv, CanonicalTypeOK, Author
<1>3. b \in EvidenceBinding
  BY BindingsAssumption
<1>4. input' \in Seq(Byte)
  BY <1>1, <1>2, <1>3, EncodedType
<1>5. CanonicalTypeOK'
  BY <1>1, <1>2, <1>4 DEF CanonicalTypeOK, Unverified
<1>6. WrittenFrom'
  <2>1. Encode(authored)' = Encode(b)
    BY <1>1 DEF Encode
  <2>2. QED
    BY <1>1, <2>1 DEF WrittenFrom
<1>7. QED
  BY <1>2, <1>5, <1>6, UnverifiedHolds DEF CanonicalInv

(* Both sides look at the input.                                           *)
LEMMA VerifyHolds ==
  ASSUME CanonicalInv, Verify
  PROVE  CanonicalInv'
<1>1. PICK at : at = Layout /\ rust' = RustVerify(at) /\ swift' = SwiftVerify(at)
  BY DEF Verify
<1>2. /\ input' = input /\ authored' = authored /\ stripsMark' = stripsMark
      /\ input \in Seq(Byte) /\ stripsMark \in BOOLEAN /\ authored \in Bindings \cup {None}
  BY DEF Verify, CanonicalInv, CanonicalTypeOK
<1>3. PICK m \in Nat : LaidOut(at, m)
  BY <1>1, <1>2, LayoutProperties
<1>4. DOMAIN rust' = {"error", "value"} /\ DOMAIN swift' = {"error", "value"}
  <2>1. \A e, x : DOMAIN Verdict(e, x) = {"error", "value"}
    BY DEF Verdict
  <2>2. QED
    BY <1>1, <2>1, VerifiersMeans
<1>5. CanonicalTypeOK'
  BY <1>2, <1>4 DEF CanonicalTypeOK
<1>6. WrittenFrom'
  BY <1>2 DEF CanonicalInv, WrittenFrom, Encode
<1>7. VerifiersAgree'
  <2>1. /\ swift'.error = Ok => swift' = rust'
        /\ rust'.error = Ok /\ Plain(rust'.value) => swift' = rust'
        /\ ~stripsMark => swift' = rust'
        /\ rust'.error # Error("nonCanonicalEncoding")
    BY <1>1, <1>2, <1>3, VerdictsAgree
  <2>2. QED
    BY <1>2, <2>1 DEF VerifiersAgree, Plain, Texts, Text
<1>8. WritersAreRead'
  <2>1. CASE authored = None
    BY <1>2, <2>1 DEF WritersAreRead
  <2>2. CASE authored # None
    <3>1. PICK b \in EvidenceBinding : /\ b = authored /\ Encode(b).error = Ok
                                       /\ input = Encode(b).value
      BY <2>2, BindingsAssumption DEF CanonicalInv, WrittenFrom
    <3>2. Encode(b) = Verdict(Ok, input)
      BY <1>2, <3>1, EncodedType
    <3>3. /\ rust'.error = Ok /\ Means(rust'.value, b)
          /\ swift' = IF Plain(b) THEN rust' ELSE Verdict(swift'.error, None)
      BY <1>1, <1>2, <1>3, <3>2, WrittenIsRead
    <3>4. QED
      BY <1>2, <3>1, <3>3 DEF WritersAreRead, Plain, Texts, Text
  <2>3. QED
    BY <2>1, <2>2
<1>9. QED
  BY <1>5, <1>6, <1>7, <1>8 DEF CanonicalInv

(* Every step keeps it.                                                    *)
LEMMA CanonicalStep == CanonicalInv /\ [CanonicalNext]_canonicalVars => CanonicalInv'
<1> SUFFICES ASSUME CanonicalInv, [CanonicalNext]_canonicalVars
             PROVE  CanonicalInv'
  OBVIOUS
<1>1. CASE ReceiveByte
  BY <1>1, ReceiveByteHolds
<1>2. CASE Author
  BY <1>2, AuthorHolds
<1>3. CASE Verify
  BY <1>3, VerifyHolds
<1>4. CASE UNCHANGED canonicalVars
  BY <1>4 DEF canonicalVars, CanonicalInv, CanonicalTypeOK, WrittenFrom, WritersAreRead, VerifiersAgree,
     Plain, Texts, Text, Encode
<1>5. QED
  BY <1>1, <1>2, <1>3, <1>4 DEF CanonicalNext

(* The invariant holds throughout.                                         *)
THEOREM CanonicalInvariant == CanonicalSpec => []CanonicalInv
<1>1. QED
  BY CanonicalInitially, CanonicalStep, PTL DEF CanonicalSpec

(* Each variable of the encoding stays within its type.                    *)
THEOREM CanonicalTypes == CanonicalSpec => []CanonicalTypeOK
<1>1. CanonicalInv => CanonicalTypeOK
  BY DEF CanonicalInv
<1>2. QED
  BY <1>1, CanonicalInvariant, PTL

(* Whatever binding an engine writes, with labels in any order and         *)
(* however often each, the client accepts and reads as it was meant, and   *)
(* so does the engine unless Foundation drops a mark, when it refuses      *)
(* (canonical_binary.rs verify_evidence, CanonicalBinary.swift             *)
(* decodeEvidence).                                                        *)
THEOREM EncodingsAreRead == CanonicalSpec => []WritersAreRead
<1>1. CanonicalInv => WritersAreRead
  BY DEF CanonicalInv
<1>2. QED
  BY <1>1, CanonicalInvariant, PTL

(* On no input of any length do the two verifiers disagree but for a       *)
(* dropped mark, and then the engine refuses; and what passes the checks   *)
(* before it is never found to be another encoding of the same binding.    *)
THEOREM VerdictsAreOne == CanonicalSpec => []VerifiersAgree
<1>1. CanonicalInv => VerifiersAgree
  BY DEF CanonicalInv
<1>2. QED
  BY <1>1, CanonicalInvariant, PTL

(* No two bindings share an encoding, but for the order and the            *)
(* repetitions of their labels: the hash of a record stands for one        *)
(* binding.                                                                *)
THEOREM OneBinding ==
  ASSUME input \in Seq(Byte), NEW b \in EvidenceBinding, NEW c \in EvidenceBinding,
         Encode(b) = Verdict(Ok, input), Encode(c) = Verdict(Ok, input)
  PROVE  [b EXCEPT !.labels = CanonicalLabels(b.labels)] =
           [c EXCEPT !.labels = CanonicalLabels(c.labels)]
<1>1. PICK at, m : m \in Nat /\ at = Layout /\ LaidOut(at, m)
  BY LayoutProperties
<1>2. Binding(at, FALSE) = [b EXCEPT !.labels = CanonicalLabels(b.labels)]
  BY <1>1, EncodedIsRead
<1>3. Binding(at, FALSE) = [c EXCEPT !.labels = CanonicalLabels(c.labels)]
  BY <1>1, EncodedIsRead
<1>4. QED
  BY <1>2, <1>3

(* The client accepts exactly the encodings of bindings (verify_evidence   *)
(* and encode_evidence of canonical_binary.rs).                            *)
THEOREM AcceptedExactly ==
  ASSUME input \in Seq(Byte)
  PROVE  RustVerify(Layout).error = Ok <=>
           \E b \in EvidenceBinding : Encode(b) = Verdict(Ok, input)
<1>1. PICK at, m : m \in Nat /\ at = Layout /\ LaidOut(at, m)
  BY LayoutProperties
<1>2. ASSUME RustVerify(at).error = Ok
      PROVE  \E b \in EvidenceBinding : Encode(b) = Verdict(Ok, input)
  <2>1. Sound(at, m) /\ Encode(Binding(at, FALSE)) = Verdict(Ok, input)
    BY <1>1, <1>2, RustMeans
  <2>2. Writable(Binding(at, FALSE), Binding(at, FALSE).labels)
    BY <1>1, <2>1, BindingWritable
  <2>3. Binding(at, FALSE) \in EvidenceBinding
    BY <2>2 DEF Writable
  <2>4. QED
    BY <2>1, <2>3
<1>3. ASSUME NEW b \in EvidenceBinding, Encode(b) = Verdict(Ok, input)
      PROVE  RustVerify(at).error = Ok
  BY <1>1, <1>3, WrittenIsRead
<1>4. QED
  BY <1>1, <1>2, <1>3
=============================================================================
