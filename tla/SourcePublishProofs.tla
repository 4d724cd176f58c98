------------------------- MODULE SourcePublishProofs -------------------------
(***************************************************************************)
(* What the runs of SourcePublish show for three targets and two files of  *)
(* somebody else holds for any number of them: the four invariants, and    *)
(* that each step of the publisher is a step of Publication, or none.      *)
(*                                                                         *)
(* The argument is bookkeeping of three kinds: which object is under which *)
(* name, and under no other (OwnNames, BoundOnce); what the flags of a     *)
(* target say about its names (Staged, Published, RolledBack); and, for    *)
(* what is reported in the end, what has been achieved for the targets the *)
(* method that runs has been called for already (Cleared,                  *)
(* QuarantineIsClear), as long as nothing went wrong in the clean-up.      *)
(***************************************************************************)
EXTENDS SourcePublish, TLAPS

Foreigns == { Foreign(n) : n \in 1..foreign }
Objects == { Old(t) : t \in Target } \cup { New(t) : t \in Target } \cup Foreigns

(* What the destination held before, if anything. *)
Prior(t) == IF previous[t] THEN Old(t) ELSE Nothing

RestorePlaces == {"restore", "checkRestored"}
RemovalPlaces == {"quarantine", "inspect", "unlink", "clear"}

(* The type invariant: the names are bound to the files there are, and the *)
(* run is at a place of main.rs.                                           *)
TypeOK ==
  /\ previous \in [Target -> BOOLEAN] /\ published \in [Target -> BOOLEAN]
  /\ seal \in [Target -> {"none", "provisional", "sealed"}]
  /\ dest \in [Target -> Objects \cup {Nothing}]
  /\ stage \in [Target -> Objects \cup {Nothing}]
  /\ quarantine \subseteq Objects /\ moved \in Objects \cup {Nothing}
  /\ written \subseteq Target
  /\ edited \subseteq Objects /\ valuable \subseteq Objects
  /\ removed \subseteq Objects \cup {Nothing}
  /\ index \in Target /\ failedAt \in Target /\ problems \in BOOLEAN
  /\ foreign \in 0..MaxForeign
  /\ job \in {"stage", "publish", "ownRollback", "rollback", "discard", "finish"}
  /\ pc \in {"begin", "write", "rename", "check", "sync", "end"}
              \cup RestorePlaces \cup RemovalPlaces
  /\ outcome \in {"none", "published", "unfinished", "incomplete", "aborted"}

(* Which method has which places, and how far the failure has been handled. *)
Control ==
  /\ pc = "write" => job = "stage"
  /\ pc \in {"rename", "check", "sync"} => job = "publish"
  /\ pc \in RestorePlaces => job \in Rollback /\ previous[index]
  /\ pc \in RemovalPlaces => job \in Rollback \cup {"discard", "finish"}
  /\ pc = "end" <=> outcome # "none"
  /\ outcome \in {"published", "unfinished"} => job = "finish"
  /\ outcome \in {"aborted", "incomplete"} => job = "discard"
  /\ outcome = "aborted" => ~problems
  /\ job \in {"stage", "publish", "ownRollback"} => ~problems
  /\ job \in {"stage", "publish"} => failedAt = 1
  /\ job = "ownRollback" => failedAt = index
  /\ job = "rollback" => index <= failedAt

(* The names of a target hold its own files, or somebody else's. *)
OwnNames == \A t \in Target :
  /\ dest[t] \in {Old(t), New(t), Nothing} \cup Foreigns
  /\ stage[t] \in {Old(t), New(t), Nothing} \cup Foreigns
  /\ dest[t] = Old(t) \/ stage[t] = Old(t) => previous[t]
  /\ dest[t] = Nothing => ~previous[t]

(* No file has two names. *)
BoundOnce ==
  /\ \A t, u \in Target : dest[t] = stage[u] => dest[t] = Nothing
  /\ \A t, u \in Target : t # u /\ dest[t] = dest[u] => dest[t] = Nothing
  /\ \A t, u \in Target : t # u /\ stage[t] = stage[u] => stage[t] = Nothing
  /\ \A t \in Target : dest[t] \notin quarantine /\ stage[t] \notin quarantine

(* What is of value to others is theirs or edited, and what of theirs has  *)
(* one of the names is of value.                                           *)
Others ==
  /\ valuable \subseteq edited \cup Foreigns
  /\ \A t \in Target : dest[t] \in Foreigns => dest[t] \in valuable
  /\ \A t \in Target : stage[t] \in Foreigns => stage[t] \in valuable

(* What is about to be deleted has been looked at after it was moved.      *)
Moved ==
  /\ pc \in {"inspect", "unlink"} => moved \in quarantine
  /\ pc = "unlink" => Valid(Expected, moved)

(* What is known about stages. *)
Staged ==
  /\ \A t \in Target : seal[t] = "none" => stage[t] = Nothing
  /\ \A t \in Target : published[t] /\ ~previous[t] => stage[t] = Nothing
  /\ pc = "rename" => stage[index] \in {New(index)} \cup Foreigns
  /\ pc \in {"inspect", "unlink", "clear"} => stage[index] = Nothing
  /\ job = "stage" =>
       \A t \in Target : t > index \/ (t = index /\ pc = "begin") => seal[t] = "none"

(* Which of the new files are complete. *)
Written ==
  /\ job = "stage" => \A t \in Target : t < index => t \in written
  /\ job \in Rollback \cup {"publish", "finish"} => written = Target
  /\ \A t \in Target : dest[t] = New(t) => t \in written

(* What it means for a target not to be marked as published, and which are. *)
Published ==
  /\ job # "finish" =>
       \A t \in Target : ~published[t] => dest[t] \in {Prior(t)} \cup Foreigns
  /\ job = "stage" \/ (job = "discard" /\ ~problems) => \A t \in Target : ~published[t]
  /\ job \in {"publish", "ownRollback"} \/ (job = "rollback" /\ ~problems) =>
       \A t \in Target : t > index => ~published[t]
  /\ job = "publish" /\ pc \in {"begin", "rename"} => ~published[index]
  /\ job = "discard" /\ pc \in RemovalPlaces => ~published[index]
  /\ pc \in {"check", "sync"} => published[index]
  /\ job \in Rollback /\ pc \in RestorePlaces \cup RemovalPlaces => published[index]

(* What has been published stays, others aside, for as long as the         *)
(* publication may succeed.                                                *)
InPlace ==
  /\ job = "publish" => \A t \in Target : t < index => dest[t] \in {New(t)} \cup Foreigns
  /\ job = "finish" => \A t \in Target : dest[t] \in {New(t)} \cup Foreigns

(* What a rollback finds and what it has restored. *)
RolledBack ==
  /\ pc = "restore" => /\ dest[index] \in {New(index)} \cup Foreigns
                       /\ stage[index] \in {Old(index)} \cup Foreigns
  /\ job \in Rollback /\ pc = "quarantine" =>
       dest[index] \in {IF previous[index] THEN Old(index) ELSE New(index)} \cup Foreigns
  /\ job \in Rollback /\ pc \in {"inspect", "unlink", "clear"} =>
       dest[index] \in {Prior(index)} \cup Foreigns

(* Which targets have been dealt with. *)
Cleared ==
  /\ job = "rollback" /\ ~problems =>
       \A t \in Target : index < t /\ t < failedAt => seal[t] = "none"
  /\ job = "discard" /\ ~problems =>
       \A t \in Target : t < index \/ pc = "end" => seal[t] = "none"
  /\ job = "finish" =>
       \A t \in Target : t < index \/ outcome = "published" => seal[t] = "none"

(* While nothing has gone wrong in the clean-up, nothing is in quarantine  *)
(* but what is being deleted, or what a target's own rollback has left: of *)
(* this the next rollback will not say that all is well.                   *)
QuarantineIsClear ==
  /\ job \in {"stage", "publish"} => quarantine = {}
  /\ job \in {"ownRollback", "finish"} /\ pc = "begin" => quarantine = {}
  /\ job = "discard" /\ ~problems /\ pc \in {"begin", "end"} => quarantine = {}
  /\ outcome = "published" => quarantine = {}
  /\ job = "rollback" /\ ~problems /\ pc = "begin" /\ quarantine # {} =>
       dest[index] # New(index)
  /\ (job \in Rollback \cup {"discard"} /\ ~problems) \/ job = "finish" =>
       /\ pc \in RestorePlaces \cup {"quarantine", "clear"} => quarantine = {}
       /\ pc \in {"inspect", "unlink"} => quarantine = {moved}

(* Until the publication is finished, the previous files are somewhere. *)
BackupsAreKept ==
  job # "finish" => \A t \in Target : previous[t] => Old(t) \in Named \cup removed

(* The inductive invariant. *)
PublishInv ==
  /\ TypeOK /\ Control
  /\ OwnNames /\ BoundOnce /\ Others /\ Moved /\ OthersWorkIsKept
  /\ Staged /\ Written /\ Published /\ InPlace /\ RolledBack
  /\ Cleared /\ QuarantineIsClear /\ BackupsAreKept

-----------------------------------------------------------------------------
(* The objects                                                             *)

(* The files of a target, those of others, and no file, are all different. *)
LEMMA ObjectsDiffer ==
  /\ \A t, u : Old(t) # New(u) /\ Old(t) # Foreign(u) /\ New(t) # Foreign(u)
  /\ \A t : Old(t) # Nothing /\ New(t) # Nothing /\ Foreign(t) # Nothing
  /\ \A t, u : Old(t) = Old(u) \/ New(t) = New(u) \/ Foreign(t) = Foreign(u) => t = u
  /\ \A t : Foreign(t).kind = "foreign"
BY DEF Old, New, Foreign, Nothing

(* The same, for all files of others there are.                            *)
LEMMA Strangers ==
  /\ \A t : Old(t) \notin Foreigns /\ New(t) \notin Foreigns
  /\ Nothing \notin Foreigns
  /\ \A object \in Foreigns : object.kind = "foreign"
BY ObjectsDiffer DEF Foreigns

(* Only by a replacement does a file of others come into being.            *)
LEMMA ForeignsKept ==
  ASSUME UNCHANGED foreign
  PROVE  Foreigns' = Foreigns /\ Objects' = Objects
BY DEF Foreigns, Objects

LEMMA ForeignsGrow ==
  ASSUME foreign \in Nat, foreign' = foreign + 1
  PROVE  /\ Foreigns' = Foreigns \cup {Foreign(foreign')}
         /\ Foreign(foreign') \notin Objects \cup {Nothing}
         /\ Objects' = Objects \cup {Foreign(foreign')}
<1>1. 1..foreign' = (1..foreign) \cup {foreign'}
  OBVIOUS
<1>2. Foreigns' = Foreigns \cup {Foreign(foreign')}
  BY <1>1 DEF Foreigns
<1>3. Foreign(foreign') \notin Foreigns
  BY ObjectsDiffer DEF Foreigns
<1>. QED
  BY <1>2, <1>3, ObjectsDiffer DEF Objects

-----------------------------------------------------------------------------
(* What a step does                                                        *)

Still == UNCHANGED <<nameVars, sealVars, moved, otherVars>>
Quiet == Still /\ UNCHANGED written

(* Something has been found as it has to be.                               *)
Checked ==
  /\ Quiet /\ UNCHANGED runVars
  /\ \/ job = "publish" /\ pc = "begin" /\ stage[index] = New(index) /\ pc' = "rename"
     \/ job = "publish" /\ pc = "check" /\ pc' = "sync"
     \/ /\ job \in Rollback /\ pc = "begin" /\ published[index] /\ dest[index] = New(index)
        /\ previous[index] /\ stage[index] = Old(index) /\ pc' = "restore"
     \/ /\ job \in Rollback /\ pc = "begin" /\ published[index] /\ dest[index] = New(index)
        /\ ~previous[index] /\ pc' = "quarantine"
     \/ job \in Rollback /\ pc = "checkRestored" /\ dest[index] = Old(index) /\ pc' = "quarantine"
     \/ job = "finish" /\ pc = "begin" /\ previous[index] /\ pc' = "quarantine"
     \/ job = "finish" /\ pc = "begin" /\ published[index] /\ ~previous[index] /\ pc' = "clear"
     \/ job = "discard" /\ pc = "begin" /\ ~published[index] /\ pc' = "quarantine"
     \/ pc = "inspect" /\ Valid(Expected, moved) /\ pc' = "unlink"

(* The method returns an error.                                            *)
Failed ==
  /\ Still /\ pc # "end" /\ pc # "sync" /\ Return(FALSE)
  /\ \/ UNCHANGED written
     \/ job = "stage" /\ written' = written \cup {index}

(* The method returns without having done anything in this step.           *)
Verified ==
  /\ Quiet /\ job = "publish" /\ pc = "sync" /\ dest[index] = New(index) /\ Return(TRUE)

Skipped ==
  /\ Quiet /\ job = "discard" /\ pc = "begin" /\ (published[index] \/ seal[index] = "none")
  /\ Return(TRUE)

(* A published target turns out to be wrong.                               *)
Repented ==
  /\ Quiet /\ job = "publish" /\ pc = "sync"
  /\ job' = "ownRollback" /\ pc' = "begin" /\ failedAt' = index
  /\ UNCHANGED <<index, problems, outcome>>

(* The steps that change something.                                        *)
Created ==
  /\ job = "stage" /\ pc = "begin" /\ GoTo("write")
  /\ stage' = [stage EXCEPT ![index] = New(index)]
  /\ seal' = [seal EXCEPT ![index] = "provisional"]
  /\ UNCHANGED <<dest, quarantine, written, previous, published, moved, otherVars>>

Wrote ==
  /\ job = "stage" /\ pc = "write" /\ Return(TRUE)
  /\ stage[index] = New(index)
  /\ written' = written \cup {index}
  /\ seal' = [seal EXCEPT ![index] = "sealed"]
  /\ UNCHANGED <<nameVars, previous, published, moved, otherVars>>

Installed ==
  /\ job = "publish" /\ pc = "rename" /\ GoTo("check")
  /\ IF previous[index] THEN Swap ELSE Move
  /\ published' = [published EXCEPT ![index] = TRUE]
  /\ UNCHANGED <<quarantine, written, previous, seal, moved, otherVars>>

Restored ==
  /\ job \in Rollback /\ pc = "restore" /\ GoTo("checkRestored") /\ Swap
  /\ UNCHANGED <<quarantine, written, sealVars, moved, otherVars>>

DestQuarantined ==
  /\ pc = "quarantine" /\ job \in Rollback /\ ~previous[index] /\ GoTo("inspect")
  /\ dest[index] # Nothing
  /\ dest' = [dest EXCEPT ![index] = Nothing]
  /\ moved' = dest[index] /\ quarantine' = quarantine \cup {dest[index]}
  /\ UNCHANGED <<stage, written, sealVars, otherVars>>

StageQuarantined ==
  /\ pc = "quarantine" /\ (job \in Rollback => previous[index]) /\ GoTo("inspect")
  /\ stage[index] # Nothing
  /\ stage' = [stage EXCEPT ![index] = Nothing]
  /\ moved' = stage[index] /\ quarantine' = quarantine \cup {stage[index]}
  /\ UNCHANGED <<dest, written, sealVars, otherVars>>

Unlinked ==
  /\ pc = "unlink" /\ GoTo("clear")
  /\ quarantine' = quarantine \ {moved}
  /\ UNCHANGED <<dest, stage, written, sealVars, moved, otherVars>>

Cleaned ==
  /\ pc = "clear" /\ Return(TRUE)
  /\ seal' = [seal EXCEPT ![index] = "none"]
  /\ published' = [published EXCEPT ![index] = FALSE]
  /\ UNCHANGED <<nameVars, written, previous, moved, otherVars>>

DestReplaced(t) ==
  /\ foreign < MaxForeign /\ foreign' = foreign + 1
  /\ dest' = [dest EXCEPT ![t] = Foreign(foreign')]
  /\ valuable' = (valuable \ {dest[t]}) \cup {Foreign(foreign')}
  /\ removed' = removed \cup {dest[t]}
  /\ UNCHANGED <<stage, quarantine, written, edited, sealVars, moved, runVars, pc>>

StageReplaced(t) ==
  /\ foreign < MaxForeign /\ foreign' = foreign + 1
  /\ stage[t] # Nothing
  /\ stage' = [stage EXCEPT ![t] = Foreign(foreign')]
  /\ valuable' = (valuable \ {stage[t]}) \cup {Foreign(foreign')}
  /\ removed' = removed \cup {stage[t]}
  /\ UNCHANGED <<dest, quarantine, written, edited, sealVars, moved, runVars, pc>>

PublisherStep ==
  \/ Checked \/ Failed \/ Verified \/ Skipped \/ Repented
  \/ Created \/ Wrote \/ Installed \/ Restored
  \/ DestQuarantined \/ StageQuarantined \/ Unlinked \/ Cleaned

OthersStep ==
  \E t \in Target : pc # "end" /\ (Edit(t) \/ DestReplaced(t) \/ StageReplaced(t))

(* Each action of the publisher is one of these steps.                     *)
LEMMA PublisherSteps ==
  ASSUME TypeOK, Control, Publisher
  PROVE  PublisherStep
<1>. USE DEF PublisherStep, At, Check, Valid, Still, Quiet, sealVars, Rollback
<1>1. CASE CreateStage
  BY <1>1 DEF CreateStage, Created, Failed, nameVars
<1>2. CASE WriteStage
  BY <1>2 DEF WriteStage, Wrote, Failed
<1>3. CASE CheckBeforePublish
  BY <1>3 DEF CheckBeforePublish, Checked, Failed, GoTo
<1>4. CASE Install
  BY <1>4 DEF Install, Installed, Failed, nameVars
<1>5. CASE CheckPublished
  BY <1>5 DEF CheckPublished, Checked, Failed, GoTo
<1>6. CASE VerifyPublished
  BY <1>6 DEF VerifyPublished, Verified, Repented
<1>7. CASE CheckBeforeRollback
  BY <1>7 DEF CheckBeforeRollback, Checked, Failed, GoTo, TypeOK
<1>8. CASE Restore
  BY <1>8 DEF Restore, Restored, Failed, nameVars
<1>9. CASE CheckRestored
  BY <1>9 DEF CheckRestored, Checked, Failed, GoTo
<1>10. CASE CheckBeforeFinish
  BY <1>10 DEF CheckBeforeFinish, Checked, Failed, GoTo
<1>11. CASE Discard
  BY <1>11 DEF Discard, Checked, Failed, Skipped, GoTo
<1>12. CASE Quarantine
  BY <1>12 DEF Quarantine, Outgoing, DestQuarantined, StageQuarantined, Failed, nameVars
<1>13. CASE Inspect
  BY <1>13 DEF Inspect, Checked, Failed, GoTo
<1>14. CASE Unlink
  BY <1>14 DEF Unlink, Unlinked, Failed, nameVars
<1>15. CASE Clear
  BY <1>15 DEF Clear, Cleaned, Failed
<1>. QED
  BY <1>1, <1>2, <1>3, <1>4, <1>5, <1>6, <1>7, <1>8, <1>9, <1>10, <1>11, <1>12, <1>13,
     <1>14, <1>15 DEF Publisher

(* And so is what others do.                                               *)
LEMMA Steps ==
  ASSUME TypeOK, Control, [Next]_vars
  PROVE  PublisherStep \/ OthersStep \/ UNCHANGED vars
<1>1. CASE Publisher
  BY <1>1, PublisherSteps
<1>2. CASE pc # "end" /\ \E t \in Target : Edit(t) \/ Replace(t)
  BY <1>2 DEF OthersStep, Replace, DestReplaced, StageReplaced
<1>. QED
  BY <1>1, <1>2 DEF Next

-----------------------------------------------------------------------------
(* What follows on a return                                                *)

Goes(j, i) == pc' = "begin" /\ job' = j /\ index' = i /\ UNCHANGED outcome
Ends(o) == pc' = "end" /\ outcome' = o /\ UNCHANGED <<job, index>>

(* Staging goes on to the next target, or to publication, or it is undone. *)
LEMMA StageReturns ==
  ASSUME TypeOK, job = "stage", NEW ok \in BOOLEAN, Return(ok)
  PROVE  /\ UNCHANGED <<failedAt, problems>>
         /\ \/ ok /\ index < N /\ Goes("stage", index + 1)
            \/ ok /\ index = N /\ Goes("publish", 1)
            \/ ~ok /\ Goes("discard", 1)
BY NAssumption DEF Return, Call, Following, Goes, Ends, TypeOK, Target

(* Publication goes on, or the targets are rolled back from the last that  *)
(* has been published.                                                     *)
LEMMA PublishReturns ==
  ASSUME TypeOK, job = "publish", NEW ok \in BOOLEAN, Return(ok)
  PROVE  /\ UNCHANGED problems
         /\ failedAt' = IF ok THEN failedAt ELSE index
         /\ \/ ok /\ index < N /\ Goes("publish", index + 1)
            \/ ok /\ index = N /\ Goes("finish", 1)
            \/ ~ok /\ published[index] /\ Goes("rollback", index)
            \/ ~ok /\ ~published[index] /\ index > 1 /\ Goes("rollback", index - 1)
            \/ ~ok /\ ~published[index] /\ index = 1 /\ Goes("discard", failedAt)
BY NAssumption DEF Return, Call, Following, Undo, Goes, Ends, TypeOK, Target

LEMMA RollbackReturns ==
  ASSUME TypeOK, job \in Rollback, NEW ok \in BOOLEAN, Return(ok)
  PROVE  /\ UNCHANGED failedAt
         /\ problems' = (problems \/ (job = "rollback" /\ ~ok))
         /\ \/ job = "ownRollback" /\ ~ok /\ Goes("rollback", index)
            \/ (job = "rollback" \/ ok) /\ index > 1 /\ Goes("rollback", index - 1)
            \/ (job = "rollback" \/ ok) /\ index = 1 /\ Goes("discard", failedAt)
BY NAssumption DEF Return, Call, Following, Undo, Goes, Ends, TypeOK, Target, Rollback

LEMMA DiscardReturns ==
  ASSUME TypeOK, job = "discard", NEW ok \in BOOLEAN, Return(ok)
  PROVE  /\ UNCHANGED failedAt
         /\ problems' = (problems \/ ~ok)
         /\ \/ index < N /\ Goes("discard", index + 1)
            \/ index = N /\ Ends(IF problems' THEN "incomplete" ELSE "aborted")
BY NAssumption DEF Return, Call, Following, Goes, Ends, TypeOK, Target

LEMMA FinishReturns ==
  ASSUME TypeOK, job = "finish", NEW ok \in BOOLEAN, Return(ok)
  PROVE  /\ UNCHANGED <<failedAt, problems>>
         /\ \/ ok /\ index < N /\ Goes("finish", index + 1)
            \/ ok /\ index = N /\ Ends("published")
            \/ ~ok /\ Ends("unfinished")
BY NAssumption DEF Return, Call, Following, Goes, Ends, TypeOK, Target

-----------------------------------------------------------------------------
(* The type invariant                                                      *)

(* A return leaves the run at a place of some method.                      *)
LEMMA ReturnsAreTyped ==
  ASSUME TypeOK, NEW ok \in BOOLEAN, Return(ok)
  PROVE  /\ index' \in Target /\ failedAt' \in Target /\ problems' \in BOOLEAN
         /\ job' \in {"stage", "publish", "ownRollback", "rollback", "discard", "finish"}
         /\ pc' \in {"begin", "end"}
         /\ outcome' \in {"none", "published", "unfinished", "incomplete", "aborted"}
<1>. USE NAssumption DEF TypeOK, Goes, Ends, Target, Rollback
<1>1. CASE job = "stage"
  BY <1>1, StageReturns
<1>2. CASE job = "publish"
  BY <1>2, PublishReturns
<1>3. CASE job \in Rollback
  <2>1. problems' \in BOOLEAN
    BY <1>3, RollbackReturns
  <2>. QED
    BY <1>3, <2>1, RollbackReturns
<1>4. CASE job = "discard"
  <2>1. problems' \in BOOLEAN
    BY <1>4, DiscardReturns
  <2>. QED
    BY <1>4, <2>1, DiscardReturns
<1>5. CASE job = "finish"
  BY <1>5, FinishReturns
<1>. QED
  BY <1>1, <1>2, <1>3, <1>4, <1>5

LEMMA TypesAreKept ==
  ASSUME TypeOK, Control, [Next]_vars
  PROVE  TypeOK'
<1>. USE DEF TypeOK
<1>a. TRUE \in BOOLEAN /\ FALSE \in BOOLEAN
  OBVIOUS
<1>b. /\ \A t \in Target : New(t) \in Objects
      /\ Nothing \notin Objects
  BY ObjectsDiffer, Strangers DEF Objects
<1>1. CASE Checked
  BY <1>1, ForeignsKept DEF Checked, Quiet, Still, nameVars, sealVars, otherVars, runVars,
     RestorePlaces, RemovalPlaces
<1>2. CASE Failed
  BY <1>2, <1>a, ForeignsKept, ReturnsAreTyped
     DEF Failed, Still, nameVars, sealVars, otherVars
<1>3. CASE Verified \/ Skipped
  BY <1>3, <1>a, ForeignsKept, ReturnsAreTyped
     DEF Verified, Skipped, Quiet, Still, nameVars, sealVars, otherVars
<1>4. CASE Repented
  BY <1>4, ForeignsKept DEF Repented, Quiet, Still, nameVars, sealVars, otherVars
<1>5. CASE Created
  BY <1>5, <1>b, ForeignsKept DEF Created, GoTo, runVars, otherVars
<1>6. CASE Wrote
  BY <1>6, <1>a, ForeignsKept, ReturnsAreTyped DEF Wrote, nameVars, otherVars
<1>7. CASE Installed
  BY <1>7, ForeignsKept DEF Installed, Swap, Move, GoTo, runVars, otherVars
<1>8. CASE Restored
  BY <1>8, ForeignsKept DEF Restored, Swap, GoTo, runVars, otherVars, sealVars, RestorePlaces
<1>9. CASE DestQuarantined
  BY <1>9, ForeignsKept DEF DestQuarantined, GoTo, runVars, otherVars, sealVars, RemovalPlaces
<1>10. CASE StageQuarantined
  BY <1>10, ForeignsKept DEF StageQuarantined, GoTo, runVars, otherVars, sealVars, RemovalPlaces
<1>11. CASE Unlinked
  BY <1>11, ForeignsKept DEF Unlinked, GoTo, runVars, otherVars, sealVars, RemovalPlaces
<1>12. CASE Cleaned
  BY <1>12, <1>a, ForeignsKept, ReturnsAreTyped DEF Cleaned, nameVars, otherVars
<1>13. CASE OthersStep
  <2>1. PICK t \in Target : Edit(t) \/ DestReplaced(t) \/ StageReplaced(t)
    BY <1>13 DEF OthersStep
  <2>2. CASE Edit(t)
    BY <2>2, ForeignsKept DEF Edit, nameVars, sealVars, runVars
  <2>3. CASE DestReplaced(t)
    BY <2>3, ForeignsGrow, MaxForeignAssumption DEF DestReplaced, sealVars, runVars
  <2>4. CASE StageReplaced(t)
    BY <2>4, ForeignsGrow, MaxForeignAssumption DEF StageReplaced, sealVars, runVars
  <2>. QED
    BY <2>1, <2>2, <2>3, <2>4
<1>14. CASE UNCHANGED vars
  BY <1>14, ForeignsKept DEF vars, nameVars, sealVars, runVars, otherVars
<1>. QED
  BY <1>1, <1>2, <1>3, <1>4, <1>5, <1>6, <1>7, <1>8, <1>9, <1>10, <1>11, <1>12, <1>13, <1>14,
     Steps DEF PublisherStep

(* How far the run is after a return.                                      *)
LEMMA ReturnsKeepControl ==
  ASSUME TypeOK, Control, pc # "end", NEW ok \in BOOLEAN, Return(ok), UNCHANGED previous
  PROVE  Control'
<1>. USE DEF TypeOK, Control, Goes, Ends, Target, Rollback, RestorePlaces, RemovalPlaces
<1>1. CASE job = "stage"
  BY <1>1, StageReturns
<1>2. CASE job = "publish"
  BY <1>2, PublishReturns
<1>3. CASE job \in Rollback
  BY <1>3, RollbackReturns
<1>4. CASE job = "discard"
  BY <1>4, DiscardReturns
<1>5. CASE job = "finish"
  BY <1>5, FinishReturns
<1>. QED
  BY <1>1, <1>2, <1>3, <1>4, <1>5

LEMMA ControlIsKept ==
  ASSUME TypeOK, Control, [Next]_vars
  PROVE  Control'
<1>. USE DEF Rollback, RestorePlaces, RemovalPlaces
<1>a. TRUE \in BOOLEAN /\ FALSE \in BOOLEAN
  OBVIOUS
<1>1. CASE Checked
  BY <1>1 DEF Control, Checked, Quiet, Still, sealVars, runVars
<1>2. CASE Failed \/ Verified \/ Skipped \/ Wrote \/ Cleaned
  BY <1>2, <1>a, ReturnsKeepControl
     DEF Failed, Verified, Skipped, Wrote, Cleaned, Quiet, Still, sealVars
<1>3. CASE Repented
  BY <1>3 DEF TypeOK, Control, Repented, Quiet, Still, sealVars
<1>4. CASE Created
  BY <1>4 DEF Control, Created, GoTo, runVars
<1>5. CASE Installed
  BY <1>5 DEF Control, Installed, GoTo, runVars
<1>6. CASE Restored
  BY <1>6 DEF Control, Restored, GoTo, runVars, sealVars
<1>7. CASE DestQuarantined \/ StageQuarantined \/ Unlinked
  BY <1>7 DEF Control, DestQuarantined, StageQuarantined, Unlinked, GoTo, runVars, sealVars
<1>8. CASE OthersStep
  BY <1>8 DEF Control, OthersStep, Edit, DestReplaced, StageReplaced, sealVars, runVars
<1>9. CASE UNCHANGED vars
  BY <1>9 DEF Control, vars, sealVars, runVars
<1>. QED
  BY <1>1, <1>2, <1>3, <1>4, <1>5, <1>6, <1>7, <1>8, <1>9, Steps DEF PublisherStep

-----------------------------------------------------------------------------
(* The files and their names                                               *)

NamesStay ==
  UNCHANGED <<dest, stage, quarantine, previous, moved, edited, foreign, valuable, removed>>

OnlyTheRun ==
  Checked \/ Failed \/ Verified \/ Skipped \/ Repented \/ Wrote \/ Cleaned \/ UNCHANGED vars

(* Most steps leave every name as it is.                                   *)
LEMMA OnlyTheRunGoesOn ==
  ASSUME OnlyTheRun
  PROVE  NamesStay
BY DEF OnlyTheRun, NamesStay, Checked, Failed, Verified, Skipped, Repented, Wrote, Cleaned,
   Quiet, Still, nameVars, sealVars, otherVars, vars

(* The others move a file from name to name, or are somebody else's.       *)
LEMMA StepsByName ==
  ASSUME TypeOK, Control, [Next]_vars
  PROVE  \/ OnlyTheRun
         \/ Created \/ Installed \/ Restored
         \/ DestQuarantined \/ StageQuarantined \/ Unlinked
         \/ \E t \in Target : Edit(t) \/ DestReplaced(t) \/ StageReplaced(t)
BY Steps DEF OnlyTheRun, PublisherStep, OthersStep

(* A stage is created where there is nothing, and as what there is not.    *)
LEMMA StagesAreNew ==
  ASSUME PublishInv, job = "stage", pc = "begin"
  PROVE  /\ stage[index] = Nothing /\ quarantine = {}
         /\ \A t \in Target : dest[t] # New(index) /\ stage[t] # New(index)
<1>1. index \in Target
  BY DEF PublishInv, TypeOK
<1>2. stage[index] = Nothing /\ quarantine = {}
  BY <1>1 DEF PublishInv, Staged, QuarantineIsClear
<1>3. \A t \in Target : stage[t] # New(index)
  BY <1>1, <1>2, ObjectsDiffer, Strangers DEF PublishInv, OwnNames
<1>4. dest[index] \in {Prior(index)} \cup Foreigns
  BY <1>1 DEF PublishInv, Published
<1>5. \A t \in Target : dest[t] # New(index)
  BY <1>1, <1>4, ObjectsDiffer, Strangers DEF PublishInv, OwnNames, Prior
<1>. QED
  BY <1>2, <1>3, <1>5

LEMMA OwnNamesAreKept ==
  ASSUME PublishInv, [Next]_vars
  PROVE  OwnNames'
<1>. USE DEF OwnNames
<1>a. TypeOK /\ Control /\ OwnNames
  BY DEF PublishInv
<1>b. /\ index \in Target /\ foreign \in Nat
      /\ dest = [t \in Target |-> dest[t]] /\ stage = [t \in Target |-> stage[t]]
  BY <1>a, MaxForeignAssumption DEF TypeOK
<1>1. CASE OnlyTheRun
  BY <1>1, <1>a, OnlyTheRunGoesOn, ForeignsKept DEF NamesStay
<1>2. CASE Created
  BY <1>2, <1>a, <1>b, ForeignsKept, ObjectsDiffer DEF Created, otherVars
<1>3. CASE Installed
  BY <1>3, <1>a, <1>b, ForeignsKept, ObjectsDiffer DEF Installed, Swap, Move, otherVars
<1>4. CASE Restored
  BY <1>4, <1>a, <1>b, ForeignsKept DEF Restored, Swap, sealVars, otherVars
<1>5. CASE DestQuarantined
  BY <1>5, <1>a, <1>b, ForeignsKept, ObjectsDiffer DEF DestQuarantined, sealVars, otherVars
<1>6. CASE StageQuarantined
  BY <1>6, <1>a, <1>b, ForeignsKept, ObjectsDiffer DEF StageQuarantined, sealVars, otherVars
<1>7. CASE Unlinked
  BY <1>7, <1>a, ForeignsKept DEF Unlinked, sealVars, otherVars
<1>8. ASSUME NEW u \in Target, Edit(u)
      PROVE  OwnNames'
  BY <1>8, <1>a, ForeignsKept DEF Edit, nameVars, sealVars
<1>9. ASSUME NEW u \in Target, DestReplaced(u)
      PROVE  OwnNames'
  BY <1>9, <1>a, <1>b, ForeignsGrow, ObjectsDiffer DEF DestReplaced, sealVars
<1>10. ASSUME NEW u \in Target, StageReplaced(u)
       PROVE  OwnNames'
  BY <1>10, <1>a, <1>b, ForeignsGrow, ObjectsDiffer DEF StageReplaced, sealVars
<1>. QED
  BY <1>1, <1>2, <1>3, <1>4, <1>5, <1>6, <1>7, <1>8, <1>9, <1>10, <1>a, StepsByName

(* A rename takes one name away for each it gives; a file that comes into  *)
(* being has had no name.                                                  *)
LEMMA BoundOnceIsKept ==
  ASSUME PublishInv, [Next]_vars
  PROVE  BoundOnce'
<1>. USE DEF BoundOnce
<1>a. TypeOK /\ Control /\ OwnNames /\ BoundOnce
  BY DEF PublishInv
<1>b. /\ index \in Target /\ foreign \in Nat
      /\ dest = [t \in Target |-> dest[t]] /\ stage = [t \in Target |-> stage[t]]
      /\ Nothing \notin quarantine
  BY <1>a, MaxForeignAssumption, Strangers, ObjectsDiffer DEF TypeOK, Objects
<1>1. CASE OnlyTheRun
  BY <1>1, <1>a, OnlyTheRunGoesOn DEF NamesStay
<1>2. CASE Created
  BY <1>2, <1>a, <1>b, StagesAreNew, ObjectsDiffer DEF Created
<1>3. CASE Installed
  BY <1>3, <1>a, <1>b DEF Installed, Swap, Move
<1>4. CASE Restored
  BY <1>4, <1>a, <1>b DEF Restored, Swap
<1>5. CASE DestQuarantined
  BY <1>5, <1>a, <1>b DEF DestQuarantined
<1>6. CASE StageQuarantined
  BY <1>6, <1>a, <1>b DEF StageQuarantined
<1>7. CASE Unlinked
  BY <1>7, <1>a DEF Unlinked
<1>8. ASSUME NEW u \in Target, Edit(u)
      PROVE  BoundOnce'
  BY <1>8, <1>a DEF Edit, nameVars
<1>9. ASSUME NEW u \in Target, DestReplaced(u) \/ StageReplaced(u)
      PROVE  BoundOnce'
  <2>1. /\ \A t \in Target : dest[t] # Foreign(foreign') /\ stage[t] # Foreign(foreign')
        /\ Foreign(foreign') \notin quarantine
        /\ Foreign(foreign') # Nothing
    BY <1>9, <1>a, <1>b, ForeignsGrow DEF DestReplaced, StageReplaced, TypeOK
  <2>2. CASE DestReplaced(u)
    BY <2>1, <2>2, <1>a, <1>b DEF DestReplaced
  <2>3. CASE StageReplaced(u)
    BY <2>1, <2>3, <1>a, <1>b DEF StageReplaced
  <2>. QED
    BY <1>9, <2>2, <2>3
<1>. QED
  BY <1>1, <1>2, <1>3, <1>4, <1>5, <1>6, <1>7, <1>8, <1>9, <1>a, StepsByName

LEMMA OthersAreKept ==
  ASSUME PublishInv, [Next]_vars
  PROVE  Others'
<1>. USE DEF Others
<1>a. TypeOK /\ Control /\ OwnNames /\ BoundOnce /\ Others
  BY DEF PublishInv
<1>b. /\ index \in Target /\ foreign \in Nat
      /\ dest = [t \in Target |-> dest[t]] /\ stage = [t \in Target |-> stage[t]]
  BY <1>a, MaxForeignAssumption DEF TypeOK
<1>1. CASE OnlyTheRun
  BY <1>1, <1>a, OnlyTheRunGoesOn, ForeignsKept DEF NamesStay
<1>2. CASE Created
  BY <1>2, <1>a, <1>b, ForeignsKept, Strangers DEF Created, otherVars
<1>3. CASE Installed
  BY <1>3, <1>a, <1>b, ForeignsKept, Strangers DEF Installed, Swap, Move, otherVars
<1>4. CASE Restored
  BY <1>4, <1>a, <1>b, ForeignsKept DEF Restored, Swap, otherVars
<1>5. CASE DestQuarantined
  BY <1>5, <1>a, <1>b, ForeignsKept, Strangers DEF DestQuarantined, otherVars
<1>6. CASE StageQuarantined
  BY <1>6, <1>a, <1>b, ForeignsKept, Strangers DEF StageQuarantined, otherVars
<1>7. CASE Unlinked
  BY <1>7, <1>a, ForeignsKept DEF Unlinked, otherVars
<1>8. ASSUME NEW u \in Target, Edit(u)
      PROVE  Others'
  BY <1>8, <1>a, ForeignsKept DEF Edit, nameVars
<1>9. ASSUME NEW u \in Target, DestReplaced(u)
      PROVE  Others'
  <2>1. \A t \in Target : dest[t] \in Foreigns /\ t # u => dest[t] # dest[u]
    BY <1>a, Strangers DEF BoundOnce
  <2>2. \A t \in Target : stage[t] \in Foreigns => stage[t] # dest[u]
    BY <1>a, Strangers DEF BoundOnce
  <2>. QED
    BY <1>9, <2>1, <2>2, <1>a, <1>b, ForeignsGrow DEF DestReplaced
<1>10. ASSUME NEW u \in Target, StageReplaced(u)
       PROVE  Others'
  <2>1. \A t \in Target : stage[t] \in Foreigns /\ t # u => stage[t] # stage[u]
    BY <1>a, Strangers DEF BoundOnce
  <2>2. \A t \in Target : dest[t] \in Foreigns => dest[t] # stage[u]
    BY <1>a, Strangers DEF BoundOnce
  <2>. QED
    BY <1>10, <2>1, <2>2, <1>a, <1>b, ForeignsGrow DEF StageReplaced
<1>. QED
  BY <1>1, <1>2, <1>3, <1>4, <1>5, <1>6, <1>7, <1>8, <1>9, <1>10, <1>a, StepsByName

(* What is deleted has been seen to be the expected file, unedited, after  *)
(* it was moved to where nobody else comes.                                *)
LEMMA MovedIsKept ==
  ASSUME PublishInv, [Next]_vars
  PROVE  Moved'
<1>. USE DEF Moved, Valid
<1>a. TypeOK /\ Control /\ BoundOnce /\ Moved
  BY DEF PublishInv
<1>1. CASE Checked
  BY <1>1, <1>a DEF Checked, Quiet, Still, nameVars, otherVars, runVars, Expected
<1>2. CASE Failed \/ Verified \/ Skipped \/ Wrote \/ Cleaned
  <2>1. pc' \in {"begin", "end"}
    BY <1>2, <1>a, ReturnsAreTyped DEF Failed, Verified, Skipped, Wrote, Cleaned
  <2>. QED
    BY <2>1
<1>3. CASE Repented \/ Created \/ Installed \/ Restored \/ Unlinked
  BY <1>3 DEF Repented, Created, Installed, Restored, Unlinked, GoTo
<1>4. CASE DestQuarantined \/ StageQuarantined
  BY <1>4 DEF DestQuarantined, StageQuarantined, GoTo
<1>5. ASSUME NEW u \in Target, Edit(u)
      PROVE  Moved'
  BY <1>5, <1>a DEF Edit, nameVars, sealVars, runVars, Expected, BoundOnce
<1>6. ASSUME NEW u \in Target, DestReplaced(u) \/ StageReplaced(u)
      PROVE  Moved'
  BY <1>6, <1>a DEF DestReplaced, StageReplaced, sealVars, runVars, Expected
<1>7. CASE UNCHANGED vars
  BY <1>7, <1>a DEF vars, nameVars, runVars, otherVars, Expected
<1>. QED
  BY <1>1, <1>2, <1>3, <1>4, <1>5, <1>6, <1>7, <1>a, Steps DEF PublisherStep, OthersStep

(* Nothing of value is deleted: what is has been found to be one of the    *)
(* program's own files, and unedited.                                      *)
LEMMA OthersWorkStays ==
  ASSUME PublishInv, [Next]_vars
  PROVE  OthersWorkIsKept'
<1>. USE DEF OthersWorkIsKept, Named
<1>a. TypeOK /\ Control /\ OwnNames /\ BoundOnce /\ Others /\ Moved /\ OthersWorkIsKept
  BY DEF PublishInv
<1>b. /\ index \in Target
      /\ dest = [t \in Target |-> dest[t]] /\ stage = [t \in Target |-> stage[t]]
      /\ Nothing \notin valuable
  BY <1>a, Strangers, ObjectsDiffer DEF TypeOK, Objects
<1>1. CASE OnlyTheRun
  BY <1>1, <1>a, OnlyTheRunGoesOn DEF NamesStay
<1>2. CASE Created
  BY <1>2, <1>a, <1>b, StagesAreNew DEF Created, otherVars
<1>3. CASE Installed
  BY <1>3, <1>a, <1>b DEF Installed, Swap, Move, otherVars
<1>4. CASE Restored
  BY <1>4, <1>a, <1>b DEF Restored, Swap, otherVars
<1>5. CASE DestQuarantined
  BY <1>5, <1>a, <1>b DEF DestQuarantined, otherVars
<1>6. CASE StageQuarantined
  BY <1>6, <1>a, <1>b DEF StageQuarantined, otherVars
<1>7. CASE Unlinked
  <2>1. moved \notin valuable
    BY <1>7, <1>a, Strangers DEF Unlinked, Moved, Valid, Others, Expected
  <2>. QED
    BY <1>7, <2>1, <1>a DEF Unlinked, otherVars
<1>8. ASSUME NEW u \in Target, Edit(u)
      PROVE  OthersWorkIsKept'
  BY <1>8, <1>a DEF Edit, nameVars
<1>9. ASSUME NEW u \in Target, DestReplaced(u)
      PROVE  OthersWorkIsKept'
  BY <1>9, <1>a, <1>b DEF DestReplaced
<1>10. ASSUME NEW u \in Target, StageReplaced(u)
       PROVE  OthersWorkIsKept'
  BY <1>10, <1>a, <1>b DEF StageReplaced
<1>. QED
  BY <1>1, <1>2, <1>3, <1>4, <1>5, <1>6, <1>7, <1>8, <1>9, <1>10, <1>a, StepsByName

-----------------------------------------------------------------------------
(* What is known of the stages and of the new files                        *)

(* The jobs of main.rs.                                                    *)
LEMMA Jobs ==
  ASSUME TypeOK
  PROVE  /\ job \in {"stage", "publish", "discard", "finish"} \cup Rollback
         /\ index \in Target /\ index \in Nat /\ failedAt \in Target /\ N \in Nat
         /\ foreign \in Nat /\ TRUE \in BOOLEAN /\ FALSE \in BOOLEAN
BY NAssumption, MaxForeignAssumption DEF TypeOK, Rollback, Target

(* Where a return leads to, for any method.                                *)
LEMMA ReturnsBegin ==
  ASSUME TypeOK, NEW ok \in BOOLEAN, Return(ok)
  PROVE  /\ pc' \in {"begin", "end"}
         /\ job = "stage" /\ ~ok => job' = "discard"
         /\ job = "stage" /\ ok => \/ job' = "stage" /\ index' = index + 1
                                   \/ job' = "publish" /\ index = N
         /\ job' = "stage" => job = "stage"
         /\ job = "finish" => job' = "finish"
         /\ job' = "discard" => job \in {"stage", "publish", "discard"} \cup Rollback
         /\ job' \in {"publish", "finish"} \cup Rollback /\ job # "stage" =>
              job \in {"publish", "finish"} \cup Rollback
BY Jobs, StageReturns, PublishReturns, RollbackReturns, DiscardReturns, FinishReturns
   DEF Goes, Ends, Rollback

LEMMA StagedIsKept ==
  ASSUME PublishInv, [Next]_vars
  PROVE  Staged'
<1>. USE DEF Staged
<1>a. TypeOK /\ Control /\ Staged /\ Published
  BY DEF PublishInv
<1>b. /\ stage = [t \in Target |-> stage[t]] /\ seal = [t \in Target |-> seal[t]]
      /\ published = [t \in Target |-> published[t]]
  BY <1>a DEF TypeOK
<1>c. index \in Target /\ index \in Nat /\ TRUE \in BOOLEAN /\ FALSE \in BOOLEAN
  BY <1>a, Jobs
<1>1. CASE Checked
  BY <1>1, <1>a, <1>c DEF Checked, Quiet, Still, nameVars, sealVars, otherVars, runVars, Rollback
<1>2. CASE Failed \/ Verified \/ Skipped
  <2>1. pc' \in {"begin", "end"} /\ job' # "stage"
    BY <1>2, <1>a, <1>c, ReturnsBegin DEF Failed, Verified, Skipped
  <2>2. UNCHANGED <<stage, seal, published, previous>>
    BY <1>2 DEF Failed, Verified, Skipped, Quiet, Still, nameVars, sealVars
  <2>. QED
    BY <2>1, <2>2, <1>a
<1>3. CASE Wrote
  <2>1. pc' = "begin" /\ (job' = "stage" => index' = index + 1)
    BY <1>3, <1>a, <1>c, StageReturns DEF Wrote, Goes
  <2>2. \A t \in Target : t > index \/ t = index => t \in Nat
    BY DEF Target
  <2>3. UNCHANGED <<stage, published, previous>>
    BY <1>3 DEF Wrote, nameVars
  <2>4. seal' = [seal EXCEPT ![index] = "sealed"] /\ job = "stage"
    BY <1>3 DEF Wrote
  <2>5. \A t \in Target : t > index + 1 \/ t = index + 1 => t > index /\ t # index
    BY <1>c DEF Target
  <2>. QED
    BY <2>1, <2>3, <2>4, <2>5, <1>a, <1>b, <1>c
<1>4. CASE Cleaned
  <2>1. pc' \in {"begin", "end"} /\ job' # "stage"
    BY <1>4, <1>a, <1>c, ReturnsBegin DEF Cleaned, Control, RemovalPlaces, Rollback
  <2>. QED
    BY <1>4, <2>1, <1>a, <1>b, <1>c DEF Cleaned, nameVars
<1>5. CASE Repented
  BY <1>5, <1>a DEF Repented, Quiet, Still, nameVars, sealVars
<1>6. CASE Created
  BY <1>6, <1>a, <1>b, <1>c DEF Created, GoTo, runVars, Published, Target
<1>7. CASE Installed
  BY <1>7, <1>a, <1>b, <1>c DEF Installed, Swap, Move, GoTo, runVars
<1>8. CASE Restored
  BY <1>8, <1>a, <1>b, <1>c
     DEF Restored, Swap, GoTo, runVars, sealVars, Control, RestorePlaces, Rollback
<1>9. CASE DestQuarantined
  BY <1>9, <1>a, <1>b, <1>c
     DEF DestQuarantined, GoTo, runVars, sealVars, Published, RemovalPlaces, Rollback
<1>10. CASE StageQuarantined
  BY <1>10, <1>a, <1>b, <1>c
     DEF StageQuarantined, GoTo, runVars, sealVars, Control, RemovalPlaces, Rollback
<1>11. CASE Unlinked
  BY <1>11, <1>a DEF Unlinked, GoTo, runVars, sealVars, Control, RemovalPlaces, Rollback
<1>12. ASSUME NEW u \in Target, Edit(u) \/ DestReplaced(u)
       PROVE  Staged'
  <2>1. UNCHANGED <<stage, seal, published, previous, job, index, pc>>
    BY <1>12 DEF Edit, DestReplaced, nameVars, sealVars, runVars
  <2>2. Foreigns \subseteq Foreigns'
    BY <1>12, <1>a, Jobs, ForeignsKept, ForeignsGrow DEF Edit, DestReplaced
  <2>. QED
    BY <2>1, <2>2, <1>a
<1>13. ASSUME NEW u \in Target, StageReplaced(u)
       PROVE  Staged'
  BY <1>13, <1>a, <1>b, <1>c, Jobs, ForeignsGrow DEF StageReplaced, sealVars, runVars
<1>14. CASE UNCHANGED vars
  BY <1>14, <1>a, ForeignsKept DEF vars, nameVars, sealVars, runVars, otherVars
<1>. QED
  BY <1>1, <1>2, <1>3, <1>4, <1>5, <1>6, <1>7, <1>8, <1>9, <1>10, <1>11, <1>12, <1>13,
     <1>14, <1>a, Steps DEF PublisherStep, OthersStep

LEMMA WrittenIsKept ==
  ASSUME PublishInv, [Next]_vars
  PROVE  Written'
<1>. USE DEF Written
<1>a. TypeOK /\ Control /\ Written /\ Published /\ OwnNames
  BY DEF PublishInv
<1>b. dest = [t \in Target |-> dest[t]]
  BY <1>a DEF TypeOK
<1>c. /\ index \in Target /\ index \in Nat /\ TRUE \in BOOLEAN /\ FALSE \in BOOLEAN
      /\ written \subseteq Target
  BY <1>a, Jobs DEF TypeOK
<1>1. CASE UNCHANGED <<dest, written, job, index>>
  BY <1>1, <1>a
<1>2. CASE Failed \/ Verified \/ Skipped \/ Cleaned
  <2>1. dest' = dest /\ job' # "stage" /\ written' \subseteq Target
    BY <1>2, <1>a, <1>c, ReturnsBegin
       DEF Failed, Verified, Skipped, Cleaned, Quiet, Still, nameVars, Control,
           RemovalPlaces, Rollback
  <2>2. \A t \in Target : dest'[t] = New(t) => t \in written'
    BY <1>2, <2>1, <1>a DEF Failed, Verified, Skipped, Cleaned, Quiet
  <2>3. job' \in Rollback \cup {"publish", "finish"} => written' = Target
    BY <1>2, <1>a, <1>c, ReturnsBegin
       DEF Failed, Verified, Skipped, Cleaned, Quiet, Control, RemovalPlaces, Rollback
  <2>. QED
    BY <2>1, <2>2, <2>3
<1>3. CASE Wrote
  <2>1. job = "stage" /\ dest' = dest /\ written' = written \cup {index}
    BY <1>3 DEF Wrote, nameVars
  <2>2. (job' = "stage" /\ index' = index + 1) \/ (job' = "publish" /\ index = N)
    BY <1>3, <1>a, <1>c, ReturnsBegin DEF Wrote
  <2>3. \A t \in Target : t < index \/ t = index => t \in written'
    BY <2>1, <1>a
  <2>4. job' = "stage" => \A t \in Target : t < index' => t \in written'
    BY <2>2, <2>3, <1>c DEF Target
  <2>5. ASSUME job' = "publish"
        PROVE  written' = Target
    <3>1. \A t \in Target : t < index \/ t = index
      BY <2>2, <2>5, <1>a, Jobs DEF Target
    <3>. QED
      BY <3>1, <2>1, <2>3, <1>c
  <2>. QED
    BY <2>1, <2>2, <2>4, <2>5, <1>a DEF Rollback
<1>4. CASE Repented
  BY <1>4, <1>a DEF Repented, Quiet, Still, nameVars, Rollback
<1>5. CASE Installed
  BY <1>5, <1>a, <1>b DEF Installed, Swap, Move, GoTo, runVars
<1>6. CASE Restored
  BY <1>6, <1>a, <1>b DEF Restored, Swap, GoTo, runVars
<1>7. CASE DestQuarantined
  BY <1>7, <1>a, <1>b, ObjectsDiffer DEF DestQuarantined, GoTo, runVars
<1>8. ASSUME NEW u \in Target, DestReplaced(u)
      PROVE  Written'
  BY <1>8, <1>a, <1>b, ObjectsDiffer DEF DestReplaced, runVars
<1>9. CASE Checked \/ Created \/ StageQuarantined \/ Unlinked \/ UNCHANGED vars
  BY <1>9, <1>1 DEF Checked, Quiet, Still, Created, StageQuarantined, Unlinked, GoTo,
     vars, nameVars, runVars
<1>10. ASSUME NEW u \in Target, Edit(u) \/ StageReplaced(u)
       PROVE  Written'
  BY <1>10, <1>1 DEF Edit, StageReplaced, nameVars, runVars
<1>. QED
  BY <1>2, <1>3, <1>4, <1>5, <1>6, <1>7, <1>8, <1>9, <1>10, <1>a, Steps
     DEF PublisherStep, OthersStep

-----------------------------------------------------------------------------
(* What is known of the targets that are marked as published               *)

(* A method that fails leaves the marks, and what they say, as they are.   *)
LEMMA PublishedAfterFailure ==
  ASSUME PublishInv, Failed
  PROVE  Published'
<1>. USE DEF Published
<1>a. TypeOK /\ Control /\ Published
  BY DEF PublishInv
<1>b. /\ UNCHANGED <<dest, published, previous, foreign>> /\ Return(FALSE) /\ FALSE \in BOOLEAN
      /\ Foreigns' = Foreigns
      /\ \A t \in Target : Prior(t)' = Prior(t)
  BY ForeignsKept DEF Failed, Still, nameVars, sealVars, otherVars, Prior
<1>c. index \in Target /\ index \in Nat /\ \A t \in Target : t \in Nat /\ t > 0
  BY <1>a, Jobs DEF Target
<1>d. pc' \in {"begin", "end"}
  BY <1>a, <1>b, ReturnsBegin
<1>1. CASE job = "stage"
  BY <1>1, <1>a, <1>b, <1>d, StageReturns DEF Goes, Rollback, RemovalPlaces, RestorePlaces
<1>2. CASE job = "publish"
  <2>1. \/ job' = "rollback" /\ index' = index
        \/ job' = "rollback" /\ index' = index - 1 /\ ~published[index]
        \/ job' = "discard" /\ index = 1 /\ ~published[index]
    BY <1>2, <1>a, <1>b, PublishReturns DEF Goes
  <2>2. \A t \in Target : t > index - 1 => t = index \/ t > index
    BY <1>c
  <2>3. index = 1 => \A t \in Target : t = index \/ t > index
    BY <1>c
  <2>. QED
    BY <2>1, <2>2, <2>3, <1>2, <1>a, <1>b, <1>d DEF Rollback, RemovalPlaces, RestorePlaces
<1>3. CASE job = "ownRollback"
  BY <1>3, <1>a, <1>b, <1>d, RollbackReturns DEF Goes, Rollback, RemovalPlaces, RestorePlaces
<1>4. CASE job = "rollback"
  BY <1>4, <1>a, <1>b, <1>d, RollbackReturns DEF Goes, Rollback, RemovalPlaces, RestorePlaces
<1>5. CASE job = "discard"
  BY <1>5, <1>a, <1>b, <1>d, DiscardReturns
     DEF Goes, Ends, Rollback, RemovalPlaces, RestorePlaces
<1>6. CASE job = "finish"
  BY <1>6, <1>a, <1>b, <1>d, FinishReturns
     DEF Goes, Ends, Rollback, RemovalPlaces, RestorePlaces
<1>. QED
  BY <1>1, <1>2, <1>3, <1>4, <1>5, <1>6, <1>a, Jobs DEF Rollback

(* A mark is removed when the destination holds again what it held before, *)
(* or when the publication is finished.                                    *)
LEMMA PublishedAfterClear ==
  ASSUME PublishInv, Cleaned
  PROVE  Published'
<1>. USE DEF Published
<1>a. TypeOK /\ Control /\ Published /\ RolledBack
  BY DEF PublishInv
<1>b. /\ UNCHANGED <<dest, previous, foreign>> /\ Return(TRUE) /\ TRUE \in BOOLEAN
      /\ published' = [published EXCEPT ![index] = FALSE] /\ pc = "clear"
      /\ Foreigns' = Foreigns
      /\ \A t \in Target : Prior(t)' = Prior(t)
  BY ForeignsKept DEF Cleaned, nameVars, sealVars, otherVars, Prior
<1>c. index \in Target /\ index \in Nat /\ \A t \in Target : t \in Nat /\ t > 0
  BY <1>a, Jobs DEF Target
<1>d. pc' \in {"begin", "end"}
  BY <1>a, <1>b, ReturnsBegin
<1>e. /\ \A t \in Target : t # index => published'[t] = published[t]
      /\ ~published'[index]
  BY <1>a, <1>b, <1>c DEF TypeOK
<1>1. CASE job \in Rollback
  <2>1. dest[index] \in {Prior(index)} \cup Foreigns
    BY <1>1, <1>a, <1>b DEF RolledBack
  <2>2. \A t \in Target : ~published'[t] => dest[t] \in {Prior(t)} \cup Foreigns
    BY <2>1, <1>1, <1>a, <1>e DEF Rollback
  <2>3. \/ job' = "rollback" /\ index' = index - 1
        \/ job' = "discard" /\ index = 1
    BY <1>1, <1>a, <1>b, RollbackReturns DEF Goes
  <2>4. problems' = problems
    BY <1>1, <1>a, <1>b, RollbackReturns DEF TypeOK
  <2>5. \A t \in Target : t > index - 1 => t = index \/ t > index
    BY <1>c
  <2>6. index = 1 => \A t \in Target : t = index \/ t > index
    BY <1>c
  <2>7. ~problems' => \A t \in Target : t > index => ~published[t]
    BY <1>1, <2>4, <1>a DEF Rollback
  <2>. QED
    BY <2>2, <2>3, <2>5, <2>6, <2>7, <1>b, <1>d, <1>e
       DEF Rollback, RemovalPlaces, RestorePlaces
<1>2. CASE job = "discard"
  <2>1. problems' = problems /\ job' = "discard"
    BY <1>2, <1>a, <1>b, DiscardReturns DEF Goes, Ends, TypeOK
  <2>2. ~published[index]
    BY <1>2, <1>a, <1>b DEF RemovalPlaces
  <2>3. \A t \in Target : ~published'[t] => ~published[t]
    BY <2>2, <1>e
  <2>4. \A t \in Target : published'[t] => published[t]
    BY <1>e
  <2>. QED
    BY <2>1, <2>3, <2>4, <1>2, <1>a, <1>b, <1>d DEF Rollback, RemovalPlaces, RestorePlaces
<1>3. CASE job = "finish"
  BY <1>3, <1>a, <1>b, <1>d, ReturnsBegin DEF Rollback, RemovalPlaces, RestorePlaces
<1>. QED
  BY <1>1, <1>2, <1>3, <1>a, <1>b DEF Control, RemovalPlaces

LEMMA PublishedIsKept ==
  ASSUME PublishInv, [Next]_vars
  PROVE  Published'
<1>. USE DEF Published
<1>a. TypeOK /\ Control /\ Published /\ RolledBack
  BY DEF PublishInv
<1>b. /\ dest = [t \in Target |-> dest[t]] /\ published = [t \in Target |-> published[t]]
  BY <1>a DEF TypeOK
<1>c. /\ index \in Target /\ index \in Nat /\ TRUE \in BOOLEAN /\ FALSE \in BOOLEAN
      /\ \A t \in Target : t \in Nat
  BY <1>a, Jobs DEF Target
<1>1. CASE Checked
  <2>1. /\ UNCHANGED <<dest, published, previous, foreign, job, index, problems>>
        /\ Foreigns' = Foreigns
        /\ \A t \in Target : Prior(t)' = Prior(t)
    BY <1>1, ForeignsKept
       DEF Checked, Quiet, Still, nameVars, sealVars, otherVars, runVars, Prior
  <2>2. /\ pc' \in {"check", "sync"} => published[index]
        /\ job = "discard" /\ pc' \in RemovalPlaces => ~published[index]
        /\ job \in Rollback /\ pc' \in RestorePlaces \cup RemovalPlaces => published[index]
        /\ job = "publish" /\ pc' \in {"begin", "rename"} => ~published[index]
    BY <1>1, <1>a DEF Checked, Rollback, RemovalPlaces, RestorePlaces
  <2>. QED
    BY <2>1, <2>2, <1>a
<1>2. CASE Failed \/ Cleaned
  BY <1>2, PublishedAfterFailure, PublishedAfterClear
<1>3. CASE Verified \/ Wrote
  <2>1. /\ UNCHANGED <<dest, published, previous, foreign>> /\ Return(TRUE)
        /\ Foreigns' = Foreigns
        /\ \A t \in Target : Prior(t)' = Prior(t)
    BY <1>3, ForeignsKept
       DEF Verified, Wrote, Quiet, Still, nameVars, sealVars, otherVars, Prior
  <2>2. \A t \in Target : t > index + 1 \/ t = index + 1 => t > index
    BY <1>c
  <2>3. CASE Verified
    <3>1. job = "publish" /\ index' \in Target
      BY <2>3, <2>1, <1>a, <1>c, ReturnsAreTyped DEF Verified
    <3>2. \/ job' = "publish" /\ index' = index + 1 /\ pc' = "begin"
          \/ job' = "finish" /\ pc' = "begin"
      BY <3>1, <2>1, <1>a, <1>c, PublishReturns DEF Goes
    <3>. QED
      BY <3>1, <3>2, <2>1, <2>2, <1>a, <1>c DEF Rollback, RemovalPlaces, RestorePlaces
  <2>4. CASE Wrote
    <3>1. job' \in {"stage", "publish"} /\ index' \in Target /\ pc' = "begin"
      BY <2>4, <2>1, <1>a, <1>c, StageReturns, ReturnsAreTyped DEF Wrote, Goes
    <3>2. \A t \in Target : ~published[t]
      BY <2>4, <1>a DEF Wrote
    <3>. QED
      BY <3>1, <3>2, <2>1, <2>4, <1>a DEF Wrote, Rollback, RemovalPlaces, RestorePlaces
  <2>. QED
    BY <1>3, <2>3, <2>4
<1>4. CASE Skipped
  <2>1. /\ UNCHANGED <<dest, published, previous, foreign>> /\ Return(TRUE) /\ job = "discard"
        /\ Foreigns' = Foreigns
        /\ \A t \in Target : Prior(t)' = Prior(t)
    BY <1>4, ForeignsKept
       DEF Skipped, Quiet, Still, nameVars, sealVars, otherVars, Prior
  <2>2. problems' = problems /\ job' = "discard" /\ pc' \in {"begin", "end"}
    BY <2>1, <1>a, <1>c, DiscardReturns DEF Goes, Ends, TypeOK
  <2>. QED
    BY <2>1, <2>2, <1>a DEF Rollback, RemovalPlaces, RestorePlaces
<1>5. CASE Repented
  <2>1. /\ UNCHANGED <<dest, published, previous, foreign, index>>
        /\ Foreigns' = Foreigns
        /\ \A t \in Target : Prior(t)' = Prior(t)
        /\ job = "publish" /\ job' = "ownRollback" /\ pc' = "begin"
    BY <1>5, ForeignsKept
       DEF Repented, Quiet, Still, nameVars, sealVars, otherVars, Prior
  <2>. QED
    BY <2>1, <1>a DEF Rollback, RemovalPlaces, RestorePlaces
<1>6. CASE Created \/ Unlinked \/ StageQuarantined
  <2>1. /\ UNCHANGED <<dest, published, previous, foreign, job, index, problems>>
        /\ Foreigns' = Foreigns
        /\ \A t \in Target : Prior(t)' = Prior(t)
    BY <1>6, ForeignsKept
       DEF Created, Unlinked, StageQuarantined, GoTo, sealVars, otherVars, runVars, Prior
  <2>2. \/ pc' = "write" /\ job = "stage"
        \/ pc' \in RemovalPlaces /\ pc \in RemovalPlaces
    BY <1>6 DEF Created, Unlinked, StageQuarantined, GoTo, RemovalPlaces
  <2>. QED
    BY <2>1, <2>2, <1>a DEF Rollback, RemovalPlaces, RestorePlaces, Control
<1>7. CASE Installed
  <2>1. /\ UNCHANGED <<previous, foreign, job, index>> /\ job = "publish" /\ pc' = "check"
        /\ Foreigns' = Foreigns
        /\ \A t \in Target : Prior(t)' = Prior(t)
        /\ published' = [published EXCEPT ![index] = TRUE]
        /\ \A t \in Target : t # index => dest'[t] = dest[t]
    BY <1>7, <1>b, ForeignsKept
       DEF Installed, Swap, Move, GoTo, otherVars, runVars, Prior
  <2>. QED
    BY <2>1, <1>a, <1>b, <1>c DEF Rollback, RemovalPlaces, RestorePlaces
<1>8. CASE Restored \/ DestQuarantined
  <2>1. /\ UNCHANGED <<published, previous, foreign, job, index, problems>> /\ job \in Rollback
        /\ Foreigns' = Foreigns
        /\ \A t \in Target : Prior(t)' = Prior(t)
        /\ \A t \in Target : t # index => dest'[t] = dest[t]
        /\ pc' \in {"checkRestored", "inspect"} /\ pc \in RestorePlaces \cup RemovalPlaces
    BY <1>8, <1>b, ForeignsKept
       DEF Restored, DestQuarantined, Swap, GoTo, otherVars, sealVars, runVars, Prior,
           RestorePlaces, RemovalPlaces
  <2>. QED
    BY <2>1, <1>a, <1>c DEF Rollback, RemovalPlaces, RestorePlaces
<1>9. ASSUME NEW u \in Target, Edit(u) \/ StageReplaced(u)
      PROVE  Published'
  <2>1. /\ UNCHANGED <<dest, published, previous, job, index, pc, problems>>
        /\ \A t \in Target : Prior(t)' = Prior(t)
    BY <1>9 DEF Edit, StageReplaced, nameVars, sealVars, runVars, Prior
  <2>2. Foreigns \subseteq Foreigns'
    BY <1>9, <1>a, Jobs, ForeignsKept, ForeignsGrow DEF Edit, StageReplaced
  <2>. QED
    BY <2>1, <2>2, <1>a
<1>10. ASSUME NEW u \in Target, DestReplaced(u)
       PROVE  Published'
  <2>1. /\ UNCHANGED <<published, previous, job, index, pc, problems>>
        /\ \A t \in Target : Prior(t)' = Prior(t)
    BY <1>10 DEF DestReplaced, sealVars, runVars, Prior
  <2>2. \A t \in Target : dest'[t] = dest[t] \/ dest'[t] \in Foreigns'
    BY <1>10, <1>a, <1>b, Jobs, ForeignsGrow DEF DestReplaced
  <2>3. Foreigns \subseteq Foreigns'
    BY <1>10, <1>a, Jobs, ForeignsGrow DEF DestReplaced
  <2>. QED
    BY <2>1, <2>2, <2>3, <1>a
<1>11. CASE UNCHANGED vars
  <2>1. /\ UNCHANGED <<dest, published, previous, foreign, job, index, pc, problems>>
        /\ \A t \in Target : Prior(t)' = Prior(t)
    BY <1>11 DEF vars, nameVars, sealVars, runVars, otherVars, Prior
  <2>. QED
    BY <2>1, ForeignsKept, <1>a
<1>. QED
  BY <1>1, <1>2, <1>3, <1>4, <1>5, <1>6, <1>7, <1>8, <1>9, <1>10, <1>11, <1>a, Steps
     DEF PublisherStep, OthersStep

-----------------------------------------------------------------------------
(* How far publication, rollback and clean-up have got                     *)

LEMMA InPlaceIsKept ==
  ASSUME PublishInv, [Next]_vars
  PROVE  InPlace'
<1>. USE DEF InPlace
<1>a. TypeOK /\ Control /\ InPlace
  BY DEF PublishInv
<1>b. /\ dest = [t \in Target |-> dest[t]]
  BY <1>a DEF TypeOK
<1>c. /\ index \in Target /\ index \in Nat /\ TRUE \in BOOLEAN /\ FALSE \in BOOLEAN
      /\ \A t \in Target : t \in Nat /\ t > 0 /\ t <= N
  BY <1>a, Jobs DEF Target
<1>1. CASE Verified
  <2>1. /\ UNCHANGED <<dest, foreign>> /\ Return(TRUE) /\ Foreigns' = Foreigns
        /\ job = "publish" /\ dest[index] = New(index)
    BY <1>1, ForeignsKept DEF Verified, Quiet, Still, nameVars, otherVars
  <2>2. \/ job' = "publish" /\ index' = index + 1
        \/ job' = "finish" /\ index = N
    BY <2>1, <1>a, <1>c, PublishReturns DEF Goes
  <2>3. \A t \in Target : t < index + 1 => t < index \/ t = index
    BY <1>c
  <2>4. index = N => \A t \in Target : t < index \/ t = index
    BY <1>c, <1>a, Jobs
  <2>. QED
    BY <2>1, <2>2, <2>3, <2>4, <1>a
<1>2. CASE Wrote
  <2>1. job' = "stage" \/ (job' = "publish" /\ index' = 1)
    BY <1>2, <1>a, <1>c, StageReturns DEF Wrote, Goes
  <2>2. \A t \in Target : ~(t < 1)
    BY <1>c
  <2>. QED
    BY <2>1, <2>2
<1>3. CASE Failed \/ Skipped \/ Cleaned
  <2>1. /\ UNCHANGED <<dest, foreign>> /\ Foreigns' = Foreigns
        /\ \E ok \in BOOLEAN : Return(ok) /\ (ok => job \notin {"stage", "publish"})
    BY <1>3, <1>a, <1>c, ForeignsKept
       DEF Failed, Skipped, Cleaned, Quiet, Still, nameVars, otherVars, Control, RemovalPlaces,
           Rollback
  <2>2. job' # "publish" /\ (job' = "finish" => job = "finish")
    BY <2>1, <1>a, Jobs, StageReturns, PublishReturns, RollbackReturns, DiscardReturns,
       FinishReturns DEF Goes, Ends, Rollback
  <2>. QED
    BY <2>1, <2>2, <1>a
<1>4. CASE Repented
  BY <1>4 DEF Repented
<1>5. CASE Installed
  <2>1. /\ UNCHANGED <<foreign, job, index>> /\ Foreigns' = Foreigns /\ job = "publish"
        /\ \A t \in Target : t # index => dest'[t] = dest[t]
    BY <1>5, <1>b, ForeignsKept DEF Installed, Swap, Move, GoTo, otherVars, runVars
  <2>. QED
    BY <2>1, <1>a, <1>c
<1>6. CASE Restored \/ DestQuarantined
  BY <1>6 DEF Restored, DestQuarantined, GoTo, runVars, Rollback
<1>7. CASE Checked \/ Created \/ StageQuarantined \/ Unlinked \/ UNCHANGED vars
  <2>1. UNCHANGED <<dest, foreign, job, index>>
    BY <1>7 DEF Checked, Quiet, Still, Created, StageQuarantined, Unlinked, GoTo, nameVars,
       otherVars, runVars, vars
  <2>. QED
    BY <2>1, <1>a, ForeignsKept
<1>8. ASSUME NEW u \in Target, Edit(u) \/ DestReplaced(u) \/ StageReplaced(u)
      PROVE  InPlace'
  <2>1. UNCHANGED <<job, index>>
    BY <1>8 DEF Edit, DestReplaced, StageReplaced, runVars
  <2>2. \A t \in Target : dest'[t] = dest[t] \/ dest'[t] \in Foreigns'
    BY <1>8, <1>a, <1>b, Jobs, ForeignsGrow DEF Edit, DestReplaced, StageReplaced, nameVars
  <2>3. Foreigns \subseteq Foreigns'
    BY <1>8, <1>a, Jobs, ForeignsKept, ForeignsGrow DEF Edit, DestReplaced, StageReplaced
  <2>. QED
    BY <2>1, <2>2, <2>3, <1>a
<1>. QED
  BY <1>1, <1>2, <1>3, <1>4, <1>5, <1>6, <1>7, <1>8, <1>a, Steps DEF PublisherStep, OthersStep

LEMMA RolledBackIsKept ==
  ASSUME PublishInv, [Next]_vars
  PROVE  RolledBack'
<1>. USE DEF RolledBack
<1>a. TypeOK /\ Control /\ RolledBack
  BY DEF PublishInv
<1>b. /\ dest = [t \in Target |-> dest[t]] /\ stage = [t \in Target |-> stage[t]]
  BY <1>a DEF TypeOK
<1>c. index \in Target /\ TRUE \in BOOLEAN /\ FALSE \in BOOLEAN
  BY <1>a, Jobs
<1>1. CASE Checked
  <2>1. /\ UNCHANGED <<dest, stage, previous, foreign, job, index>>
        /\ Foreigns' = Foreigns /\ Prior(index)' = Prior(index)
    BY <1>1, ForeignsKept
       DEF Checked, Quiet, Still, nameVars, sealVars, otherVars, runVars, Prior
  <2>. QED
    BY <1>1, <2>1, <1>a DEF Checked, Control, Rollback, RestorePlaces
<1>2. CASE Failed \/ Verified \/ Skipped \/ Wrote \/ Cleaned
  <2>1. pc' \in {"begin", "end"}
    BY <1>2, <1>a, <1>c, ReturnsBegin DEF Failed, Verified, Skipped, Wrote, Cleaned
  <2>. QED
    BY <2>1
<1>3. CASE Repented \/ Created \/ Installed \/ Restored
  BY <1>3 DEF Repented, Created, Installed, Restored, GoTo
<1>4. CASE DestQuarantined
  BY <1>4, <1>b, <1>c DEF DestQuarantined, GoTo, runVars, sealVars, Prior
<1>5. CASE StageQuarantined
  BY <1>5, <1>a, ForeignsKept DEF StageQuarantined, GoTo, runVars, sealVars, otherVars, Prior
<1>6. CASE Unlinked
  BY <1>6, <1>a, ForeignsKept DEF Unlinked, GoTo, runVars, sealVars, otherVars, Prior
<1>7. ASSUME NEW u \in Target, Edit(u) \/ DestReplaced(u) \/ StageReplaced(u)
      PROVE  RolledBack'
  <2>1. UNCHANGED <<job, index, pc, previous>> /\ Prior(index)' = Prior(index)
    BY <1>7 DEF Edit, DestReplaced, StageReplaced, runVars, sealVars, Prior
  <2>2. dest'[index] = dest[index] \/ dest'[index] \in Foreigns'
    BY <1>7, <1>a, <1>b, <1>c, Jobs, ForeignsGrow DEF Edit, DestReplaced, StageReplaced, nameVars
  <2>3. stage'[index] = stage[index] \/ stage'[index] \in Foreigns'
    BY <1>7, <1>a, <1>b, <1>c, Jobs, ForeignsGrow DEF Edit, DestReplaced, StageReplaced, nameVars
  <2>4. Foreigns \subseteq Foreigns'
    BY <1>7, <1>a, Jobs, ForeignsKept, ForeignsGrow DEF Edit, DestReplaced, StageReplaced
  <2>. QED
    BY <2>1, <2>2, <2>3, <2>4, <1>a
<1>8. CASE UNCHANGED vars
  <2>1. /\ UNCHANGED <<dest, stage, previous, foreign, job, index, pc>>
        /\ Foreigns' = Foreigns /\ Prior(index)' = Prior(index)
    BY <1>8, ForeignsKept DEF vars, nameVars, sealVars, otherVars, runVars, Prior
  <2>. QED
    BY <2>1, <1>a
<1>. QED
  BY <1>1, <1>2, <1>3, <1>4, <1>5, <1>6, <1>7, <1>8, <1>a, Steps DEF PublisherStep, OthersStep

(* A failure is remembered, or nothing has been dealt with yet.            *)
LEMMA ClearedAfterFailure ==
  ASSUME PublishInv, Failed
  PROVE  Cleared'
<1>. USE DEF Cleared
<1>a. TypeOK /\ Control /\ Cleared
  BY DEF PublishInv
<1>b. Return(FALSE) /\ FALSE \in BOOLEAN /\ seal' = seal /\ pc # "end"
  BY DEF Failed, Still, sealVars
<1>c. index \in Target /\ index \in Nat /\ \A t \in Target : t \in Nat /\ ~(t < 1)
  BY <1>a, Jobs DEF Target
<1>1. CASE job = "stage"
  BY <1>1, <1>a, <1>b, <1>c, StageReturns DEF Goes
<1>2. CASE job = "publish"
  <2>1. failedAt = 1
    BY <1>2, <1>a DEF Control
  <2>2. \/ job' = "rollback" /\ index' \in {index, index - 1} /\ failedAt' = index
        \/ job' = "discard" /\ index' = 1 /\ pc' = "begin"
    BY <1>2, <2>1, <1>a, <1>b, PublishReturns DEF Goes
  <2>. QED
    BY <2>2, <1>c
<1>3. CASE job = "ownRollback"
  <2>1. job' = "rollback" /\ index' = index /\ failedAt' = index
    BY <1>3, <1>a, <1>b, RollbackReturns DEF Goes, Control, Rollback
  <2>. QED
    BY <2>1, <1>c
<1>4. CASE job = "rollback"
  BY <1>4, <1>a, <1>b, RollbackReturns DEF Goes, Rollback
<1>5. CASE job = "discard"
  BY <1>5, <1>a, <1>b, DiscardReturns DEF Goes, Ends
<1>6. CASE job = "finish"
  BY <1>6, <1>a, <1>b, FinishReturns DEF Goes, Ends, Control
<1>. QED
  BY <1>1, <1>2, <1>3, <1>4, <1>5, <1>6, <1>a, Jobs DEF Rollback

(* After a success one more target has been dealt with.                    *)
LEMMA ClearedAfterClear ==
  ASSUME PublishInv, Cleaned
  PROVE  Cleared'
<1>. USE DEF Cleared
<1>a. TypeOK /\ Control /\ Cleared
  BY DEF PublishInv
<1>b. Return(TRUE) /\ TRUE \in BOOLEAN /\ pc = "clear"
  BY DEF Cleaned
<1>c. /\ index \in Target /\ index \in Nat
      /\ \A t \in Target : t \in Nat /\ t > 0 /\ ~(t < 1) /\ (t < N \/ t = N)
  BY <1>a, Jobs DEF Target
<1>d. /\ \A t \in Target : seal[t] = "none" => seal'[t] = "none"
      /\ seal'[index] = "none"
  BY <1>a, <1>c DEF Cleaned, TypeOK
<1>1. CASE job = "ownRollback"
  <2>1. failedAt = index
    BY <1>1, <1>a DEF Control
  <2>2. \/ job' = "rollback" /\ index' = index - 1 /\ failedAt' = index
        \/ job' = "discard" /\ index' = 1 /\ pc' = "begin"
    BY <1>1, <2>1, <1>a, <1>b, RollbackReturns DEF Goes, Rollback
  <2>. QED
    BY <2>2, <1>c
<1>2. CASE job = "rollback"
  <2>1. /\ \/ job' = "rollback" /\ index' = index - 1
           \/ job' = "discard" /\ index' = failedAt /\ index = 1 /\ pc' = "begin"
        /\ failedAt' = failedAt
    BY <1>2, <1>a, <1>b, RollbackReturns DEF Goes, Rollback
  <2>2. ~problems' => \A t \in Target : index < t /\ t < failedAt => seal[t] = "none"
    BY <1>2, <1>a, <1>b, RollbackReturns DEF Rollback
  <2>3. \A t \in Target : index - 1 < t => t = index \/ index < t
    BY <1>c
  <2>4. index = 1 => \A t \in Target : t = index \/ index < t
    BY <1>c
  <2>5. ASSUME job' = "rollback", ~problems'
        PROVE  \A t \in Target : index' < t /\ t < failedAt' => seal'[t] = "none"
    BY <2>1, <2>2, <2>3, <2>5, <1>d
  <2>6. ASSUME job' = "discard", ~problems'
        PROVE  \A t \in Target : t < index' \/ pc' = "end" => seal'[t] = "none"
    BY <2>1, <2>2, <2>4, <2>6, <1>d
  <2>. QED
    BY <2>1, <2>5, <2>6
<1>3. CASE job \in {"discard", "finish"}
  <2>1. /\ job' = job
        /\ \/ index' = index + 1 /\ pc' = "begin" /\ outcome' = outcome
           \/ index = N
    BY <1>3, <1>a, <1>b, DiscardReturns, FinishReturns DEF Goes, Ends
  <2>2. job = "discard" /\ ~problems' => ~problems
    BY <1>3, <1>a, <1>b, DiscardReturns
  <2>3. \A t \in Target : t < index + 1 => t < index \/ t = index
    BY <1>c
  <2>4. index = N => \A t \in Target : t < index \/ t = index
    BY <1>c
  <2>5. outcome = "none"
    BY <1>a, <1>b DEF Control
  <2>. QED
    BY <1>3, <2>1, <2>2, <2>3, <2>4, <2>5, <1>a, <1>d
<1>. QED
  BY <1>1, <1>2, <1>3, <1>a, <1>b DEF Control, RemovalPlaces, Rollback

LEMMA ClearedIsKept ==
  ASSUME PublishInv, [Next]_vars
  PROVE  Cleared'
<1>. USE DEF Cleared
<1>a. TypeOK /\ Control /\ Cleared /\ Published
  BY DEF PublishInv
<1>c. /\ index \in Target /\ index \in Nat /\ TRUE \in BOOLEAN
      /\ \A t \in Target : t \in Nat /\ t > 0 /\ ~(t < 1) /\ (t < N \/ t = N)
  BY <1>a, Jobs DEF Target
<1>1. CASE Failed \/ Cleaned
  BY <1>1, ClearedAfterFailure, ClearedAfterClear
<1>2. CASE Verified
  <2>1. \/ job' = "publish"
        \/ job' = "finish" /\ index' = 1 /\ outcome' = outcome
    BY <1>2, <1>a, <1>c, PublishReturns DEF Verified, Goes
  <2>2. outcome = "none"
    BY <1>2, <1>a DEF Verified, Control
  <2>. QED
    BY <2>1, <2>2, <1>c
<1>3. CASE Wrote
  BY <1>3, <1>a, <1>c, StageReturns DEF Wrote, Goes
<1>4. CASE Skipped
  <2>1. Return(TRUE) /\ job = "discard" /\ seal' = seal /\ pc # "end"
    BY <1>4 DEF Skipped, Quiet, Still, sealVars
  <2>2. /\ job' = job
        /\ \/ index' = index + 1 /\ pc' = "begin"
           \/ index = N
    BY <2>1, <1>a, <1>c, DiscardReturns DEF Goes, Ends
  <2>3. ~problems' => ~problems
    BY <2>1, <1>a, <1>c, DiscardReturns
  <2>4. ~problems => seal[index] = "none"
    BY <1>4, <1>a, <1>c DEF Skipped, Published
  <2>5. \A t \in Target : t < index + 1 => t < index \/ t = index
    BY <1>c
  <2>6. index = N => \A t \in Target : t < index \/ t = index
    BY <1>c
  <2>. QED
    BY <2>1, <2>2, <2>3, <2>4, <2>5, <2>6, <1>a
<1>5. CASE Repented \/ Created \/ Installed
  BY <1>5 DEF Repented, Created, Installed, GoTo, runVars
<1>6. CASE Checked \/ Restored \/ DestQuarantined \/ StageQuarantined \/ Unlinked
  <2>1. UNCHANGED <<seal, job, index, failedAt, problems, outcome>> /\ pc' # "end"
    BY <1>6 DEF Checked, Quiet, Still, Restored, DestQuarantined, StageQuarantined, Unlinked,
       GoTo, sealVars, runVars
  <2>. QED
    BY <2>1, <1>a
<1>7. ASSUME NEW u \in Target, Edit(u) \/ DestReplaced(u) \/ StageReplaced(u)
      PROVE  Cleared'
  BY <1>7, <1>a DEF Edit, DestReplaced, StageReplaced, sealVars, runVars
<1>8. CASE UNCHANGED vars
  BY <1>8, <1>a DEF vars, sealVars, runVars
<1>. QED
  BY <1>1, <1>2, <1>3, <1>4, <1>5, <1>6, <1>7, <1>8, <1>a, Steps DEF PublisherStep, OthersStep

(* What a failed method leaves in quarantine is remembered as a problem,   *)
(* or the next rollback of the same target will find.                      *)
LEMMA QuarantineAfterFailure ==
  ASSUME PublishInv, Failed
  PROVE  QuarantineIsClear'
<1>. USE DEF QuarantineIsClear
<1>a. TypeOK /\ Control /\ QuarantineIsClear /\ RolledBack
  BY DEF PublishInv
<1>b. /\ Return(FALSE) /\ FALSE \in BOOLEAN /\ pc # "end"
      /\ UNCHANGED <<dest, quarantine, moved>>
  BY DEF Failed, Still, nameVars
<1>c. pc' \in {"begin", "end"} /\ pc' \notin RestorePlaces \cup RemovalPlaces
  BY <1>a, <1>b, ReturnsBegin DEF RestorePlaces, RemovalPlaces
<1>d. outcome = "none"
  BY <1>a, <1>b DEF Control
<1>1. CASE job \in {"stage", "publish"}
  <2>1. quarantine = {}
    BY <1>1, <1>a
  <2>. QED
    BY <2>1, <1>b, <1>c DEF RestorePlaces, RemovalPlaces
<1>2. CASE job = "ownRollback"
  <2>1. job' = "rollback" /\ index' = index /\ outcome' = "none"
    BY <1>2, <1>a, <1>b, <1>d, RollbackReturns DEF Goes, Rollback
  <2>2. ~problems
    BY <1>2, <1>a DEF Control
  <2>3. quarantine # {} => pc \in {"inspect", "unlink"}
    BY <1>2, <2>2, <1>a, <1>b DEF TypeOK, Control, Rollback, RestorePlaces, RemovalPlaces
  <2>4. quarantine # {} => dest[index] # New(index)
    BY <1>2, <2>3, <1>a, ObjectsDiffer, Strangers DEF RolledBack, Rollback, Prior
  <2>. QED
    BY <2>1, <2>4, <1>b, <1>c DEF RestorePlaces, RemovalPlaces
<1>3. CASE job = "rollback"
  <2>1. problems' /\ job' \in {"rollback", "discard"} /\ outcome' = "none"
    BY <1>3, <1>a, <1>b, <1>d, RollbackReturns DEF Goes, Rollback
  <2>. QED
    BY <2>1 DEF Rollback
<1>4. CASE job = "discard"
  <2>1. problems' /\ job' = "discard" /\ outcome' \in {"none", "incomplete"}
    BY <1>4, <1>a, <1>b, <1>d, DiscardReturns DEF Goes, Ends
  <2>. QED
    BY <2>1 DEF Rollback
<1>5. CASE job = "finish"
  <2>1. job' = "finish" /\ outcome' = "unfinished" /\ pc' = "end"
    BY <1>5, <1>a, <1>b, FinishReturns DEF Goes, Ends
  <2>. QED
    BY <2>1, <1>c DEF RestorePlaces, RemovalPlaces
<1>. QED
  BY <1>1, <1>2, <1>3, <1>4, <1>5, <1>a, Jobs DEF Rollback

LEMMA QuarantineStaysClear ==
  ASSUME PublishInv, [Next]_vars
  PROVE  QuarantineIsClear'
<1>. USE DEF QuarantineIsClear
<1>a. TypeOK /\ Control /\ QuarantineIsClear
  BY DEF PublishInv
<1>b. dest = [t \in Target |-> dest[t]]
  BY <1>a DEF TypeOK
<1>c. index \in Target /\ TRUE \in BOOLEAN
  BY <1>a, Jobs
<1>1. CASE Checked
  <2>1. UNCHANGED <<dest, quarantine, moved, job, index, problems, outcome>>
    BY <1>1 DEF Checked, Quiet, Still, nameVars, runVars
  <2>2. /\ pc' \notin {"begin", "inspect", "end"}
        /\ job \in {"publish", "discard", "finish"} \cup Rollback
    BY <1>1, <1>a DEF Checked, Control, RemovalPlaces
  <2>3. job = "publish" => pc' \notin RestorePlaces \cup RemovalPlaces
    BY <1>1, <1>a DEF Checked, Control, Rollback, RestorePlaces, RemovalPlaces
  <2>4. job \in Rollback /\ ~problems /\ pc = "begin" => quarantine = {}
    BY <1>1, <1>a DEF Checked, Rollback
  <2>5. ASSUME (job \in Rollback \cup {"discard"} /\ ~problems) \/ job = "finish"
        PROVE  \/ pc' = "unlink" /\ quarantine = {moved}
               \/ pc' \in RestorePlaces \cup {"quarantine", "clear"} /\ quarantine = {}
    BY <1>1, <2>4, <2>5, <1>a DEF Checked, Rollback, RestorePlaces
  <2>6. outcome # "published"
    BY <1>1, <1>a DEF Checked, Control
  <2>. QED
    BY <2>1, <2>2, <2>3, <2>5, <2>6, <1>a DEF RestorePlaces, Rollback
<1>2. CASE Failed
  BY <1>2, QuarantineAfterFailure
<1>3. CASE Verified \/ Wrote
  <2>1. /\ quarantine' = {} /\ pc' = "begin" /\ outcome' = "none"
        /\ job' \in {"stage", "publish", "finish"}
    BY <1>3, <1>a, <1>c, StageReturns, PublishReturns
       DEF Verified, Wrote, Quiet, Still, nameVars, Goes, Control
  <2>. QED
    BY <2>1 DEF RestorePlaces
<1>4. CASE Skipped \/ Cleaned
  <2>1. quarantine' = quarantine /\ Return(TRUE) /\ job \in Rollback \cup {"discard", "finish"}
    BY <1>4, <1>a DEF Skipped, Cleaned, Quiet, Still, nameVars, Control, RemovalPlaces
  <2>2. /\ pc' \in {"begin", "end"}
        /\ job' \in Rollback \cup {"discard", "finish"}
        /\ job' = "finish" => job = "finish"
        /\ job' # "ownRollback"
        /\ outcome' = "published" => job = "finish"
    BY <2>1, <1>4, <1>a, <1>c, RollbackReturns, DiscardReturns, FinishReturns
       DEF Goes, Ends, Rollback, Control, Skipped, Cleaned
  <2>3. job \in Rollback \cup {"discard"} => (~problems' => ~problems)
    BY <2>1, <1>a, <1>c, RollbackReturns, DiscardReturns
  <2>4. (job \in Rollback \cup {"discard"} /\ ~problems) \/ job = "finish" => quarantine = {}
    BY <1>4, <1>a, <2>1 DEF Skipped, Cleaned
  <2>. QED
    BY <2>1, <2>2, <2>3, <2>4 DEF Rollback, RestorePlaces
<1>5. CASE Repented
  BY <1>5, <1>a DEF Repented, Quiet, Still, nameVars, Control, RestorePlaces
<1>6. CASE Created \/ Installed
  <2>1. /\ UNCHANGED <<quarantine, job, outcome>> /\ job \in {"stage", "publish"}
        /\ outcome = "none"
    BY <1>6, <1>a DEF Created, Installed, GoTo, runVars, Control
  <2>. QED
    BY <2>1, <1>a DEF Rollback
<1>7. CASE Restored
  <2>1. /\ UNCHANGED <<quarantine, job, problems, outcome>> /\ job \in Rollback
        /\ pc = "restore" /\ pc' = "checkRestored" /\ outcome = "none"
    BY <1>7, <1>a DEF Restored, GoTo, runVars, sealVars, Control
  <2>. QED
    BY <2>1, <1>a DEF Rollback, RestorePlaces
<1>8. CASE DestQuarantined \/ StageQuarantined
  <2>1. /\ UNCHANGED <<job, problems, outcome>> /\ outcome = "none"
        /\ pc = "quarantine" /\ pc' = "inspect" /\ quarantine' = quarantine \cup {moved'}
        /\ job \in Rollback \cup {"discard", "finish"}
    BY <1>8, <1>a DEF DestQuarantined, StageQuarantined, GoTo, runVars, Control, RemovalPlaces
  <2>. QED
    BY <2>1, <1>a DEF Rollback, RestorePlaces
<1>9. CASE Unlinked
  <2>1. /\ UNCHANGED <<job, problems, outcome>> /\ outcome = "none"
        /\ pc = "unlink" /\ pc' = "clear" /\ quarantine' = quarantine \ {moved}
        /\ job \in Rollback \cup {"discard", "finish"}
    BY <1>9, <1>a DEF Unlinked, GoTo, runVars, Control, RemovalPlaces
  <2>. QED
    BY <2>1, <1>a DEF Rollback
<1>10. ASSUME NEW u \in Target, Edit(u) \/ DestReplaced(u) \/ StageReplaced(u)
       PROVE  QuarantineIsClear'
  <2>1. UNCHANGED <<quarantine, moved, job, index, pc, problems, outcome>>
    BY <1>10 DEF Edit, DestReplaced, StageReplaced, runVars, sealVars, nameVars
  <2>2. dest'[index] = dest[index] \/ dest'[index] # New(index)
    BY <1>10, <1>b, <1>c, ObjectsDiffer DEF Edit, DestReplaced, StageReplaced, nameVars
  <2>. QED
    BY <2>1, <2>2, <1>a
<1>11. CASE UNCHANGED vars
  BY <1>11, <1>a DEF vars, nameVars, runVars
<1>. QED
  BY <1>1, <1>2, <1>3, <1>4, <1>5, <1>6, <1>7, <1>8, <1>9, <1>10, <1>11, <1>a, Steps
     DEF PublisherStep, OthersStep

(* Before the publication is finished only new files are deleted.          *)
LEMMA BackupsStay ==
  ASSUME PublishInv, [Next]_vars
  PROVE  BackupsAreKept'
<1>. USE DEF BackupsAreKept, Named
<1>a. TypeOK /\ Control /\ Moved /\ BackupsAreKept
  BY DEF PublishInv
<1>b. /\ index \in Target /\ TRUE \in BOOLEAN /\ FALSE \in BOOLEAN
      /\ dest = [t \in Target |-> dest[t]] /\ stage = [t \in Target |-> stage[t]]
      /\ \A t \in Target : Old(t) # Nothing
  BY <1>a, Jobs, ObjectsDiffer DEF TypeOK
<1>1. CASE OnlyTheRun
  <2>1. job' # "finish" => job # "finish"
    BY <1>1, <1>a, <1>b, ReturnsBegin
       DEF OnlyTheRun, Checked, Failed, Verified, Skipped, Repented, Wrote, Cleaned, vars, runVars
  <2>. QED
    BY <1>1, <2>1, <1>a, OnlyTheRunGoesOn DEF NamesStay
<1>2. CASE Created
  BY <1>2, <1>a, <1>b, StagesAreNew DEF Created, otherVars, GoTo, runVars
<1>3. CASE Installed
  BY <1>3, <1>a, <1>b DEF Installed, Swap, Move, otherVars, GoTo, runVars
<1>4. CASE Restored
  BY <1>4, <1>a, <1>b DEF Restored, Swap, sealVars, otherVars, GoTo, runVars
<1>5. CASE DestQuarantined
  BY <1>5, <1>a, <1>b DEF DestQuarantined, sealVars, otherVars, GoTo, runVars
<1>6. CASE StageQuarantined
  BY <1>6, <1>a, <1>b DEF StageQuarantined, sealVars, otherVars, GoTo, runVars
<1>7. CASE Unlinked
  <2>1. job # "finish" => \A t \in Target : moved # Old(t)
    BY <1>7, <1>a, ObjectsDiffer DEF Unlinked, Moved, Valid, Expected
  <2>. QED
    BY <1>7, <2>1, <1>a DEF Unlinked, sealVars, otherVars, GoTo, runVars
<1>8. ASSUME NEW u \in Target, Edit(u)
      PROVE  BackupsAreKept'
  BY <1>8, <1>a DEF Edit, nameVars, sealVars, runVars
<1>9. ASSUME NEW u \in Target, DestReplaced(u)
      PROVE  BackupsAreKept'
  BY <1>9, <1>a, <1>b DEF DestReplaced, sealVars, runVars
<1>10. ASSUME NEW u \in Target, StageReplaced(u)
       PROVE  BackupsAreKept'
  BY <1>10, <1>a, <1>b DEF StageReplaced, sealVars, runVars
<1>. QED
  BY <1>1, <1>2, <1>3, <1>4, <1>5, <1>6, <1>7, <1>8, <1>9, <1>10, <1>a, StepsByName

-----------------------------------------------------------------------------
(* The theorems                                                            *)

(* It all holds when the targets have been prepared.                       *)
LEMMA PreparedTargets ==
  ASSUME Init
  PROVE  PublishInv
<1>. USE DEF Init
<1>a. /\ Foreigns = {} /\ 1 \in Target /\ \A t \in Target : t \in Nat /\ ~(t < 1)
      /\ Nothing \notin Objects
  BY NAssumption, ObjectsDiffer, Strangers DEF Foreigns, Target, Objects
<1>b. \A t \in Target : dest[t] = Prior(t) /\ stage[t] = Nothing /\ (previous[t] \in BOOLEAN)
  BY DEF Prior
<1>1. TypeOK
  <2>1. dest \in [Target -> Objects \cup {Nothing}]
    BY DEF Objects
  <2>2. stage \in [Target -> Objects \cup {Nothing}]
    OBVIOUS
  <2>3. previous \in [Target -> BOOLEAN]
    OBVIOUS
  <2>4. published \in [Target -> BOOLEAN] /\ problems \in BOOLEAN
    BY Zenon
  <2>5. foreign \in 0..MaxForeign
    BY MaxForeignAssumption
  <2>. QED
    BY <2>1, <2>2, <2>3, <2>4, <2>5, <1>a DEF TypeOK
<1>2. Control
  BY DEF Control, RestorePlaces, RemovalPlaces
<1>3. OwnNames
  BY <1>b, ObjectsDiffer DEF OwnNames, Prior
<1>4. BoundOnce
  BY <1>b, ObjectsDiffer DEF BoundOnce, Prior
<1>5. Others /\ Moved /\ OthersWorkIsKept
  BY <1>a DEF Others, Moved, OthersWorkIsKept
<1>6. Staged /\ RolledBack
  BY <1>a, <1>b DEF Staged, RolledBack
<1>7. Written
  BY <1>a, <1>b, ObjectsDiffer DEF Written, Rollback, Prior
<1>8. Published
  BY <1>b DEF Published, Rollback
<1>9. InPlace /\ Cleared /\ QuarantineIsClear
  BY DEF InPlace, Cleared, QuarantineIsClear, Rollback
<1>10. BackupsAreKept
  BY <1>b DEF BackupsAreKept, Named, Prior
<1>. QED
  BY <1>1, <1>2, <1>3, <1>4, <1>5, <1>6, <1>7, <1>8, <1>9, <1>10 DEF PublishInv

(* The inductive invariant.                                                *)
THEOREM PublishInvariance == Spec => []PublishInv
<1>1. Init => PublishInv
  BY PreparedTargets
<1>2. PublishInv /\ [Next]_vars => PublishInv'
  <2>. SUFFICES ASSUME PublishInv, [Next]_vars
                PROVE  PublishInv'
    OBVIOUS
  <2>1. TypeOK' /\ Control'
    BY TypesAreKept, ControlIsKept DEF PublishInv
  <2>2. OwnNames' /\ BoundOnce' /\ Others' /\ Moved' /\ OthersWorkIsKept'
    BY OwnNamesAreKept, BoundOnceIsKept, OthersAreKept, MovedIsKept, OthersWorkStays
  <2>3. Staged' /\ Written' /\ Published' /\ InPlace' /\ RolledBack'
    BY StagedIsKept, WrittenIsKept, PublishedIsKept, InPlaceIsKept, RolledBackIsKept
  <2>4. Cleared' /\ QuarantineIsClear' /\ BackupsAreKept'
    BY ClearedIsKept, QuarantineStaysClear, BackupsStay
  <2>. QED
    BY <2>1, <2>2, <2>3, <2>4 DEF PublishInv
<1>. QED
  BY <1>1, <1>2, PTL DEF Spec

(* The variables have their types: every name is bound to a file there is. *)
THEOREM PublishTypeCorrect == Spec => []TypeOK
<1>1. PublishInv => TypeOK
  BY DEF PublishInv
<1>. QED
  BY <1>1, PublishInvariance, PTL

(* A destination holds, at any moment, what it held before, all of the new *)
(* file, or somebody else's.                                               *)
THEOREM WholeFiles == Spec => []ReadersSeeWholeFiles
<1>1. PublishInv => ReadersSeeWholeFiles
  <2>. SUFFICES ASSUME PublishInv, NEW t \in Target
                PROVE  \/ dest[t] = New(t) /\ t \in written
                       \/ dest[t].kind = "foreign"
                       \/ dest[t] = IF previous[t] THEN Old(t) ELSE Nothing
    BY DEF ReadersSeeWholeFiles
  <2>. QED
    BY Strangers DEF PublishInv, OwnNames, Written
<1>. QED
  BY <1>1, PublishInvariance, PTL

(* A previous file is deleted by the publisher only in "finish", and then  *)
(* all new files are in place.                                             *)
THEOREM BackupsSurvive == Spec => []BackupsOutlivePublication
<1>1. PublishInv => BackupsOutlivePublication
  BY Strangers DEF PublishInv, BackupsOutlivePublication, BackupsAreKept, InPlace
<1>. QED
  BY <1>1, PublishInvariance, PTL

(* No file that somebody else put in place or edited is ever deleted.      *)
THEOREM OthersAreSafe == Spec => []OthersWorkIsKept
<1>1. PublishInv => OthersWorkIsKept
  BY DEF PublishInv
<1>. QED
  BY <1>1, PublishInvariance, PTL

(* "published" and "aborted" are the truth about the directories.          *)
THEOREM TrueReport == Spec => []ReportIsTrue
<1>1. PublishInv => ReportIsTrue
  <2>. SUFFICES ASSUME PublishInv
                PROVE  ReportIsTrue
    OBVIOUS
  <2>1. ASSUME outcome = "published"
        PROVE  /\ quarantine = {}
               /\ \A t \in Target : stage[t] = Nothing /\ dest[t] \in {New(t)} \cup valuable
    <3>1. job = "finish"
      BY <2>1 DEF PublishInv, Control
    <3>2. \A t \in Target : seal[t] = "none" /\ dest[t] \in {New(t)} \cup Foreigns
      BY <2>1, <3>1 DEF PublishInv, Cleared, InPlace
    <3>. QED
      BY <2>1, <3>2 DEF PublishInv, QuarantineIsClear, Staged, Others
  <2>2. ASSUME outcome = "aborted"
        PROVE  /\ quarantine = {}
               /\ \A t \in Target : stage[t] = Nothing /\ dest[t] \in {Prior(t)} \cup valuable
    <3>1. job = "discard" /\ ~problems /\ pc = "end"
      BY <2>2 DEF PublishInv, Control
    <3>2. \A t \in Target : seal[t] = "none" /\ ~published[t]
      BY <3>1 DEF PublishInv, Cleared, Published
    <3>3. \A t \in Target : dest[t] \in {Prior(t)} \cup Foreigns
      BY <3>1, <3>2 DEF PublishInv, Published
    <3>. QED
      BY <3>1, <3>2, <3>3 DEF PublishInv, QuarantineIsClear, Staged, Others
  <2>. QED
    BY <2>1, <2>2 DEF ReportIsTrue, Prior
<1>. QED
  BY <1>1, PublishInvariance, PTL

-----------------------------------------------------------------------------
(* Publication as a whole                                                  *)

(* The state of Publication a state stands for, as in `Whole`.             *)
InstalledTargets == { t \in Target : dest[t] = New(t) }

Phase ==
  IF foreign > 0 THEN "disturbed"
  ELSE IF outcome = "aborted" THEN "aborted"
  ELSE IF outcome = "incomplete" THEN "broken"
  ELSE IF job \in {"stage", "publish"} THEN "installing"
  ELSE IF job = "finish" THEN "committed" ELSE "withdrawing"

(* Its steps, in these terms.                                              *)
LEMMA WholeSteps ==
  /\ UNCHANGED <<InstalledTargets, Phase>> => UNCHANGED Whole!vars
  /\ Phase' = "disturbed" => Whole!Next
  /\ \A t \in Target :
       /\ Phase = "installing" /\ Phase' = Phase /\ t \notin InstalledTargets
       /\ \A u \in Target : u < t => u \in InstalledTargets
       /\ InstalledTargets' = InstalledTargets \cup {t}
       => Whole!Next
  /\ \A t \in Target :
       /\ Phase = "withdrawing" /\ Phase' = Phase /\ t \in InstalledTargets
       /\ InstalledTargets' = InstalledTargets \ {t}
       => Whole!Next
  /\ UNCHANGED InstalledTargets =>
       /\ Phase = "installing" /\ Phase' = "withdrawing" => Whole!Next
       /\ Phase = "installing" /\ Phase' = "committed" /\ InstalledTargets = Target => Whole!Next
       /\ Phase = "withdrawing" /\ Phase' = "aborted" /\ InstalledTargets = {} => Whole!Next
       /\ Phase = "withdrawing" /\ Phase' = "broken" => Whole!Next
<1>. USE DEF InstalledTargets, Phase, Whole!Next
<1>1. UNCHANGED <<InstalledTargets, Phase>> => UNCHANGED Whole!vars
  BY DEF Whole!vars
<1>2. Phase' = "disturbed" => Whole!Next
  BY DEF Whole!Disturb
<1>3. ASSUME NEW t \in Target,
             Phase = "installing", Phase' = Phase, t \notin InstalledTargets,
             \A u \in Target : u < t => u \in InstalledTargets,
             InstalledTargets' = InstalledTargets \cup {t}
      PROVE  Whole!Next
  BY <1>3 DEF Whole!Install
<1>4. ASSUME NEW t \in Target,
             Phase = "withdrawing", Phase' = Phase, t \in InstalledTargets,
             InstalledTargets' = InstalledTargets \ {t}
      PROVE  Whole!Next
  BY <1>4 DEF Whole!Withdraw
<1>5. UNCHANGED InstalledTargets =>
       /\ Phase = "installing" /\ Phase' = "withdrawing" => Whole!Next
       /\ Phase = "installing" /\ Phase' = "committed" /\ InstalledTargets = Target => Whole!Next
       /\ Phase = "withdrawing" /\ Phase' = "aborted" /\ InstalledTargets = {} => Whole!Next
       /\ Phase = "withdrawing" /\ Phase' = "broken" => Whole!Next
  BY DEF Whole!GiveUp, Whole!Commit, Whole!Abort, Whole!Break
<1>. QED
  BY <1>1, <1>2, <1>3, <1>4, <1>5

(* A file is installed, or withdrawn, by one rename.                       *)
LEMMA RenamesImplementPublication ==
  ASSUME PublishInv, Foreigns = {}, foreign = 0, foreign' = 0,
         Installed \/ Restored \/ DestQuarantined
  PROVE  Whole!Next
<1>a. TypeOK /\ Control /\ OwnNames /\ Staged /\ Published /\ InPlace /\ RolledBack
  BY DEF PublishInv
<1>b. dest = [t \in Target |-> dest[t]] /\ index \in Target
  BY <1>a DEF TypeOK
<1>c. outcome = "none" /\ UNCHANGED <<job, outcome>>
  BY <1>a DEF Installed, Restored, DestQuarantined, GoTo, runVars, Control
<1>1. CASE Installed
  <2>1. Phase = "installing" /\ Phase' = Phase
    BY <1>1, <1>c DEF Installed, Phase
  <2>2. index \notin InstalledTargets
    BY <1>1, <1>a, <1>b, ObjectsDiffer DEF Installed, Published, Prior, InstalledTargets
  <2>3. \A u \in Target : u < index => u \in InstalledTargets
    BY <1>1, <1>a DEF Installed, InPlace, InstalledTargets
  <2>4. dest' = [dest EXCEPT ![index] = New(index)]
    BY <1>1, <1>a DEF Installed, Swap, Move, Staged
  <2>5. InstalledTargets' = InstalledTargets \cup {index}
    BY <2>4, <1>b DEF InstalledTargets
  <2>. QED
    BY <2>1, <2>2, <2>3, <2>5, <1>b, WholeSteps
<1>2. CASE Restored \/ DestQuarantined
  <2>1. Phase = "withdrawing" /\ Phase' = Phase
    BY <1>2, <1>c DEF Restored, DestQuarantined, Rollback, Phase
  <2>2. index \in InstalledTargets
    BY <1>2, <1>a, <1>b DEF Restored, DestQuarantined, RolledBack, InstalledTargets
  <2>3. /\ dest' = [dest EXCEPT ![index] = dest'[index]]
        /\ dest'[index] # New(index)
    BY <1>2, <1>a, <1>b, ObjectsDiffer DEF Restored, DestQuarantined, Swap, RolledBack
  <2>4. InstalledTargets' = InstalledTargets \ {index}
    BY <2>3, <1>b DEF InstalledTargets
  <2>. QED
    BY <2>1, <2>2, <2>4, <1>b, WholeSteps
<1>. QED
  BY <1>1, <1>2

(* The returns decide whether the publication goes on, is finished, or is  *)
(* called off.                                                             *)
LEMMA ReturnsImplementPublication ==
  ASSUME PublishInv, Foreigns = {}, foreign = 0, foreign' = 0,
         Failed \/ Verified \/ Skipped \/ Wrote \/ Cleaned \/ Repented
  PROVE  Whole!Next \/ UNCHANGED Whole!vars
<1>a. TypeOK /\ Control /\ Published /\ InPlace /\ Cleared
  BY DEF PublishInv
<1>b. /\ UNCHANGED InstalledTargets /\ outcome = "none"
      /\ TRUE \in BOOLEAN /\ FALSE \in BOOLEAN /\ index \in Target /\ index \in Nat
  BY <1>a, Jobs DEF Failed, Verified, Skipped, Wrote, Cleaned, Repented, Quiet, Still, nameVars,
     InstalledTargets, Control
<1>1. CASE job \in {"stage", "publish"}
  <2>1. Phase = "installing"
    BY <1>1, <1>b DEF Phase
  <2>2. CASE Verified
    <3>1. \/ job' = "publish" /\ outcome' = "none"
          \/ job' = "finish" /\ outcome' = "none" /\ index = N
      BY <2>2, <1>a, <1>b, PublishReturns DEF Verified, Goes
    <3>2. index = N => \A t \in Target : t < index \/ t = index
      BY <1>a, Jobs DEF Target
    <3>3. index = N => InstalledTargets = Target
      BY <2>2, <3>2, <1>a DEF Verified, InPlace, InstalledTargets
    <3>4. Phase' \in {"installing", "committed"} /\ (Phase' = "committed" => index = N)
      BY <3>1 DEF Phase
    <3>. QED
      BY <2>1, <3>3, <3>4, <1>b, WholeSteps
  <2>3. CASE Failed \/ Wrote \/ Repented
    <3>1. /\ outcome' = "none"
          /\ job' \in {"stage", "publish", "discard"} \cup Rollback
      BY <2>3, <1>1, <1>a, <1>b, StageReturns, PublishReturns
         DEF Failed, Wrote, Repented, Goes, Rollback
    <3>2. Phase' \in {"installing", "withdrawing"}
      BY <3>1 DEF Phase, Rollback
    <3>. QED
      BY <2>1, <3>2, <1>b, WholeSteps
  <2>. QED
    BY <1>1, <1>a, <2>2, <2>3 DEF Skipped, Cleaned, Control, RemovalPlaces, Rollback
<1>2. CASE job \in Rollback
  <2>1. Phase = "withdrawing"
    BY <1>2, <1>b DEF Phase, Rollback
  <2>2. \E ok \in BOOLEAN : Return(ok)
    BY <1>2, <1>b DEF Failed, Verified, Skipped, Wrote, Cleaned, Repented, Rollback
  <2>3. outcome' = "none" /\ job' \in {"rollback", "discard"}
    BY <1>2, <2>2, <1>a, <1>b, RollbackReturns DEF Goes, Rollback
  <2>4. Phase' = "withdrawing"
    BY <2>3 DEF Phase
  <2>. QED
    BY <2>1, <2>4, <1>b, WholeSteps
<1>3. CASE job = "discard"
  <2>1. Phase = "withdrawing"
    BY <1>3, <1>b DEF Phase
  <2>2. PICK ok \in BOOLEAN : Return(ok)
    BY <1>3, <1>b DEF Failed, Verified, Skipped, Wrote, Cleaned, Repented
  <2>3. CASE outcome' = "none" /\ job' = "discard"
    <3>1. Phase' = "withdrawing"
      BY <2>3 DEF Phase
    <3>. QED
      BY <2>1, <3>1, <1>b, WholeSteps
  <2>4. CASE problems' /\ outcome' = "incomplete"
    <3>1. Phase' = "broken"
      BY <2>4 DEF Phase
    <3>. QED
      BY <2>1, <3>1, <1>b, WholeSteps
  <2>5. CASE ~problems' /\ outcome' = "aborted"
    <3>1. ~problems
      BY <2>5, <2>2, <1>3, <1>a, DiscardReturns
    <3>2. \A t \in Target : dest[t] = Prior(t)
      BY <3>1, <1>3, <1>a DEF Published
    <3>3. InstalledTargets = {}
      BY <3>2, ObjectsDiffer DEF InstalledTargets, Prior
    <3>4. Phase' = "aborted"
      BY <2>5 DEF Phase
    <3>. QED
      BY <2>1, <3>3, <3>4, <1>b, WholeSteps
  <2>. QED
    BY <2>2, <2>3, <2>4, <2>5, <1>3, <1>a, <1>b, DiscardReturns DEF Goes, Ends
<1>4. CASE job = "finish"
  <2>1. Phase = "committed"
    BY <1>4, <1>b DEF Phase
  <2>2. \E ok \in BOOLEAN : Return(ok)
    BY <1>4, <1>b DEF Failed, Verified, Skipped, Wrote, Cleaned, Repented
  <2>3. job' = "finish" /\ outcome' \in {"none", "published", "unfinished"}
    BY <1>4, <2>2, <1>a, <1>b, FinishReturns DEF Goes, Ends
  <2>4. Phase' = "committed"
    BY <2>3 DEF Phase
  <2>. QED
    BY <2>1, <2>4, <1>b, WholeSteps
<1>. QED
  BY <1>1, <1>2, <1>3, <1>4, <1>a, Jobs

(* Every step is one of Publication, or one that it does not see.          *)
LEMMA StepsImplementPublication ==
  ASSUME PublishInv, [Next]_vars
  PROVE  Whole!Next \/ UNCHANGED Whole!vars
<1>a. TypeOK /\ Control /\ foreign \in Nat
  BY Jobs DEF PublishInv
<1>b. foreign' = foreign \/ foreign' = foreign + 1
  <2>1. PublisherStep => foreign' = foreign
    BY DEF PublisherStep, Checked, Failed, Verified, Skipped, Repented, Created, Wrote,
       Installed, Restored, DestQuarantined, StageQuarantined, Unlinked, Cleaned, Quiet, Still,
       otherVars
  <2>2. OthersStep => foreign' = foreign \/ foreign' = foreign + 1
    BY DEF OthersStep, Edit, DestReplaced, StageReplaced
  <2>3. UNCHANGED vars => foreign' = foreign
    BY DEF vars, otherVars
  <2>. QED
    BY <2>1, <2>2, <2>3, <1>a, Steps
<1>1. CASE foreign' > 0
  <2>1. Phase' = "disturbed"
    BY <1>1 DEF Phase
  <2>. QED
    BY <2>1, WholeSteps
<1>2. CASE ~(foreign' > 0)
  <2>1. foreign = 0 /\ foreign' = 0 /\ Foreigns = {}
    BY <1>a, <1>b, <1>2 DEF Foreigns
  <2>2. CASE Installed \/ Restored \/ DestQuarantined
    BY <2>1, <2>2, RenamesImplementPublication
  <2>3. CASE Failed \/ Verified \/ Skipped \/ Wrote \/ Cleaned \/ Repented
    BY <2>1, <2>3, ReturnsImplementPublication
  <2>4. CASE UNCHANGED <<dest, job, outcome>>
    BY <2>1, <2>4, WholeSteps DEF InstalledTargets, Phase
  <2>5. CASE Checked \/ Created \/ StageQuarantined \/ Unlinked \/ UNCHANGED vars
    BY <2>4, <2>5 DEF Checked, Created, StageQuarantined, Unlinked, Quiet, Still, GoTo, nameVars,
       runVars, vars
  <2>6. CASE OthersStep
    BY <2>1, <2>4, <2>6, <1>a
       DEF OthersStep, Edit, DestReplaced, StageReplaced, nameVars, runVars
  <2>. QED
    BY <2>2, <2>3, <2>5, <2>6, <1>a, Steps DEF PublisherStep
<1>. QED
  BY <1>1, <1>2

(* Publishing several files, rename by rename, failure by failure, is a    *)
(* Publication: all of them are installed and stay, or are withdrawn.      *)
THEOREM PublicationIsWhole == Spec => PublishesAsAWhole
<1>1. Init => Whole!Init
  <2>. SUFFICES ASSUME Init
                PROVE  Whole!Init
    OBVIOUS
  <2>1. \A t \in Target : dest[t] # New(t)
    BY ObjectsDiffer DEF Init
  <2>. QED
    BY <2>1 DEF Init, Whole!Init
<1>2. PublishInv /\ [Next]_vars => [Whole!Next]_(Whole!vars)
  BY StepsImplementPublication
<1>. QED
  BY <1>1, <1>2, PublishInvariance, PTL DEF Spec, PublishesAsAWhole, Whole!Spec

=============================================================================
