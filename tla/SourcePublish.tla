---------------------------- MODULE SourcePublish ----------------------------
(***************************************************************************)
(* `generated-source-publish publish`: `run` of main.rs with the methods   *)
(* of Target it calls.  Each target is staged beside its destination,      *)
(* exchanged with it in one rename, and rolled back if a later one fails;  *)
(* what has to go is moved to a name of its own first, compared with the   *)
(* open file that was sealed, and only then deleted.                       *)
(*                                                                         *)
(* A file is an object that names are bound to.  Each rename, unlink and   *)
(* check is a step, so that somebody else can act in between, although     *)
(* the program asks to be alone: it holds a lease on the directories, but  *)
(* the lease is advisory.  Others know the destinations and may come upon  *)
(* a stage; quarantine names they do not touch.  The checks of the         *)
(* directories themselves are part of the faults "io": they only ever      *)
(* refuse to go on.                                                        *)
(***************************************************************************)
EXTENDS Naturals

CONSTANTS
  N,            \* the number of targets
  MaxForeign,   \* bound: how many files of their own others put in place
  Faults        \* what may happen

ASSUME NAssumption == N \in Nat \ {0}
ASSUME MaxForeignAssumption == MaxForeign \in Nat

(* A system call or a check of the directories fails; somebody edits a     *)
(* destination in place; somebody puts another file in place of one.       *)
ASSUME FaultsAssumption == Faults \subseteq {"io", "edit", "replace"}

Target == 1..N

Nothing == [kind |-> "nothing", id |-> 0]
Old(t) == [kind |-> "old", id |-> t]        \* what the destination held before
New(t) == [kind |-> "new", id |-> t]        \* what target t is staged as
Foreign(n) == [kind |-> "foreign", id |-> n]

VARIABLES
  dest,         \* by target: the object under the destination's name
  stage,        \* by target: the object under the stage's name
  quarantine,   \* the objects under quarantine names, each of which is unique
  written,      \* the targets whose new file is complete
  edited,       \* the objects somebody has edited since they were sealed
  previous,     \* by target: whether there was a destination
  seal,         \* by target: "none", "provisional" or "sealed"
  published,    \* by target
  moved,        \* the object that was moved to quarantine last
  job, index, pc,          \* the method that runs, for which target, and where
  failedAt,     \* the target whose publication failed, or 1
  problems,     \* the clean-up has had an error
  outcome,
  foreign,      \* how many files others have put in place
  valuable,     \* history: others' work that they have not removed themselves
  removed       \* history: what others have removed

nameVars == <<dest, stage, quarantine>>
sealVars == <<previous, seal, published>>
runVars == <<job, index, failedAt, problems, outcome>>
otherVars == <<edited, foreign, valuable, removed>>

vars == <<nameVars, written, sealVars, moved, runVars, pc, otherVars>>

(* The targets are prepared: each destination is sealed, or is missing. *)
Init ==
  /\ previous \in [Target -> BOOLEAN]
  /\ dest = [t \in Target |-> IF previous[t] THEN Old(t) ELSE Nothing]
  /\ stage = [t \in Target |-> Nothing]
  /\ quarantine = {} /\ moved = Nothing
  /\ written = {} /\ edited = {}
  /\ seal = [t \in Target |-> "none"]
  /\ published = [t \in Target |-> FALSE]
  /\ job = "stage" /\ index = 1 /\ pc = "begin"
  /\ failedAt = 1 /\ problems = FALSE /\ outcome = "none"
  /\ foreign = 0 /\ valuable = {} /\ removed = {}

-----------------------------------------------------------------------------
(* run: which method is called for which target after one has returned.    *)

Following(j) == IF index < N THEN <<j, index + 1>> ELSE <<"end", index>>

MutantUndo == <<"discard", failedAt>>

Undo == IF index > 1 THEN <<"rollback", index - 1>> ELSE <<"discard", failedAt>>

Call(ok) ==
  CASE job = "stage"       -> IF ~ok THEN <<"discard", 1>>
                              ELSE IF index < N THEN Following("stage") ELSE <<"publish", 1>>
    [] job = "publish"     -> IF ~ok THEN IF published[index] THEN <<"rollback", index>> ELSE Undo
                              ELSE IF index < N THEN Following("publish") ELSE <<"finish", 1>>
    [] job = "ownRollback" -> IF ok THEN Undo ELSE <<"rollback", index>>
    [] job = "rollback"    -> Undo
    [] job = "discard"     -> Following("discard")
    [] job = "finish"      -> IF ok THEN Following("finish") ELSE <<"end", index>>

MutantReturn(ok) ==
  LET call == Call(ok) IN
  /\ failedAt' = IF job = "publish" /\ ~ok THEN index ELSE failedAt
  /\ problems' = (problems \/ (job = "rollback" /\ ~ok))
  /\ IF call[1] = "end"
     THEN /\ pc' = "end"
          /\ outcome' = IF job = "finish" THEN IF ok THEN "published" ELSE "unfinished"
                        ELSE IF problems' THEN "incomplete" ELSE "aborted"
          /\ UNCHANGED <<job, index>>
     ELSE /\ pc' = "begin" /\ job' = call[1] /\ index' = call[2]
          /\ UNCHANGED outcome

Return(ok) ==
  LET call == Call(ok) IN
  /\ failedAt' = IF job = "publish" /\ ~ok THEN index ELSE failedAt
  /\ problems' = (problems \/ (job \in {"rollback", "discard"} /\ ~ok))
  /\ IF call[1] = "end"
     THEN /\ pc' = "end"
          /\ outcome' = IF job = "finish" THEN IF ok THEN "published" ELSE "unfinished"
                        ELSE IF problems' THEN "incomplete" ELSE "aborted"
          /\ UNCHANGED <<job, index>>
     ELSE /\ pc' = "begin" /\ job' = call[1] /\ index' = call[2]
          /\ UNCHANGED outcome

GoTo(next) == pc' = next /\ UNCHANGED runVars

At(jobs, place) == job \in jobs /\ pc = place

CanFail == "io" \in Faults

(* validate_slot: the name is bound to the very object that was sealed,    *)
(* and that is as it was.                                                  *)
Valid(object, slot) == slot = object /\ object \notin edited

(* A check, and where it leads. *)
Check(holds, next) ==
  /\ \/ holds /\ GoTo(next)
     \/ (~holds \/ CanFail) /\ Return(FALSE)
  /\ UNCHANGED <<nameVars, written, sealVars, moved, otherVars>>

Rollback == {"rollback", "ownRollback"}

-----------------------------------------------------------------------------
(* Target::stage                                                           *)

(* The stage is created under a unique name. *)
CreateStage ==
  /\ At({"stage"}, "begin")
  /\ \/ /\ stage' = [stage EXCEPT ![index] = New(index)]
        /\ seal' = [seal EXCEPT ![index] = "provisional"]
        /\ GoTo("write")
     \/ CanFail /\ Return(FALSE) /\ UNCHANGED <<stage, seal>>
  /\ UNCHANGED <<dest, quarantine, written, previous, published, moved, otherVars>>

MutantWriteStage ==
  /\ At({"stage"}, "write")
  /\ written' \in {written, written \cup {index}}
  /\ seal' = [seal EXCEPT ![index] = "sealed"]
  /\ Return(TRUE)
  /\ UNCHANGED <<nameVars, previous, published, moved, otherVars>>

(* It is written, synced, read back and sealed, through its descriptor,    *)
(* and found under its name; a failure can come before or after the write. *)
WriteStage ==
  /\ At({"stage"}, "write")
  /\ \/ /\ Valid(New(index), stage[index])
        /\ written' = written \cup {index}
        /\ seal' = [seal EXCEPT ![index] = "sealed"]
        /\ Return(TRUE)
     \/ /\ CanFail \/ ~Valid(New(index), stage[index])
        /\ written' \in {written, written \cup {index}}
        /\ Return(FALSE)
        /\ UNCHANGED seal
  /\ UNCHANGED <<nameVars, previous, published, moved, otherVars>>

-----------------------------------------------------------------------------
(* Target::publish                                                         *)

CheckBeforePublish ==
  /\ At({"publish"}, "begin")
  /\ Check(/\ Valid(New(index), stage[index])
           /\ IF previous[index] THEN Valid(Old(index), dest[index]) ELSE dest[index] = Nothing,
           "rename")

(* RENAME_SWAP, which needs both names. *)
Swap ==
  /\ dest[index] # Nothing /\ stage[index] # Nothing
  /\ dest' = [dest EXCEPT ![index] = stage[index]]
  /\ stage' = [stage EXCEPT ![index] = dest[index]]

(* RENAME_EXCL, which needs a free name. *)
Move ==
  /\ dest[index] = Nothing /\ stage[index] # Nothing
  /\ dest' = [dest EXCEPT ![index] = stage[index]]
  /\ stage' = [stage EXCEPT ![index] = Nothing]

MutantInstall ==
  /\ At({"publish"}, "rename")
  /\ \/ /\ stage[index] # Nothing
        /\ dest' = [dest EXCEPT ![index] = stage[index]]
        /\ stage' = [stage EXCEPT ![index] = Nothing]
        /\ published' = [published EXCEPT ![index] = TRUE]
        /\ GoTo("check")
     \/ CanFail /\ Return(FALSE) /\ UNCHANGED <<dest, stage, published>>
  /\ UNCHANGED <<quarantine, written, previous, seal, moved, otherVars>>

Install ==
  /\ At({"publish"}, "rename")
  /\ \/ /\ IF previous[index] THEN Swap ELSE Move
        /\ published' = [published EXCEPT ![index] = TRUE]
        /\ GoTo("check")
     \/ /\ CanFail \/ (~previous[index] /\ dest[index] # Nothing)
        /\ Return(FALSE)
        /\ UNCHANGED <<dest, stage, published>>
  /\ UNCHANGED <<quarantine, written, previous, seal, moved, otherVars>>

CheckPublished ==
  /\ At({"publish"}, "check")
  /\ Check(/\ Valid(New(index), dest[index])
           /\ previous[index] => Valid(Old(index), stage[index]),
           "sync")

(* The directory is synced and the destination read once more; a failure   *)
(* of this last part rolls this target back at once.                       *)
VerifyPublished ==
  /\ At({"publish"}, "sync")
  /\ \/ Valid(New(index), dest[index]) /\ Return(TRUE)
     \/ /\ CanFail \/ ~Valid(New(index), dest[index])
        /\ job' = "ownRollback" /\ pc' = "begin"
        /\ failedAt' = index
        /\ UNCHANGED <<index, problems, outcome>>
  /\ UNCHANGED <<nameVars, written, sealVars, moved, otherVars>>

-----------------------------------------------------------------------------
(* Target::rollback                                                        *)

CheckBeforeRollback ==
  /\ At(Rollback, "begin")
  /\ Check(/\ published[index]
           /\ Valid(New(index), dest[index])
           /\ previous[index] => Valid(Old(index), stage[index]),
           IF previous[index] THEN "restore" ELSE "quarantine")

Restore ==
  /\ At(Rollback, "restore")
  /\ \/ Swap /\ GoTo("checkRestored")
     \/ CanFail /\ Return(FALSE) /\ UNCHANGED <<dest, stage>>
  /\ UNCHANGED <<quarantine, written, sealVars, moved, otherVars>>

CheckRestored ==
  /\ At(Rollback, "checkRestored")
  /\ Check(Valid(Old(index), dest[index]) /\ Valid(New(index), stage[index]), "quarantine")

-----------------------------------------------------------------------------
(* Target::finish and Target::discard_stage                                *)

CheckBeforeFinish ==
  /\ At({"finish"}, "begin")
  /\ Check(published[index] /\ Valid(New(index), dest[index]),
           IF previous[index] THEN "quarantine" ELSE "clear")

(* A stage that was not sealed is now, as it is. *)
Discard ==
  /\ At({"discard"}, "begin")
  /\ \/ ~published[index] /\ seal[index] # "none" /\ GoTo("quarantine")
     \/ (published[index] \/ seal[index] = "none") /\ Return(TRUE)
     \/ CanFail /\ Return(FALSE)
  /\ UNCHANGED <<nameVars, written, sealVars, moved, otherVars>>

-----------------------------------------------------------------------------
(* quarantine_and_delete_sealed_slot, and what follows it                  *)

(* A new destination is withdrawn itself, otherwise it is the stage's name *)
(* that goes.                                                              *)
Outgoing == IF job \in Rollback /\ ~previous[index] THEN dest ELSE stage
Expected == IF job = "finish" THEN Old(index) ELSE New(index)

Quarantine ==
  /\ pc = "quarantine"
  /\ \/ /\ Outgoing[index] # Nothing
        /\ moved' = Outgoing[index]
        /\ quarantine' = quarantine \cup {Outgoing[index]}
        /\ IF job \in Rollback /\ ~previous[index]
           THEN dest' = [dest EXCEPT ![index] = Nothing] /\ UNCHANGED stage
           ELSE stage' = [stage EXCEPT ![index] = Nothing] /\ UNCHANGED dest
        /\ GoTo("inspect")
     \/ CanFail /\ Return(FALSE) /\ UNCHANGED <<nameVars, moved>>
  /\ UNCHANGED <<written, sealVars, otherVars>>

MutantInspect ==
  /\ pc = "inspect"
  /\ Check(TRUE, "unlink")

Inspect ==
  /\ pc = "inspect"
  /\ Check(Valid(Expected, moved), "unlink")

Unlink ==
  /\ pc = "unlink"
  /\ \/ quarantine' = quarantine \ {moved} /\ GoTo("clear")
     \/ CanFail /\ Return(FALSE) /\ UNCHANGED quarantine
  /\ UNCHANGED <<dest, stage, written, sealVars, moved, otherVars>>

(* The directory is synced and the target's fields are reset. *)
Clear ==
  /\ pc = "clear"
  /\ \/ /\ seal' = [seal EXCEPT ![index] = "none"]
        /\ published' = [published EXCEPT ![index] = FALSE]
        /\ Return(TRUE)
     \/ CanFail /\ Return(FALSE) /\ UNCHANGED <<seal, published>>
  /\ UNCHANGED <<nameVars, written, previous, moved, otherVars>>

-----------------------------------------------------------------------------
(* Somebody who does not respect the lease.                                *)

Edit(t) ==
  /\ "edit" \in Faults
  /\ dest[t] # Nothing
  /\ edited' = edited \cup {dest[t]}
  /\ valuable' = valuable \cup {dest[t]}
  /\ UNCHANGED <<nameVars, written, sealVars, moved, runVars, pc, foreign, removed>>

(* Another file takes the place of the destination or of a stage; what was *)
(* there is gone.                                                          *)
Replace(t) ==
  /\ "replace" \in Faults /\ foreign < MaxForeign
  /\ foreign' = foreign + 1
  /\ \/ /\ dest' = [dest EXCEPT ![t] = Foreign(foreign')]
        /\ valuable' = (valuable \ {dest[t]}) \cup {Foreign(foreign')}
        /\ removed' = removed \cup {dest[t]}
        /\ UNCHANGED stage
     \/ /\ stage[t] # Nothing
        /\ stage' = [stage EXCEPT ![t] = Foreign(foreign')]
        /\ valuable' = (valuable \ {stage[t]}) \cup {Foreign(foreign')}
        /\ removed' = removed \cup {stage[t]}
        /\ UNCHANGED dest
  /\ UNCHANGED <<quarantine, written, edited, sealVars, moved, runVars, pc>>

-----------------------------------------------------------------------------
Publisher ==
  \/ CreateStage \/ WriteStage
  \/ CheckBeforePublish \/ Install \/ CheckPublished \/ VerifyPublished
  \/ CheckBeforeRollback \/ Restore \/ CheckRestored
  \/ CheckBeforeFinish \/ Discard
  \/ Quarantine \/ Inspect \/ Unlink \/ Clear

Next ==
  \/ Publisher
  \/ pc # "end" /\ \E t \in Target : Edit(t) \/ Replace(t)
  \/ pc = "end" /\ UNCHANGED vars

Spec == Init /\ [][Next]_vars

-----------------------------------------------------------------------------
Named == { dest[t] : t \in Target } \cup { stage[t] : t \in Target } \cup quarantine

(* A destination is never missing, empty or half written, at any moment at *)
(* which a build, or a crash, may happen to look at it; others may have    *)
(* put a file of their own there.                                          *)
ReadersSeeWholeFiles ==
  \A t \in Target :
    \/ dest[t] = New(t) /\ t \in written
    \/ dest[t].kind = "foreign"
    \/ dest[t] = IF previous[t] THEN Old(t) ELSE Nothing

(* No previous file is deleted before all new ones are in place, synced    *)
(* and verified, so whatever fails or crashes earlier can be undone, if    *)
(* need be by hand.                                                        *)
BackupsOutlivePublication ==
  \A t \in Target :
    previous[t] /\ Old(t) \notin Named \cup removed =>
      job = "finish" /\ \A u \in Target : dest[u] = New(u) \/ dest[u].kind = "foreign"

(* Nothing that somebody else put in place or edited is deleted, at        *)
(* whatever moment: in doubt it stays under a name of its own.             *)
OthersWorkIsKept == valuable \subseteq Named

(* What the tool reports is the state of the directories, others' work     *)
(* aside: success means that all is new and nothing is left over, a        *)
(* complete rollback that all is as before and nothing is left over.       *)
ReportIsTrue ==
  /\ outcome \in {"published", "aborted"} =>
       quarantine = {} /\ \A t \in Target : stage[t] = Nothing
  /\ outcome = "published" => \A t \in Target : dest[t] \in {New(t)} \cup valuable
  /\ outcome = "aborted" =>
       \A t \in Target : dest[t] \in {IF previous[t] THEN Old(t) ELSE Nothing} \cup valuable

(* proto/README: "an ordinary second-file failure rolls back the first     *)
(* replacement"; and a replacement is rolled back for no other reason.  So *)
(* it is as long as nobody puts a file in the place of one of these.       *)
Whole ==
  INSTANCE Publication WITH
    installed <- { t \in Target : dest[t] = New(t) },
    phase <-
      IF foreign > 0 THEN "disturbed"
      ELSE IF outcome = "aborted" THEN "aborted"
      ELSE IF outcome = "incomplete" THEN "broken"
      ELSE IF job \in {"stage", "publish"} THEN "installing"
      ELSE IF job = "finish" THEN "committed" ELSE "withdrawing"

PublishesAsAWhole == Whole!Spec
=============================================================================
