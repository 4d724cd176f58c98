---------------------------- MODULE EngineCleanup ----------------------------
(***************************************************************************)
(* How EngineSession of lib.rs gets rid of the engine process: shutdown,   *)
(* its drop, wait_or_terminate with its escalating signals, the reaper     *)
(* thread that takes over a child which survives them, and what is done    *)
(* about the rest of the child's process group.                            *)
(*                                                                         *)
(* Processes are free: they end when they like, ignore SIGTERM and leave   *)
(* their group.  Time is a choice: a wait either sees what it waits for or *)
(* gives up.  Each wait, each /bin/kill and each system call that can fail *)
(* is a step.  The reuse of a process group's id is left out.              *)
(*                                                                         *)
(* Names are chosen so that this module and EngineChannel, the other half  *)
(* of the session, can be used side by side.                               *)
(***************************************************************************)
EXTENDS Naturals

CONSTANT CleanupFaults   \* what the system may do to this session

(* A wait or a /bin/kill fails; the reaper's thread is gone before it was  *)
(* needed; no new thread can be started.                                   *)
ASSUME CleanupFaultsAssumption == CleanupFaults \subseteq {"io", "reaper", "thread"}

VARIABLES
  child,          \* the engine: "running", "zombie" once it has ended, "reaped"
  success,        \* what its exit status will say, or says
  inGroup,        \* it is in the process group it was started in
  killed,         \* it was sent SIGKILL
  descendant,     \* a process it started in that group: "running" or "gone"
  unread,         \* the decoder has, or will find, more than the end of stdout
  handle,         \* who owns the Child: "session", "reaper" or "nobody"
  reaperListens,  \* the reaper's thread waits for a child
  stage,          \* where the cleanup is
  signals,        \* how many signals of wait_or_terminate are behind it
  caller,         \* what it is in: "shutdown" or "drop"
  status,         \* the result of wait_or_terminate
  outcome,        \* the result of shutdown
  refused         \* history: handoffs that failed

processVars == <<child, success, inGroup, killed, descendant>>
handleVars == <<handle, reaperListens, refused>>
callVars == <<stage, signals, caller, status, outcome>>

cleanupVars == <<processVars, unread, handleVars, callVars>>

CleanupInit ==
  /\ child = "running" /\ success \in BOOLEAN /\ inGroup = TRUE /\ killed = FALSE
  /\ descendant \in {"running", "gone"}
  /\ unread \in BOOLEAN
  /\ handle = "session"
  /\ reaperListens \in (IF "reaper" \in CleanupFaults THEN BOOLEAN ELSE {TRUE})
  /\ refused = 0
  /\ stage = "inUse" /\ signals = 0 /\ caller = "shutdown" /\ status = "none" /\ outcome = "none"

-----------------------------------------------------------------------------
(* The processes and the kernel.                                           *)

(* A process that is killed has no say in its exit status. *)
ChildEnds ==
  /\ child = "running"
  /\ child' = "zombie"
  /\ success' = (success /\ ~killed)
  /\ UNCHANGED <<inGroup, killed, descendant>>

ChildLeavesGroup ==
  /\ child = "running" /\ inGroup
  /\ inGroup' = FALSE
  /\ UNCHANGED <<child, success, killed, descendant>>

DescendantEnds ==
  /\ descendant = "running"
  /\ descendant' = "gone"
  /\ UNCHANGED <<child, success, inGroup, killed>>

Environment ==
  /\ ChildEnds \/ ChildLeavesGroup \/ DescendantEnds
  /\ UNCHANGED <<unread, handleVars, callVars>>

(* `/bin/kill -0`: what an unreaped member that has ended counts for       *)
(* differs between platforms, and nothing depends on it here.              *)
GroupExists == (inGroup /\ child = "running") \/ descendant = "running"

(* SIGKILL for the group: it decides what becomes of the engine; when the  *)
(* descendant ends is open anyway.                                         *)
KillGroup ==
  /\ killed' = (killed \/ (inGroup /\ child = "running"))
  /\ UNCHANGED <<child, success, inGroup, descendant>>

(* The reaper's thread: child.wait(), then it is over. *)
Reaper ==
  /\ handle = "reaper" /\ child = "zombie"
  /\ child' = "reaped" /\ handle' = "nobody"
  /\ UNCHANGED <<success, inGroup, killed, descendant, unread, reaperListens, refused,
                 callVars>>

-----------------------------------------------------------------------------
(* wait_or_terminate                                                       *)

(* `shutdown`, or the drop of a session that is given up: stdin is closed. *)
Begin ==
  /\ stage = "inUse"
  /\ caller' \in {"shutdown", "drop"}
  /\ stage' = "wait"
  /\ UNCHANGED <<processVars, unread, handleVars, signals, status, outcome>>

(* wait_for_exit sees the exit; finish_reaped_child lets go of the handle. *)
SeeExit ==
  /\ stage = "wait" /\ child = "zombie"
  /\ child' = "reaped"
  /\ handle' = "nobody"
  /\ status' = "exited"
  /\ stage' = "group"
  /\ UNCHANGED <<success, inGroup, killed, descendant, unread, reaperListens, refused,
                 signals, caller, outcome>>

MutantGiveUp ==
  /\ stage = "wait"
  /\ child = "running" \/ "io" \in CleanupFaults
  /\ signals < 3       \* it waits without a limit in the end
  /\ stage' = "signal"
  /\ UNCHANGED <<processVars, unread, handleVars, signals, caller, status, outcome>>

(* The grace period is over, or try_wait failed, which is not looked at.   *)
GiveUp ==
  /\ stage = "wait"
  /\ child = "running" \/ "io" \in CleanupFaults
  /\ stage' = IF signals < 3 THEN "signal" ELSE "handoff"
  /\ UNCHANGED <<processVars, unread, handleVars, signals, caller, status, outcome>>

MutantSignal ==
  /\ stage = "signal"
  /\ \/ signals # 1 /\ UNCHANGED processVars
     \/ signals = 1 /\ KillGroup
     \/ signals = 1 /\ "io" \in CleanupFaults /\ UNCHANGED processVars
  /\ signals' = signals + 1
  /\ stage' = "wait"
  /\ UNCHANGED <<unread, handleVars, caller, status, outcome>>

(* First SIGTERM and then SIGKILL for the group, which is best effort, and *)
(* at last Child::kill, which reaches a child that has left it.            *)
Signal ==
  /\ stage = "signal"
  /\ \/ signals = 0 /\ UNCHANGED processVars
     \/ signals = 1 /\ KillGroup
     \/ signals = 1 /\ "io" \in CleanupFaults /\ UNCHANGED processVars
     \/ /\ signals = 2
        /\ killed' = (killed \/ child = "running")
        /\ UNCHANGED <<child, success, inGroup, descendant>>
  /\ signals' = signals + 1
  /\ stage' = "wait"
  /\ UNCHANGED <<unread, handleVars, caller, status, outcome>>

(* try_handoff_child; on its failure handoff_live_child tries once more    *)
(* with a new reaper.  A failed send gives the child back.                 *)
HandOff ==
  /\ stage = "handoff"
  /\ reaperListens \/ "thread" \notin CleanupFaults
  /\ handle' = "reaper"
  /\ reaperListens' = FALSE
  /\ status' = "incomplete"
  /\ stage' = "group"
  /\ UNCHANGED <<processVars, unread, refused, signals, caller, outcome>>

MutantHandOffFails ==
  /\ stage = "handoff"
  /\ ~reaperListens /\ "thread" \in CleanupFaults
  /\ handle' = "nobody"
  /\ refused' = refused + 1
  /\ status' = "error"
  /\ stage' = "returned"
  /\ UNCHANGED <<processVars, unread, reaperListens, signals, caller, outcome>>

HandOffFails ==
  /\ stage = "handoff"
  /\ ~reaperListens /\ "thread" \in CleanupFaults
  /\ refused' = refused + 1
  /\ status' = "error"
  /\ stage' = "returned"
  /\ UNCHANGED <<processVars, unread, handle, reaperListens, signals, caller, outcome>>

-----------------------------------------------------------------------------
(* terminate_remaining_process_group, whose result counts only for a child *)
(* that was reaped.                                                        *)

GoTo(next) ==
  /\ stage' = next
  /\ UNCHANGED <<processVars, unread, handleVars, signals, caller, status, outcome>>

EndGroup(result) ==
  /\ status' = IF status = "exited" THEN result ELSE status
  /\ stage' = "returned"
  /\ UNCHANGED <<processVars, unread, handleVars, signals, caller, outcome>>

GroupIsGone == stage = "group" /\ ~GroupExists /\ EndGroup("exited")

(* SIGTERM leaves it to the members to end. *)
GroupRemains == stage = "group" /\ GroupExists /\ GoTo("groupTerm")

GroupEnds == stage \in {"groupTerm", "groupKill"} /\ ~GroupExists /\ EndGroup("exited")

KillRemaining ==
  /\ stage = "groupTerm" /\ GroupExists
  /\ KillGroup
  /\ stage' = "groupKill"
  /\ UNCHANGED <<unread, handleVars, signals, caller, status, outcome>>

GroupSurvives == stage = "groupKill" /\ GroupExists /\ EndGroup("error")

(* /bin/kill can not be run. *)
GroupError ==
  /\ "io" \in CleanupFaults
  /\ stage \in {"group", "groupTerm", "groupKill"}
  /\ EndGroup("error")

-----------------------------------------------------------------------------
(* What the caller makes of it.                                            *)

MutantDrainStdout ==
  /\ stage = "returned" /\ caller = "shutdown"
  /\ outcome' = IF status = "exited" /\ success THEN "ok" ELSE "error"
  /\ stage' = "dropping"
  /\ UNCHANGED <<processVars, unread, handleVars, signals, caller, status>>

(* drain_stdout waits for the end of stdout, which can come only once the  *)
(* engine has ended; it may give up too early.                             *)
DrainStdout ==
  /\ stage = "returned" /\ caller = "shutdown"
  /\ \E clean \in BOOLEAN :
       /\ clean => ~unread /\ child # "running"
       /\ outcome' = IF status = "exited" /\ clean /\ success THEN "ok" ELSE "error"
  /\ stage' = "dropping"
  /\ UNCHANGED <<processVars, unread, handleVars, signals, caller, status>>

(* shutdown has consumed the session: its drop tries again if the child is *)
(* still its own.                                                          *)
DropAgain ==
  /\ stage = "dropping" /\ handle = "session"
  /\ stage' = "wait" /\ signals' = 0 /\ caller' = "drop" /\ status' = "none"
  /\ UNCHANGED <<processVars, unread, handleVars, outcome>>

DropNothing ==
  /\ stage = "dropping" /\ handle # "session"
  /\ GoTo("done")

(* The session's memory goes, and with it a handle it still has. *)
EndDrop ==
  /\ stage = "returned" /\ caller = "drop"
  /\ handle' = IF handle = "session" THEN "nobody" ELSE handle
  /\ stage' = "done"
  /\ UNCHANGED <<processVars, unread, reaperListens, refused, signals, caller, status, outcome>>

-----------------------------------------------------------------------------
CleanupContinues ==
  \/ SeeExit \/ GiveUp \/ Signal \/ HandOff \/ HandOffFails
  \/ GroupIsGone \/ GroupRemains \/ GroupEnds \/ KillRemaining \/ GroupSurvives \/ GroupError
  \/ DrainStdout \/ DropAgain \/ DropNothing \/ EndDrop

CleanupNext ==
  \/ Begin
  \/ CleanupContinues
  \/ Environment
  \/ Reaper
  \/ stage = "done" /\ UNCHANGED cleanupVars

(* The session's thread and the reaper's are scheduled; no process has to  *)
(* end, not even if it is killed, since it can be stuck in a system call.  *)
Fairness == WF_cleanupVars(CleanupContinues) /\ WF_cleanupVars(Reaper)

CleanupSpec == CleanupInit /\ [][CleanupNext]_cleanupVars /\ Fairness

-----------------------------------------------------------------------------
(* Each variable stays within its type. *)
CleanupTypeOK ==
  /\ child \in {"running", "zombie", "reaped"}
  /\ success \in BOOLEAN /\ inGroup \in BOOLEAN /\ killed \in BOOLEAN
  /\ descendant \in {"running", "gone"}
  /\ unread \in BOOLEAN
  /\ handle \in {"session", "reaper", "nobody"}
  /\ reaperListens \in BOOLEAN
  /\ refused \in 0..2
  /\ stage \in {"inUse", "wait", "signal", "handoff", "group", "groupTerm", "groupKill",
             "returned", "dropping", "done"}
  /\ signals \in 0..3
  /\ caller \in {"shutdown", "drop"}
  /\ status \in {"none", "exited", "incomplete", "error"}
  /\ outcome \in {"none", "ok", "error"}

(* The engine never becomes a zombie nobody will reap: the handle is let   *)
(* go only of a child that was reaped, by the session or by the reaper it  *)
(* was handed to.  The one exception needs a reaper that was lost and a    *)
(* system that starts no thread, and a shutdown tries twice even then.     *)
ChildIsAccountedFor ==
  handle = "nobody" =>
    \/ child = "reaped"
    \/ refused > 0 /\ (outcome # "none" => refused = 2)

(* A clean shutdown is the whole truth: the engine ended by itself and     *)
(* succeeded, was reaped, left nobody in its group behind and nothing      *)
(* unread.  While it is being signalled its id is still its own, since it  *)
(* was not reaped.                                                         *)
ReportIsHonest ==
  /\ outcome = "ok" => child = "reaped" /\ success /\ ~GroupExists /\ ~unread
  /\ stage = "signal" => child # "reaped" /\ handle = "session"

(* The session never waits for ever, whatever the processes do, even if    *)
(* SIGKILL has no effect on them.                                          *)
CleanupEnds == stage # "inUse" ~> stage = "done"

(* The kernel carries out a SIGKILL. *)
KernelKills == killed /\ ChildEnds /\ UNCHANGED <<unread, handleVars, callVars>>

(* lib.rs: "reaping continues in the background": whatever the engine does *)
(* with its input, its signals and its group, it is killed and reaped, if  *)
(* only the kernel carries out a SIGKILL some time.                        *)
EngineIsReaped ==
  WF_cleanupVars(KernelKills) => (stage # "inUse" ~> child = "reaped" \/ refused > 0)
=============================================================================
