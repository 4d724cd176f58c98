---------------------------- MODULE TerminalGuard ----------------------------
(***************************************************************************)
(* TerminalGuard of tui/mod.rs: the three changes the user interface makes *)
(* to the terminal, and the flags that remember which are to be undone.  A *)
(* command that fails may have reached the terminal all the same, so what  *)
(* is in force here is what may be.  The guard belongs to one thread: its  *)
(* methods are functions, from a guard to those it may become.             *)
(***************************************************************************)

Modes == {"raw", "alternate", "hidden"}

(* marked: the changes whose flag is set; inForce: those the terminal may  *)
(* be left with; refused: those whose undoing was tried last and failed.   *)
Guard(marked, inForce, refused) ==
  [marked |-> marked, inForce |-> inForce, refused |-> refused]

NoGuard == Guard({}, {}, {})
Entered == Guard(Modes, Modes, {})

MutantHalfEntered ==
  { NoGuard, Guard({"raw"}, {"raw", "alternate"}, {}), Guard({"raw", "alternate"}, Modes, {}) }

(* How far enter_with got when it failed: the flag of a command is set     *)
(* before the command is written, that of the raw mode once it is on.      *)
HalfEntered ==
  { NoGuard, Guard({"raw", "alternate"}, {"raw", "alternate"}, {}), Entered }

(* restore, and the drop of the guard: each undoing that is due is tried,  *)
(* an error stops none of the others, and what fails stays due.            *)
Restored(g) ==
  { Guard(failed, (g.inForce \ g.marked) \cup failed, failed \cup (g.refused \ g.marked)) :
      failed \in SUBSET g.marked }

(* A change is left in force whose undoing was not tried to the last.      *)
Forsakes(g) == ~(g.inForce \subseteq g.refused)
=============================================================================
