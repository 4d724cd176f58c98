----------------------------- MODULE Publication -----------------------------
(***************************************************************************)
(* What publishing several generated files promises: files are installed   *)
(* one by one; either all of them are, and stay, or those that were are    *)
(* withdrawn, and only if every one was is the publication called off.     *)
(* Nothing is promised to those who exchange the files meanwhile.          *)
(***************************************************************************)
EXTENDS Naturals

CONSTANT Target      \* 1..N, in the order of the command line

VARIABLES
  installed,  \* the targets whose destination holds the new file
  phase       \* "installing", "withdrawing", "committed", "aborted",
              \* "broken" or "disturbed"

vars == <<installed, phase>>

Init == installed = {} /\ phase = "installing"

Install(t) ==
  /\ phase = "installing"
  /\ t \notin installed /\ \A u \in Target : u < t => u \in installed
  /\ installed' = installed \cup {t}
  /\ UNCHANGED phase

Commit ==
  /\ phase = "installing" /\ installed = Target
  /\ phase' = "committed"
  /\ UNCHANGED installed

GiveUp ==
  /\ phase = "installing"
  /\ phase' = "withdrawing"
  /\ UNCHANGED installed

Withdraw(t) ==
  /\ phase = "withdrawing" /\ t \in installed
  /\ installed' = installed \ {t}
  /\ UNCHANGED phase

Abort ==
  /\ phase = "withdrawing" /\ installed = {}
  /\ phase' = "aborted"
  /\ UNCHANGED installed

(* It is known, and reported, that the withdrawal may be incomplete. *)
Break ==
  /\ phase = "withdrawing"
  /\ phase' = "broken"
  /\ UNCHANGED installed

(* Somebody else exchanges files of the publication. *)
Disturb ==
  /\ phase' = "disturbed"
  /\ installed' \in SUBSET Target

Next ==
  \/ \E t \in Target : Install(t) \/ Withdraw(t)
  \/ Commit \/ GiveUp \/ Abort \/ Break \/ Disturb

Spec == Init /\ [][Next]_vars
=============================================================================
