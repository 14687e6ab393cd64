------------------------------- MODULE Install -------------------------------
(***************************************************************************)
(* What putting packages into another root promises, whatever the order it *)
(* works in (programs/qpkg/src/main.rs, the heading, and the comments of   *)
(* `strap`): a package's list is whole there only once everything it lists *)
(* is; that it was done is said only when everything asked for is whole;   *)
(* and what was there when that was said is there until the command is     *)
(* given again, a machine that stops included.                             *)
(***************************************************************************)
CONSTANTS
  Files,    \* files, links and lists
  Lists,    \* the lists among them
  Needs,    \* what each list lists
  Required  \* what the sets asked for are made of

VARIABLES
  whole,    \* the files that are whole
  up,       \* the machine runs
  outcome   \* what was said: "nothing" yet, "failed" or "done"

vars == <<whole, up, outcome>>

Init == whole = {} /\ up = TRUE /\ outcome = "nothing"

AtWork == up /\ outcome = "nothing"

(* A file is begun again. *)
Begin(f) == AtWork /\ whole' = whole \ {f} /\ UNCHANGED <<up, outcome>>

(* A file is finished; a list, only when what it lists is there. *)
Finish(f) ==
  /\ AtWork
  /\ f \in Lists => Needs[f] \subseteq whole
  /\ whole' = whole \cup {f}
  /\ UNCHANGED <<up, outcome>>

SayDone ==
  /\ AtWork /\ Required \subseteq whole
  /\ outcome' = "done" /\ UNCHANGED <<whole, up>>

SayFailed ==
  /\ AtWork /\ whole' \subseteq whole
  /\ outcome' = "failed" /\ UNCHANGED up

(* The machine stops: what was not said to be done may be anything. *)
Stop ==
  /\ up' = FALSE /\ UNCHANGED outcome
  /\ IF outcome = "done" THEN UNCHANGED whole ELSE whole' \subseteq Files

Again == up' = TRUE /\ outcome' = "nothing" /\ UNCHANGED whole

Next ==
  \/ Stop \/ Again \/ SayDone \/ SayFailed
  \/ \E f \in Files : Begin(f) \/ Finish(f)

Spec == Init /\ [][Next]_vars

=============================================================================
