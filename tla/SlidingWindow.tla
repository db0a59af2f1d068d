----------------------------- MODULE SlidingWindow -----------------------------
(***************************************************************************)
(* What a sliding window over splines promises, with indices, maps and     *)
(* addresses hidden.  Every spline has a front.  Knots behind it are       *)
(* final: no measurement touches them, and the prior, into which they were *)
(* folded, no longer has them.  Knots from the front on are open: as soon  *)
(* as one carries information, the prior has it.  The front only moves on. *)
(***************************************************************************)
EXTENDS Integers

CONSTANT Splines

VARIABLES
  front,        \* [spline -> its first open knot]
  touched,      \* [spline -> the knots measurements touch in this window]
  informed,     \* [spline -> the knots they ever touched]
  prior         \* [spline -> the knots the prior is about]

Open(knots, from) == {k \in knots : k >= from}

Init ==
  /\ front    = [s \in Splines |-> 0]
  /\ touched  = [s \in Splines |-> {}]
  /\ informed = [s \in Splines |-> {}]
  /\ prior    = [s \in Splines |-> {}]

Slide ==
  /\ front' \in [Splines -> Nat]
  /\ touched' \in [Splines -> SUBSET Nat]
  /\ informed' = [s \in Splines |-> informed[s] \union touched'[s]]
  /\ \A s \in Splines :
       /\ front[s] <= front'[s]
       /\ Open(touched'[s], front[s]) = touched'[s]
       /\ Open(prior'[s], front'[s]) = prior'[s]
       /\ Open(informed'[s], front'[s]) \subseteq prior'[s]

Spec == Init /\ [][Slide]_<<front, touched, informed, prior>>
===============================================================================
