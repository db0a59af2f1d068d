---------------------------- MODULE MeasurementLog ----------------------------
(***************************************************************************)
(* What the flow of measurements promises the estimator, with lists, locks *)
(* and erasure hidden: one log per sensor, and a mark up to which the logs *)
(* have been optimised.  The mark only moves on, window by window, and     *)
(* never past what a prompt sensor has delivered.  A window takes all that *)
(* the logs of the prompt sensors hold from the old mark to the new one,   *)
(* each measurement once and in order; of any other sensor it takes what   *)
(* was there in time, and what was late is never taken.                    *)
(***************************************************************************)
EXTENDS Integers, Sequences, SequencesExt

CONSTANTS
  Stamps,       \* [the sensors -> the stamps each may produce], naturals
  ScanSizes,    \* how many measurements may share a stamp, besides one
  Prompt        \* the sensors a window waits for

Sensors == DOMAIN Stamps

None == -1      \* no mark yet

VARIABLES
  log,          \* [sensor -> all it has delivered]
  upTo,         \* the mark
  used          \* [sensor -> what the windows were made of]

Window(s, from, to) == SelectSeq(log[s], LAMBDA x : from <= x /\ x < to)

Init ==
  /\ log  = [s \in Sensors |-> << >>]
  /\ used = [s \in Sensors |-> << >>]
  /\ upTo = None

\* One or more measurements with a stamp later than those before.
Record(s) ==
  /\ UNCHANGED <<upTo, used>>
  /\ \E t \in Stamps[s], n \in ScanSizes \union {1} :
       /\ log' = [log EXCEPT ![s] = @ \o [i \in 1 .. n |-> t]]
       /\ \A i \in 1 .. Len(log[s]) : log[s][i] < t

\* No prompt sensor can deliver anything before t any more.
Delivered(t) == \A s \in Prompt : log[s] # << >> /\ t <= Last(log[s])

Marks == {t \in UNION {Stamps[s] : s \in Sensors} : t > upTo /\ Delivered(t)}

Begin ==
  /\ upTo = None
  /\ UNCHANGED <<log, used>>
  /\ upTo' \in Marks

\* How much of its window each sensor contributes.
Shares(to) ==
  LET size(s) == Len(Window(s, upTo, to))
  IN {n \in [Sensors -> 0 .. Max({size(s) : s \in Sensors})] :
        \A s \in Sensors : n[s] <= size(s) /\ (s \in Prompt => n[s] = size(s))}

Consume ==
  /\ upTo # None
  /\ UNCHANGED log
  /\ \E to \in Marks :
       /\ upTo' = to
       /\ \E n \in Shares(to) :
            used' = [s \in Sensors |-> used[s] \o SubSeq(Window(s, upTo, to), 1, n[s])]

Next == (\E s \in Sensors : Record(s)) \/ Begin \/ Consume

Spec == Init /\ [][Next]_<<log, upTo, used>>
===============================================================================
