----------------------------- MODULE SensorQueue -----------------------------
(***************************************************************************)
(* The operations of DataManager on one of its lists of measurements       *)
(* (imuDataSeq, radarDataSeq, legDataSeq).  A measurement is its time      *)
(* stamp.  All three operations search the list from its END for the first *)
(* stamp before a bound, so they are cheap on a list in time order and     *)
(* mean something else on a list that is not.                              *)
(***************************************************************************)
EXTENDS Integers, Sequences, SequencesExt

\* find_if(rbegin, rend, stamp < t).base(): the number of measurements up to
\* and including the last one stamped before t.
CountUpTo(q, t)   == SelectLastInSeq(q, LAMBDA x : x <= t)    \* mutated
CountBefore(q, t) == SelectLastInSeq(q, LAMBDA x : x < t)

\* Extract*DataPieceSafely(start, end): a copy of [sIter, eIter).
Extract(q, start, end) ==
  SubSeq(q, CountBefore(q, start) + 1, CountBefore(q, end))

\* The overloads without an end: a copy of [sIter, end()).
ExtractFrom(q, start) == SubSeq(q, CountBefore(q, start) + 1, Len(q))

\* EraseOldDataPieceSafely(t), for one list: erase [begin(), iter).
EraseOld(q, t) == SubSeq(q, CountBefore(q, t) + 1, Len(q))

\* The measurements stamped within the half-open window [s, e), in the order of
\* the list.
Within(q, s, e) == SelectSeq(q, LAMBDA x : s <= x /\ x < e)

\* In time order; several radar targets share the stamp of their scan.
InOrder(q) == \A i, j \in 1 .. Len(q) : i < j => q[i] <= q[j]

-------------------------------------------------------------------------------
(* What the operations promise, for a list q and bounds s, e.              *)

\* The two iterators handed to std::copy are in order, whatever the order of
\* the stamps: the copy never runs past the end of the list.
CopyRangeValid(q, s, e) == s <= e => CountBefore(q, s) <= CountBefore(q, e)

\* On a list in time order, Extract returns exactly the measurements of the
\* half-open window [s, e), once each and in order.
ExtractIsWindow(q, s, e) ==
  InOrder(q) /\ s <= e
    => Extract(q, s, e) = Within(q, s, e)

\* So do the overloads without an end, if nothing on the list is beyond e.
ExtractFromIsWindow(q, s, e) ==
  InOrder(q) /\ s <= e /\ (\A i \in 1 .. Len(q) : q[i] < e)
    => ExtractFrom(q, s) = Within(q, s, e)

\* Erasing up to t leaves nothing older than t behind, and changes nothing of
\* what a window that starts at t or later yields, whatever the order.
EraseSparesWindow(q, t, s, e) ==
  /\ \A i \in 1 .. Len(EraseOld(q, t)) : EraseOld(q, t)[i] >= t
  /\ t <= s /\ s <= e
       => Extract(EraseOld(q, t), s, e) = Extract(q, s, e)
===============================================================================
