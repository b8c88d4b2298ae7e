--------------------------- MODULE MCRateSchedule ---------------------------
(***************************************************************************)
(* Instances of RateSchedule for TLC: two interchangeable web workers, and *)
(* files of one period, or of two that follow, supersede or repeat each    *)
(* other.                                                                  *)
(***************************************************************************)
EXTENDS RateSchedule, TLC

CONSTANTS w1, w2

WorkerSymmetry == Permutations(Workers)

Open(d) == [from |-> d, to |-> OpenEnd]
Closed(d, e) == [from |-> d, to |-> e]

SmallFiles ==
    {<<p>> : p \in Periods}
        \cup {<<Closed(1, 1), Open(2)>>, <<Open(1), Open(2)>>, <<Open(2), Closed(1, 2)>>,
              <<Open(2), Open(2)>>}
=============================================================================
