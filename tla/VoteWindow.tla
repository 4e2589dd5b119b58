------------------------------ MODULE VoteWindow ------------------------------
(***************************************************************************)
(* The M-of-N confirmation window: a bounded queue of Boolean votes, the   *)
(* oldest dropped first, and the number of positive votes in it.           *)
(***************************************************************************)
EXTENDS Integers, Sequences, FiniteSets

\* Push a vote and keep the newest `size`.
Slide(window, vote, size) ==
    IF Len(window) < size THEN Append(window, vote)
                          ELSE Tail(Append(window, vote))

Hits(window) == Cardinality({i \in DOMAIN window : window[i]})
=============================================================================
