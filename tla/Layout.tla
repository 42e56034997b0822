------------------------------- MODULE Layout -------------------------------
(***************************************************************************)
(* The pages of a transaction.  A layout is the sequence of the numbers of *)
(* pages of its items; items and pages count from 0, as in the code.       *)
(***************************************************************************)
EXTENDS Integers, Sequences

AllPages(l) == UNION {{i} \X (0 .. l[i + 1] - 1) : i \in 0 .. Len(l) - 1}

FirstPage == <<0, 0>>

\* The pages of l up to the given one, in reading order.
UpTo(l, page) ==
  {p \in AllPages(l) : \/ p[1] < page[1]
                       \/ p[1] = page[1] /\ p[2] <= page[2]}
=============================================================================
