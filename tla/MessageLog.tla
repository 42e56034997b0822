----------------------------- MODULE MessageLog -----------------------------
(***************************************************************************)
(* What the transaction buffer promises the APDU handlers: a log of bytes  *)
(* that takes a chunk as a whole or leaves itself as it was.  Where the    *)
(* bytes live (RAM or flash) is not visible here: Buffering is shown to    *)
(* implement this module.                                                  *)
(***************************************************************************)
EXTENDS Naturals, Sequences

CONSTANTS
  Capacity,   \* how many bytes the log can hold, a natural number
  Chunks      \* the payloads a single append may carry, a set of sequences

VARIABLES
  log,    \* the bytes taken since the last reset
  added   \* what the last append returned: the number of bytes it took

Fits(data) == Len(log) + Len(data) <= Capacity

Init == /\ log = <<>>
        /\ added = 0

Reset == /\ log' = <<>>
         /\ UNCHANGED added

AppendChunk(data) ==
  \/ /\ Fits(data)
     /\ log' = log \o data
     /\ added' = Len(data)
  \/ /\ ~Fits(data)
     /\ added' = 0
     /\ UNCHANGED log

Restart == /\ log' = <<>>
           /\ added' = 0

Next == \/ Reset
        \/ \E data \in Chunks : AppendChunk(data)
        \/ Restart

Spec == Init /\ [][Next]_<<log, added>>
=============================================================================
