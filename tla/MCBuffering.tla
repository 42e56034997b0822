---------------------------- MODULE MCBuffering -----------------------------
(* A small instance of Buffering: two byte values, a RAM buffer of two     *)
(* cells and a flash buffer of four, so that appends fit, spill, fill the  *)
(* flash buffer exactly and are refused.                                   *)
EXTENDS Buffering

MCChunks == {<<>>} \cup {<<x>> : x \in Byte} \cup {<<x, y>> : x, y \in Byte}
=============================================================================
