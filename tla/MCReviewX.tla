----------------------------- MODULE MCReviewX ------------------------------
(* Small instances of ReviewX: uint8_t has Width values, transactions have *)
(* up to Most items of one to three pages.                                 *)
EXTENDS ReviewX

CONSTANT Most

MCLayouts == UNION {[1 .. n -> 1 .. 3] : n \in 0 .. Most}
=============================================================================
