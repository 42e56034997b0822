----------------------------- MODULE MCReviewS ------------------------------
(* Small instances of ReviewS: uint8_t has Width values, transactions have *)
(* up to Most items of one or two pages.                                   *)
EXTENDS ReviewS

CONSTANT Most

MCLayouts == UNION {[1 .. n -> 1 .. 2] : n \in 0 .. Most}
=============================================================================
