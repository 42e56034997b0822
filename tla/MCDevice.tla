------------------------------ MODULE MCDevice ------------------------------
(* A small instance of Device.  The paths: one that just passes the checks, *)
(* one above the index limit, one whose fourth word is not the default      *)
(* (keys can still be derived for it), one outside the path the application *)
(* may use.  The messages: one chunk that parses but shows nothing outside  *)
(* expert mode, two chunks that make a transaction, a chunk that parses in  *)
(* expert mode only; three bytes do not fit.                                *)
EXTENDS Device

CONSTANTS a, b

PathOf(first, change, index) ==
  [i \in 0 .. 4 |->
     <<first, Hardened(931), Hardened(0), change, Plain(index)>>[i + 1]]

Good  == PathOf(Hardened(44), Plain(0), IndexLimit)
High  == PathOf(Hardened(44), Plain(0), IndexLimit + 1)
Odd   == PathOf(Hardened(44), Plain(1), 0)
Alien == PathOf(Hardened(43), Plain(0), 0)

MCPaths == {Good, High, Odd, Alien}
MCChunks == {<<a>>, <<a, b>>}
MCValid == [e \in BOOLEAN |-> {<<a>>, <<a, a>>} \cup IF e THEN {<<a, b>>} ELSE {}]
MCBlank == [e \in BOOLEAN |-> IF e THEN {} ELSE {<<a>>}]
=============================================================================
