----------------------------- MODULE MCAddress ------------------------------
(* Prefixes around the limits of the code: one character, the longest a    *)
(* Nano S shows in full and one more, the one that fills the key line, the *)
(* longest that can be encoded and one more, the longest a command may     *)
(* have and one more; and some with characters that matter to bech32.      *)
EXTENDS Address

Thor == <<116, 104, 111, 114>>
OfLength(n) == [i \in 1 .. n |-> Thor[1 + (i % 4)]]

MCHrps ==
  {OfLength(n) : n \in {0, 1, 12, 13, 25, 51, 52, 83, 84}}
  \cup {Thor, <<116, Separator, 104>>, <<116, 72>>, <<116, Space>>, <<116, 128>>,
        <<126, 33>>, <<116, NUL, 104>>, <<NUL, 116>>}

MCHashes == {[i \in 1 .. 20 |-> 255], [i \in 1 .. 20 |-> (i * 37) % 256]}

Word(hard, index) == [hard |-> hard, index |-> index]
MCPaths ==
  {<<Word(TRUE, 44), Word(TRUE, 931), Word(TRUE, 0), Word(FALSE, 0), Word(FALSE, 0)>>,
   <<Word(TRUE, 44), Word(TRUE, 931), Word(TRUE, 2147483647), Word(FALSE, 0),
     Word(TRUE, 2147483647)>>}

MCMistakes == [place : {1, 5, 20, 42}, char : {112}]
=============================================================================
