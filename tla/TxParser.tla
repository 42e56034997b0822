------------------------------ MODULE TxParser ------------------------------
(***************************************************************************)
(* The traversal of tx_parser.c: which tokens are items of the display,    *)
(* and with which path of keys.  tx_traverse_find stops at the item it is  *)
(* asked for; all items it would find, one after the other, are a          *)
(* sequence.                                                               *)
(***************************************************************************)
EXTENDS JsonParser

MAX_RECURSION_DEPTH == 6

Item(token, path) == [token |-> token, path |-> path]

\* append_key_item, for the items below a key.
Under(key, items) == [n \in DOMAIN items |-> [items[n] EXCEPT !.path = <<key>> \o @]]

\* tx_traverse_find of a token, by what its calls one deeper find: objects are
\* entered while levels are left.  The elements of an array are counted as
\* those of an object, and visited while there are any.
Found(tokens, deeper, t, below) ==
  LET keys == ObjectKeys(tokens, t)
      elements == ArrayElements(tokens, t)
  IN  IF below = 0 \/ IsScalar(tokens[t].type) THEN <<Item(t, <<>>)>>
      ELSE IF tokens[t].type = "object"
      THEN FlattenSeq([n \in DOMAIN keys |->
             Under(tokens[keys[n]].word, deeper[ValueOf(keys[n])][below - 1])])
      ELSE FlattenSeq([n \in 1 .. Min({Len(keys), Len(elements)}) |->
             deeper[elements[n]][below]])

\* tx_traverse_find, up to the depth where it enters nothing.
TraverseFind(tokens, root, level) ==
  LET find[depth \in 0 .. MAX_RECURSION_DEPTH] ==
        [t \in Nat |-> [below \in Nat |->
           IF depth = 0 THEN <<Item(t, <<>>)>> ELSE Found(tokens, find[depth - 1], t, below)]]
  IN  find[MAX_RECURSION_DEPTH][root][level]
=============================================================================
