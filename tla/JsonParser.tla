----------------------------- MODULE JsonParser -----------------------------
(***************************************************************************)
(* How json_parser.c finds its way in the tokens of a document: by         *)
(* comparing where tokens start and end.  The loops that count the         *)
(* elements of an array or an object and those that find one of them are   *)
(* the same; they are one operator here, which gives all of them.          *)
(***************************************************************************)
EXTENDS Json

\* json_parse clears the tokens behind the last one.
NoToken == [type |-> "undefined", word |-> "", start |-> 0, end |-> 0]

TokenAt(tokens, t) == IF t \in DOMAIN tokens THEN tokens[t] ELSE NoToken

\* The loop: tokens that start before the end of the previous element are
\* skipped, up to the end of the box.  The first element comes behind the
\* start of the box; an element ends with the token so many ahead of its own.
Scan(tokens, box, ahead) ==
  LET numberOfTokens == Cardinality(DOMAIN tokens)
      prevEnd(t) == IF t = box THEN tokens[box].start ELSE TokenAt(tokens, t + ahead).end
      Stops(u) == u = numberOfTokens \/ tokens[u].start > tokens[box].end
      Skips(t, u) == ~Stops(u) /\ tokens[u].start <= prevEnd(t)
      behind[t \in DOMAIN tokens] ==
        LET next == CHOOSE u \in t + 1 .. numberOfTokens :
                      ~Skips(t, u) /\ \A v \in t + 1 .. u - 1 : Skips(t, v)
        IN  IF Stops(next) THEN <<>> ELSE <<next>> \o behind[next]
  IN  behind[box]

\* array_get_element_count, array_get_nth_element.
ArrayElements(tokens, array) == Scan(tokens, array, 0)

\* Mutant: a key ends where its own token ends, not with its value.
ObjectKeysWithoutValues(tokens, object) == Scan(tokens, object, 0)

\* object_get_element_count, object_get_nth_key: a key and the token behind
\* it, its value.
ObjectKeys(tokens, object) == Scan(tokens, object, 1)

\* object_get_nth_value.
ValueOf(key) == key + 1

NoValue == -1

\* object_get_value: the value of the first key with that name.
ValueNamed(tokens, object, name) ==
  LET keys == ToSet(ObjectKeys(tokens, object))
      named == {t \in DOMAIN tokens : t \in keys /\ tokens[t].word = name}
  IN  IF named = {} THEN NoValue ELSE ValueOf(Min(named))
=============================================================================
