-------------------------------- MODULE Json --------------------------------
(***************************************************************************)
(* JSON documents and the tokens that jsmn makes of their text.  A         *)
(* document is the sequence of its values and keys in the order of the     *)
(* text, each with its depth; a token gives the type of a value, and where *)
(* in the text it starts and ends.                                         *)
(***************************************************************************)
EXTENDS Integers, SequencesExt

(* Building documents *)
Deeper(doc) == [i \in DOMAIN doc |-> [doc[i] EXCEPT !.depth = @ + 1]]

Node(type, word) == <<[depth |-> 0, type |-> type, word |-> word]>>

Text(word) == Node("string", word)

Array(elements) == Node("array", "[]") \o Deeper(FlattenSeq(elements))

\* A field of an object, and an object of fields.
Field(key, value) == Text(key) \o value
Object(fields) == Node("object", "{}") \o Deeper(FlattenSeq(fields))

(* Reading documents *)
\* The last value inside that of i, or i.
LastInside(doc, i) ==
  CHOOSE last \in i .. Len(doc) :
    /\ last = Len(doc) \/ doc[last + 1].depth <= doc[i].depth
    /\ \A j \in i + 1 .. last : doc[j].depth > doc[i].depth

\* What is directly inside i, in order: keys and values of an object.
Inside(doc, i) ==
  LET last == LastInside(doc, i)
      from[j \in Nat] ==
        IF j > last THEN <<>>
        ELSE (IF doc[j].depth = doc[i].depth + 1 THEN <<j>> ELSE <<>>) \o from[j + 1]
  IN  from[i + 1]

\* The pairs of a key and its value in the object i.
Fields(doc, i) ==
  LET inside == Inside(doc, i)
  IN  [n \in 1 .. Len(inside) \div 2 |-> <<inside[2 * n - 1], inside[2 * n]>>]

\* The types of values.
Types == {"object", "array", "string", "primitive"}
IsScalar(type) == type \in {"string", "primitive"}

\* What the depths and types of a text can be: only what is not a word has
\* something inside, one deeper, and the keys of objects are words.
IsDocument(doc) ==
  /\ \A i \in 1 .. Len(doc) - 1 :
       doc[i + 1].depth <= doc[i].depth + IF IsScalar(doc[i].type) THEN 0 ELSE 1
  /\ \A i \in DOMAIN doc : doc[i].type = "object" =>
       \A n \in DOMAIN Fields(doc, i) : IsScalar(doc[Fields(doc, i)[n][1]].type)

(* Tokens.  The places in the text are counted in delimiters: two before a *)
(* value and one behind it.  Like those of the text they are in order, and *)
(* two values that follow each other do not touch.                         *)
Start(doc, i) == 2 * (i - 1) + Cardinality({j \in 1 .. i - 1 : LastInside(doc, j) < i})

End(doc, i) ==
  LET last == LastInside(doc, i)
  IN  2 * last + Cardinality({j \in 1 .. last : \/ LastInside(doc, j) < last
                                                \/ LastInside(doc, j) = last /\ j > i})

\* Indices of tokens count from 0.
Tokens(doc) ==
  [t \in 0 .. Len(doc) - 1 |->
     [type |-> doc[t + 1].type, word |-> doc[t + 1].word,
      start |-> Start(doc, t + 1), end |-> End(doc, t + 1)]]
=============================================================================
