----------------------------- MODULE TxValidate -----------------------------
(***************************************************************************)
(* tx_validate.c over the tokens of jsmn: no whitespace, dictionaries in   *)
(* order, and the fields of the root.  A message is a sequence of lexemes, *)
(* the pieces that JSON is written with; what the validation finds in      *)
(* their characters is compared with what the lexemes are.                 *)
(***************************************************************************)
EXTENDS Jsmn, JsonParser

CONSTANTS
  Documents,        \* JSON texts without whitespace, as sequences of lexemes
  Messages,         \* those that are sent: some of them, with whitespace, and others
  Codes,            \* the characters in the order of their codes
  Required          \* the fields of the root in the order of the code

VARIABLES
  message,          \* the message in the buffer
  verdict           \* what tx_validate said of it, "none" before it did

vars == <<buffer, length, pos, scan, from, tokens, status, message, verdict>>

(* Lexemes: "open", "close", "string", "primitive", "colon", "comma" and   *)
(* "blank"; those of a string are the characters between the quotes.       *)
Lexeme(kind, chars) == [kind |-> kind, chars |-> chars]
TextOf(lexeme) ==
  IF lexeme.kind = "string" THEN <<"\"">> \o lexeme.chars \o <<"\"">> ELSE lexeme.chars
Rendered(m) == FlattenSeq([k \in DOMAIN m |-> TextOf(m[k])])

ASSUME ValidateAssumption ==
  /\ Texts = {Rendered(m) : m \in Messages}
  /\ Codes[1] = NUL
  /\ \A text \in Texts : \A p \in DOMAIN text : text[p] \in ToSet(Codes)

Init == JsmnInit /\ message = <<>> /\ verdict = "none"

-----------------------------------------------------------------------------
\* The tokens as json_parser.c reads them: indices from 0, and the text of one.
json == [t \in 0 .. Len(tokens) - 1 |->
           [type |-> tokens[t + 1].type, start |-> tokens[t + 1].start, end |-> tokens[t + 1].end,
            word |-> SubSeq(buffer, tokens[t + 1].start + 1, tokens[t + 1].end)]]
numberOfTokens == Len(tokens)

whitespaces == Blank \cup {"\f", "VT"}
is_space(p) == At(p) \in whitespaces

\* Where contains_whitespace begins to look for the gap before token t.
GapStart(t) == IF t = 1 THEN 0 ELSE json[t - 1].end + 1

\* Mutant: what stands behind the last token is not looked at.
ContainsWhitespaceBeforeTokens ==
  \E t \in 1 .. numberOfTokens - 1 :
    \E p \in GapStart(t) .. json[t].start - 1 : is_space(p)

contains_whitespace ==
  \/ \E t \in 1 .. numberOfTokens - 1 :
       \E p \in GapStart(t) .. json[t].start - 1 : is_space(p)
  \/ \E p \in GapStart(numberOfTokens) .. json[0].end :
       is_space(p) /\ \A q \in GapStart(numberOfTokens) .. p : At(q) # NUL

Code(c) == CHOOSE n \in DOMAIN Codes : Codes[n] = c

\* strcmp of what the buffer holds from one place and from another one on.
Precedes(first, second) ==
  LET differ == {n \in 0 .. Len(buffer) : At(first + n) # At(second + n)}
      n == Min(differ)
  IN  differ = {} \/ Code(At(first + n)) < Code(At(second + n))

is_sorted(first, second) == Precedes(json[first].start, json[second].start)

\* Mutant: every key is compared with the first one.
DictionariesSortedToFirst ==
  \A t \in DOMAIN json : json[t].type = "object" =>
    LET keys == ObjectKeys(json, t)
    IN  \A n \in 1 .. Len(keys) - 1 : is_sorted(keys[1], keys[n + 1])

dictionaries_sorted ==
  \A t \in DOMAIN json : json[t].type = "object" =>
    LET keys == ObjectKeys(json, t)
    IN  \A n \in 1 .. Len(keys) - 1 : is_sorted(keys[n], keys[n + 1])

\* Mutant: a field may be that of any object.
MissingAnywhere ==
  {n \in DOMAIN Required : \A t \in DOMAIN json : ValueNamed(json, t, Required[n]) = NoValue}

Missing == {n \in DOMAIN Required : ValueNamed(json, 0, Required[n]) = NoValue}

\* parser_json_missing_account_number and the others.
MissingField(n) == "missing_" \o ToString(n)

-----------------------------------------------------------------------------
Load(m) ==
  /\ Begin(Rendered(m))
  /\ message' = m /\ verdict' = "none"

Tokenize == JsmnStep /\ UNCHANGED <<message, verdict>>

\* parser_validate up to the display of the items.
Validate ==
  /\ status = "ok" /\ verdict = "none"
  /\ verdict' = IF contains_whitespace THEN "contains_whitespace"
                ELSE IF ~dictionaries_sorted THEN "is_not_sorted"
                ELSE IF Missing # {} THEN MissingField(Min(Missing))
                ELSE "ok"
  /\ UNCHANGED <<jsmnVars, message>>

Next == Tokenize \/ Validate \/ \E m \in Messages : Load(m)

Spec == Init /\ [][Next]_vars
-----------------------------------------------------------------------------
(* What the lexemes of a message are, by RFC 7159 and docs/TXSPEC.md.      *)

Unspaced(m) == SelectSeq(m, LAMBDA lexeme : lexeme.kind # "blank")
IsJson(m) == Unspaced(m) \in Documents

\* How many brackets are open before lexeme k.
DepthBefore(m, k) ==
  Cardinality({j \in 1 .. k - 1 : m[j].kind = "open"})
  - Cardinality({j \in 1 .. k - 1 : m[j].kind = "close"})

\* The document of Json that the message stands for.
DocumentOf(m) ==
  LET values == SelectSeq([k \in DOMAIN m |-> k],
                          LAMBDA k : m[k].kind \in {"open", "string", "primitive"})
  IN  [n \in DOMAIN values |->
         [depth |-> DepthBefore(m, values[n]),
          type |-> IF m[values[n]].kind = "open" THEN TypeOf(m[values[n]].chars[1])
                   ELSE m[values[n]].kind,
          word |-> m[values[n]].chars]]

\* The lexeme before the whitespace that k belongs to; 0 at the beginning.
Before(m, k) == Max({0} \cup {j \in 1 .. k - 1 : m[j].kind # "blank"})

ClosesEmpty(m, k) ==
  m[k].kind = "close" /\ m[Before(m, k)].kind = "open"

\* Whitespace that the gaps between the tokens leave out: after the bracket
\* that opens an inner value, and one character behind a number or behind an
\* inner value that is empty.
Overlooked(m, k) ==
  LET before == Before(m, k)
  IN  /\ before # 0
      /\ \/ m[before].kind = "open" /\ DepthBefore(m, before) > 0
         \/ /\ before = k - 1
            /\ \/ m[before].kind = "primitive"
               \/ ClosesEmpty(m, before) /\ DepthBefore(m, k) > 0

\* Lexicographic order of the texts of keys.
Below(first, second) ==
  \E n \in DOMAIN second :
    /\ \A i \in 1 .. n - 1 : i \in DOMAIN first /\ first[i] = second[i]
    /\ n \in DOMAIN first => Code(first[n]) < Code(second[n])

KeysOf(d, i) == [n \in DOMAIN Fields(d, i) |-> d[Fields(d, i)[n][1]].word]
Objects(d) == {i \in DOMAIN d : d[i].type = "object"}

\* The keys of each object differ, in characters that come after the quote.
PlainKeys(d) ==
  \A i \in Objects(d) :
    /\ IsInjective(KeysOf(d, i))
    /\ \A n \in DOMAIN KeysOf(d, i) : \A c \in ToSet(KeysOf(d, i)[n]) : Code(c) > Code("\"")

-----------------------------------------------------------------------------
(* jsmn accepts a JSON text of any layout if it has room for its tokens,   *)
(* and the tokens are those of the document: by their types and words, and *)
(* for everything that json_parser.c compares of their places.             *)
TokensAsDocument ==
  status \notin {"idle", "parsing"} /\ IsJson(message) =>
    LET d == DocumentOf(message)
    IN  /\ status = IF Len(d) > MaxTokens THEN "too_many_tokens" ELSE "ok"
        /\ status = "ok" =>
             /\ numberOfTokens = Len(d)
             /\ \A i \in DOMAIN d :
                  /\ tokens[i].type = d[i].type
                  /\ IsScalar(d[i].type) => json[i - 1].word = d[i].word
                  /\ \A j \in DOMAIN d :
                       /\ tokens[i].start > tokens[j].end <=> Start(d, i) > End(d, j)
                       /\ tokens[i].start > tokens[j].start <=> Start(d, i) > Start(d, j)

(* A JSON text with whitespace is refused for it, wherever it stands but   *)
(* at the places that the gaps leave out; and one that is refused for      *)
(* whitespace has some: blanks in strings are none, and of what earlier    *)
(* messages left in the buffer only the byte behind the text can count.    *)
WhitespaceFound ==
  LET blanks == {k \in DOMAIN message : message[k].kind = "blank"}
  IN  verdict # "none" /\ IsJson(message) =>
        /\ (\E k \in blanks : ~Overlooked(message, k)) => verdict = "contains_whitespace"
        /\ verdict = "contains_whitespace" => blanks # {} \/ is_space(length)

(* The comparison of what follows the keys in the buffer tells the order   *)
(* of the keys in all dictionaries, at any depth, whatever stands behind.  *)
KeysInOrder ==
  verdict \notin {"none", "contains_whitespace"}
  /\ IsJson(message) /\ PlainKeys(DocumentOf(message)) =>
       (verdict # "is_not_sorted"
          <=> LET d == DocumentOf(message)
              IN  \A i \in Objects(d) : \A m, n \in DOMAIN KeysOf(d, i) :
                    m < n => Below(KeysOf(d, i)[m], KeysOf(d, i)[n]))

(* A JSON text that is accepted has the required fields at its root, and   *)
(* an object that lacks some is refused for the first of them.  An array   *)
(* at the root may be read as an object: what is at its odd places names.  *)
FieldsAtRoot ==
  LET d == DocumentOf(message)
      root == Inside(d, 1)
      named == {d[root[n]].word : n \in {n \in DOMAIN root : n % 2 = 1}}
      lacks == {n \in DOMAIN Required : Required[n] \notin named}
  IN  verdict \notin {"none", "contains_whitespace", "is_not_sorted"} /\ IsJson(message) =>
        /\ verdict = "ok" => lacks = {}
        /\ d[1].type = "object" =>
             verdict = IF lacks = {} THEN "ok" ELSE MissingField(Min(lacks))

-----------------------------------------------------------------------------
(* What a document says and the code does not keep. *)

(* docs/TXSPEC.md: no spaces or newlines can be included, other than       *)
(* escaped in strings.                                                     *)
NoSpacesIncluded ==
  verdict = "ok" => \A k \in DOMAIN message : message[k].kind # "blank"
=============================================================================
