----------------------------- MODULE JsonProofs -----------------------------
(***************************************************************************)
(* Proofs about JSON texts and their tokens.  The tokens that jsmn makes   *)
(* lie in the text in their order and nest, for every text, whatever lies  *)
(* behind it in the buffer, and every limit on the number of tokens.  In   *)
(* every document, what json_parser.c finds by comparing where tokens      *)
(* start and end are the elements of an array and the keys of an object;   *)
(* an array of objects with fields has no fewer "keys" than elements.      *)
(***************************************************************************)
EXTENDS Jsmn, JsonParser, FiniteSetTheorems, WellFoundedInduction, TLAPS

TokenRecords == [type : {"object", "array", "string", "primitive"},
           start : Nat, end : Nat \cup {Unset}]

\* All tokens begin before a place and end at it or earlier.
Before(place) ==
  \A t \in DOMAIN tokens :
    /\ tokens[t].start < place
    /\ tokens[t].end <= place

(* The tokens lie before what the running loop has begun to read; a string *)
(* has its quote, and a primitive its first character, behind it.          *)
Reading ==
  /\ scan = "between" => Before(pos)
  /\ scan # "between" => Before(from) /\ from <= pos
  /\ scan = "string" => from < pos
  /\ scan = "primitive" /\ pos = from => ~EndsPrimitive

TokensInv == JsmnTypeOK /\ Reading /\ TokensNest

-----------------------------------------------------------------------------
(* A new token behind all others keeps them nested.                        *)
LEMMA NewTokenNests ==
  ASSUME tokens \in Seq(TokenRecords), TokensNest,
         NEW place \in Nat, Before(place),
         NEW token \in TokenRecords, place <= token.start,
         NEW next \in Nat, token.start < next, token.end <= next,
         tokens' = Append(tokens, token)
  PROVE  TokensNest' /\ Before(next)' /\ tokens' \in Seq(TokenRecords)
<1>1. /\ DOMAIN tokens' = DOMAIN tokens \cup {Len(tokens) + 1}
      /\ DOMAIN tokens = 1 .. Len(tokens)
      /\ \A t \in DOMAIN tokens : tokens'[t] = tokens[t]
      /\ tokens'[Len(tokens) + 1] = token
      /\ Len(tokens) \in Nat
      /\ \A t \in DOMAIN tokens : tokens[t] \in TokenRecords
      /\ tokens' \in Seq(TokenRecords)
  OBVIOUS
<1>2. TokensNest'
  <2> SUFFICES ASSUME NEW i \in DOMAIN tokens', NEW j \in DOMAIN tokens', i < j
               PROVE  /\ tokens'[i].start < tokens'[j].start
                      /\ tokens'[i].end # Unset =>
                           \/ tokens'[i].end <= tokens'[j].start
                           \/ tokens'[j].end # Unset /\ tokens'[j].end < tokens'[i].end
    BY DEF TokensNest
  <2>1. CASE j \in DOMAIN tokens
    <3>1. i \in DOMAIN tokens
      BY <1>1, <2>1
    <3> QED BY <1>1, <2>1, <3>1 DEF TokensNest
  <2>2. CASE j = Len(tokens) + 1
    <3>1. i \in DOMAIN tokens
      BY <1>1, <2>2
    <3>2. tokens[i].start < place /\ tokens[i].end <= place /\ tokens[i] \in TokenRecords
      BY <1>1, <3>1 DEF Before
    <3>3. tokens'[i] = tokens[i] /\ tokens'[j] = token
      BY <1>1, <2>2, <3>1
    <3> QED BY <3>2, <3>3 DEF TokenRecords, Unset
  <2> QED BY <1>1, <2>1, <2>2
<1>3. Before(next)'
  <2> SUFFICES ASSUME NEW t \in DOMAIN tokens'
               PROVE  tokens'[t].start < next /\ tokens'[t].end <= next
    BY DEF Before
  <2>1. CASE t \in DOMAIN tokens
    <3>1. /\ tokens[t].start < place /\ tokens[t].end <= place
          /\ tokens[t] \in TokenRecords /\ tokens'[t] = tokens[t]
      BY <1>1, <2>1 DEF Before
    <3>2. place < next
      BY DEF TokenRecords
    <3> QED BY <3>1, <3>2 DEF TokenRecords, Unset
  <2>2. CASE t = Len(tokens) + 1
    BY <1>1, <2>2
  <2> QED BY <1>1, <2>1, <2>2
<1> QED BY <1>1, <1>2, <1>3

(* A bracket that closes the last open token keeps the tokens nested.      *)
LEMMA ClosedTokenNests ==
  ASSUME tokens \in Seq(TokenRecords), TokensNest, pos \in Nat, Before(pos),
         NEW t \in DOMAIN tokens, IsLastOpen(t),
         tokens' = [tokens EXCEPT ![t].end = pos + 1]
  PROVE  /\ TokensNest' /\ tokens' \in Seq(TokenRecords) /\ Len(tokens') = Len(tokens)
         /\ \A i \in DOMAIN tokens' : tokens'[i].start < pos + 1 /\ tokens'[i].end <= pos + 1
<1>1. /\ DOMAIN tokens = 1 .. Len(tokens) /\ Len(tokens) \in Nat
      /\ DOMAIN tokens' = DOMAIN tokens
      /\ \A i \in DOMAIN tokens : tokens[i] \in TokenRecords
  OBVIOUS
<1>2. \A i \in DOMAIN tokens : i # t => tokens'[i] = tokens[i]
  OBVIOUS
<1>3. tokens'[t] = [tokens[t] EXCEPT !.end = pos + 1]
  OBVIOUS
<1>4. tokens'[t].start = tokens[t].start /\ tokens'[t].end = pos + 1 /\ tokens'[t] \in TokenRecords
  <2>1. tokens[t] \in TokenRecords
    BY <1>1
  <2>2. tokens'[t] = [type |-> tokens[t].type, start |-> tokens[t].start, end |-> pos + 1]
    BY <1>3, <2>1 DEF TokenRecords
  <2>3. /\ tokens[t].type \in {"object", "array", "string", "primitive"}
        /\ tokens[t].start \in Nat
    BY <2>1 DEF TokenRecords
  <2> QED BY <2>2, <2>3 DEF TokenRecords
<1>5. tokens' \in Seq(TokenRecords) /\ Len(tokens') = Len(tokens)
  <2>1. \A i \in DOMAIN tokens : tokens'[i] \in TokenRecords
    BY <1>1, <1>2, <1>4
  <2>2. tokens' = [i \in 1 .. Len(tokens) |-> tokens'[i]]
    BY <1>1
  <2>3. tokens' \in [1 .. Len(tokens) -> TokenRecords]
    BY <1>1, <2>1, <2>2
  <2> QED BY <1>1, <2>3
<1>6. \A i \in DOMAIN tokens :
        /\ tokens[i].start \in Nat /\ tokens[i].end \in Nat \cup {Unset}
        /\ tokens[i].start < pos /\ tokens[i].end <= pos
  BY <1>1 DEF TokenRecords, Before
<1>7. \A i \in DOMAIN tokens' : tokens'[i].start < pos + 1 /\ tokens'[i].end <= pos + 1
  <2> TAKE i \in DOMAIN tokens'
  <2>1. CASE i = t
    BY <1>4, <1>6, <2>1
  <2>2. CASE i # t
    BY <1>1, <1>2, <1>6, <2>2 DEF Unset
  <2> QED BY <2>1, <2>2
<1>8. TokensNest'
  <2> SUFFICES ASSUME NEW i \in DOMAIN tokens, NEW j \in DOMAIN tokens, i < j
               PROVE  /\ tokens'[i].start < tokens'[j].start
                      /\ tokens'[i].end # Unset =>
                           \/ tokens'[i].end <= tokens'[j].start
                           \/ tokens'[j].end # Unset /\ tokens'[j].end < tokens'[i].end
    BY <1>1 DEF TokensNest
  <2>1. /\ tokens[i].start < tokens[j].start
        /\ tokens[i].end # Unset =>
             \/ tokens[i].end <= tokens[j].start
             \/ tokens[j].end # Unset /\ tokens[j].end < tokens[i].end
    BY DEF TokensNest
  <2>2. CASE i = t
    <3>1. j \in t + 1 .. Len(tokens) /\ j # t
      BY <1>1, <2>2
    <3>2. tokens[j].end # Unset
      BY <3>1 DEF IsLastOpen
    <3> QED BY <1>2, <1>4, <1>6, <2>1, <2>2, <3>1, <3>2
  <2>3. CASE j = t
    <3>1. tokens[t].end = Unset /\ i # t
      BY <2>3 DEF IsLastOpen
    <3> QED BY <1>2, <1>4, <2>1, <2>3, <3>1
  <2>4. CASE i # t /\ j # t
    BY <1>2, <2>1, <2>4
  <2> QED BY <2>2, <2>3, <2>4
<1> QED BY <1>1, <1>5, <1>7, <1>8

-----------------------------------------------------------------------------
LEMMA InitNests == JsmnInit => TokensInv
<1> SUFFICES ASSUME JsmnInit PROVE TokensInv
  OBVIOUS
<1>1. JsmnTypeOK
  BY JsmnAssumption DEF JsmnInit, JsmnTypeOK, NUL
<1>2. Reading /\ TokensNest
  BY DEF JsmnInit, Reading, TokensNest, Before
<1> QED BY <1>1, <1>2 DEF TokensInv

(* A failure leaves everything but the status.                             *)
LEMMA FailNests ==
  ASSUME TokensInv,
         NEW error \in {"too_many_tokens", "unexpected_characters", "incomplete_json"},
         Fail(error)
  PROVE  TokensInv'
<1>1. UNCHANGED <<buffer, length, pos, scan, from, tokens>>
  BY DEF Fail
<1>2. JsmnTypeOK'
  BY <1>1 DEF TokensInv, JsmnTypeOK, Fail
<1>3. EndsPrimitive' = EndsPrimitive
  BY <1>1 DEF EndsPrimitive, AtEnd, At
<1>4. Reading'
  BY <1>1, <1>3 DEF TokensInv, Reading, Before
<1>5. TokensNest'
  BY <1>1 DEF TokensInv, TokensNest
<1> QED BY <1>2, <1>4, <1>5 DEF TokensInv

(* A move inside a loop, or from one thing between the tokens to the next. *)
LEMMA MoveNests ==
  ASSUME TokensInv, NEW next \in Nat, pos < next, MoveTo(next)
  PROVE  TokensInv'
<1>1. UNCHANGED <<buffer, length, scan, from, tokens, status>> /\ pos' = next
  BY DEF MoveTo
<1>2. JsmnTypeOK'
  BY <1>1 DEF TokensInv, JsmnTypeOK
<1>3. Reading'
  <2>1. pos \in Nat /\ from \in Nat /\ tokens \in Seq(TokenRecords)
    BY DEF TokensInv, JsmnTypeOK, TokenRecords
  <2>2. \A t \in DOMAIN tokens :
          tokens[t].start \in Nat /\ tokens[t].end \in Nat \cup {Unset}
    <3>1. \A t \in DOMAIN tokens : tokens[t] \in TokenRecords
      BY <2>1
    <3> QED BY <3>1 DEF TokenRecords
  <2>3. (scan = "between" => Before(next)) /\ (scan # "between" => Before(from) /\ from < next)
    BY <2>1, <2>2 DEF TokensInv, Reading, Before, Unset
  <2>4. Before(from)' = Before(from) /\ Before(pos)' = Before(next)
    BY <1>1 DEF Before
  <2> QED BY <1>1, <2>1, <2>3, <2>4 DEF TokensInv, Reading
<1>4. TokensNest'
  BY <1>1 DEF TokensInv, TokensNest
<1> QED BY <1>2, <1>3, <1>4 DEF TokensInv

(* A loop that is entered has all tokens before where it starts.           *)
LEMMA EnterNests ==
  ASSUME TokensInv, scan = "between",
         NEW loop \in {"string", "primitive"}, NEW next \in Nat, pos <= next,
         loop = "string" => pos < next,
         loop = "primitive" => ~EndsPrimitive,
         Enter(loop, next)
  PROVE  TokensInv'
<1>1. /\ scan' = loop /\ from' = pos /\ pos' = next
      /\ UNCHANGED <<buffer, length, tokens, status>>
  BY DEF Enter
<1>2. JsmnTypeOK'
  BY <1>1 DEF TokensInv, JsmnTypeOK
<1>3. Reading'
  <2>1. Before(from)' = Before(pos)
    BY <1>1 DEF Before
  <2>2. pos \in Nat
    BY DEF TokensInv, JsmnTypeOK
  <2>3. scan' = "primitive" /\ pos' = from' => ~EndsPrimitive'
    BY <1>1, <2>2 DEF EndsPrimitive, AtEnd, At
  <2> QED BY <1>1, <2>1, <2>2, <2>3 DEF TokensInv, Reading
<1>4. TokensNest'
  BY <1>1 DEF TokensInv, TokensNest
<1> QED BY <1>2, <1>3, <1>4 DEF TokensInv

(* A new token, if there is room, lies behind all others.                  *)
LEMMA AllocNests ==
  ASSUME TokensInv, NEW token \in TokenRecords, NEW next \in Nat, AllocToken(token, next),
         scan = "between" => pos <= token.start,
         scan # "between" => from <= token.start,
         token.start < next, token.end <= next
  PROVE  TokensInv'
<1>1. CASE Len(tokens) >= MaxTokens
  BY <1>1, FailNests DEF AllocToken
<1>2. CASE ~(Len(tokens) >= MaxTokens)
  <2>1. /\ tokens' = Append(tokens, token)
        /\ pos' = next /\ scan' = "between"
        /\ UNCHANGED <<buffer, length, from, status>>
    BY <1>2 DEF AllocToken
  <2>2. tokens \in Seq(TokenRecords) /\ pos \in Nat /\ from \in Nat /\ TokensNest
    BY DEF TokensInv, JsmnTypeOK, TokenRecords
  <2>3. PICK place \in {pos, from} : Before(place) /\ place <= token.start
    BY DEF TokensInv, Reading
  <2>4. TokensNest' /\ Before(next)' /\ tokens' \in Seq(TokenRecords)
    BY <2>1, <2>2, <2>3, NewTokenNests
  <2>5. JsmnTypeOK'
    <3>1. Len(tokens') = Len(tokens) + 1 /\ Len(tokens) \in Nat
      BY <2>1, <2>2
    <3>2. Len(tokens') <= MaxTokens
      BY <1>2, <3>1, JsmnAssumption
    <3> QED BY <2>1, <2>4, <3>2 DEF TokensInv, JsmnTypeOK, TokenRecords
  <2>6. Reading'
    BY <2>1, <2>4 DEF Reading, Before
  <2> QED BY <2>4, <2>5, <2>6 DEF TokensInv
<1> QED BY <1>1, <1>2

-----------------------------------------------------------------------------
LEMMA BeginNests ==
  ASSUME TokensInv, NEW text \in Texts, Begin(text)
  PROVE  TokensInv'
<1>1. PICK rest \in Remains : buffer' = text \o rest
  BY DEF Begin
<1>2. /\ length' = Len(text) /\ pos' = 0 /\ scan' = "between" /\ from' = 0
      /\ tokens' = <<>> /\ status' = "parsing"
  BY DEF Begin
<1>3. text \in Seq(STRING) /\ rest \in Seq(STRING)
  BY JsmnAssumption
<1>4. buffer' \in Seq(STRING) /\ Len(text) \in 0 .. Len(buffer')
  BY <1>1, <1>3
<1>5. JsmnTypeOK'
  BY <1>2, <1>4, JsmnAssumption DEF JsmnTypeOK
<1>6. Reading' /\ TokensNest'
  BY <1>2 DEF Reading, TokensNest, Before
<1> QED BY <1>5, <1>6 DEF TokensInv

LEMMA CloseNests == TokensInv /\ Close => TokensInv'
<1> SUFFICES ASSUME TokensInv, Close PROVE TokensInv'
  OBVIOUS
<1>1. CASE Fail("unexpected_characters")
  BY <1>1, FailNests
<1>2. CASE ~Fail("unexpected_characters")
  <2>1. PICK t \in DOMAIN tokens :
          /\ IsLastOpen(t)
          /\ tokens' = [tokens EXCEPT ![t].end = pos + 1]
          /\ pos' = pos + 1
          /\ UNCHANGED <<buffer, length, scan, from, status>>
    BY <1>2 DEF Close
  <2>2. tokens \in Seq(TokenRecords) /\ TokensNest /\ pos \in Nat /\ scan = "between" /\ Before(pos)
    BY DEF TokensInv, JsmnTypeOK, TokenRecords, Close, Reads, Reading
  <2>3. /\ TokensNest' /\ tokens' \in Seq(TokenRecords) /\ Len(tokens') = Len(tokens)
        /\ \A i \in DOMAIN tokens' : tokens'[i].start < pos + 1 /\ tokens'[i].end <= pos + 1
    BY <2>1, <2>2, ClosedTokenNests
  <2>4. JsmnTypeOK'
    BY <2>1, <2>2, <2>3 DEF TokensInv, JsmnTypeOK, TokenRecords
  <2>5. Reading'
    BY <2>1, <2>2, <2>3 DEF Reading, Before
  <2> QED BY <2>3, <2>4, <2>5 DEF TokensInv
<1> QED BY <1>1, <1>2

LEMMA EscapeNests == TokensInv /\ Escape => TokensInv'
<1> SUFFICES ASSUME TokensInv, Escape PROVE TokensInv'
  OBVIOUS
<1>1. pos \in Nat
  BY DEF TokensInv, JsmnTypeOK
<1>2. CASE Fail("unexpected_characters")
  BY <1>2, FailNests
<1>3. CASE MoveTo(pos + 2)
  BY <1>1, <1>3, MoveNests
<1>4. CASE \E n \in 0 .. 4 : MoveTo(pos + 2 + n)
  <2>1. PICK n \in 0 .. 4 : MoveTo(pos + 2 + n)
    BY <1>4
  <2>2. pos + 2 + n \in Nat /\ pos < pos + 2 + n
    BY <1>1
  <2> QED BY <2>1, <2>2, MoveNests
<1> QED BY <1>2, <1>3, <1>4 DEF Escape

LEMMA StepNests == TokensInv /\ [JsmnNext]_jsmnVars => TokensInv'
<1> SUFFICES ASSUME TokensInv, [JsmnNext]_jsmnVars PROVE TokensInv'
  OBVIOUS
<1>1. pos \in Nat /\ from \in Nat
  BY DEF TokensInv, JsmnTypeOK
<1>1a. pos + 1 \in Nat /\ pos < pos + 1
  BY <1>1
<1>2. ASSUME NEW text \in Texts, Begin(text) PROVE TokensInv'
  BY <1>2, BeginNests
<1>3. CASE Open
  <2> DEFINE token == Token(TypeOf(At(pos)), pos, Unset)
  <2>1. token \in TokenRecords /\ token.start = pos /\ token.end = Unset
    BY <1>1 DEF Token, TokenRecords, TypeOf
  <2>2. scan = "between" /\ AllocToken(token, pos + 1)
    BY <1>3 DEF Open, Reads
  <2>3. token.start < pos + 1 /\ token.end <= pos + 1
    BY <1>1, <2>1 DEF Unset
  <2> HIDE DEF token
  <2> QED BY <1>1, <2>1, <2>2, <2>3, AllocNests
<1>4. CASE Close
  BY <1>4, CloseNests
<1>5. CASE Skip
  BY <1>1a, <1>5, MoveNests DEF Skip
<1>6. CASE OpenQuote
  <2>1. scan = "between" /\ Enter("string", pos + 1)
    BY <1>6 DEF OpenQuote, Reads
  <2>2. pos <= pos + 1 /\ "string" # "primitive"
    BY <1>1
  <2> QED BY <1>1a, <2>1, <2>2, EnterNests
<1>7. CASE StringCharacter
  BY <1>1a, <1>7, MoveNests DEF StringCharacter
<1>8. CASE Escape
  BY <1>8, EscapeNests
<1>9. CASE CloseQuote
  <2> DEFINE token == Token("string", from + 1, pos)
  <2>1. token \in TokenRecords /\ token.start = from + 1 /\ token.end = pos
    BY <1>1 DEF Token, TokenRecords
  <2>2. scan = "string" /\ AllocToken(token, pos + 1)
    BY <1>9 DEF CloseQuote, Reads
  <2>3. from < pos
    BY <2>2 DEF TokensInv, Reading
  <2>4. from <= token.start /\ token.start < pos + 1 /\ token.end <= pos + 1
    BY <1>1, <2>1, <2>3
  <2> HIDE DEF token
  <2> QED BY <1>1, <2>1, <2>2, <2>4, AllocNests
<1>10. CASE StringEnds
  BY <1>10, FailNests DEF StringEnds
<1>11. CASE PrimitiveStarts
  <2>1. ~EndsPrimitive
    BY <1>11 DEF PrimitiveStarts, EndsPrimitive
  <2>2. scan = "between" /\ Enter("primitive", pos)
    BY <1>11 DEF PrimitiveStarts
  <2>3. pos <= pos /\ "primitive" # "string"
    BY <1>1
  <2> QED BY <1>1, <2>1, <2>2, <2>3, EnterNests
<1>12. CASE PrimitiveCharacter
  BY <1>1a, <1>12, MoveNests, FailNests DEF PrimitiveCharacter
<1>13. CASE PrimitiveEnds
  <2> DEFINE token == Token("primitive", from, pos)
  <2>1. token \in TokenRecords /\ token.start = from /\ token.end = pos
    BY <1>1 DEF Token, TokenRecords
  <2>2. scan = "primitive" /\ EndsPrimitive /\ AllocToken(token, pos)
    BY <1>13 DEF PrimitiveEnds
  <2>3. from < pos
    BY <1>1, <2>2 DEF TokensInv, Reading
  <2> HIDE DEF token
  <2> QED BY <1>1, <2>1, <2>2, <2>3, AllocNests
<1>14. CASE Finish
  <2>1. UNCHANGED <<buffer, length, pos, scan, from, tokens>>
    BY <1>14 DEF Finish
  <2>2. EndsPrimitive' = EndsPrimitive
    BY <2>1 DEF EndsPrimitive, AtEnd, At
  <2>3. JsmnTypeOK'
    BY <1>14, <2>1 DEF TokensInv, JsmnTypeOK, Finish
  <2> QED BY <2>1, <2>2, <2>3 DEF TokensInv, Reading, Before, TokensNest
<1>15. CASE UNCHANGED jsmnVars
  <2>1. EndsPrimitive' = EndsPrimitive
    BY <1>15 DEF jsmnVars, EndsPrimitive, AtEnd, At
  <2> QED BY <1>15, <2>1 DEF jsmnVars, TokensInv, JsmnTypeOK, Reading, Before, TokensNest
<1> QED BY <1>2, <1>3, <1>4, <1>5, <1>6, <1>7, <1>8, <1>9, <1>10, <1>11, <1>12, <1>13,
           <1>14, <1>15 DEF JsmnNext, JsmnStep

LEMMA Nested == JsmnSpec => []TokensInv
<1> QED BY InitNests, StepNests, PTL DEF JsmnSpec

(* The scanner keeps the types of what it keeps, and the limit of tokens.  *)
THEOREM TokensTyped == JsmnSpec => []JsmnTypeOK
<1>1. TokensInv => JsmnTypeOK
  BY DEF TokensInv
<1> QED BY <1>1, Nested, PTL

(* For every text and everything that lies behind it in the buffer, all    *)
(* along the parsing: what json_parser.c compares of the places of tokens  *)
(* places each of them before, behind or inside each other one.            *)
THEOREM TokensAlwaysNest == JsmnSpec => []TokensNest
<1>1. TokensInv => TokensNest
  BY DEF TokensInv
<1> QED BY <1>1, Nested, PTL

-----------------------------------------------------------------------------
LEMMA Least ==
  ASSUME NEW T, T \subseteq Nat, T # {}
  PROVE  \E x \in T : \A y \in T : x <= y
<1> DEFINE Upto == {1 .. n : n \in T}
<1>1. Upto \subseteq FiniteSubsetsOf(Nat)
  <2>1. \A n \in T : IsFiniteSet(1 .. n) /\ 1 .. n \subseteq Nat
    BY FS_Interval
  <2> QED BY <2>1 DEF FiniteSubsetsOf
<1>2. PICK S \in Upto : \A R \in Upto : <<R, S>> \notin StrictSubsetOrdering(Nat)
  <2> HIDE DEF Upto
  <2>1. IsWellFoundedOn(StrictSubsetOrdering(Nat), FiniteSubsetsOf(Nat))
    BY FS_StrictSubsetOrderingWellFounded
  <2>2. Upto # {}
    BY DEF Upto
  <2>3. \E x \in Upto : \A y \in Upto : ~(<<y, x>> \in StrictSubsetOrdering(Nat))
    BY <1>1, <2>1, <2>2, WFMin
  <2> QED BY <2>3
<1>3. PICK x \in T : S = 1 .. x
  BY <1>2
<1>4. ASSUME NEW y \in T, y < x PROVE FALSE
  <2>1. 1 .. y \subseteq 1 .. x /\ 1 .. y # 1 .. x /\ 1 .. y \in Upto
    BY <1>4
  <2> QED BY <1>1, <1>2, <1>3, <2>1 DEF StrictSubsetOrdering, FiniteSubsetsOf
<1> QED BY <1>4

LEMMA Concatenated ==
  ASSUME NEW S, NEW s \in Seq(S), NEW t \in Seq(S)
  PROVE  /\ s \o t \in Seq(S) /\ Len(s \o t) = Len(s) + Len(t)
         /\ \A i \in 1 .. Len(s) + Len(t) :
              (s \o t)[i] = IF i <= Len(s) THEN s[i] ELSE t[i - Len(s)]
OBVIOUS

\* As far as places go, a document is depths in a sequence.
IsNested(doc) ==
  /\ Len(doc) \in Nat /\ DOMAIN doc = 1 .. Len(doc)
  /\ \A i \in 1 .. Len(doc) : doc[i].depth \in Nat

LEMMA LastInsideIs ==
  ASSUME NEW doc, IsNested(doc), NEW i \in 1 .. Len(doc)
  PROVE  LET last == LastInside(doc, i)
         IN  /\ last \in i .. Len(doc)
             /\ last = Len(doc) \/ doc[last + 1].depth <= doc[i].depth
             /\ \A j \in i + 1 .. last : doc[j].depth > doc[i].depth
<1> DEFINE Ends(k) == k = Len(doc) \/ doc[k + 1].depth <= doc[i].depth
           T == {k \in i .. Len(doc) : Ends(k)}
           n == Len(doc)
<1>1. n \in Nat /\ i \in 1 .. n
  BY DEF IsNested
<1>2. T \subseteq Nat /\ n \in T
  BY <1>1
<1>3. PICK k \in T : \A m \in T : k <= m
  <2> HIDE DEF T
  <2> QED BY <1>2, Least
<1>4. ASSUME NEW j \in i + 1 .. k PROVE doc[j].depth > doc[i].depth
  <2>1. j - 1 \in i .. n /\ ~(k <= j - 1) /\ j \in 1 .. n
    BY <1>1, <1>3
  <2>2. j - 1 \notin T
    <3> HIDE DEF T
    <3> QED BY <1>3, <2>1
  <2>3. ~Ends(j - 1)
    BY <2>1, <2>2
  <2>4. ~(doc[j].depth <= doc[i].depth)
    <3>1. (j - 1) + 1 = j
      OBVIOUS
    <3> QED BY <2>3, <3>1
  <2>5. doc[j].depth \in Nat /\ doc[i].depth \in Nat
    BY <1>1, <2>1 DEF IsNested
  <2> QED BY <2>4, <2>5
<1>5. \E last \in i .. Len(doc) :
        /\ last = Len(doc) \/ doc[last + 1].depth <= doc[i].depth
        /\ \A j \in i + 1 .. last : doc[j].depth > doc[i].depth
  BY <1>3, <1>4
<1> QED BY <1>5 DEF LastInside

LEMMA FewerThan ==
  ASSUME NEW b \in Int, NEW S, S \subseteq 1 .. b, NEW T, T \subseteq S
  PROVE  /\ IsFiniteSet(S) /\ Cardinality(S) \in Nat /\ Cardinality(T) \in Nat
         /\ Cardinality(T) <= Cardinality(S)
         /\ \A i \in S : i \notin T => Cardinality(T) < Cardinality(S)
<1>1. IsFiniteSet(1 .. b)
  BY FS_Interval
<1>2. IsFiniteSet(S)
  BY <1>1, FS_Subset
<1>3. IsFiniteSet(T) /\ Cardinality(T) <= Cardinality(S)
  BY <1>2, FS_Subset
<1>4. Cardinality(T) = Cardinality(S) => S = T
  BY <1>2, FS_Subset
<1>5. Cardinality(S) \in Nat /\ Cardinality(T) \in Nat
  BY <1>2, <1>3, FS_CardinalityType
<1>6. \A i \in S : i \notin T => Cardinality(T) # Cardinality(S)
  BY <1>4
<1> QED BY <1>2, <1>3, <1>5, <1>6

\* In the text, values start one after the other, and a value starts behind the
\* end of an other one if it comes behind all that is inside that one.
LEMMA Places ==
  ASSUME NEW doc, IsNested(doc), NEW i \in 1 .. Len(doc), NEW j \in 1 .. Len(doc)
  PROVE  /\ Start(doc, j) \in Nat /\ Start(doc, i) \in Nat /\ End(doc, i) \in Nat
         /\ Start(doc, j) > Start(doc, i) <=> j > i
         /\ Start(doc, j) > End(doc, i) <=> j > LastInside(doc, i)
<1> DEFINE n == Len(doc)
           last == [m \in 1 .. n |-> LastInside(doc, m)]
           Closed(k) == {m \in 1 .. k - 1 : last[m] < k}
           e == last[i]
           shut == {m \in 1 .. e : last[m] < e \/ (last[m] = e /\ m > i)}
<1>1. n \in Nat /\ i \in 1 .. n /\ j \in 1 .. n /\ \A k \in 1 .. n : last[k] \in k .. n
  BY LastInsideIs DEF IsNested
<1>2. \A k \in 1 .. n : Start(doc, k) = 2 * (k - 1) + Cardinality(Closed(k))
  <2> TAKE k \in 1 .. n
  <2>1. \A m \in 1 .. k - 1 : last[m] = LastInside(doc, m)
    BY <1>1
  <2>2. {m \in 1 .. k - 1 : LastInside(doc, m) < k} = Closed(k)
    BY <2>1
  <2> QED BY <2>2 DEF Start
<1>3. End(doc, i) = 2 * e + Cardinality(shut)
  <2>1. e = LastInside(doc, i) /\ \A m \in 1 .. e : last[m] = LastInside(doc, m)
    BY <1>1
  <2>2. {m \in 1 .. e : LastInside(doc, m) < e \/ (LastInside(doc, m) = e /\ m > i)} = shut
    BY <2>1
  <2> QED BY <2>1, <2>2 DEF End
<1>4. e \in i .. n /\ LastInside(doc, i) = e
  BY <1>1
<1> HIDE DEF n, last, e
<1>5. \A k \in 1 .. n : Cardinality(Closed(k)) \in Nat
  <2> TAKE k \in 1 .. n
  <2>1. Closed(k) \subseteq 1 .. k /\ Closed(k) \subseteq Closed(k) /\ k \in Int
    BY <1>1
  <2> HIDE DEF Closed
  <2> QED BY <2>1, FewerThan
<1>6. Cardinality(shut) \in Nat
  <2>1. shut \subseteq 1 .. e /\ shut \subseteq shut /\ e \in Int
    BY <1>1, <1>4
  <2> HIDE DEF shut
  <2> QED BY <2>1, FewerThan
<1>7. ASSUME NEW k \in 1 .. n, NEW m \in 1 .. n, k < m
      PROVE  Start(doc, m) > Start(doc, k)
  <2>1. Closed(k) \subseteq Closed(m) /\ Closed(m) \subseteq 1 .. m /\ m \in Int
    BY <1>1, <1>7
  <2>2. Cardinality(Closed(k)) <= Cardinality(Closed(m))
    <3> HIDE DEF Closed
    <3> QED BY <2>1, FewerThan
  <2> HIDE DEF Closed
  <2> QED BY <1>1, <1>2, <1>5, <1>7, <2>2, SMTT(30)
<1>8. Start(doc, j) \in Nat /\ Start(doc, i) \in Nat /\ End(doc, i) \in Nat
  <2> HIDE DEF Closed, shut
  <2> QED BY <1>1, <1>2, <1>3, <1>4, <1>5, <1>6, SMTT(30)
<1>9. Start(doc, j) > Start(doc, i) <=> j > i
  <2>1. CASE j > i
    BY <1>1, <1>7, <2>1
  <2>2. CASE j < i
    BY <1>1, <1>7, <1>8, <2>2
  <2> QED BY <1>1, <1>8, <2>1, <2>2
<1>10. CASE j > e
  <2>1. shut \subseteq Closed(j)
    BY <1>1, <1>4, <1>10
  <2>2. i \in Closed(j) /\ i \notin shut
    BY <1>1, <1>4, <1>10 DEF e
  <2>3. Closed(j) \subseteq 1 .. j /\ j \in Int
    BY <1>1
  <2>4. Cardinality(shut) < Cardinality(Closed(j))
    <3> HIDE DEF Closed, shut
    <3> QED BY <2>1, <2>2, <2>3, FewerThan
  <2> HIDE DEF Closed, shut
  <2> QED BY <1>1, <1>2, <1>3, <1>4, <1>5, <1>6, <1>8, <1>9, <1>10, <2>4, SMTT(30)
<1>11. CASE ~(j > e)
  <2>1. Closed(j) \subseteq shut /\ shut \subseteq 1 .. e /\ e \in Int
    BY <1>1, <1>4, <1>11
  <2>2. Cardinality(Closed(j)) <= Cardinality(shut)
    <3> HIDE DEF Closed, shut
    <3> QED BY <2>1, FewerThan
  <2> HIDE DEF Closed, shut
  <2> QED BY <1>1, <1>2, <1>3, <1>4, <1>5, <1>6, <1>8, <1>9, <1>11, <2>2, SMTT(30)
<1> QED BY <1>10, <1>11

\* A recursion to larger numbers, up to some bound, that puts pieces of numbers
\* together, and a function that does what it says.
IsForward(D, N, Done, piece, next) ==
  /\ D \subseteq Nat /\ N \in Nat
  /\ \A t \in D : t \notin Done =>
       t < N /\ next[t] \in D /\ next[t] > t /\ piece[t] \in Seq(Nat)

Follows(f, D, Done, piece, next) ==
  /\ f \in [D -> Seq(Nat)]
  /\ \A t \in D : f[t] = IF t \in Done THEN <<>> ELSE piece[t] \o f[next[t]]

LEMMA Forward ==
  ASSUME NEW D, NEW N, NEW Done, NEW piece, NEW next, IsForward(D, N, Done, piece, next)
  PROVE  \E f : Follows(f, D, Done, piece, next)
<1> DEFINE Step(g, t) == IF t \in Done THEN <<>> ELSE piece[t] \o g[next[t]]
           Behind(g, m) == \A t \in D : t + m >= N => g[t] \in Seq(Nat) /\ g[t] = Step(g, t)
           T == {m \in Nat : ~ \E g : Behind(g, m)}
<1>0. /\ D \subseteq Nat /\ N \in Nat
      /\ \A t \in D : t \notin Done =>
           t < N /\ next[t] \in D /\ next[t] > t /\ piece[t] \in Seq(Nat)
  BY DEF IsForward
<1>1. T = {}
  <2> SUFFICES ASSUME T # {} PROVE FALSE
    OBVIOUS
  <2>1. PICK m \in T : \A k \in T : m <= k
    <3>1. T \subseteq Nat
      OBVIOUS
    <3> HIDE DEF T
    <3> QED BY <3>1, Least
  <2>2. m \in Nat /\ ~ \E g : Behind(g, m)
    OBVIOUS
  <2>3. m # 0
    <3> DEFINE none == [u \in D |-> <<>>]
    <3>1. ASSUME NEW t \in D, t + 0 >= N PROVE none[t] \in Seq(Nat) /\ none[t] = Step(none, t)
      <4>1. t \in Done
        BY <1>0, <3>1
      <4> QED BY <4>1
    <3>2. Behind(none, 0)
      <4> HIDE DEF Step, none
      <4> QED BY <3>1
    <3> HIDE DEF Behind
    <3> QED BY <2>2, <3>2
  <2>4. PICK g : Behind(g, m - 1)
    <3>1. m - 1 \in Nat /\ ~(m <= m - 1)
      BY <2>2, <2>3
    <3>2. m - 1 \notin T
      <4> HIDE DEF T
      <4> QED BY <2>1, <3>1
    <3> HIDE DEF Behind
    <3> QED BY <3>1, <3>2
  <2> DEFINE h == [t \in D |-> IF t + m = N THEN Step(g, t) ELSE g[t]]
  <2>5. ASSUME NEW t \in D, t + m >= N PROVE h[t] \in Seq(Nat) /\ h[t] = Step(h, t)
    <3>1. ASSUME t \notin Done
          PROVE  h[next[t]] = g[next[t]] /\ g[next[t]] \in Seq(Nat) /\ piece[t] \in Seq(Nat)
      <4>1. /\ next[t] \in D /\ next[t] > t /\ t \in Nat /\ next[t] \in Nat
            /\ piece[t] \in Seq(Nat)
        BY <1>0, <3>1
      <4>2. next[t] + m # N /\ next[t] + (m - 1) >= N
        <5>1. \A u \in Nat, v \in Nat, k \in Nat, l \in Nat :
                u + k >= l /\ v > u => v + k # l /\ v + (k - 1) >= l
          OBVIOUS
        <5>2. N \in Nat /\ m \in Nat
          BY <1>0, <2>2
        <5> HIDE DEF Step, Behind, h, T
        <5> QED BY <2>5, <4>1, <5>1, <5>2
      <4>3. g[next[t]] \in Seq(Nat)
        <5> HIDE DEF Step
        <5> QED BY <2>4, <4>1, <4>2
      <4> QED BY <4>1, <4>2, <4>3
    <3>2. h[t] = Step(g, t)
      <4>1. CASE t + m = N
        BY <4>1
      <4>2. CASE t + m # N
        <5>1. t + (m - 1) >= N /\ h[t] = g[t]
          BY <1>0, <2>2, <2>5, <4>2
        <5> HIDE DEF Step
        <5> QED BY <2>4, <5>1
      <4> QED BY <4>1, <4>2
    <3>3. Step(g, t) \in Seq(Nat) /\ Step(h, t) = Step(g, t)
      <4> HIDE DEF h
      <4> QED BY <3>1
    <3> HIDE DEF h, Step
    <3> QED BY <3>2, <3>3
  <2>6. Behind(h, m)
    <3> HIDE DEF h, Step
    <3> QED BY <2>5
  <2> HIDE DEF h, Behind
  <2> QED BY <2>2, <2>6
<1>2. PICK g : Behind(g, N)
  <2> HIDE DEF Behind
  <2> QED BY <1>0, <1>1
<1> DEFINE f == [t \in D |-> g[t]]
<1>3. ASSUME NEW t \in D PROVE f[t] \in Seq(Nat) /\ f[t] = Step(f, t)
  <2>1. t + N >= N
    BY <1>0
  <2>2. g[t] \in Seq(Nat) /\ g[t] = Step(g, t)
    <3> HIDE DEF Step
    <3> QED BY <1>2, <2>1
  <2> QED BY <1>0, <2>2
<1>4. f = [t \in D |-> f[t]]
  OBVIOUS
<1> HIDE DEF f
<1>5. f \in [D -> Seq(Nat)]
  <2> HIDE DEF Step
  <2> QED BY <1>3, <1>4
<1> QED BY <1>3, <1>5 DEF Follows

LEMMA ForwardOnly ==
  ASSUME NEW D, NEW N, NEW Done, NEW piece, NEW next, IsForward(D, N, Done, piece, next),
         NEW f, Follows(f, D, Done, piece, next), NEW g,
         \A t \in D : g[t] = IF t \in Done THEN <<>> ELSE piece[t] \o g[next[t]]
  PROVE  \A t \in D : g[t] = f[t]
<1> DEFINE Wrong == {m \in Nat : \E t \in D : t + m = N /\ g[t] # f[t]}
<1>1. ASSUME NEW m \in Wrong PROVE \E k \in Wrong : k < m
  <2>1. PICK t \in D : t + m = N /\ g[t] # f[t]
    OBVIOUS
  <2>2. f[t] = IF t \in Done THEN <<>> ELSE piece[t] \o f[next[t]]
    BY DEF Follows
  <2>3. t \notin Done /\ g[next[t]] # f[next[t]]
    BY <2>1, <2>2
  <2>4. /\ t \in Nat /\ N \in Nat /\ t < N /\ next[t] \in D /\ next[t] \in Nat
        /\ next[t] > t
    BY <2>3 DEF IsForward
  <2>5. next[t] <= N
    <3>1. CASE next[t] \in Done
      BY <2>3, <2>4, <3>1 DEF Follows
    <3>2. CASE next[t] \notin Done
      BY <2>4, <3>2 DEF IsForward
    <3> QED BY <3>1, <3>2
  <2>6. N - next[t] \in Nat /\ next[t] + (N - next[t]) = N /\ N - next[t] < m
    BY <2>1, <2>4, <2>5
  <2> QED BY <2>3, <2>4, <2>6
<1>2. Wrong = {}
  <2>1. Wrong \subseteq Nat
    OBVIOUS
  <2>2. \A k, m \in Wrong : ~(k < m /\ m <= k)
    BY <2>1
  <2> HIDE DEF Wrong
  <2> QED BY <1>1, <2>1, <2>2, Least
<1>3. ASSUME NEW t \in D PROVE g[t] = f[t]
  <2>1. CASE t \in Done
    BY <2>1 DEF Follows
  <2>2. CASE t \notin Done
    <3>1. t \in Nat /\ N \in Nat /\ t < N
      BY <2>2 DEF IsForward
    <3>2. N - t \in Nat /\ t + (N - t) = N
      BY <3>1
    <3> QED BY <1>2, <3>2
  <2> QED BY <2>1, <2>2
<1> QED BY <1>3

\* What is directly inside a value, from any place on.
InsideFrom(rest, doc, i) ==
  /\ rest \in [Nat -> Seq(Nat)]
  /\ Inside(doc, i) = rest[i + 1]
  /\ \A j \in Nat : rest[j] =
       IF j > LastInside(doc, i) THEN <<>>
       ELSE (IF doc[j].depth = doc[i].depth + 1 THEN <<j>> ELSE <<>>) \o rest[j + 1]

LEMMA InsideUnfolds ==
  ASSUME NEW doc, IsNested(doc), NEW i \in 1 .. Len(doc)
  PROVE  \E rest : InsideFrom(rest, doc, i)
<1> DEFINE last == LastInside(doc, i)
           Piece(j) == IF doc[j].depth = doc[i].depth + 1 THEN <<j>> ELSE <<>>
           done == {j \in Nat : j > last}
           piece == [j \in Nat |-> Piece(j)]
           next == [j \in Nat |-> j + 1]
           IsFrom(f) == f = [j \in Nat |-> IF j > last THEN <<>> ELSE Piece(j) \o f[j + 1]]
<1>1. last \in Nat
  BY LastInsideIs DEF IsNested
<1>2. IsForward(Nat, last + 1, done, piece, next)
  <2> HIDE DEF last
  <2> QED BY <1>1 DEF IsForward
<1>3. PICK f : Follows(f, Nat, done, piece, next)
  <2> HIDE DEF last, done, piece, next
  <2> QED BY <1>2, Forward
<1>4. \E g : IsFrom(g)
  <2>1. \A j \in Nat : f[j] = IF j > last THEN <<>> ELSE Piece(j) \o f[j + 1]
    <3> HIDE DEF last, Piece
    <3> QED BY <1>3 DEF Follows
  <2>2. f = [j \in Nat |-> f[j]]
    BY <1>3 DEF Follows
  <2>3. IsFrom(f)
    <3> HIDE DEF last, Piece
    <3> QED BY <2>1, <2>2
  <2> HIDE DEF IsFrom
  <2> QED BY <2>3
<1> DEFINE rest == CHOOSE g : IsFrom(g)
<1>5. IsFrom(rest)
  <2> HIDE DEF IsFrom
  <2> QED BY <1>4
<1>6. Inside(doc, i) = rest[i + 1]
  BY DEF Inside
<1>7. \A j \in Nat : rest[j] = IF j > last THEN <<>> ELSE Piece(j) \o rest[j + 1]
  <2> HIDE DEF rest, last, Piece
  <2> QED BY <1>5
<1>8. \A j \in Nat : rest[j] = f[j]
  <2>1. \A j \in Nat : rest[j] = IF j \in done THEN <<>> ELSE piece[j] \o rest[next[j]]
    <3> HIDE DEF rest, last, Piece
    <3> QED BY <1>7
  <2> HIDE DEF rest, done, piece, next, last
  <2> QED BY <1>2, <1>3, <2>1, ForwardOnly
<1>9. rest \in [Nat -> Seq(Nat)]
  <2>1. rest = [j \in Nat |-> rest[j]]
    <3> HIDE DEF rest, last, Piece
    <3> QED BY <1>5
  <2> HIDE DEF rest
  <2> QED BY <1>3, <1>8, <2>1 DEF Follows
<1> HIDE DEF rest
<1>10. InsideFrom(rest, doc, i)
  BY <1>6, <1>7, <1>9 DEF InsideFrom
<1> QED BY <1>10

\* What the loop finds, one after the other: it goes from the first token behind
\* the box to the one behind all that the last element or its value has inside.
LEMMA ElementsUnfold ==
  ASSUME NEW doc, IsNested(doc), NEW b \in 0 .. Len(doc) - 1, NEW ahead \in {0, 1}
  PROVE  \E behind :
           /\ behind \in [0 .. Len(doc) - 1 -> Seq(Nat)]
           /\ Scan(Tokens(doc), b, ahead) = behind[b]
           /\ behind[b] = IF b + 1 >= LastInside(doc, b + 1) THEN <<>> ELSE <<b + 1>> \o behind[b + 1]
           /\ \A t \in b + 1 .. LastInside(doc, b + 1) - 1 : t + ahead < Len(doc) =>
                LET last == LastInside(doc, t + ahead + 1)
                IN  behind[t] = IF last >= LastInside(doc, b + 1) THEN <<>>
                                ELSE <<last>> \o behind[last]
<1> DEFINE json == Tokens(doc)
           D == DOMAIN json
           N == Len(doc)
           last(t) == LastInside(doc, t + 1)
           numberOfTokens == Cardinality(D)
           prevEnd(t) == IF t = b THEN json[b].start ELSE TokenAt(json, t + ahead).end
           Stops(u) == u = numberOfTokens \/ json[u].start > json[b].end
           Skips(t, u) == ~Stops(u) /\ json[u].start <= prevEnd(t)
           After(t, u) == ~Skips(t, u) /\ \A v \in t + 1 .. u - 1 : Skips(t, v)
           next(t) == CHOOSE u \in t + 1 .. numberOfTokens : After(t, u)
           IsBehind(f) ==
             f = [t \in D |-> IF Stops(next(t)) THEN <<>> ELSE <<next(t)>> \o f[next(t)]]
           behind == CHOOSE f : IsBehind(f)
<1>1. N \in Nat /\ D = 0 .. N - 1 /\ numberOfTokens = N /\ b \in D
  <2>1. N \in Nat /\ D = 0 .. N - 1
    BY DEF Tokens, IsNested
  <2>2. Cardinality(0 .. N - 1) = N
    <3>1. \A n \in Nat : Cardinality(0 .. n - 1) = n
      <4> TAKE n \in Nat
      <4>1. Cardinality(0 .. n - 1) = IF 0 > n - 1 THEN 0 ELSE n - 1 - 0 + 1
        BY FS_Interval
      <4> QED BY <4>1
    <3> QED BY <2>1, <3>1
  <2> QED BY <2>1, <2>2
<1>2. Scan(json, b, ahead) = behind[b]
  BY DEF Scan
<1>3. \A t \in D : /\ json[t].start = Start(doc, t + 1) /\ json[t].end = End(doc, t + 1)
                   /\ TokenAt(json, t) = json[t] /\ t + 1 \in 1 .. Len(doc)
  BY <1>1 DEF Tokens, TokenAt
<1>4. \A t \in D : last(t) \in t + 1 .. N
  <2>1. \A i \in 1 .. Len(doc) : LastInside(doc, i) \in i .. Len(doc)
    BY LastInsideIs
  <2> QED BY <1>1, <1>3, <2>1
<1>5. \A u \in 0 .. N : Stops(u) <=> u >= last(b)
  <2> TAKE u \in 0 .. N
  <2>1. CASE u = N
    BY <1>1, <1>4, <2>1
  <2>2. CASE u # N
    <3>1. u \in D
      BY <1>1, <2>2
    <3>2. Start(doc, u + 1) > End(doc, b + 1) <=> u + 1 > LastInside(doc, b + 1)
      BY <1>1, <1>3, <3>1, Places
    <3>3. json[u].start > json[b].end <=> u + 1 > last(b)
      BY <1>1, <1>3, <3>1, <3>2
    <3>4. u + 1 > last(b) <=> u >= last(b)
      <4>1. last(b) \in Int
        <5> HIDE DEF last, D, N
        <5> QED BY <1>1, <1>4
      <4> HIDE DEF last
      <4> QED BY <4>1
    <3> QED BY <1>1, <2>2, <3>3, <3>4
  <2> QED BY <2>1, <2>2
<1>6. \A t \in D : \A u \in t + 1 .. N :
        t = b \/ t + ahead < N =>
          (Skips(t, u) <=> u < last(b) /\ t # b /\ u < last(t + ahead))
  <2> TAKE t \in D
  <2> TAKE u \in t + 1 .. N
  <2> HAVE t = b \/ t + ahead < N
  <2>0. t # b => t + ahead \in D
    BY <1>1
  <2>1. u \in 0 .. N /\ last(b) \in 0 .. N /\ (t # b => last(t + ahead) \in Int) /\ u > t
    <3> HIDE DEF N, D, last
    <3> QED BY <1>1, <1>4, <2>0
  <2>2. Stops(u) <=> u >= last(b)
    BY <1>5, <2>1
  <2>3. CASE u >= last(b)
    <3> HIDE DEF Stops, last
    <3> QED BY <2>1, <2>2, <2>3
  <2>4. CASE ~(u >= last(b))
    <3>1. u \in D /\ u < last(b) /\ ~Stops(u)
      <4>1. u # N
        <5> HIDE DEF N, last
        <5> QED BY <1>1, <2>1, <2>4
      <4> HIDE DEF Stops, last
      <4> QED BY <1>1, <2>1, <2>2, <2>4, <4>1
    <3>2. CASE t = b
      <4>1. Start(doc, u + 1) > Start(doc, b + 1) /\ Start(doc, u + 1) \in Nat /\ Start(doc, b + 1) \in Nat
        <5>1. u + 1 > b + 1
          BY <1>1, <2>1, <3>2
        <5> QED BY <1>1, <1>3, <3>1, <5>1, Places
      <4>2. ~(json[u].start <= prevEnd(t))
        BY <1>1, <1>3, <3>1, <3>2, <4>1
      <4> HIDE DEF prevEnd, Stops
      <4> QED BY <3>2, <4>2
    <3>3. CASE t # b
      <4>0. PICK s \in D : s = t + ahead
        BY <2>0, <3>3
      <4>1. /\ Start(doc, u + 1) > End(doc, s + 1) <=> u + 1 > LastInside(doc, s + 1)
            /\ Start(doc, u + 1) \in Nat /\ End(doc, s + 1) \in Nat
        BY <1>3, <3>1, Places
      <4>2. json[u].start <= prevEnd(t) <=> ~(u + 1 > last(s))
        <5>1. prevEnd(t) = End(doc, s + 1) /\ json[u].start = Start(doc, u + 1)
          BY <1>3, <3>1, <3>3, <4>0
        <5> HIDE DEF prevEnd
        <5> QED BY <4>1, <5>1
      <4>3. ~(u + 1 > last(s)) <=> u < last(s)
        <5>1. last(s) \in Int
          BY <2>1, <3>3, <4>0
        <5> HIDE DEF last
        <5> QED BY <1>1, <2>1, <5>1
      <4> HIDE DEF prevEnd, Stops, last
      <4> QED BY <3>1, <3>3, <4>0, <4>2, <4>3
    <3> QED BY <3>2, <3>3
  <2> QED BY <2>3, <2>4
<1>7. \A t \in D : next(t) \in t + 1 .. N /\ After(t, next(t))
  <2> TAKE t \in D
  <2> DEFINE T == {u \in t + 1 .. N : ~Skips(t, u)}
  <2>1. N \in T /\ T \subseteq Nat
    <3> HIDE DEF prevEnd
    <3> QED BY <1>1
  <2>2. PICK u \in T : \A v \in T : u <= v
    <3> HIDE DEF T
    <3> QED BY <2>1, Least
  <2>3. ASSUME NEW v \in t + 1 .. u - 1 PROVE Skips(t, v)
    <3>1. v \in t + 1 .. N /\ ~(u <= v)
      BY <1>1, <2>2
    <3> HIDE DEF Skips
    <3> QED BY <2>2, <3>1
  <2>4. u \in t + 1 .. numberOfTokens /\ After(t, u)
    <3> HIDE DEF Skips
    <3> QED BY <1>1, <2>2, <2>3
  <2> HIDE DEF After
  <2> QED BY <1>1, <2>4
<1>8. IsBehind(behind) /\ \A t \in D : behind[t] \in Seq(Nat)
  <2> DEFINE done == {t \in D : Stops(next(t))}
             piece == [t \in D |-> <<next(t)>>]
             after == [t \in D |-> next(t)]
  <2>1. IsForward(D, N, done, piece, after)
    <3>1. ASSUME NEW t \in D, ~Stops(next(t)) PROVE next(t) \in D /\ next(t) > t /\ t < N
      <4>1. next(t) # N
        BY <1>1, <3>1
      <4> HIDE DEF next, Stops
      <4> QED BY <1>1, <1>7, <4>1
    <3>2. \A t \in D : next(t) \in Nat
      <4> HIDE DEF next
      <4> QED BY <1>1, <1>7
    <3>3. D \subseteq Nat /\ N \in Nat
      BY <1>1
    <3> HIDE DEF D, N, next, Stops
    <3> QED BY <3>1, <3>2, <3>3 DEF IsForward
  <2>2. PICK f : Follows(f, D, done, piece, after)
    <3> HIDE DEF D, N, done, piece, after
    <3> QED BY <2>1, Forward
  <2>3. IsBehind(f)
    <3>1. \A t \in D : f[t] = IF Stops(next(t)) THEN <<>> ELSE <<next(t)>> \o f[next(t)]
      <4> HIDE DEF D, Stops, next
      <4> QED BY <2>2 DEF Follows
    <3>2. f = [t \in D |-> f[t]]
      BY <2>2 DEF Follows
    <3> HIDE DEF D, Stops, next
    <3> QED BY <3>1, <3>2
  <2>4. IsBehind(behind)
    <3> HIDE DEF IsBehind
    <3> QED BY <2>3
  <2> HIDE DEF behind
  <2>5. \A t \in D : behind[t] = IF t \in done THEN <<>> ELSE piece[t] \o behind[after[t]]
    <3> HIDE DEF D, Stops, next
    <3> QED BY <2>4
  <2>6. \A t \in D : behind[t] = f[t]
    <3> HIDE DEF D, N, done, piece, after
    <3> QED BY <2>1, <2>2, <2>5, ForwardOnly
  <2>7. \A t \in D : behind[t] \in Seq(Nat)
    <3> HIDE DEF D
    <3> QED BY <2>2, <2>6 DEF Follows
  <2> HIDE DEF IsBehind
  <2> QED BY <2>4, <2>7
<1> HIDE DEF behind
<1>9. ASSUME NEW t \in D, NEW u \in t + 1 .. N, ~Skips(t, u), \A v \in t + 1 .. u - 1 : Skips(t, v)
      PROVE  behind[t] = IF u >= last(b) THEN <<>> ELSE <<u>> \o behind[u]
  <2>1. next(t) = u
    <3>1. next(t) \in t + 1 .. N /\ After(t, next(t))
      BY <1>7
    <3> HIDE DEF next, Skips
    <3> QED BY <1>1, <1>9, <3>1
  <2>2. behind[t] = IF Stops(u) THEN <<>> ELSE <<u>> \o behind[u]
    <3> HIDE DEF next, Stops, D
    <3> QED BY <1>8, <2>1
  <2>3. u \in 0 .. N
    BY <1>1
  <2> HIDE DEF Stops, last
  <2> QED BY <1>5, <2>2, <2>3
<1>10. behind[b] = IF b + 1 >= last(b) THEN <<>> ELSE <<b + 1>> \o behind[b + 1]
  <2>1. b + 1 \in b + 1 .. N /\ b + 1 .. (b + 1) - 1 = {}
    BY <1>1
  <2>2. ~Skips(b, b + 1)
    <3> HIDE DEF Skips
    <3> QED BY <1>1, <1>6, <2>1
  <2> HIDE DEF Skips, last
  <2> QED BY <1>1, <1>9, <2>1, <2>2
<1>11. ASSUME NEW t \in b + 1 .. last(b) - 1, t + ahead < N
       PROVE  behind[t] = IF last(t + ahead) >= last(b) THEN <<>>
                          ELSE <<last(t + ahead)>> \o behind[last(t + ahead)]
  <2>1. t \in D /\ t # b /\ last(b) \in t + 1 .. N
    <3>1. b \in D /\ last(b) \in b + 1 .. N
      BY <1>1, <1>4
    <3> HIDE DEF N, D, last
    <3> QED BY <1>1, <3>1
  <2>2. PICK l \in t + 1 .. N : l = last(t + ahead)
    <3>1. t + ahead \in D
      <4> HIDE DEF last
      <4> QED BY <1>1, <1>11, <2>1
    <3>2. last(t + ahead) \in t + ahead + 1 .. N
      <4> HIDE DEF D, last
      <4> QED BY <1>4, <3>1
    <3>3. last(t + ahead) \in t + 1 .. N
      <4> HIDE DEF last
      <4> QED BY <1>1, <2>1, <3>2
    <3> QED BY <3>3
  <2>3. \A u \in t + 1 .. N : Skips(t, u) <=> u < last(b) /\ u < l
    <3> HIDE DEF Skips, last
    <3> QED BY <1>1, <1>6, <1>11, <2>1, <2>2
  <2>4. CASE l >= last(b)
    <3>1. ~Skips(t, last(b)) /\ \A v \in t + 1 .. last(b) - 1 : Skips(t, v)
      <4> HIDE DEF Skips, last
      <4> QED BY <1>1, <2>1, <2>2, <2>3, <2>4
    <3>2. behind[t] = <<>>
      <4>1. last(b) >= last(b)
        BY <1>1, <2>1
      <4> HIDE DEF Skips, last
      <4> QED BY <1>9, <2>1, <3>1, <4>1
    <3> HIDE DEF last
    <3> QED BY <2>2, <2>4, <3>2
  <2>5. CASE ~(l >= last(b))
    <3>1. ~Skips(t, l) /\ \A v \in t + 1 .. l - 1 : Skips(t, v)
      <4> HIDE DEF Skips, last
      <4> QED BY <1>1, <2>1, <2>2, <2>3, <2>5
    <3> HIDE DEF Skips, last
    <3> QED BY <1>9, <2>1, <2>2, <2>5, <3>1
  <2> QED BY <2>4, <2>5
<1>12. behind \in [0 .. Len(doc) - 1 -> Seq(Nat)]
  <2>1. behind = [t \in D |-> behind[t]]
    <3> HIDE DEF D, Stops, next
    <3> QED BY <1>8
  <2> QED BY <1>1, <1>8, <2>1
<1> QED BY <1>2, <1>10, <1>11, <1>12

\* Indices of values count from 1, those of tokens from 0.
Shifted(s) == [n \in 1 .. Len(s) |-> s[n] + 1]

LEMMA ShiftedMore ==
  ASSUME NEW s \in Seq(Nat), NEW t \in Nat
  PROVE  Shifted(<<t>> \o s) = <<t + 1>> \o Shifted(s)
<1>1. /\ Len(<<t>> \o s) = Len(s) + 1
      /\ \A n \in 1 .. Len(s) + 1 : (<<t>> \o s)[n] = IF n = 1 THEN t ELSE s[n - 1]
  OBVIOUS
<1>2. Shifted(s) \in Seq(Nat) /\ Len(Shifted(s)) = Len(s)
  BY DEF Shifted
<1>3. \A n \in 1 .. Len(s) : Shifted(s)[n] = s[n] + 1
  BY DEF Shifted
<1> DEFINE left == Shifted(<<t>> \o s)
           tail == Shifted(s)
           right == <<t + 1>> \o tail
<1>4. /\ right \in Seq(Nat) /\ Len(right) = Len(s) + 1
      /\ \A n \in 1 .. Len(s) + 1 : right[n] = IF n = 1 THEN t + 1 ELSE tail[n - 1]
  <2> HIDE DEF tail
  <2> QED BY <1>2 DEF tail
<1>5. left = [n \in 1 .. Len(s) + 1 |-> (<<t>> \o s)[n] + 1]
  BY <1>1 DEF Shifted
<1>6. \A n \in 1 .. Len(s) + 1 : left[n] = right[n]
  <2> TAKE n \in 1 .. Len(s) + 1
  <2>1. left[n] = IF n = 1 THEN t + 1 ELSE s[n - 1] + 1
    <3> HIDE DEF left
    <3> QED BY <1>1, <1>5
  <2>2. n # 1 => n - 1 \in 1 .. Len(s)
    OBVIOUS
  <2> HIDE DEF left, right
  <2> QED BY <1>3, <1>4, <2>1, <2>2
<1>7. left = right
  <2>1. left = [n \in 1 .. Len(s) + 1 |-> left[n]]
    <3> HIDE DEF left
    <3> QED BY <1>5
  <2>2. right = [n \in 1 .. Len(s) + 1 |-> right[n]]
    <3> HIDE DEF right
    <3> QED BY <1>4
  <2> HIDE DEF left, right
  <2> QED BY <1>6, <2>1, <2>2
<1> QED BY <1>7

LEMMA Stepwise ==
  ASSUME NEW f, NEW a \in Nat, NEW b \in Nat, \A j \in a .. b : f[j] = f[j + 1], a <= b + 1
  PROVE  f[a] = f[b + 1]
<1> DEFINE Wrong == {j \in Nat : j >= a /\ j <= b + 1 /\ f[j] # f[a]}
<1>1. CASE Wrong = {}
  BY <1>1
<1>2. CASE Wrong # {}
  <2>1. Wrong \subseteq Nat
    OBVIOUS
  <2>2. PICK j \in Wrong : \A k \in Wrong : j <= k
    <3> HIDE DEF Wrong
    <3> QED BY <1>2, <2>1, Least
  <2>3. j \in Nat /\ j >= a /\ j <= b + 1 /\ f[j] # f[a]
    OBVIOUS
  <2>4. j - 1 \in a .. b /\ ~(j <= j - 1) /\ j - 1 + 1 = j /\ j - 1 \in Nat
    BY <2>3
  <2>5. j - 1 \in Wrong
    <3>1. f[j - 1] = f[j]
      BY <2>4
    <3> QED BY <2>3, <2>4, <3>1
  <2> HIDE DEF Wrong
  <2> QED BY <2>2, <2>4, <2>5
<1> QED BY <1>1, <1>2

(* array_get_nth_element finds, by where tokens start and end in the text, *)
(* what is directly inside an array or an object, in order and nothing     *)
(* else, for every document.                                               *)
THEOREM ElementsAreInside ==
  ASSUME NEW doc, IsNested(doc), NEW b \in 0 .. Len(doc) - 1,
         \A i \in 1 .. Len(doc) - 1 : doc[i + 1].depth <= doc[i].depth + 1
  PROVE  /\ ArrayElements(Tokens(doc), b) \in Seq(Nat)
         /\ Inside(doc, b + 1) = Shifted(ArrayElements(Tokens(doc), b))
<1> DEFINE N == Len(doc)
           last == [i \in 1 .. N |-> LastInside(doc, i)]
           depth == [i \in 1 .. N |-> doc[i].depth]
           box == b + 1
           end == last[box]
           inner == depth[box] + 1
<1>1. N \in Nat /\ box \in 1 .. N /\ b \in Nat
  BY DEF IsNested
<1>2. \A i \in 1 .. N :
        /\ depth[i] \in Nat /\ last[i] \in i .. N
        /\ last[i] = N \/ depth[last[i] + 1] <= depth[i]
        /\ \A j \in i + 1 .. last[i] : depth[j] > depth[i]
        /\ i # N => depth[i + 1] <= depth[i] + 1
  <2> TAKE i \in 1 .. N
  <2>1. /\ depth[i] = doc[i].depth /\ doc[i].depth \in Nat /\ last[i] = LastInside(doc, i)
        /\ i # N => i + 1 \in 1 .. N /\ i \in 1 .. N - 1
    <3>1. i \in 1 .. Len(doc) /\ doc[i].depth \in Nat
      BY DEF IsNested
    <3>2. i # N => i + 1 \in 1 .. N /\ i \in 1 .. N - 1
      <4> HIDE DEF N
      <4> QED BY <1>1
    <3> QED BY <3>1, <3>2
  <2>2. /\ last[i] \in i .. N
        /\ last[i] = N \/ doc[last[i] + 1].depth <= doc[i].depth
        /\ \A j \in i + 1 .. last[i] : doc[j].depth > doc[i].depth
    BY <2>1, LastInsideIs
  <2>3. \A j \in 1 .. N : depth[j] = doc[j].depth
    OBVIOUS
  <2> HIDE DEF N, last, depth
  <2>4. /\ last[i] # N => last[i] + 1 \in 1 .. N
        /\ \A j \in i + 1 .. last[i] : j \in 1 .. N
    BY <1>1, <2>2
  <2> QED BY <2>1, <2>2, <2>3, <2>4 DEF N
<1>3. PICK rest : InsideFrom(rest, doc, box)
  BY <1>1, InsideUnfolds
<1>4. PICK behind :
        /\ behind \in [0 .. N - 1 -> Seq(Nat)]
        /\ Scan(Tokens(doc), b, 0) = behind[b]
        /\ behind[b] = IF b + 1 >= LastInside(doc, b + 1) THEN <<>> ELSE <<b + 1>> \o behind[b + 1]
        /\ \A t \in b + 1 .. LastInside(doc, b + 1) - 1 : t + 0 < N =>
             LET after == LastInside(doc, t + 0 + 1)
             IN  behind[t] = IF after >= LastInside(doc, b + 1) THEN <<>>
                             ELSE <<after>> \o behind[after]
  BY ElementsUnfold DEF N
<1>5. LastInside(doc, box) = end /\ doc[box].depth = depth[box] /\ end \in box .. N
  BY <1>1, <1>2
<1>6. \A j \in Nat : j > end => rest[j] = <<>>
  <2> HIDE DEF end
  <2> QED BY <1>3, <1>5 DEF InsideFrom
<1>7. \A j \in box + 1 .. end :
        /\ j \in 1 .. N /\ j \in Nat /\ rest[j + 1] \in Seq(Nat)
        /\ depth[j] = inner => rest[j] = <<j>> \o rest[j + 1]
        /\ depth[j] # inner => rest[j] = rest[j + 1]
  <2> TAKE j \in box + 1 .. end
  <2>1. j \in Nat /\ j \in 1 .. N /\ ~(j > end) /\ rest[j + 1] \in Seq(Nat)
    <3>1. j \in Nat /\ j \in 1 .. N /\ ~(j > end) /\ j + 1 \in Nat
      <4> HIDE DEF N, end
      <4> QED BY <1>1, <1>5
    <3> HIDE DEF N, end
    <3> QED BY <1>3, <3>1 DEF InsideFrom
  <2>2. depth[j] = doc[j].depth
    BY <2>1
  <2>3. rest[j] = (IF depth[j] = inner THEN <<j>> ELSE <<>>) \o rest[j + 1]
    <3> HIDE DEF depth, end
    <3> QED BY <1>3, <1>5, <2>1, <2>2 DEF InsideFrom
  <2>4. <<>> \o rest[j + 1] = rest[j + 1]
    BY <2>1
  <2> HIDE DEF depth, inner
  <2> QED BY <2>1, <2>3, <2>4
<1>8. /\ behind[b] = IF box >= end THEN <<>> ELSE <<box>> \o behind[box]
      /\ \A t \in box .. end - 1 : t + 1 \in 1 .. N /\ t \in 0 .. N - 1 /\
           behind[t] = IF last[t + 1] >= end THEN <<>> ELSE <<last[t + 1]>> \o behind[last[t + 1]]
  <2>1. behind[b] = IF box >= end THEN <<>> ELSE <<box>> \o behind[box]
    BY <1>4, <1>5
  <2>2. ASSUME NEW t \in box .. end - 1
        PROVE  t + 1 \in 1 .. N /\ t \in 0 .. N - 1 /\
           behind[t] = IF last[t + 1] >= end THEN <<>> ELSE <<last[t + 1]>> \o behind[last[t + 1]]
    <3>1. t + 1 \in 1 .. N /\ t \in 0 .. N - 1
      <4> HIDE DEF N, end
      <4> QED BY <1>1, <1>5
    <3>2. last[t + 1] = LastInside(doc, t + 1)
      BY <3>1
    <3>3. t \in b + 1 .. LastInside(doc, b + 1) - 1 /\ t + 0 < N /\ t + 0 + 1 = t + 1
      <4>1. t \in b + 1 .. LastInside(doc, b + 1) - 1
        BY <1>5
      <4>2. t < N /\ t + 0 = t
        <5> HIDE DEF N
        <5> QED BY <1>1, <3>1
      <4> HIDE DEF N
      <4> QED BY <4>1, <4>2
    <3>4. PICK after : after = LastInside(doc, t + 0 + 1)
      OBVIOUS
    <3>5. behind[t] = IF after >= LastInside(doc, b + 1) THEN <<>> ELSE <<after>> \o behind[after]
      <4> HIDE DEF N
      <4> QED BY <1>4, <3>3, <3>4
    <3>6. after = last[t + 1] /\ LastInside(doc, b + 1) = end
      BY <1>5, <3>2, <3>3, <3>4
    <3> HIDE DEF last, end, N
    <3> QED BY <3>1, <3>5, <3>6
  <2> QED BY <2>1, <2>2
<1> HIDE DEF N, last, depth, box, end, inner
<1>9. ASSUME NEW p \in box + 1 .. end, depth[p] = inner
      PROVE  /\ rest[p + 1] = rest[last[p] + 1] /\ last[p] \in p .. N
             /\ last[p] < end => last[p] + 1 \in box + 1 .. end /\ depth[last[p] + 1] = inner
  <2>1. p \in 1 .. N /\ last[p] \in p .. N /\ depth[box] \in Nat /\ inner = depth[box] + 1
    BY <1>1, <1>2, <1>7 DEF inner
  <2>2. ASSUME NEW j \in p + 1 .. last[p] PROVE rest[j] = rest[j + 1]
    <3>1. j \in 1 .. N /\ j \in Nat /\ j + 1 \in Nat /\ depth[j] > inner /\ depth[j] \in Nat /\ inner \in Nat
      BY <1>1, <1>2, <1>9, <2>1, SMTT(30)
    <3>2. CASE j > end
      <4>1. end \in Nat
        BY <1>1, <1>5
      <4>2. j + 1 > end
        BY <3>1, <3>2, <4>1
      <4>3. rest[j] = <<>> /\ rest[j + 1] = <<>>
        BY <1>6, <3>1, <3>2, <4>2
      <4> QED BY <4>3
    <3>3. CASE ~(j > end)
      <4>1. j \in box + 1 .. end
        <5>1. end \in Nat /\ box \in Nat /\ p \in Nat /\ last[p] \in Nat
          BY <1>1, <1>5, <2>1
        <5> QED BY <3>1, <3>3, <5>1
      <4>2. depth[j] # inner
        BY <3>1
      <4> QED BY <1>7, <4>1, <4>2
    <3> QED BY <3>2, <3>3
  <2>3. rest[p + 1] = rest[last[p] + 1]
    <3>1. p + 1 \in Nat /\ last[p] \in Nat /\ p + 1 <= last[p] + 1
      BY <1>1, <2>1
    <3> QED BY <2>2, <3>1, Stepwise
  <2>4. ASSUME last[p] < end PROVE last[p] + 1 \in box + 1 .. end /\ depth[last[p] + 1] = inner
    <3>1. last[p] + 1 \in box + 1 .. end /\ last[p] # N
      BY <1>1, <1>5, <2>1, <2>4
    <3>2. depth[last[p] + 1] <= inner
      BY <1>2, <1>9, <2>1, <3>1
    <3>3. depth[last[p] + 1] > depth[box] /\ depth[last[p] + 1] \in Nat
      <4>1. last[p] + 1 \in 1 .. N
        BY <1>7, <3>1
      <4> QED BY <1>1, <1>2, <3>1, <4>1 DEF end
    <3> QED BY <2>1, <3>1, <3>2, <3>3
  <2> QED BY <2>1, <2>3, <2>4
<1>10. ASSUME NEW p \in box + 1 .. end, depth[p] = inner
       PROVE  rest[p + 1] = Shifted(behind[p - 1])
  <2> DEFINE Wrong == {m \in Nat : \E q \in box + 1 .. end :
                         q + m = N /\ depth[q] = inner /\ rest[q + 1] # Shifted(behind[q - 1])}
  <2>1. ASSUME NEW m \in Wrong PROVE \E k \in Wrong : k < m
    <3>1. PICK q \in box + 1 .. end :
            q + m = N /\ depth[q] = inner /\ rest[q + 1] # Shifted(behind[q - 1])
      OBVIOUS
    <3>2. /\ q \in Nat /\ q - 1 \in box .. end - 1 /\ (q - 1) + 1 = q
          /\ rest[q + 1] = rest[last[q] + 1] /\ last[q] \in q .. N
          /\ last[q] < end => last[q] + 1 \in box + 1 .. end /\ depth[last[q] + 1] = inner
      BY <1>1, <1>5, <1>9, <3>1
    <3>3. behind[q - 1] = IF last[q] >= end THEN <<>> ELSE <<last[q]>> \o behind[last[q]]
      BY <1>8, <3>2
    <3>4. last[q] < end
      <4> SUFFICES ASSUME ~(last[q] < end) PROVE FALSE
        OBVIOUS
      <4>1. last[q] >= end /\ last[q] + 1 > end /\ last[q] + 1 \in Nat
        BY <1>1, <1>5, <3>2
      <4>2. behind[q - 1] = <<>> /\ rest[q + 1] = <<>>
        BY <1>6, <3>2, <3>3, <4>1
      <4>3. Shifted(<<>>) = <<>>
        BY DEF Shifted
      <4> QED BY <3>1, <4>2, <4>3
    <3> DEFINE r == last[q] + 1
    <3>5. /\ r \in box + 1 .. end /\ depth[r] = inner /\ last[q] \in Nat /\ last[q] \in 0 .. N - 1
          /\ r - 1 = last[q] /\ q < r /\ r \in Nat
      <4>1. end \in Nat /\ box \in Nat /\ last[q] \in Nat /\ end <= N /\ box < q /\ q <= last[q]
        <5>1. box \in Nat /\ q \in box + 1 .. end /\ N \in Nat /\ last[q] \in q .. N
          BY <1>1, <3>1, <3>2
        <5> QED BY <1>5, <5>1
      <4>2. r \in box + 1 .. end /\ depth[r] = inner
        BY <3>2, <3>4
      <4>3. last[q] \in 0 .. N - 1 /\ r - 1 = last[q] /\ q < r /\ r \in Nat
        <5>1. N \in Nat /\ q \in Nat
          BY <1>1, <3>2
        <5>2. PICK l \in Nat : l = last[q]
          BY <4>1
        <5>3. l \in 0 .. N - 1 /\ (l + 1) - 1 = l /\ q < l + 1 /\ l + 1 \in Nat
          BY <3>4, <4>1, <5>1, <5>2
        <5> QED BY <5>2, <5>3
      <4> QED BY <4>1, <4>2, <4>3
    <3>6. rest[q + 1] = <<r>> \o rest[r + 1]
      BY <1>7, <3>2, <3>5
    <3>7. behind[q - 1] = <<last[q]>> \o behind[last[q]] /\ behind[last[q]] \in Seq(Nat)
      <4>1. ~(last[q] >= end)
        <5>1. end \in Nat
          BY <1>1, <1>5
        <5> QED BY <3>4, <3>5, <5>1
      <4> QED BY <1>4, <3>3, <3>5, <4>1
    <3>8. Shifted(behind[q - 1]) = <<r>> \o Shifted(behind[last[q]])
      BY <3>5, <3>7, ShiftedMore
    <3>9. rest[r + 1] # Shifted(behind[r - 1])
      <4>1. rest[r + 1] # Shifted(behind[last[q]])
        <5> HIDE DEF r
        <5> QED BY <3>1, <3>6, <3>8
      <4> HIDE DEF r
      <4> QED BY <3>5, <4>1
    <3> HIDE DEF r
    <3>10. N - r \in Nat /\ r + (N - r) = N /\ N - r < m
      <4>1. N \in Nat /\ m \in Nat /\ q \in Nat /\ q + m = N /\ r \in Nat /\ q < r
        BY <1>1, <3>1, <3>2, <3>5
      <4>2. r <= N
        <5>1. r \in box + 1 .. end /\ end \in box .. N /\ box \in Nat
          BY <1>1, <1>5, <3>5
        <5> QED BY <4>1, <5>1
      <4> QED BY <4>1, <4>2
    <3> QED BY <3>5, <3>9, <3>10
  <2>2. Wrong = {}
    <3>1. Wrong \subseteq Nat /\ \A k, m \in Nat : ~(k < m /\ m <= k)
      OBVIOUS
    <3> HIDE DEF Wrong
    <3> QED BY <2>1, <3>1, Least
  <2>3. N - p \in Nat /\ p + (N - p) = N
    BY <1>1, <1>5
  <2> QED BY <1>10, <2>2, <2>3
<1>11. rest[box + 1] = Shifted(behind[b])
  <2>1. CASE box >= end
    <3>1. behind[b] = <<>> /\ box + 1 > end /\ box + 1 \in Nat
      BY <1>1, <1>5, <1>8, <2>1
    <3>2. Shifted(<<>>) = <<>>
      BY DEF Shifted
    <3> QED BY <1>6, <3>1, <3>2
  <2>2. CASE ~(box >= end)
    <3>1. /\ box + 1 \in box + 1 .. end /\ box # N /\ box \in Nat /\ (box + 1) - 1 = box
          /\ box \in 0 .. N - 1 /\ box + 1 \in 1 .. N
      BY <1>1, <1>5, <2>2
    <3>2. depth[box + 1] = inner
      <4>1. depth[box + 1] <= depth[box] + 1 /\ depth[box + 1] > depth[box]
        BY <1>1, <1>2, <3>1 DEF end
      <4> QED BY <1>1, <1>2, <3>1, <4>1 DEF inner
    <3>3. rest[box + 1] = <<box + 1>> \o Shifted(behind[box])
      BY <1>7, <1>10, <3>1, <3>2
    <3>4. behind[b] = <<box>> \o behind[box] /\ behind[box] \in Seq(Nat)
      BY <1>4, <1>8, <2>2, <3>1
    <3> QED BY <3>1, <3>3, <3>4, ShiftedMore
  <2> QED BY <2>1, <2>2
<1>12. behind[b] \in Seq(Nat)
  BY <1>4 DEF N
<1>13. ArrayElements(Tokens(doc), b) = behind[b]
  BY <1>4 DEF ArrayElements
<1> QED BY <1>3, <1>11, <1>12, <1>13 DEF box, InsideFrom

\* What comes next inside a value, directly behind it or behind a word in it.
LEMMA NextInside ==
  ASSUME NEW doc, IsNested(doc), IsDocument(doc), NEW i \in 1 .. Len(doc),
         NEW rest, InsideFrom(rest, doc, i), NEW j \in Nat,
         \/ j = i
         \/ j \in i + 1 .. LastInside(doc, i) /\ doc[j].depth = doc[i].depth + 1 /\ IsScalar(doc[j].type),
         rest[j + 1] # <<>>
  PROVE  /\ j + 1 \in i + 1 .. LastInside(doc, i) /\ j + 1 \in 1 .. Len(doc)
         /\ doc[j + 1].depth = doc[i].depth + 1
         /\ rest[j + 1] = <<j + 1>> \o rest[j + 2] /\ rest[j + 2] \in Seq(Nat)
<1>1. PICK N \in Nat : N = Len(doc)
  BY DEF IsNested
<1>2. PICK last \in i .. N : last = LastInside(doc, i) /\ \A k \in i + 1 .. last : doc[k].depth > doc[i].depth
  BY <1>1, LastInsideIs
<1> DEFINE Piece(k) == IF doc[k].depth = doc[i].depth + 1 THEN <<k>> ELSE <<>>
<1>3. /\ rest \in [Nat -> Seq(Nat)]
      /\ \A k \in Nat : rest[k] = IF k > last THEN <<>> ELSE Piece(k) \o rest[k + 1]
  BY <1>2 DEF InsideFrom
<1>4. j + 1 \in i + 1 .. last /\ j + 1 \in 1 .. N /\ j \in 1 .. N - 1
  <2>1. ~(j + 1 > last)
    <3>1. j + 1 \in Nat
      OBVIOUS
    <3> HIDE DEF Piece
    <3> QED BY <1>3, <3>1
  <2>2. j >= i /\ i \in 1 .. N /\ last \in Nat /\ last <= N
    BY <1>1, <1>2
  <2> QED BY <2>1, <2>2
<1>5. doc[j + 1].depth = doc[i].depth + 1
  <2>1. doc[j + 1].depth \in Nat /\ doc[i].depth \in Nat /\ doc[j].depth \in Nat
    BY <1>1, <1>4 DEF IsNested
  <2>2. doc[j + 1].depth > doc[i].depth
    BY <1>2, <1>4
  <2>3. doc[j + 1].depth <= doc[j].depth + IF IsScalar(doc[j].type) THEN 0 ELSE 1
    BY <1>1, <1>4 DEF IsDocument
  <2> QED BY <2>1, <2>2, <2>3
<1>6. rest[j + 1] = <<j + 1>> \o rest[j + 2] /\ j + 2 \in Nat
  <2>1. ~(j + 1 > last) /\ j + 1 \in Nat /\ j + 2 \in Nat /\ (j + 1) + 1 = j + 2
    BY <1>1, <1>2, <1>4
  <2>2. Piece(j + 1) = <<j + 1>>
    BY <1>5
  <2> HIDE DEF Piece
  <2>3. rest[j + 1] = Piece(j + 1) \o rest[(j + 1) + 1]
    BY <1>3, <2>1
  <2> QED BY <2>1, <2>2, <2>3
<1> QED BY <1>1, <1>2, <1>3, <1>4, <1>5, <1>6

\* What is first in a value comes directly behind it.
LEMMA FirstInside ==
  ASSUME NEW doc, IsNested(doc), IsDocument(doc), NEW i \in 1 .. Len(doc), Inside(doc, i) # <<>>
  PROVE  Inside(doc, i)[1] = i + 1 /\ i + 1 \in 1 .. Len(doc)
<1>1. PICK rest : InsideFrom(rest, doc, i)
  BY InsideUnfolds
<1>2. Inside(doc, i) = rest[i + 1]
  BY <1>1 DEF InsideFrom
<1>3. i \in Nat
  BY DEF IsNested
<1>4. i + 1 \in 1 .. Len(doc) /\ rest[i + 1] = <<i + 1>> \o rest[i + 2] /\ rest[i + 2] \in Seq(Nat)
  BY <1>1, <1>2, <1>3, NextInside
<1>5. (<<i + 1>> \o rest[i + 2])[1] = i + 1
  BY <1>3, <1>4
<1> QED BY <1>2, <1>4, <1>5

\* s is x and then t, with n elements.
IsMore(s, x, t, n) == Len(t) = n /\ s[1] = x /\ \A m \in 1 .. n : s[m + 1] = t[m]

LEMMA More ==
  ASSUME NEW x \in Nat, NEW t \in Seq(Nat), NEW s, s = <<x>> \o t, NEW n \in Nat, Len(s) = n + 1
  PROVE  IsMore(s, x, t, n)
BY DEF IsMore

LEMMA NotEmpty ==
  ASSUME NEW s, NEW n \in Nat, Len(s) = n + 1
  PROVE  s # <<>>
OBVIOUS

\* An object of two words is two keys, each with its word.
LEMMA FourInside ==
  ASSUME NEW doc, IsNested(doc), IsDocument(doc), NEW i \in 1 .. Len(doc),
         doc[i].type = "object", Len(Inside(doc, i)) = 4,
         IsScalar(doc[i + 2].type), IsScalar(doc[i + 4].type)
  PROVE  /\ Fields(doc, i) = [n \in 1 .. 2 |-> <<i + 2 * n - 1, i + 2 * n>>]
         /\ i + 4 \in 1 .. Len(doc)
<1>1. PICK rest : InsideFrom(rest, doc, i)
  BY InsideUnfolds
<1>2. PICK inside : inside = Inside(doc, i)
  OBVIOUS
<1>3. inside = rest[i + 1] /\ Len(inside) = 4 /\ i \in Nat /\ inside \in Seq(Nat)
  <2>1. i \in Nat /\ i + 1 \in Nat
    BY DEF IsNested
  <2> QED BY <1>1, <1>2, <2>1 DEF InsideFrom
<1>4. /\ Fields(doc, i) = [n \in 1 .. 2 |-> <<inside[2 * n - 1], inside[2 * n]>>]
      /\ IsScalar(doc[inside[1]].type) /\ IsScalar(doc[inside[3]].type)
  <2>1. Fields(doc, i) = [n \in 1 .. Len(inside) \div 2 |-> <<inside[2 * n - 1], inside[2 * n]>>]
    BY <1>2 DEF Fields
  <2>2. Len(inside) \div 2 = 2
    BY <1>3
  <2>3. Fields(doc, i) = [n \in 1 .. 2 |-> <<inside[2 * n - 1], inside[2 * n]>>]
    BY <2>1, <2>2
  <2>4. /\ Fields(doc, i)[1][1] = inside[1] /\ Fields(doc, i)[2][1] = inside[3]
        /\ DOMAIN Fields(doc, i) = 1 .. 2
    BY <2>3
  <2>5. i \in DOMAIN doc
    BY DEF IsNested
  <2>6. \A n \in DOMAIN Fields(doc, i) : IsScalar(doc[Fields(doc, i)[n][1]].type)
    BY <2>5 DEF IsDocument
  <2>7. 1 \in 1 .. 2 /\ 2 \in 1 .. 2
    OBVIOUS
  <2> QED BY <2>3, <2>4, <2>6, <2>7, Zenon
<1> DEFINE In(j) == j \in i + 1 .. LastInside(doc, i) /\ doc[j].depth = doc[i].depth + 1
           Entered(j) == j = i \/ (In(j) /\ IsScalar(doc[j].type))
<1>5. ASSUME NEW j \in Nat, Entered(j), NEW n \in Nat, Len(rest[j + 1]) = n + 1
      PROVE  /\ In(j + 1) /\ j + 1 \in 1 .. Len(doc)
             /\ IsMore(rest[j + 1], j + 1, rest[j + 2], n)
  <2>1. rest[j + 1] # <<>>
    BY <1>5, NotEmpty
  <2>2. /\ In(j + 1) /\ j + 1 \in 1 .. Len(doc)
        /\ rest[j + 1] = <<j + 1>> \o rest[j + 2] /\ rest[j + 2] \in Seq(Nat)
    <3>1. \/ j = i
          \/ j \in i + 1 .. LastInside(doc, i) /\ doc[j].depth = doc[i].depth + 1 /\ IsScalar(doc[j].type)
      BY <1>5 DEF Entered, In
    <3>2. /\ j + 1 \in i + 1 .. LastInside(doc, i) /\ j + 1 \in 1 .. Len(doc)
          /\ doc[j + 1].depth = doc[i].depth + 1
          /\ rest[j + 1] = <<j + 1>> \o rest[j + 2] /\ rest[j + 2] \in Seq(Nat)
      BY <1>1, <2>1, <3>1, NextInside, Zenon
    <3> QED BY <3>2
  <2>3. j + 1 \in Nat
    OBVIOUS
  <2>4. IsMore(rest[j + 1], j + 1, rest[j + 2], n)
    BY <1>5, <2>2, <2>3, More
  <2> QED BY <2>2, <2>4
<1> HIDE DEF In, Entered
<1>6. /\ i \in Nat /\ i + 1 \in Nat /\ i + 2 \in Nat /\ i + 3 \in Nat
      /\ (i + 1) + 1 = i + 2 /\ (i + 1) + 2 = i + 3 /\ (i + 2) + 1 = i + 3 /\ (i + 2) + 2 = i + 4
      /\ (i + 3) + 1 = i + 4
  BY <1>3
<1>7. In(i + 1) /\ IsMore(inside, i + 1, rest[i + 2], 3)
  <2>1. Len(rest[i + 1]) = 3 + 1 /\ 3 \in Nat
    BY <1>3
  <2>2. In(i + 1) /\ IsMore(rest[i + 1], i + 1, rest[i + 2], 3)
    <3>1. Entered(i)
      BY DEF Entered
    <3> QED BY <1>5, <1>6, <2>1, <3>1
  <2> QED BY <1>3, <2>2
<1>8. In(i + 2) /\ IsMore(rest[i + 2], i + 2, rest[i + 3], 2)
  <2>1. Len(rest[(i + 1) + 1]) = 2 + 1 /\ 2 \in Nat
    BY <1>6, <1>7 DEF IsMore
  <2>2. Entered(i + 1)
    BY <1>4, <1>7 DEF IsMore, Entered
  <2> QED BY <1>5, <1>6, <2>1, <2>2
<1>9. In(i + 3) /\ IsMore(rest[i + 3], i + 3, rest[i + 4], 1)
  <2>1. Len(rest[(i + 2) + 1]) = 1 + 1 /\ 1 \in Nat
    BY <1>6, <1>8, SMTT(30) DEF IsMore
  <2>2. Entered(i + 2)
    BY <1>8 DEF Entered
  <2> QED BY <1>5, <1>6, <2>1, <2>2
<1>10. inside[2] = i + 2 /\ inside[3] = i + 3 /\ inside[4] = rest[i + 4][1]
  <2>1. inside[1 + 1] = rest[i + 2][1] /\ inside[2 + 1] = rest[i + 2][2] /\ inside[3 + 1] = rest[i + 2][3]
    BY <1>7 DEF IsMore
  <2>2. rest[i + 2][1 + 1] = rest[i + 3][1] /\ rest[i + 2][2 + 1] = rest[i + 3][2]
    BY <1>8 DEF IsMore
  <2>3. rest[i + 3][1 + 1] = rest[i + 4][1]
    BY <1>9 DEF IsMore
  <2> QED BY <1>8, <1>9, <2>1, <2>2, <2>3 DEF IsMore
<1>11. i + 4 \in 1 .. Len(doc) /\ inside[4] = i + 4
  <2>1. Len(rest[(i + 3) + 1]) = 0 + 1 /\ 0 \in Nat
    BY <1>6, <1>9, SMTT(30) DEF IsMore
  <2>2. Entered(i + 3)
    BY <1>4, <1>9, <1>10 DEF Entered
  <2> QED BY <1>5, <1>6, <1>10, <2>1, <2>2 DEF IsMore
<1>12. \A n \in 1 .. 2 : inside[2 * n - 1] = i + 2 * n - 1 /\ inside[2 * n] = i + 2 * n
  <2> TAKE n \in 1 .. 2
  <2>1. CASE n = 1
    <3>1. 2 * n - 1 = 1 /\ 2 * n = 2 /\ i + 2 * n - 1 = i + 1 /\ i + 2 * n = i + 2
      BY <1>3, <2>1
    <3> QED BY <1>7, <1>10, <3>1 DEF IsMore
  <2>2. CASE n = 2
    <3>1. 2 * n - 1 = 3 /\ 2 * n = 4 /\ i + 2 * n - 1 = i + 3 /\ i + 2 * n = i + 4
      BY <1>3, <2>2
    <3> QED BY <1>10, <1>11, <3>1
  <2> QED BY <2>1, <2>2
<1> QED BY <1>4, <1>11, <1>12

-----------------------------------------------------------------------------
\* A sequence of numbers each of which is next to the one before it, the first
\* to the start, up to one that is done.
IsChain(s, D, start, Done, next) ==
  /\ s \in Seq(Nat)
  /\ s = <<>> <=> start \in Done
  /\ s # <<>> => s[1] = next[start]
  /\ \A n \in 1 .. Len(s) :
       /\ s[n] \in D
       /\ n = Len(s) <=> s[n] \in Done
       /\ n # Len(s) => s[n + 1] = next[s[n]]

LEMMA ChainFollows ==
  ASSUME NEW D, D \subseteq Nat, NEW N \in Nat, \A t \in D : t <= N, NEW Done, NEW next, NEW f,
         \A t \in D : /\ f[t] \in Seq(Nat)
                      /\ f[t] = IF t \in Done THEN <<>> ELSE <<next[t]>> \o f[next[t]],
         \A t \in D : t \notin Done => next[t] \in D /\ next[t] > t
  PROVE  \A t \in D : IsChain(f[t], D, t, Done, next)
<1> DEFINE Wrong == {m \in Nat : \E t \in D : t + m = N /\ ~IsChain(f[t], D, t, Done, next)}
<1>1. ASSUME NEW m \in Wrong PROVE \E k \in Wrong : k < m
  <2>1. PICK t \in D : t + m = N /\ ~IsChain(f[t], D, t, Done, next)
    OBVIOUS
  <2>2. CASE t \in Done
    <3>1. f[t] = <<>>
      BY <2>2
    <3> QED BY <2>1, <2>2, <3>1 DEF IsChain
  <2>3. CASE t \notin Done
    <3>1. PICK u \in D : u = next[t] /\ u > t
      BY <2>3
    <3>2. PICK r \in Seq(Nat) : r = f[u]
      OBVIOUS
    <3>3. PICK s \in Seq(Nat) : s = f[t] /\ s = <<u>> \o r
      BY <2>3, <3>1, <3>2
    <3>4. u \in Nat
      OBVIOUS
    <3>5. Len(s) = Len(r) + 1 /\ s[1] = u /\ \A n \in 1 .. Len(r) : s[n + 1] = r[n]
      BY <3>3, <3>4
    <3>6. ASSUME IsChain(r, D, u, Done, next) PROVE FALSE
      <4>1. s # <<>>
        BY <3>5
      <4>2. ASSUME NEW n \in 1 .. Len(s)
            PROVE  /\ s[n] \in D
                   /\ n = Len(s) <=> s[n] \in Done
                   /\ n # Len(s) => s[n + 1] = next[s[n]]
        <5>1. CASE n = 1
          <6>1. r = <<>> <=> Len(r) = 0
            OBVIOUS
          <6>2. Len(r) # 0 => 1 \in 1 .. Len(r) /\ 1 + 1 = 2
            OBVIOUS
          <6> QED BY <3>1, <3>5, <3>6, <5>1, <6>1, <6>2 DEF IsChain
        <5>2. CASE n # 1
          <6>1. PICK k \in 1 .. Len(r) : n = k + 1
            BY <3>5, <5>2
          <6>2. s[n] = r[k] /\ (n = Len(s) <=> k = Len(r))
            BY <3>5, <6>1, SMTT(30)
          <6>3. k # Len(r) => k + 1 \in 1 .. Len(r) /\ s[n + 1] = r[k + 1]
            <7>1. k # Len(r) => k + 1 \in 1 .. Len(r) /\ n + 1 = (k + 1) + 1
              BY <6>1
            <7> QED BY <3>5, <7>1
          <6> QED BY <3>6, <6>2, <6>3 DEF IsChain
        <5> QED BY <5>1, <5>2
      <4> QED BY <2>1, <2>3, <3>1, <3>3, <3>5, <4>1, <4>2 DEF IsChain
    <3>7. N - u \in Nat /\ u + (N - u) = N /\ N - u < m
      BY <2>1, <3>1
    <3> QED BY <3>2, <3>6, <3>7
  <2> QED BY <2>2, <2>3
<1>2. Wrong = {}
  <2>1. Wrong \subseteq Nat /\ \A k, m \in Nat : ~(k < m /\ m <= k)
    OBVIOUS
  <2> HIDE DEF Wrong
  <2> QED BY <1>1, <2>1, Least
<1>3. \A t \in D : N - t \in Nat /\ t + (N - t) = N
  OBVIOUS
<1> QED BY <1>2, <1>3

\* What is inside another value ends where that one ends, or before.
LEMMA EndsInside ==
  ASSUME NEW doc, IsNested(doc), NEW i \in 1 .. Len(doc), NEW j \in i .. LastInside(doc, i)
  PROVE  j \in 1 .. Len(doc) /\ LastInside(doc, j) \in j .. LastInside(doc, i)
<1>1. PICK N \in Nat : N = Len(doc) /\ i \in 1 .. N
  BY DEF IsNested
<1>2. PICK last \in i .. N : last = LastInside(doc, i) /\
        (last = N \/ doc[last + 1].depth <= doc[i].depth) /\
        \A k \in i + 1 .. last : doc[k].depth > doc[i].depth
  BY <1>1, LastInsideIs
<1>3. j \in 1 .. N
  BY <1>1, <1>2
<1>4. PICK inner \in j .. N : inner = LastInside(doc, j) /\
        \A k \in j + 1 .. inner : doc[k].depth > doc[j].depth
  BY <1>1, <1>3, LastInsideIs
<1>5. ASSUME inner > last PROVE FALSE
  <2>1. last + 1 \in j + 1 .. inner /\ last + 1 \in 1 .. N /\ last # N
    BY <1>1, <1>2, <1>3, <1>4, <1>5
  <2>2. doc[last + 1].depth > doc[j].depth /\ doc[last + 1].depth <= doc[i].depth
    BY <1>2, <1>4, <2>1
  <2>3. j = i \/ doc[j].depth > doc[i].depth
    BY <1>1, <1>2, <1>3
  <2>4. doc[last + 1].depth \in Nat /\ doc[j].depth \in Nat /\ doc[i].depth \in Nat
    BY <1>1, <1>3, <2>1 DEF IsNested
  <2> QED BY <2>2, <2>3, <2>4
<1> QED BY <1>1, <1>2, <1>3, <1>4, <1>5

\* What follows the elements of a box, each directly behind all that is inside
\* the one before it, in tokens.
AreElements(e, doc, b) ==
  LET last(t) == LastInside(doc, t + 1)
  IN  /\ e \in Seq(Nat)
      /\ e = <<>> <=> b + 1 >= last(b)
      /\ e # <<>> => e[1] = b + 1
      /\ \A n \in 1 .. Len(e) :
           /\ e[n] \in b + 1 .. last(b) - 1
           /\ n = Len(e) <=> last(e[n]) >= last(b)
           /\ n # Len(e) => e[n + 1] = last(e[n])

LEMMA ElementsChain ==
  ASSUME NEW doc, IsNested(doc), NEW b \in 0 .. Len(doc) - 1
  PROVE  AreElements(ArrayElements(Tokens(doc), b), doc, b)
<1>1. PICK N \in Nat : N = Len(doc)
  BY DEF IsNested
<1> DEFINE last == [t \in 0 .. N - 1 |-> LastInside(doc, t + 1)]
           end == last[b]
           D == b .. end - 1
           next == [t \in D |-> IF t = b THEN b + 1 ELSE last[t]]
           Done == {t \in D : next[t] >= end}
<1>2. /\ b \in 0 .. N - 1 /\ end = LastInside(doc, b + 1) /\ end \in b + 1 .. N
      /\ \A t \in D : /\ t \in 0 .. N - 1 /\ last[t] = LastInside(doc, t + 1)
                      /\ last[t] \in t + 1 .. end
  <2>1. b + 1 \in 1 .. Len(doc) /\ b \in 0 .. N - 1 /\ end = LastInside(doc, b + 1)
    BY <1>1
  <2>2. LastInside(doc, b + 1) \in b + 1 .. N
    BY <1>1, <2>1, LastInsideIs
  <2>3. ASSUME NEW t \in D
        PROVE  /\ t \in 0 .. N - 1 /\ last[t] = LastInside(doc, t + 1)
               /\ last[t] \in t + 1 .. end
    <3>1. PICK e \in b + 1 .. N : e = end
      BY <2>1, <2>2
    <3>2. t \in 0 .. N - 1 /\ t + 1 \in b + 1 .. e
      BY <2>1, <3>1
    <3>3. LastInside(doc, t + 1) \in t + 1 .. LastInside(doc, b + 1)
      <4> HIDE DEF last
      <4> QED BY <2>1, <3>1, <3>2, EndsInside
    <3> QED BY <2>1, <3>1, <3>2, <3>3
  <2> HIDE DEF last
  <2> QED BY <2>1, <2>2, <2>3
<1>3. PICK behind :
        /\ behind \in [0 .. N - 1 -> Seq(Nat)]
        /\ Scan(Tokens(doc), b, 0) = behind[b]
        /\ behind[b] = IF b + 1 >= LastInside(doc, b + 1) THEN <<>> ELSE <<b + 1>> \o behind[b + 1]
        /\ \A t \in b + 1 .. LastInside(doc, b + 1) - 1 : t + 0 < N =>
             LET after == LastInside(doc, t + 0 + 1)
             IN  behind[t] = IF after >= LastInside(doc, b + 1) THEN <<>>
                             ELSE <<after>> \o behind[after]
  BY <1>1, ElementsUnfold
<1> HIDE DEF last
<1>4. ASSUME NEW t \in D
      PROVE  /\ behind[t] \in Seq(Nat)
             /\ behind[t] = IF t \in Done THEN <<>> ELSE <<next[t]>> \o behind[next[t]]
  <2>1. t \in 0 .. N - 1
    BY <1>2
  <2>2. behind[t] \in Seq(Nat)
    BY <1>3, <2>1
  <2>3. CASE t = b
    <3>1. next[t] = b + 1
      BY <2>3
    <3>2. t \in Done <=> b + 1 >= end
      BY <3>1
    <3> HIDE DEF Done, next, end
    <3> QED BY <1>2, <1>3, <2>2, <2>3, <3>1, <3>2
  <2>4. CASE t # b
    <3>1. next[t] = last[t]
      BY <2>4
    <3>2. t \in Done <=> last[t] >= end
      BY <3>1
    <3>3. PICK e \in b + 1 .. N : e = end
      BY <1>2
    <3>4. t \in b + 1 .. e - 1 /\ t + 0 < N /\ t + 0 + 1 = t + 1
      BY <1>2, <2>1, <2>4, <3>3
    <3>5. PICK after : after = LastInside(doc, t + 0 + 1)
      OBVIOUS
    <3>6. behind[t] = IF after >= e THEN <<>> ELSE <<after>> \o behind[after]
      <4>1. e = LastInside(doc, b + 1)
        BY <1>2, <3>3
      <4> HIDE DEF Done, next, end
      <4> QED BY <1>3, <3>4, <3>5, <4>1
    <3>7. after = last[t]
      BY <1>2, <3>4, <3>5
    <3> HIDE DEF Done, next, end
    <3> QED BY <2>2, <3>1, <3>2, <3>3, <3>6, <3>7
  <2> QED BY <2>3, <2>4
<1>5. ASSUME NEW t \in D, t \notin Done PROVE next[t] \in D /\ next[t] > t
  <2>1. PICK e \in b + 1 .. N : e = end
    BY <1>2
  <2>2. PICK u \in t + 1 .. e : u = next[t]
    BY <1>2, <2>1
  <2>3. ~(u >= e)
    BY <1>5, <2>1, <2>2
  <2> QED BY <1>2, <2>1, <2>2, <2>3
<1>6. b \in D /\ D \subseteq Nat /\ \A t \in D : t <= N
  BY <1>2
<1>7. IsChain(behind[b], D, b, Done, next)
  <2> HIDE DEF D, Done, next
  <2> QED BY <1>4, <1>5, <1>6, ChainFollows
<1>8. PICK e \in Seq(Nat) : e = behind[b] /\ ArrayElements(Tokens(doc), b) = e
  BY <1>3, <1>6, <1>4 DEF ArrayElements
<1>9. e = <<>> <=> b + 1 >= end
  <2>1. b \in Done <=> b + 1 >= end
    BY <1>6
  <2> HIDE DEF Done
  <2> QED BY <1>7, <1>8, <2>1 DEF IsChain
<1>10. e # <<>> => e[1] = b + 1
  <2>1. next[b] = b + 1
    BY <1>6
  <2> HIDE DEF next, Done
  <2> QED BY <1>7, <1>8, <2>1 DEF IsChain
<1>11. ASSUME NEW n \in 1 .. Len(e)
       PROVE  /\ e[n] \in b + 1 .. end - 1
              /\ n = Len(e) <=> last[e[n]] >= end
              /\ n # Len(e) => e[n + 1] = last[e[n]]
  <2>1. /\ e[n] \in D /\ (n = Len(e) <=> e[n] \in Done)
        /\ n # Len(e) => e[n + 1] = next[e[n]]
    <3> HIDE DEF D, Done, next
    <3> QED BY <1>7, <1>8 DEF IsChain
  <2>2. e[n] # b
    <3>1. CASE n = 1
      <4>1. e # <<>>
        BY <1>8, <3>1
      <4> QED BY <1>2, <1>10, <3>1, <4>1
    <3>2. CASE n # 1
      <4>1. PICK m \in 1 .. Len(e) : m # Len(e) /\ n = m + 1
        BY <1>8, <3>2
      <4>2. e[m] \in D /\ e[m] \notin Done /\ e[m + 1] = next[e[m]]
        <5> HIDE DEF D, Done, next
        <5> QED BY <1>7, <1>8, <4>1 DEF IsChain
      <4>3. next[e[m]] > e[m] /\ e[m] >= b
        <5>1. next[e[m]] > e[m]
          <6> HIDE DEF D, Done, next
          <6> QED BY <1>5, <4>2
        <5>2. \A t \in D : t >= b
          BY <1>2
        <5> HIDE DEF D, Done, next
        <5> QED BY <4>2, <5>1, <5>2
      <4> QED BY <1>2, <4>1, <4>2, <4>3, SMTT(30)
    <3> QED BY <3>1, <3>2
  <2>3. next[e[n]] = last[e[n]]
    BY <2>1, <2>2
  <2>4. e[n] \in Done <=> last[e[n]] >= end
    BY <2>1, <2>3
  <2>5. e[n] \in b + 1 .. end - 1
    BY <1>2, <2>1, <2>2
  <2> HIDE DEF Done, next
  <2> QED BY <2>1, <2>3, <2>4, <2>5
<1>12. \A n \in 1 .. Len(e) : last[e[n]] = LastInside(doc, e[n] + 1)
  BY <1>2, <1>11
<1>13. PICK q : q = ArrayElements(Tokens(doc), b)
  OBVIOUS
<1>14. q = e /\ q \in Seq(Nat)
  BY <1>8, <1>13
<1>15. end = LastInside(doc, b + 1)
  BY <1>2
<1>16. /\ q = <<>> <=> b + 1 >= LastInside(doc, b + 1)
       /\ q # <<>> => q[1] = b + 1
  <2> HIDE DEF end
  <2> QED BY <1>9, <1>10, <1>14, <1>15
<1>17. ASSUME NEW n \in 1 .. Len(q)
       PROVE  /\ q[n] \in b + 1 .. LastInside(doc, b + 1) - 1
              /\ n = Len(q) <=> LastInside(doc, q[n] + 1) >= LastInside(doc, b + 1)
              /\ n # Len(q) => q[n + 1] = LastInside(doc, q[n] + 1)
  <2> HIDE DEF end
  <2>1. n \in 1 .. Len(e) /\ q = e
    BY <1>14
  <2>2. last[e[n]] = LastInside(doc, e[n] + 1)
    BY <1>12, <2>1
  <2>3. /\ e[n] \in b + 1 .. end - 1
        /\ n = Len(e) <=> last[e[n]] >= end
        /\ n # Len(e) => e[n + 1] = last[e[n]]
    BY <1>11, <2>1
  <2> QED BY <1>15, <2>1, <2>2, <2>3
<1>18. AreElements(q, doc, b)
  <2> HIDE DEF end
  <2> QED BY <1>14, <1>16, <1>17 DEF AreElements
<1> QED BY <1>13, <1>18

\* A word has nothing inside.
LEMMA WordEnds ==
  ASSUME NEW doc, IsNested(doc), IsDocument(doc), NEW i \in 1 .. Len(doc), IsScalar(doc[i].type)
  PROVE  LastInside(doc, i) = i
<1>1. PICK N \in Nat : N = Len(doc) /\ i \in 1 .. N
  BY DEF IsNested
<1>2. PICK last \in i .. N : last = LastInside(doc, i) /\
        \A k \in i + 1 .. last : doc[k].depth > doc[i].depth
  BY <1>1, LastInsideIs
<1>3. ASSUME last # i PROVE FALSE
  <2>1. i + 1 \in i + 1 .. last /\ i \in 1 .. N - 1 /\ i + 1 \in 1 .. N
    BY <1>1, <1>2, <1>3
  <2>2. doc[i + 1].depth > doc[i].depth
    BY <1>2, <2>1
  <2>3. doc[i + 1].depth <= doc[i].depth + 0
    BY <1>1, <2>1 DEF IsDocument
  <2>4. doc[i + 1].depth \in Nat /\ doc[i].depth \in Nat
    BY <1>1, <2>1 DEF IsNested
  <2> QED BY <2>2, <2>3, <2>4
<1> QED BY <1>2, <1>3

\* The keys of an object, each directly behind all that is inside the value
\* of the one before it, with its own value directly behind it, in tokens.
AreKeys(k, doc, b) ==
  LET last(t) == LastInside(doc, t + 1)
  IN  /\ k \in Seq(Nat)
      /\ k = <<>> <=> b + 1 >= last(b)
      /\ k # <<>> => k[1] = b + 1
      /\ \A n \in 1 .. Len(k) :
           /\ k[n] \in b + 1 .. last(b) - 2
           /\ n = Len(k) <=> last(ValueOf(k[n])) >= last(b)
           /\ n # Len(k) => k[n + 1] = last(ValueOf(k[n]))

\* The elements of an object in pairs: a word, and its value directly behind it.
ArePairs(e, h, doc, b) ==
  /\ AreElements(e, doc, b) /\ h \in Nat /\ Len(e) = 2 * h
  /\ \A n \in 1 .. h : e[2 * n] = e[2 * n - 1] + 1
  /\ Fields(doc, b + 1) = [n \in 1 .. h |-> <<e[2 * n - 1] + 1, e[2 * n] + 1>>]

LEMMA ElementsPair ==
  ASSUME NEW doc, IsNested(doc), IsDocument(doc), NEW b \in 0 .. Len(doc) - 1,
         doc[b + 1].type = "object", Len(Inside(doc, b + 1)) % 2 = 0,
         NEW e, e = ArrayElements(Tokens(doc), b)
  PROVE  \E h \in Nat : ArePairs(e, h, doc, b)
<1>1. AreElements(e, doc, b) /\ e \in Seq(Nat)
  <2>1. AreElements(e, doc, b)
    BY ElementsChain
  <2> QED BY <2>1 DEF AreElements
<1>2. Inside(doc, b + 1) = Shifted(e)
  <2>1. ASSUME NEW i \in 1 .. Len(doc) - 1 PROVE doc[i + 1].depth <= doc[i].depth + 1
    <3>1. PICK N \in Nat : N = Len(doc)
      BY DEF IsNested
    <3>2. doc[i].depth \in Nat /\ doc[i + 1].depth \in Nat
      BY <3>1 DEF IsNested
    <3>3. doc[i + 1].depth <= doc[i].depth + IF IsScalar(doc[i].type) THEN 0 ELSE 1
      BY DEF IsDocument
    <3> QED BY <3>2, <3>3
  <2> QED BY <2>1, ElementsAreInside
<1>3. PICK inside : inside = Inside(doc, b + 1) /\ inside = Shifted(e)
  BY <1>2
<1>4. Len(inside) = Len(e) /\ \A n \in 1 .. Len(e) : inside[n] = e[n] + 1
  BY <1>1, <1>3 DEF Shifted
<1>5. PICK h \in Nat : Len(e) = 2 * h
  <2>1. PICK l \in Nat : l = Len(e)
    BY <1>1
  <2>2. l % 2 = 0
    BY <1>3, <1>4, <2>1
  <2>3. l = 2 * (l \div 2) /\ l \div 2 \in Nat
    BY <2>2
  <2> QED BY <2>1, <2>3
<1>6. \A n \in 1 .. h : /\ 2 * n - 1 \in 1 .. Len(e) /\ 2 * n \in 1 .. Len(e)
                        /\ 2 * n - 1 # Len(e) /\ (2 * n - 1) + 1 = 2 * n
  BY <1>5
<1>7. Fields(doc, b + 1) = [n \in 1 .. h |-> <<e[2 * n - 1] + 1, e[2 * n] + 1>>]
  <2>1. Fields(doc, b + 1) = [n \in 1 .. Len(inside) \div 2 |-> <<inside[2 * n - 1], inside[2 * n]>>]
    BY <1>3 DEF Fields
  <2>2. Len(inside) \div 2 = h
    BY <1>4, <1>5
  <2>3. Fields(doc, b + 1) = [n \in 1 .. h |-> <<inside[2 * n - 1], inside[2 * n]>>]
    BY <2>1, <2>2
  <2>4. \A n \in 1 .. h : <<inside[2 * n - 1], inside[2 * n]>> = <<e[2 * n - 1] + 1, e[2 * n] + 1>>
    BY <1>4, <1>6
  <2> QED BY <2>3, <2>4
<1>8. ASSUME NEW n \in 1 .. h PROVE e[2 * n] = e[2 * n - 1] + 1
  <2>1. PICK m \in 1 .. Len(e) : m = 2 * n - 1 /\ m # Len(e) /\ m + 1 = 2 * n
    BY <1>6
  <2>2. e[m + 1] = LastInside(doc, e[m] + 1) /\ e[m] \in b + 1 .. LastInside(doc, b + 1) - 1
    BY <1>1, <2>1 DEF AreElements
  <2>3. e[m] + 1 \in 1 .. Len(doc) /\ e[m] \in Nat
    <3>0. PICK N \in Nat : N = Len(doc)
      BY DEF IsNested
    <3>1. b \in Nat /\ b + 1 \in 1 .. N
      BY <3>0
    <3>2. PICK last \in b + 1 .. N : last = LastInside(doc, b + 1)
      BY <3>0, <3>1, LastInsideIs
    <3> QED BY <2>2, <3>0, <3>1, <3>2
  <2>4. IsScalar(doc[e[m] + 1].type)
    <3>0. b + 1 \in DOMAIN doc
      <4>1. PICK N \in Nat : N = Len(doc) /\ DOMAIN doc = 1 .. N
        BY DEF IsNested
      <4> QED BY <4>1
    <3>1. b + 1 \in DOMAIN doc /\ n \in DOMAIN Fields(doc, b + 1)
      BY <1>7, <3>0
    <3>2. Fields(doc, b + 1)[n][1] = e[2 * n - 1] + 1
      BY <1>7
    <3>3. IsScalar(doc[Fields(doc, b + 1)[n][1]].type)
      BY <3>1 DEF IsDocument
    <3> QED BY <2>1, <3>2, <3>3
  <2>5. LastInside(doc, e[m] + 1) = e[m] + 1
    BY <2>3, <2>4, WordEnds
  <2> QED BY <2>1, <2>2, <2>5
<1> QED BY <1>1, <1>5, <1>7, <1>8 DEF ArePairs

\* What object_get_nth_key finds of any box are tokens.
LEMMA KeysAreTokens ==
  ASSUME NEW doc, IsNested(doc), NEW b \in 0 .. Len(doc) - 1
  PROVE  ObjectKeys(Tokens(doc), b) \in Seq(Nat)
<1>1. PICK N \in Nat : N = Len(doc)
  BY DEF IsNested
<1>2. PICK behind :
        /\ behind \in [0 .. N - 1 -> Seq(Nat)]
        /\ Scan(Tokens(doc), b, 1) = behind[b]
        /\ behind[b] = IF b + 1 >= LastInside(doc, b + 1) THEN <<>> ELSE <<b + 1>> \o behind[b + 1]
        /\ \A t \in b + 1 .. LastInside(doc, b + 1) - 1 : t + 1 < N =>
             LET after == LastInside(doc, t + 1 + 1)
             IN  behind[t] = IF after >= LastInside(doc, b + 1) THEN <<>>
                             ELSE <<after>> \o behind[after]
  BY <1>1, ElementsUnfold
<1> QED BY <1>1, <1>2 DEF ObjectKeys

\* What object_get_nth_key finds, if the elements of the object are pairs.
LEMMA KeysChain ==
  ASSUME NEW doc, IsNested(doc), NEW b \in 0 .. Len(doc) - 1, NEW e, NEW h, ArePairs(e, h, doc, b)
  PROVE  AreKeys(ObjectKeys(Tokens(doc), b), doc, b)
<1>1. PICK N \in Nat : N = Len(doc)
  BY DEF IsNested
<1>2. PICK end \in b + 1 .. N : end = LastInside(doc, b + 1)
  <2>1. b + 1 \in 1 .. Len(doc)
    BY <1>1
  <2> QED BY <1>1, <2>1, LastInsideIs
<1> DEFINE last == [t \in 0 .. N - 1 |-> LastInside(doc, t + 1)]
           D == {b} \cup {e[2 * n - 1] : n \in 1 .. h}
           next == [t \in D |-> IF t = b THEN b + 1 ELSE last[t + 1]]
           Done == {t \in D : next[t] >= end}
<1>3. \A t \in b .. end - 1 : /\ t \in 0 .. N - 1 /\ last[t] = LastInside(doc, t + 1)
                              /\ last[t] \in t + 1 .. end
  <2> TAKE t \in b .. end - 1
  <2>1. t \in 0 .. N - 1 /\ t + 1 \in b + 1 .. end /\ b + 1 \in 1 .. N
    BY <1>1, <1>2
  <2>2. LastInside(doc, t + 1) \in t + 1 .. LastInside(doc, b + 1)
    <3> HIDE DEF last
    <3> QED BY <1>1, <1>2, <2>1, EndsInside
  <2> QED BY <1>2, <2>1, <2>2
<1>4. /\ e \in Seq(Nat) /\ Len(e) = 2 * h /\ h \in Nat
      /\ e = <<>> <=> b + 1 >= end
      /\ e # <<>> => e[1] = b + 1
      /\ \A n \in 1 .. Len(e) :
           /\ e[n] \in b + 1 .. end - 1
           /\ n = Len(e) <=> last[e[n]] >= end
           /\ n # Len(e) => e[n + 1] = last[e[n]]
      /\ \A n \in 1 .. h : e[2 * n] = e[2 * n - 1] + 1
  <2>1. /\ AreElements(e, doc, b) /\ Len(e) = 2 * h /\ h \in Nat
        /\ \A n \in 1 .. h : e[2 * n] = e[2 * n - 1] + 1
    BY DEF ArePairs
  <2>2. ASSUME NEW n \in 1 .. Len(e)
        PROVE  /\ e[n] \in b + 1 .. end - 1
               /\ n = Len(e) <=> last[e[n]] >= end
               /\ n # Len(e) => e[n + 1] = last[e[n]]
    <3>1. /\ e[n] \in b + 1 .. end - 1
          /\ n = Len(e) <=> LastInside(doc, e[n] + 1) >= end
          /\ n # Len(e) => e[n + 1] = LastInside(doc, e[n] + 1)
      <4> HIDE DEF last
      <4> QED BY <1>2, <2>1 DEF AreElements
    <3>2. last[e[n]] = LastInside(doc, e[n] + 1)
      <4>1. e[n] \in b .. end - 1
        BY <1>1, <1>2, <3>1
      <4> HIDE DEF last
      <4> QED BY <1>3, <4>1
    <3> HIDE DEF last
    <3> QED BY <3>1, <3>2
  <2>3. /\ e \in Seq(Nat)
        /\ e = <<>> <=> b + 1 >= end
        /\ e # <<>> => e[1] = b + 1
    BY <1>2, <2>1 DEF AreElements
  <2> HIDE DEF last
  <2> QED BY <2>1, <2>2, <2>3
<1> HIDE DEF last
\* A key and its value.
<1>5. ASSUME NEW n \in 1 .. h, NEW t, t = e[2 * n - 1]
      PROVE  /\ t \in b + 1 .. end - 2 /\ t + 1 = e[2 * n]
             /\ n = h <=> last[t + 1] >= end
             /\ n # h => n + 1 \in 1 .. h /\ e[2 * (n + 1) - 1] = last[t + 1]
  <2>0. PICK l \in Nat : l = Len(e) /\ l = 2 * h /\ h \in Nat
    BY <1>4
  <2>1. /\ 2 * n - 1 \in 1 .. Len(e) /\ 2 * n \in 1 .. Len(e)
        /\ (n = h <=> 2 * n = Len(e))
        /\ (n # h => n + 1 \in 1 .. h /\ 2 * (n + 1) - 1 = 2 * n + 1)
    BY <2>0
  <2>2. PICK m \in 1 .. Len(e) : m = 2 * n
    BY <2>1
  <2>3. t + 1 = e[m] /\ e[m] \in b + 1 .. end - 1 /\ t \in b + 1 .. end - 1
    BY <1>4, <1>5, <2>1, <2>2
  <2>4. t \in b + 1 .. end - 2
    BY <1>1, <1>2, <2>3
  <2>5. /\ m = Len(e) <=> last[e[m]] >= end
        /\ m # Len(e) => e[m + 1] = last[e[m]]
    BY <1>4
  <2> QED BY <2>1, <2>2, <2>3, <2>4, <2>5
<1>6. PICK behind :
        /\ behind \in [0 .. N - 1 -> Seq(Nat)]
        /\ Scan(Tokens(doc), b, 1) = behind[b]
        /\ behind[b] = IF b + 1 >= LastInside(doc, b + 1) THEN <<>> ELSE <<b + 1>> \o behind[b + 1]
        /\ \A t \in b + 1 .. LastInside(doc, b + 1) - 1 : t + 1 < N =>
             LET after == LastInside(doc, t + 1 + 1)
             IN  behind[t] = IF after >= LastInside(doc, b + 1) THEN <<>>
                             ELSE <<after>> \o behind[after]
  BY <1>1, ElementsUnfold
<1>7. ASSUME NEW t \in D, t # b
      PROVE  /\ t \in b + 1 .. end - 2 /\ t + 1 \in b .. end - 1 /\ t + 1 < N /\ t + 1 \in 0 .. N - 1
             /\ next[t] = last[t + 1]
             /\ \E n \in 1 .. h : t = e[2 * n - 1]
  <2>1. PICK n \in 1 .. h : t = e[2 * n - 1]
    BY <1>7
  <2>2. t \in b + 1 .. end - 2
    BY <1>5, <2>1
  <2>3. t + 1 \in b .. end - 1 /\ t + 1 < N /\ t + 1 \in 0 .. N - 1
    BY <1>1, <1>2, <2>2
  <2>4. next[t] = last[t + 1]
    BY <1>7
  <2> HIDE DEF D, next
  <2> QED BY <2>1, <2>2, <2>3, <2>4
<1>8. b \in D /\ b \in Nat /\ next[b] = b + 1
  BY <1>1
<1>9. ASSUME NEW t \in D
      PROVE  /\ behind[t] \in Seq(Nat)
             /\ behind[t] = IF t \in Done THEN <<>> ELSE <<next[t]>> \o behind[next[t]]
  <2>1. CASE t = b
    <3>1. t \in Done <=> b + 1 >= end
      BY <1>8, <2>1
    <3>2. b \in 0 .. N - 1
      BY <1>1
    <3> HIDE DEF D, Done, next
    <3> QED BY <1>2, <1>6, <1>8, <2>1, <3>1, <3>2
  <2>2. CASE t # b
    <3>1. t \in Done <=> last[t + 1] >= end
      BY <1>7, <2>2
    <3>2. /\ t \in b + 1 .. end - 2 /\ t + 1 \in b .. end - 1 /\ t + 1 < N /\ t + 1 \in 0 .. N - 1
          /\ next[t] = last[t + 1]
      <4> HIDE DEF D, next
      <4> QED BY <1>7, <2>2
    <3>3. t \in b + 1 .. end - 1 /\ t \in 0 .. N - 1
      BY <1>1, <1>2, <3>2
    <3>4. PICK after : after = LastInside(doc, t + 1 + 1)
      OBVIOUS
    <3>5. behind[t] = IF after >= end THEN <<>> ELSE <<after>> \o behind[after]
      <4> HIDE DEF D, Done, next
      <4> QED BY <1>2, <1>6, <3>2, <3>3, <3>4
    <3>6. after = last[t + 1]
      <4> HIDE DEF D, Done, next
      <4> QED BY <1>3, <3>2, <3>4
    <3>7. behind[t] \in Seq(Nat)
      BY <1>6, <3>3
    <3> HIDE DEF D, Done, next
    <3> QED BY <3>1, <3>2, <3>5, <3>6, <3>7
  <2> QED BY <2>1, <2>2
<1>10. ASSUME NEW t \in D, t \notin Done PROVE next[t] \in D /\ next[t] > t
  <2>0. ~(next[t] >= end)
    BY <1>10
  <2>1. CASE t = b
    <3>1. e # <<>> /\ e[1] = b + 1
      BY <1>4, <1>8, <2>0, <2>1
    <3>2. h # 0
      BY <1>4, <3>1
    <3>3. 1 \in 1 .. h /\ 2 * 1 - 1 = 1
      BY <1>4, <3>2
    <3>4. e[2 * 1 - 1] = b + 1
      BY <3>1, <3>3
    <3> QED BY <1>8, <2>1, <3>3, <3>4
  <2>2. CASE t # b
    <3>1. next[t] = last[t + 1] /\ t \in b + 1 .. end - 2 /\ t + 1 \in b .. end - 1
      <4> HIDE DEF D, next
      <4> QED BY <1>7, <2>2
    <3>2. PICK n \in 1 .. h : t = e[2 * n - 1]
      BY <2>2
    <3>3. n + 1 \in 1 .. h /\ e[2 * (n + 1) - 1] = last[t + 1]
      <4> HIDE DEF D, Done, next
      <4> QED BY <1>5, <2>0, <3>1, <3>2
    <3>4. next[t] \in D
      BY <3>1, <3>3
    <3>5. last[t + 1] \in (t + 1) + 1 .. end
      BY <1>3, <3>1
    <3> HIDE DEF D, Done, next
    <3> QED BY <1>1, <1>2, <3>1, <3>4, <3>5
  <2> QED BY <2>1, <2>2
<1>11. D \subseteq Nat /\ \A t \in D : t <= N
  <2>1. \A t \in D : t # b => t \in b + 1 .. end - 2
    <3> HIDE DEF D, next
    <3> QED BY <1>7
  <2>2. \A t \in b .. end : t \in Nat /\ t <= N
    BY <1>1, <1>2
  <2>3. \A t \in D : t \in b .. end
    <3> HIDE DEF D
    <3> QED BY <1>1, <1>2, <2>1
  <2> HIDE DEF D
  <2> QED BY <2>2, <2>3
<1>12. IsChain(behind[b], D, b, Done, next)
  <2> HIDE DEF D, Done, next
  <2> QED BY <1>8, <1>9, <1>10, <1>11, ChainFollows
<1>13. PICK k \in Seq(Nat) : k = behind[b] /\ ObjectKeys(Tokens(doc), b) = k
  <2> HIDE DEF D
  <2> QED BY <1>6, <1>8, <1>9 DEF ObjectKeys
<1>14. k = <<>> <=> b + 1 >= end
  <2>1. b \in Done <=> b + 1 >= end
    BY <1>8
  <2> HIDE DEF D, Done, next
  <2> QED BY <1>12, <1>13, <2>1 DEF IsChain
<1>15. k # <<>> => k[1] = b + 1
  <2> HIDE DEF D, next, Done
  <2> QED BY <1>8, <1>12, <1>13 DEF IsChain
<1>16. ASSUME NEW n \in 1 .. Len(k)
       PROVE  /\ k[n] \in b + 1 .. end - 2
              /\ n = Len(k) <=> last[k[n] + 1] >= end
              /\ n # Len(k) => k[n + 1] = last[k[n] + 1]
              /\ last[k[n] + 1] = LastInside(doc, k[n] + 1 + 1)
  <2>1. /\ k[n] \in D /\ (n = Len(k) <=> k[n] \in Done)
        /\ n # Len(k) => k[n + 1] = next[k[n]]
    <3> HIDE DEF D, Done, next
    <3> QED BY <1>12, <1>13 DEF IsChain
  <2>2. k[n] # b
    <3>1. CASE n = 1
      <4>1. k # <<>>
        BY <1>13, <3>1
      <4> QED BY <1>2, <1>15, <3>1, <4>1
    <3>2. CASE n # 1
      <4>1. PICK m \in 1 .. Len(k) : m # Len(k) /\ n = m + 1
        BY <1>13, <3>2
      <4>2. k[m] \in D /\ k[m] \notin Done /\ k[m + 1] = next[k[m]]
        <5> HIDE DEF D, Done, next
        <5> QED BY <1>12, <1>13, <4>1 DEF IsChain
      <4>3. next[k[m]] > k[m]
        <5> HIDE DEF D, Done, next
        <5> QED BY <1>10, <4>2
      <4>4. \A t \in D : t >= b /\ t \in Nat
        <5>1. \A t \in D : t # b => t \in b + 1 .. end - 2
          <6> HIDE DEF D, next
          <6> QED BY <1>7
        <5> HIDE DEF D
        <5> QED BY <1>8, <1>11, <5>1
      <4> HIDE DEF D, Done, next
      <4> QED BY <1>8, <4>1, <4>2, <4>3, <4>4
    <3> QED BY <3>1, <3>2
  <2>3. next[k[n]] = last[k[n] + 1] /\ k[n] \in b + 1 .. end - 2 /\ k[n] + 1 \in b .. end - 1
    <3> HIDE DEF D, next
    <3> QED BY <1>7, <2>1, <2>2
  <2>4. k[n] \in Done <=> last[k[n] + 1] >= end
    BY <2>1, <2>3
  <2> HIDE DEF D, Done, next
  <2> QED BY <1>3, <2>1, <2>3, <2>4
<1> QED BY <1>2, <1>13, <1>14, <1>15, <1>16 DEF AreKeys, ValueOf

\* The keys of an object are those of its document, and so are their values.
AreFields(keys, doc, b) ==
  Fields(doc, b + 1) = [n \in DOMAIN keys |-> <<keys[n] + 1, ValueOf(keys[n]) + 1>>]

(* object_get_nth_key and object_get_nth_value find the fields of an       *)
(* object, in order, in every document whose objects have keys and values. *)
THEOREM KeysAreFields ==
  ASSUME NEW doc, IsNested(doc), IsDocument(doc), NEW b \in 0 .. Len(doc) - 1,
         doc[b + 1].type = "object", Len(Inside(doc, b + 1)) % 2 = 0,
         NEW keys, keys = ObjectKeys(Tokens(doc), b)
  PROVE  AreFields(keys, doc, b)
<1>1. PICK e, h : ArePairs(e, h, doc, b)
  <2>1. PICK e : e = ArrayElements(Tokens(doc), b)
    OBVIOUS
  <2>2. \E h \in Nat : ArePairs(e, h, doc, b)
    BY <2>1, ElementsPair
  <2> QED BY <2>2
<1>2. AreKeys(keys, doc, b)
  BY <1>1, KeysChain
<1> DEFINE last(t) == LastInside(doc, t + 1)
<1>3. PICK l \in Nat : /\ l = Len(keys) /\ keys \in Seq(Nat)
                       /\ keys = <<>> <=> b + 1 >= last(b)
                       /\ keys # <<>> => keys[1] = b + 1
                       /\ \A n \in 1 .. l :
                            /\ n = l <=> last(keys[n] + 1) >= last(b)
                            /\ n # l => keys[n + 1] = last(keys[n] + 1)
  BY <1>2, SMTT(30) DEF AreKeys, ValueOf
<1>4. /\ e \in Seq(Nat) /\ h \in Nat /\ Len(e) = 2 * h
      /\ e = <<>> <=> b + 1 >= last(b)
      /\ e # <<>> => e[1] = b + 1
      /\ \A m \in 1 .. Len(e) : /\ m = Len(e) <=> last(e[m]) >= last(b)
                                /\ m # Len(e) => e[m + 1] = last(e[m])
      /\ \A n \in 1 .. h : e[2 * n] = e[2 * n - 1] + 1
  BY <1>1 DEF ArePairs, AreElements
<1> HIDE DEF last
<1> DEFINE Same(n) == /\ n \in 1 .. l <=> n \in 1 .. h
                      /\ n \in 1 .. h => keys[n] = e[2 * n - 1]
           Wrong == {n \in Nat : n # 0 /\ ~Same(n)}
<1>5. Same(1)
  <2>1. keys = <<>> <=> l = 0
    BY <1>3
  <2>2. e = <<>> <=> h = 0
    BY <1>4
  <2>3. 2 * 1 - 1 = 1
    OBVIOUS
  <2> QED BY <1>3, <1>4, <2>1, <2>2, <2>3
<1>6. ASSUME NEW n \in Nat, n # 0, Same(n) PROVE Same(n + 1)
  <2>1. CASE n \notin 1 .. h
    <3>1. n > h /\ n > l
      BY <1>3, <1>4, <1>6, <2>1
    <3> QED BY <1>3, <1>4, <3>1
  <2>2. CASE n \in 1 .. h
    <3>1. n \in 1 .. l /\ keys[n] = e[2 * n - 1] /\ e[2 * n] = keys[n] + 1
      BY <1>4, <1>6, <2>2
    <3>2. PICK m \in 1 .. Len(e) : m = 2 * n /\ (m = Len(e) <=> n = h)
      <4>1. PICK size \in Nat : size = Len(e) /\ size = 2 * h
        BY <1>4
      <4>2. 2 * n \in 1 .. size /\ (2 * n = size <=> n = h)
        BY <1>4, <2>2, <4>1
      <4> QED BY <4>1, <4>2
    <3>3. n = h <=> last(e[m]) >= last(b)
      BY <1>4, <3>2
    <3>4. n = l <=> last(e[m]) >= last(b)
      BY <1>3, <3>1, <3>2
    <3>5. n + 1 \in 1 .. l <=> n + 1 \in 1 .. h
      <4>1. n = h <=> n = l
        BY <3>3, <3>4
      <4>2. \A k \in Nat : n \in 1 .. k => (n + 1 \in 1 .. k <=> n # k)
        OBVIOUS
      <4>3. l \in Nat /\ h \in Nat
        BY <1>3, <1>4
      <4> QED BY <2>2, <3>1, <4>1, <4>2, <4>3
    <3>6. ASSUME n # h PROVE keys[n + 1] = e[2 * (n + 1) - 1]
      <4>1. keys[n + 1] = last(e[m])
        BY <1>3, <3>1, <3>2, <3>3, <3>4, <3>6
      <4>2. e[m + 1] = last(e[m])
        BY <1>4, <3>2, <3>6
      <4>3. m + 1 = 2 * (n + 1) - 1
        BY <3>2
      <4> QED BY <4>1, <4>2, <4>3
    <3>7. n + 1 \in 1 .. h => n # h
      BY <1>4
    <3> QED BY <3>5, <3>6, <3>7
  <2> QED BY <2>1, <2>2
<1>7. Wrong = {}
  <2>1. ASSUME NEW n \in Wrong PROVE \E m \in Wrong : ~(n <= m)
    <3>1. n \in Nat /\ n # 0 /\ ~Same(n)
      OBVIOUS
    <3> HIDE DEF Same
    <3>2. n # 1
      BY <1>5, <3>1
    <3>3. PICK m \in Nat : m # 0 /\ m + 1 = n
      BY <3>1, <3>2
    <3>4. ~Same(m)
      BY <1>6, <3>1, <3>3
    <3> QED BY <3>3, <3>4
  <2>2. Wrong \subseteq Nat
    OBVIOUS
  <2> HIDE DEF Wrong
  <2> QED BY <2>1, <2>2, Least
<1>8. \A n \in Nat : n # 0 => Same(n)
  BY <1>7
<1> HIDE DEF Same
<1>9. l = h
  <2>1. \A n \in Nat : n # 0 => (n \in 1 .. l <=> n \in 1 .. h)
    BY <1>8 DEF Same
  <2>2. l \in Nat /\ h \in Nat
    BY <1>3, <1>4
  <2>3. l # 0 => l <= h
    BY <2>1, <2>2
  <2>4. h # 0 => h <= l
    BY <2>1, <2>2
  <2> QED BY <2>2, <2>3, <2>4
<1>10. DOMAIN keys = 1 .. h
  <2>1. keys \in Seq(Nat) /\ Len(keys) = h
    BY <1>3, <1>9
  <2> QED BY <2>1
<1>11. \A n \in 1 .. h : <<keys[n] + 1, ValueOf(keys[n]) + 1>> = <<e[2 * n - 1] + 1, e[2 * n] + 1>>
  <2> TAKE n \in 1 .. h
  <2>1. n \in Nat /\ n # 0
    BY <1>4
  <2>2. keys[n] = e[2 * n - 1] /\ e[2 * n] = e[2 * n - 1] + 1
    BY <1>4, <1>8, <2>1 DEF Same
  <2> QED BY <2>2 DEF ValueOf
<1>12. Fields(doc, b + 1) = [n \in 1 .. h |-> <<e[2 * n - 1] + 1, e[2 * n] + 1>>]
  BY <1>1 DEF ArePairs
<1> QED BY <1>10, <1>11, <1>12 DEF AreFields

\* All that is inside the value of a key lies before the keys that follow.
LEMMA KeysApart ==
  ASSUME NEW doc, IsNested(doc), NEW b \in 0 .. Len(doc) - 1, NEW k, AreKeys(k, doc, b),
         NEW m \in 1 .. Len(k), NEW n \in 1 .. Len(k), m < n
  PROVE  LastInside(doc, k[m] + 1 + 1) <= k[n]
<1>1. PICK N \in Nat : N = Len(doc)
  BY DEF IsNested
<1>2. PICK end \in b + 1 .. N : end = LastInside(doc, b + 1)
  <2>1. b + 1 \in 1 .. Len(doc)
    BY <1>1
  <2> QED BY <1>1, <2>1, LastInsideIs
<1>3. /\ k \in Seq(Nat)
      /\ \A i \in 1 .. Len(k) : /\ k[i] \in b + 1 .. LastInside(doc, b + 1) - 2
                                /\ i # Len(k) => k[i + 1] = LastInside(doc, k[i] + 1 + 1)
  BY DEF AreKeys, ValueOf
<1>4. PICK size \in Nat : size = Len(k)
  BY <1>3
<1>5. ASSUME NEW i \in 1 .. size
      PROVE  /\ k[i] \in Nat /\ LastInside(doc, k[i] + 1 + 1) \in Nat
             /\ k[i] < LastInside(doc, k[i] + 1 + 1)
  <2>1. k[i] \in b + 1 .. end - 2
    BY <1>2, <1>3, <1>4
  <2>2. k[i] \in Nat /\ k[i] + 1 + 1 \in 1 .. N
    BY <1>1, <1>2, <2>1, SMTT(30)
  <2>3. LastInside(doc, k[i] + 1 + 1) \in k[i] + 1 + 1 .. N
    BY <1>1, <2>2, LastInsideIs
  <2> QED BY <2>2, <2>3
<1> DEFINE IsBehind(i) == LastInside(doc, k[m] + 1 + 1) <= k[i]
           Wrong == {i \in 1 .. size : m < i /\ ~IsBehind(i)}
<1>6. ASSUME NEW i \in Wrong PROVE \E j \in Wrong : ~(i <= j)
  <2>1. PICK j \in 1 .. size : i = j + 1 /\ j # size /\ m <= j
    BY <1>4
  <2>2. k[i] = LastInside(doc, k[j] + 1 + 1)
    BY <1>3, <1>4, <2>1
  <2>3. m # j
    <3>1. CASE m = j
      <4>1. IsBehind(i)
        BY <1>5, <2>1, <2>2, <3>1
      <4> HIDE DEF IsBehind
      <4> QED BY <4>1
    <3> QED BY <3>1
  <2>4. ASSUME IsBehind(j) PROVE FALSE
    <3>1. k[j] \in Nat /\ k[i] \in Nat /\ k[j] < k[i]
      BY <1>5, <2>1, <2>2
    <3>2. LastInside(doc, k[m] + 1 + 1) \in Nat
      BY <1>4, <1>5
    <3>3. IsBehind(i)
      BY <2>4, <3>1, <3>2
    <3> HIDE DEF IsBehind
    <3> QED BY <3>3
  <2>5. m < j /\ ~(i <= j)
    BY <1>4, <2>1, <2>3
  <2> HIDE DEF IsBehind
  <2> QED BY <2>4, <2>5
<1>7. Wrong = {}
  <2>1. Wrong \subseteq Nat
    OBVIOUS
  <2> HIDE DEF Wrong
  <2> QED BY <1>6, <2>1, Least
<1>8. IsBehind(n)
  <2> HIDE DEF IsBehind
  <2> QED BY <1>4, <1>7
<1> QED BY <1>8
-----------------------------------------------------------------------------
\* Steps that go from u to behind what u + 1 has inside, through consecutive
\* parts of at least three: no part is jumped over without two steps in the one before.
AreParts(L, e, last, end) ==
  /\ e \in [1 .. L -> Nat] /\ last \in [Nat -> Nat]
  /\ \A n \in 1 .. L : /\ e[n] + 3 <= last[e[n]] /\ last[e[n]] <= end /\ last[e[n] + 1] = e[n] + 2
                       /\ n # L => e[n + 1] = last[e[n]] /\ e[n + 1] < end
                       /\ \A u \in Nat : e[n] < u /\ u < last[e[n]] =>
                            u < last[u] /\ last[u] <= last[e[n]]

\* How many steps there are behind u.
AreSteps(size, first, last, end) ==
  \A u \in Nat : first <= u /\ u + 1 < end /\ last[u + 1] < end => size[u] = 1 + size[last[u + 1]]

LEMMA StepsThrough ==
  ASSUME NEW L \in Nat, L # 0, NEW end \in Nat, NEW e, NEW last, AreParts(L, e, last, end),
         NEW size \in [Nat -> Nat], AreSteps(size, e[1], last, end)
  PROVE  L <= 1 + size[e[1]]
<1> DEFINE Short(u, j) == size[u] + j + (IF u = e[j] THEN 0 ELSE 1) < L
           Wrong == {m \in Nat : \E u \in Nat, j \in 1 .. L :
                       u + m = end /\ e[j] <= u /\ u < last[e[j]] /\ Short(u, j)}
<1>1. \A n \in 1 .. L : e[n] \in Nat /\ last[e[n]] \in Nat /\ last[e[n] + 1] \in Nat
  <2> TAKE n \in 1 .. L
  <2>1. e[n] \in Nat /\ last \in [Nat -> Nat]
    BY DEF AreParts
  <2>2. e[n] + 1 \in Nat
    BY <2>1
  <2> QED BY <2>1, <2>2
<1>2. \A n \in 1 .. L : e[1] <= e[n]
  <2> DEFINE Low == {n \in 1 .. L : ~(e[1] <= e[n])}
  <2>1. ASSUME Low # {} PROVE FALSE
    <3>1. PICK n \in Low : \A k \in Low : n <= k
      <4>1. Low \subseteq Nat
        OBVIOUS
      <4> HIDE DEF Low
      <4> QED BY <2>1, <4>1, Least
    <3>2. n \in Nat /\ n # 1 /\ n - 1 \in 1 .. L /\ n - 1 # L /\ n = (n - 1) + 1
      BY <1>1
    <3>3. e[n] = last[e[n - 1]] /\ e[n - 1] + 3 <= last[e[n - 1]]
      BY <3>2 DEF AreParts
    <3>4. n - 1 \notin Low
      BY <3>1, <3>2
    <3> QED BY <1>1, <3>1, <3>2, <3>3, <3>4
  <2> QED BY <2>1
<1>3. ASSUME NEW m \in Wrong PROVE \E k \in Wrong : ~(m <= k)
  <2> HIDE DEF Wrong, Short
  <2>1. PICK u \in Nat, j \in 1 .. L : u + m = end /\ e[j] <= u /\ u < last[e[j]] /\ Short(u, j)
    BY DEF Wrong
  <2>2. m \in Nat
    BY DEF Wrong
  <2>3. PICK t \in Nat, z \in Nat : /\ t = e[j] /\ z = last[t] /\ t + 3 <= z /\ z <= end
                                    /\ last[t + 1] = t + 2 /\ e[1] <= t
    BY <1>1, <1>2 DEF AreParts
  <2>4. j # L
    BY <2>1 DEF Short
  <2>5. j + 1 \in 1 .. L /\ e[j + 1] = z /\ z < end
    BY <2>3, <2>4 DEF AreParts
  <2>6. PICK y \in Nat : y = last[z] /\ z + 3 <= y /\ y <= end
                         /\ (j + 1 # L => j + 2 \in 1 .. L /\ e[j + 2] = y /\ y < end /\ y < last[y])
    <3>1. PICK y \in Nat : y = last[z] /\ z + 3 <= y /\ y <= end
      BY <1>1, <2>5 DEF AreParts
    <3>2. ASSUME j + 1 # L PROVE j + 2 \in 1 .. L /\ e[j + 2] = y /\ y < end
      <4>1. j + 2 \in 1 .. L /\ j + 2 = (j + 1) + 1
        BY <2>5, <3>2
      <4> QED BY <2>5, <3>1, <3>2, <4>1 DEF AreParts
    <3>3. ASSUME j + 1 # L PROVE y < last[y]
      <4>1. e[j + 2] + 3 <= last[e[j + 2]]
        BY <3>2, <3>3 DEF AreParts
      <4> QED BY <1>1, <3>2, <3>3, <4>1
    <3> QED BY <3>1, <3>2, <3>3
  <2>7. u + 1 < end /\ u + 1 \in Nat /\ e[1] <= u
    BY <1>1, <2>1, <2>3, <2>5
  <2>8. ASSUME NEW w \in Nat, w = last[u + 1], u < w, w < end,
               NEW k \in 1 .. L, e[k] <= w, w < last[e[k]],
               size[u] = 1 + size[w] => Short(w, k)
        PROVE  \E n \in Wrong : ~(m <= n)
    <3>1. size[u] = 1 + size[w]
      BY <2>7, <2>8 DEF AreSteps
    <3>2. end - w \in Nat /\ w + (end - w) = end /\ ~(m <= end - w)
      BY <2>1, <2>2, <2>8
    <3>3. end - w \in Wrong
      BY <2>8, <3>1, <3>2 DEF Wrong
    <3> QED BY <3>2, <3>3
  <2>9. CASE u = t
    <3>1. last[u + 1] = t + 2 /\ t + 2 \in Nat /\ u < t + 2 /\ t + 2 < end
      BY <2>3, <2>9
    <3>2. e[j] <= t + 2 /\ t + 2 < last[e[j]] /\ t + 2 # e[j]
      BY <2>3
    <3>3. size[u] = 1 + size[t + 2] => Short(t + 2, j)
      BY <2>1, <2>3, <2>9, <3>2 DEF Short
    <3> QED BY <2>8, <3>1, <3>2, <3>3
  <2>10. CASE u # t /\ u + 1 = z
    <3>1. j + 1 # L
      BY <2>1, <2>3, <2>10 DEF Short
    <3>2. last[u + 1] = y /\ u < y /\ y < end /\ j + 2 \in 1 .. L /\ e[j + 2] = y /\ y < last[y]
      BY <2>6, <2>10, <3>1
    <3>3. size[u] = 1 + size[y] => Short(y, j + 2)
      BY <2>1, <2>3, <2>10, <3>2 DEF Short
    <3> QED BY <2>8, <3>2, <3>3
  <2>11. CASE u # t /\ u + 1 # z
    <3>1. PICK w \in Nat : w = last[u + 1]
      BY <2>7 DEF AreParts
    <3>2. e[j] < u + 1 /\ u + 1 < last[e[j]]
      BY <2>1, <2>3, <2>11
    <3>3. u + 1 < w /\ w <= z
      BY <2>3, <2>7, <3>1, <3>2 DEF AreParts
    <3>4. CASE w < z
      <4>1. size[u] = 1 + size[w] => Short(w, j)
        BY <2>1, <2>3, <2>11, <3>1, <3>3 DEF Short
      <4> QED BY <2>1, <2>3, <2>8, <3>1, <3>3, <3>4, <4>1
    <3>5. CASE w = z
      <4>1. size[u] = 1 + size[w] => Short(w, j + 1)
        BY <2>1, <2>3, <2>5, <2>11, <3>1, <3>5 DEF Short
      <4>2. w < last[e[j + 1]] /\ e[j + 1] <= w /\ w < end /\ u < w
        BY <2>5, <2>6, <3>3, <3>5
      <4> QED BY <2>5, <2>8, <3>1, <4>1, <4>2
    <3> QED BY <2>3, <3>1, <3>3, <3>4, <3>5
  <2> QED BY <2>9, <2>10, <2>11
<1>4. Wrong = {}
  <2>1. Wrong \subseteq Nat
    OBVIOUS
  <2> HIDE DEF Wrong
  <2> QED BY <1>3, <2>1, Least
<1>5. 1 \in 1 .. L /\ e[1] \in Nat /\ e[1] < last[e[1]] /\ last[e[1]] <= end
  <2>1. 1 \in 1 .. L
    OBVIOUS
  <2>2. e[1] + 3 <= last[e[1]] /\ last[e[1]] <= end
    BY <2>1 DEF AreParts
  <2> QED BY <1>1, <2>1, <2>2
<1>6. end - e[1] \in Nat /\ e[1] + (end - e[1]) = end
  BY <1>1, <1>5
<1>7. ~Short(e[1], 1)
  <2> HIDE DEF Short
  <2> QED BY <1>4, <1>5, <1>6
<1> QED BY <1>5, <1>7

\* All of these have a field: a key, which is a word, and a value.
HaveFields(doc, e) ==
  \A n \in 1 .. Len(e) : /\ LastInside(doc, e[n] + 1) >= e[n] + 3
                         /\ LastInside(doc, e[n] + 2) = e[n] + 2

\* In an array of objects that have fields, no fewer keys are found than
\* elements: a step over a key and its value jumps over an element only from
\* the end of the one before it, where a key was found twice.
LEMMA KeysOfObjects ==
  ASSUME NEW doc, IsNested(doc), NEW b \in 0 .. Len(doc) - 1,
         NEW e, e = ArrayElements(Tokens(doc), b),
         HaveFields(doc, e)
  PROVE  Len(e) <= Len(ObjectKeys(Tokens(doc), b))
<1>1. PICK N \in Nat : N = Len(doc)
  BY DEF IsNested
<1>2. PICK end \in Nat : /\ end = LastInside(doc, b + 1) /\ b + 1 <= end /\ end <= N
                         /\ b \in Nat /\ b < N
  <2>1. b + 1 \in 1 .. Len(doc) /\ b \in Nat /\ b < N
    BY <1>1
  <2> QED BY <1>1, <2>1, LastInsideIs
<1> DEFINE last == [t \in Nat |-> IF t < N THEN LastInside(doc, t + 1) ELSE 0]
<1>3. \A t \in b .. end - 1 : /\ t \in Nat /\ last[t] = LastInside(doc, t + 1)
                              /\ last[t] \in t + 1 .. end
  <2> TAKE t \in b .. end - 1
  <2>1. t \in Nat /\ t < N /\ t + 1 \in b + 1 .. end /\ b + 1 \in 1 .. N
    BY <1>1, <1>2
  <2>2. LastInside(doc, t + 1) \in t + 1 .. LastInside(doc, b + 1)
    <3> HIDE DEF last
    <3> QED BY <1>1, <1>2, <2>1, EndsInside
  <2> QED BY <1>2, <2>1, <2>2
<1>4. last \in [Nat -> Nat]
  <2>1. ASSUME NEW t \in Nat, t < N PROVE LastInside(doc, t + 1) \in Nat
    <3>1. t + 1 \in 1 .. Len(doc)
      BY <1>1, <2>1
    <3>2. LastInside(doc, t + 1) \in t + 1 .. Len(doc)
      BY <3>1, LastInsideIs
    <3> QED BY <1>1, <3>2
  <2> QED BY <2>1
<1>5. PICK behind :
        /\ behind \in [0 .. N - 1 -> Seq(Nat)]
        /\ ObjectKeys(Tokens(doc), b) = behind[b]
        /\ behind[b] = IF b + 1 >= LastInside(doc, b + 1) THEN <<>> ELSE <<b + 1>> \o behind[b + 1]
        /\ \A t \in b + 1 .. LastInside(doc, b + 1) - 1 : t + 1 < N =>
             LET after == LastInside(doc, t + 1 + 1)
             IN  behind[t] = IF after >= LastInside(doc, b + 1) THEN <<>>
                             ELSE <<after>> \o behind[after]
  <2> HIDE DEF last
  <2> QED BY <1>1, ElementsUnfold DEF ObjectKeys
<1> DEFINE size == [t \in Nat |-> IF t < N THEN Len(behind[t]) ELSE 0]
<1>6. size \in [Nat -> Nat]
  <2>1. \A t \in Nat : t < N => behind[t] \in Seq(Nat)
    BY <1>5
  <2> QED BY <2>1
<1>7. \A u \in Nat : b + 1 <= u /\ u + 1 < end /\ last[u + 1] < end => size[u] = 1 + size[last[u + 1]]
  <2> HIDE DEF last
  <2> SUFFICES ASSUME NEW u \in Nat, b + 1 <= u, u + 1 < end, last[u + 1] < end
               PROVE  size[u] = 1 + size[last[u + 1]]
    OBVIOUS
  <2>1. PICK after \in Nat : after = last[u + 1] /\ after = LastInside(doc, u + 1 + 1) /\ after < N
    <3>1. u + 1 \in b .. end - 1
      BY <1>2
    <3>2. last[u + 1] \in u + 1 + 1 .. end /\ last[u + 1] = LastInside(doc, u + 1 + 1)
      BY <1>3, <3>1
    <3> QED BY <1>2, <3>2
  <2>2. u + 1 < N /\ u \in b + 1 .. LastInside(doc, b + 1) - 1 /\ ~(after >= LastInside(doc, b + 1))
    BY <1>2, <2>1
  <2>3. behind[u] = <<after>> \o behind[after]
    BY <1>5, <2>1, <2>2
  <2>4. behind[after] \in Seq(Nat) /\ u < N
    BY <1>5, <2>1, <2>2
  <2>5. Len(behind[u]) = 1 + Len(behind[after])
    <3> HIDE DEF size
    <3> QED BY <2>1, <2>3, <2>4
  <2> QED BY <2>1, <2>4, <2>5
<1>12. PICK L \in Nat : L = Len(e)
  <2>1. ArrayElements(Tokens(doc), b) \in Seq(Nat)
    BY ElementsChain DEF AreElements
  <2> QED BY <2>1
<1>8.   /\ e \in [1 .. L -> Nat]
        /\ L # 0 => e[1] = b + 1 /\ b + 1 < end
        /\ \A n \in 1 .. L :
             /\ e[n] \in b + 1 .. end - 1
             /\ n = L <=> LastInside(doc, e[n] + 1) >= end
             /\ n # L => e[n + 1] = LastInside(doc, e[n] + 1)
  <2> HIDE DEF last, size
  <2>1. /\ e \in Seq(Nat)
        /\ e = <<>> <=> b + 1 >= end
        /\ e # <<>> => e[1] = b + 1
        /\ \A n \in 1 .. Len(e) :
             /\ e[n] \in b + 1 .. end - 1
             /\ n = Len(e) <=> LastInside(doc, e[n] + 1) >= end
             /\ n # Len(e) => e[n + 1] = LastInside(doc, e[n] + 1)
    <3>1. AreElements(e, doc, b)
      BY ElementsChain
    <3> QED BY <1>2, <3>1 DEF AreElements
  <2>2. (e = <<>> <=> L = 0) /\ e \in [1 .. L -> Nat]
    BY <1>12, <2>1
  <2>3. e # <<>> => b + 1 < end
    BY <1>2, <2>1
  <2> QED BY <1>12, <2>1, <2>2, <2>3
<1> HIDE DEF size
<1>9. AreParts(L, e, last, end)
  <2>1. ASSUME NEW n \in 1 .. L, NEW t \in Nat, t = e[n]
        PROVE  /\ t + 3 <= last[t] /\ last[t] <= end /\ last[t + 1] = t + 2
               /\ n # L => e[n + 1] = last[t] /\ e[n + 1] < end
    <3> HIDE DEF last
    <3>1. t \in b .. end - 1 /\ LastInside(doc, t + 1) >= t + 3 /\ LastInside(doc, t + 2) = t + 2
      <4>1. LastInside(doc, e[n] + 1) >= e[n] + 3 /\ LastInside(doc, e[n] + 2) = e[n] + 2
        BY <1>12 DEF HaveFields
      <4> QED BY <1>2, <1>8, <2>1, <4>1
    <3>2. PICK z \in Nat : z = last[t] /\ z = LastInside(doc, t + 1) /\ t + 3 <= z /\ z <= end
      <4>1. last[t] \in Nat /\ last[t] = LastInside(doc, t + 1) /\ last[t] \in t + 1 .. end
        BY <1>3, <1>4, <3>1
      <4> QED BY <3>1, <4>1
    <3>3. t + 1 \in b .. end - 1 /\ (t + 1) + 1 = t + 2
      BY <1>2, <3>1, <3>2
    <3>4. last[t + 1] = t + 2
      BY <1>3, <3>1, <3>3
    <3>5. n # L => e[n + 1] = z /\ z < end
      BY <1>2, <1>8, <2>1, <3>2, SMTT(30)
    <3> QED BY <3>2, <3>4, <3>5
  <2>2. ASSUME NEW n \in 1 .. L, NEW t \in Nat, t = e[n], NEW u \in Nat, t < u, u < last[t]
        PROVE  u < last[u] /\ last[u] <= last[t]
    <3> HIDE DEF last
    <3>1. t \in b .. end - 1 /\ last[t] <= end /\ last[t] \in Nat
      BY <1>2, <1>4, <1>8, <2>1, <2>2
    <3>2. u \in b .. end - 1 /\ last[t] = LastInside(doc, t + 1) /\ last[u] = LastInside(doc, u + 1)
      BY <1>2, <1>3, <2>2, <3>1, SMTT(30)
    <3>3. t + 1 \in 1 .. Len(doc) /\ u + 1 \in t + 1 .. LastInside(doc, t + 1)
      BY <1>1, <1>2, <2>2, <3>1, <3>2, SMTT(30)
    <3>4. LastInside(doc, u + 1) \in u + 1 .. LastInside(doc, t + 1)
      BY <3>3, EndsInside
    <3> QED BY <3>1, <3>2, <3>4
  <2>3. \A n \in 1 .. L : e[n] \in Nat
    BY <1>8
  <2> HIDE DEF last
  <2> QED BY <1>4, <1>8, <2>1, <2>2, <2>3 DEF AreParts
<1> HIDE DEF last
<1>10. CASE L = 0
  <2>1. Len(behind[b]) \in Nat
    BY <1>1, <1>5
  <2> QED BY <1>5, <1>10, <1>12, <2>1
<1>11. CASE L # 0
  <2>1. L <= 1 + size[b + 1]
    <3>1. e[1] = b + 1
      BY <1>8, <1>11
    <3>2. AreSteps(size, e[1], last, end)
      BY <1>7, <3>1 DEF AreSteps
    <3>3. L <= 1 + size[e[1]]
      BY <1>6, <1>9, <1>11, <3>2, StepsThrough
    <3> QED BY <3>1, <3>3
  <2>2. b + 1 \in Nat /\ b + 1 < N /\ b + 1 < end
    BY <1>2, <1>8, <1>11
  <2>3. behind[b] = <<b + 1>> \o behind[b + 1] /\ behind[b + 1] \in Seq(Nat)
    BY <1>2, <1>5, <2>2, SMTT(30)
  <2>4. Len(behind[b]) = 1 + Len(behind[b + 1])
    BY <2>2, <2>3
  <2>5. size[b + 1] = Len(behind[b + 1])
    BY <2>2 DEF size
  <2> QED BY <1>5, <1>12, <2>1, <2>4, <2>5
<1> QED BY <1>10, <1>11

\* What is directly inside a value is one deeper.
LEMMA OneDeeper ==
  ASSUME NEW doc, IsNested(doc), IsDocument(doc), NEW b \in 0 .. Len(doc) - 1,
         NEW e, AreElements(e, doc, b)
  PROVE  \A n \in 1 .. Len(e) : doc[e[n] + 1].depth = doc[b + 1].depth + 1
<1>1. PICK N \in Nat : N = Len(doc) /\ b \in Nat /\ b < N
  <2>1. Len(doc) \in Nat
    BY DEF IsNested
  <2> QED BY <2>1
<1>2. PICK end \in Nat : /\ end = LastInside(doc, b + 1) /\ end <= N
                         /\ \A j \in b + 2 .. end : doc[j].depth > doc[b + 1].depth
  <2>1. b + 1 \in 1 .. Len(doc) /\ (b + 1) + 1 = b + 2
    BY <1>1
  <2>2. LastInside(doc, b + 1) \in b + 1 .. Len(doc)
    BY <2>1, LastInsideIs
  <2>3. \A j \in (b + 1) + 1 .. LastInside(doc, b + 1) : doc[j].depth > doc[b + 1].depth
    BY <2>1, LastInsideIs
  <2> QED BY <1>1, <2>1, <2>2, <2>3
<1>3. \A i \in 1 .. N : doc[i].depth \in Nat
  BY <1>1 DEF IsNested
<1>4. ASSUME NEW i \in 1 .. N - 1 PROVE doc[i + 1].depth <= doc[i].depth + 1
  <2>1. i \in 1 .. N /\ i + 1 \in 1 .. N
    BY <1>1
  <2>2. doc[i + 1].depth <= doc[i].depth + IF IsScalar(doc[i].type) THEN 0 ELSE 1
    BY <1>1 DEF IsDocument
  <2> QED BY <1>3, <2>1, <2>2
<1>5. PICK L \in Nat : L = Len(e)
  BY DEF AreElements
<1>6. /\ L # 0 => e[1] = b + 1
      /\ \A n \in 1 .. L : /\ e[n] \in b + 1 .. end - 1
                           /\ n # L => e[n + 1] = LastInside(doc, e[n] + 1)
  <2>1. L # 0 => e # <<>>
    BY <1>5 DEF AreElements
  <2> QED BY <1>2, <1>5, <2>1 DEF AreElements
<1> DEFINE Wrong == {n \in 1 .. L : doc[e[n] + 1].depth # doc[b + 1].depth + 1}
<1>7. ASSUME Wrong # {} PROVE FALSE
  <2>1. PICK n \in Wrong : \A k \in Wrong : n <= k
    <3>1. Wrong \subseteq Nat
      OBVIOUS
    <3> HIDE DEF Wrong
    <3> QED BY <1>7, <3>1, Least
  <2>2. PICK t \in Nat : t = e[n] /\ b + 1 <= t /\ t < end
    BY <1>1, <1>6
  <2>3. doc[t + 1].depth > doc[b + 1].depth /\ doc[t + 1].depth \in Nat /\ doc[b + 1].depth \in Nat
    <3>1. t + 1 \in b + 2 .. end /\ t + 1 \in 1 .. N /\ b + 1 \in 1 .. N
      BY <1>1, <1>2, <2>2, SMTT(30)
    <3> QED BY <1>2, <1>3, <3>1
  <2>6. doc[t + 1].depth # doc[b + 1].depth + 1
    BY <2>1, <2>2
  <2>4. CASE n = 1
    <3>1. t = b + 1 /\ (b + 1) + 1 = t + 1 /\ b + 1 \in 1 .. N - 1
      BY <1>1, <1>2, <1>6, <2>1, <2>2, <2>4
    <3>2. doc[t + 1].depth <= doc[b + 1].depth + 1
      BY <1>4, <3>1
    <3> QED BY <2>3, <2>6, <3>2
  <2>5. CASE n # 1
    <3>1. PICK m \in 1 .. L : n = m + 1 /\ m # L /\ m \notin Wrong
      <4>1. n - 1 \in 1 .. L /\ n = (n - 1) + 1 /\ n - 1 # L /\ ~(n <= n - 1)
        BY <2>1, <2>5
      <4>2. n - 1 \notin Wrong
        BY <2>1, <4>1
      <4> HIDE DEF Wrong
      <4> QED BY <4>1, <4>2
    <3>2. PICK u \in Nat : u = e[m] /\ b + 1 <= u /\ u < end
      BY <1>1, <1>6, SMTT(30)
    <3>3. doc[u + 1].depth = doc[b + 1].depth + 1
      BY <3>1, <3>2
    <3>4. t = LastInside(doc, u + 1)
      BY <1>6, <2>2, <3>1, <3>2
    <3>5. u + 1 \in 1 .. Len(doc) /\ t # Len(doc)
      BY <1>1, <1>2, <2>2, <3>2, SMTT(30)
    <3>6. doc[t + 1].depth <= doc[u + 1].depth
      BY <3>4, <3>5, LastInsideIs
    <3> QED BY <2>3, <2>6, <3>3, <3>6
  <2> QED BY <2>4, <2>5
<1> QED BY <1>5, <1>7

\* So are the values of an object.
LEMMA ValuesDeeper ==
  ASSUME NEW doc, IsNested(doc), IsDocument(doc), NEW b \in 0 .. Len(doc) - 1,
         doc[b + 1].type = "object", Len(Inside(doc, b + 1)) % 2 = 0,
         NEW keys, keys = ObjectKeys(Tokens(doc), b)
  PROVE  /\ keys \in Seq(Nat)
         /\ \A n \in 1 .. Len(keys) :
              /\ keys[n] + 1 \in 0 .. Len(doc) - 1
              /\ doc[keys[n] + 2].depth = doc[b + 1].depth + 1
<1>1. keys \in Seq(Nat)
  BY KeysAreTokens
<1>2. PICK e, h : ArePairs(e, h, doc, b)
  <2>1. PICK e : e = ArrayElements(Tokens(doc), b)
    OBVIOUS
  <2> QED BY <2>1, ElementsPair
<1>3. PICK K \in Nat : K = Len(keys) /\ DOMAIN keys = 1 .. K
  BY <1>1
<1>4. /\ [n \in 1 .. h |-> <<e[2 * n - 1] + 1, e[2 * n] + 1>>]
           = [n \in 1 .. K |-> <<keys[n] + 1, (keys[n] + 1) + 1>>]
  <2>1. AreFields(keys, doc, b)
    BY KeysAreFields
  <2> QED BY <1>2, <1>3, <2>1 DEF AreFields, ArePairs, ValueOf
<1>5. h \in Nat /\ AreElements(e, doc, b) /\ Len(e) = 2 * h
  BY <1>2 DEF ArePairs
<1>6. h = K
  <2>1. DOMAIN [n \in 1 .. h |-> <<e[2 * n - 1] + 1, e[2 * n] + 1>>] = 1 .. h
    OBVIOUS
  <2>2. DOMAIN [n \in 1 .. K |-> <<keys[n] + 1, (keys[n] + 1) + 1>>] = 1 .. K
    OBVIOUS
  <2>3. 1 .. h = 1 .. K
    BY <1>4, <2>1, <2>2
  <2> QED BY <1>5, <2>3
<1>7. ASSUME NEW n \in 1 .. K
      PROVE  /\ keys[n] + 1 \in 0 .. Len(doc) - 1
             /\ doc[keys[n] + 2].depth = doc[b + 1].depth + 1
  <2>1. <<e[2 * n - 1] + 1, e[2 * n] + 1>> = <<keys[n] + 1, (keys[n] + 1) + 1>>
    BY <1>4, <1>6
  <2>2. e[2 * n] + 1 = (keys[n] + 1) + 1
    BY <2>1
  <2>3. 2 * n \in 1 .. Len(e)
    BY <1>5, <1>6
  <2>4. keys[n] \in Nat
    BY <1>1, <1>3
  <2>5. /\ e[2 * n] \in b + 1 .. LastInside(doc, b + 1) - 1
        /\ doc[e[2 * n] + 1].depth = doc[b + 1].depth + 1
    <3>1. \A k \in 1 .. Len(e) : doc[e[k] + 1].depth = doc[b + 1].depth + 1
      BY <1>5, OneDeeper
    <3>2. \A k \in 1 .. Len(e) : e[k] \in b + 1 .. LastInside(doc, b + 1) - 1
      BY <1>5 DEF AreElements
    <3> QED BY <2>3, <3>1, <3>2
  <2>6. LastInside(doc, b + 1) \in b + 1 .. Len(doc) /\ Len(doc) \in Nat
    <3>1. b + 1 \in 1 .. Len(doc) /\ Len(doc) \in Nat
      BY DEF IsNested
    <3> QED BY <3>1, LastInsideIs
  <2>7. e[2 * n] = keys[n] + 1
    BY <2>2, <2>4, <2>5, <2>6, SMTT(30)
  <2>8. (keys[n] + 1) + 1 = keys[n] + 2
    BY <2>4
  <2> QED BY <2>4, <2>5, <2>6, <2>7, <2>8
<1> QED BY <1>1, <1>3, <1>7

\* An object that is not empty has a field.
LEMMA HasField ==
  ASSUME NEW doc, IsNested(doc), IsDocument(doc), NEW b \in 0 .. Len(doc) - 1,
         doc[b + 1].type = "object", Len(Inside(doc, b + 1)) % 2 = 0, LastInside(doc, b + 1) > b + 1
  PROVE  LastInside(doc, b + 1) >= b + 3 /\ LastInside(doc, b + 2) = b + 2
<1>1. PICK e, h : ArePairs(e, h, doc, b)
  <2>1. PICK e : e = ArrayElements(Tokens(doc), b)
    OBVIOUS
  <2> QED BY <2>1, ElementsPair
<1>2. PICK N \in Nat : N = Len(doc) /\ b \in Nat /\ b < N
  <2>1. Len(doc) \in Nat
    BY DEF IsNested
  <2> QED BY <2>1
<1>3. PICK end \in Nat : end = LastInside(doc, b + 1) /\ end <= N /\ b + 1 < end
  <2>1. b + 1 \in 1 .. Len(doc)
    BY <1>2
  <2>2. LastInside(doc, b + 1) \in b + 1 .. Len(doc)
    BY <2>1, LastInsideIs
  <2> QED BY <1>2, <2>2
<1>4. h \in Nat /\ AreElements(e, doc, b) /\ Len(e) = 2 * h
      /\ Fields(doc, b + 1) = [n \in 1 .. h |-> <<e[2 * n - 1] + 1, e[2 * n] + 1>>]
      /\ \A n \in 1 .. h : e[2 * n] = e[2 * n - 1] + 1
  BY <1>1 DEF ArePairs
<1>5. e # <<>> /\ e[1] = b + 1 /\ e \in Seq(Nat)
  BY <1>2, <1>3, <1>4 DEF AreElements
<1>6. 1 \in 1 .. h /\ 2 * 1 - 1 = 1 /\ 2 * 1 = 2 /\ 2 \in 1 .. Len(e)
  <2>1. Len(e) # 0
    BY <1>5
  <2> QED BY <1>4, <2>1
<1>7. e[2] = b + 2 /\ e[2] \in b + 1 .. end - 1
  <2>1. e[2] = e[1] + 1
    BY <1>4, <1>6
  <2>2. e[2] \in b + 1 .. end - 1
    BY <1>3, <1>4, <1>6 DEF AreElements
  <2> QED BY <1>2, <1>5, <2>1, <2>2
<1>8. LastInside(doc, b + 1) >= b + 3
  BY <1>2, <1>3, <1>7
<1>9. Fields(doc, b + 1)[1] = <<b + 2, b + 3>>
  <2>1. Fields(doc, b + 1)[1] = <<e[1] + 1, e[2] + 1>>
    BY <1>4, <1>6
  <2> QED BY <1>2, <1>5, <1>7, <2>1
<1>10. IsScalar(doc[b + 2].type)
  <2>1. b + 1 \in DOMAIN doc /\ 1 \in DOMAIN Fields(doc, b + 1)
    <3>1. b + 1 \in DOMAIN doc
      BY <1>2 DEF IsNested
    <3>2. 1 \in DOMAIN Fields(doc, b + 1)
      BY <1>4, <1>6
    <3> QED BY <3>1, <3>2
  <2>2. IsScalar(doc[Fields(doc, b + 1)[1][1]].type)
    BY <2>1 DEF IsDocument
  <2> QED BY <1>9, <2>2
<1>11. b + 2 \in 1 .. Len(doc)
  BY <1>2, <1>3, <1>8
<1> QED BY <1>8, <1>10, <1>11, WordEnds

\* Where there is an element, there is a key.
LEMMA KeyOfElement ==
  ASSUME NEW doc, IsNested(doc), NEW b \in 0 .. Len(doc) - 1, LastInside(doc, b + 1) > b + 1
  PROVE  Len(ObjectKeys(Tokens(doc), b)) \in Nat /\ Len(ObjectKeys(Tokens(doc), b)) >= 1
<1>1. PICK N \in Nat : N = Len(doc) /\ b \in Nat /\ b < N
  <2>1. Len(doc) \in Nat
    BY DEF IsNested
  <2> QED BY <2>1
<1>2. PICK end \in Nat : end = LastInside(doc, b + 1) /\ end <= N /\ b + 1 < end
  <2>1. b + 1 \in 1 .. Len(doc)
    BY <1>1
  <2>2. LastInside(doc, b + 1) \in b + 1 .. Len(doc)
    BY <2>1, LastInsideIs
  <2> QED BY <1>1, <2>2
<1>3. PICK behind : /\ behind \in [0 .. N - 1 -> Seq(Nat)]
                    /\ ObjectKeys(Tokens(doc), b) = behind[b]
                    /\ behind[b] = IF b + 1 >= LastInside(doc, b + 1) THEN <<>> ELSE <<b + 1>> \o behind[b + 1]
  BY <1>1, ElementsUnfold DEF ObjectKeys
<1>4. behind[b + 1] \in Seq(Nat) /\ ObjectKeys(Tokens(doc), b) = <<b + 1>> \o behind[b + 1]
  <2>1. b + 1 \in 0 .. N - 1 /\ ~(b + 1 >= LastInside(doc, b + 1))
    BY <1>1, <1>2
  <2> QED BY <1>3, <2>1
<1> QED BY <1>1, <1>4
=============================================================================
