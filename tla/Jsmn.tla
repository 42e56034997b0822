-------------------------------- MODULE Jsmn --------------------------------
(***************************************************************************)
(* The tokenizer jsmn.c, as it is built here (not strict, without links to *)
(* parents), over the transaction buffer: one action per kind of character *)
(* where one is read.  What nothing in this build reads is left out: the   *)
(* size of a token and the token it is counted in, toksuper.  The buffer   *)
(* is not cleared for a new message, so the bytes of earlier ones may lie  *)
(* behind its text.                                                        *)
(***************************************************************************)
EXTENDS Integers, Sequences

CONSTANTS
  MaxTokens,        \* MAX_NUMBER_OF_TOKENS
  Texts,            \* the texts that are parsed, sequences of characters
  Remains           \* what earlier messages may have left behind a text

ASSUME JsmnAssumption ==
  /\ MaxTokens \in Nat
  /\ \A text \in Texts \cup Remains : text \in Seq(STRING)

VARIABLES
  buffer,       \* the bytes of the buffer
  length,       \* the length of the text in it
  pos,          \* parser->pos
  scan,         \* the loop that is running: "between", "string" or "primitive"
  from,         \* start, in jsmn_parse_string and jsmn_parse_primitive
  tokens,       \* the tokens made so far
  status        \* "idle", "parsing", "ok" or an error

jsmnVars == <<buffer, length, pos, scan, from, tokens, status>>

NUL == "NUL"
Blank == {" ", "\t", "\r", "\n"}
\* Bytes below 32 but for NUL and the blanks, and those from 127 on; "high" is
\* any of those above DEL.
Unprintable == {"SOH", "STX", "ETX", "EOT", "ENQ", "ACK", "BEL", "BS", "VT", "\f", "SO", "SI",
                "DLE", "DC1", "DC2", "DC3", "DC4", "NAK", "SYN", "ETB", "CAN", "EM", "SUB",
                "ESC", "FS", "GS", "RS", "US", "DEL", "high"}
Escapable == {"\"", "/", "\\", "b", "f", "r", "n", "t"}
HexDigit == {"0", "1", "2", "3", "4", "5", "6", "7", "8", "9", "A", "B", "C", "D",
             "E", "F", "a", "b", "c", "d", "e", "f"}
Opening == {"{", "["}
Closing == {"}", "]"}

\* Positions count from 0; nothing was ever written behind the buffer.
At(p) == IF p + 1 \in DOMAIN buffer THEN buffer[p + 1] ELSE NUL

Unset == -1
Token(type, start, end) == [type |-> type, start |-> start, end |-> end]
TypeOf(c) == IF c \in {"{", "}"} THEN "object" ELSE "array"

JsmnInit ==
  /\ buffer = <<>> /\ length = 0
  /\ pos = 0 /\ scan = "between" /\ from = 0 /\ tokens = <<>> /\ status = "idle"

-----------------------------------------------------------------------------
\* buffering_reset and the appends of one message, then jsmn_init.
Begin(text) ==
  /\ status # "parsing"
  /\ \E rest \in Remains : buffer' = text \o rest
  /\ length' = Len(text)
  /\ pos' = 0 /\ scan' = "between" /\ from' = 0 /\ tokens' = <<>>
  /\ status' = "parsing"

AtEnd == pos >= length \/ At(pos) = NUL

Reads(loop, chars) ==
  /\ status = "parsing" /\ scan = loop
  /\ ~AtEnd /\ At(pos) \in chars

Fail(error) ==
  /\ status' = error
  /\ UNCHANGED <<buffer, length, pos, scan, from, tokens>>

\* jsmn_alloc_token and jsmn_fill_token.
AllocToken(token, next) ==
  IF Len(tokens) >= MaxTokens THEN Fail("too_many_tokens")
  ELSE /\ tokens' = Append(tokens, token)
       /\ pos' = next /\ scan' = "between"
       /\ UNCHANGED <<buffer, length, from, status>>

MoveTo(next) ==
  /\ pos' = next
  /\ UNCHANGED <<buffer, length, scan, from, tokens, status>>

Enter(loop, next) ==
  /\ scan' = loop /\ from' = pos /\ pos' = next
  /\ UNCHANGED <<buffer, length, tokens, status>>

Open ==
  /\ Reads("between", Opening)
  /\ AllocToken(Token(TypeOf(At(pos)), pos, Unset), pos + 1)

\* The last token that has no end yet.
IsLastOpen(t) ==
  /\ t \in DOMAIN tokens /\ tokens[t].end = Unset
  /\ \A later \in t + 1 .. Len(tokens) : tokens[later].end # Unset

\* Mutant: the first open token is closed.
CloseFirstOpen ==
  /\ Reads("between", Closing)
  /\ IF \E t \in DOMAIN tokens : IsLastOpen(t) /\ tokens[t].type = TypeOf(At(pos))
     THEN \E t \in DOMAIN tokens :
            /\ tokens[t].end = Unset /\ \A earlier \in 1 .. t - 1 : tokens[earlier].end # Unset
            /\ tokens' = [tokens EXCEPT ![t].end = pos + 1]
            /\ pos' = pos + 1
            /\ UNCHANGED <<buffer, length, scan, from, status>>
     ELSE Fail("unexpected_characters")

Close ==
  /\ Reads("between", Closing)
  /\ IF \E t \in DOMAIN tokens : IsLastOpen(t) /\ tokens[t].type = TypeOf(At(pos))
     THEN \E t \in DOMAIN tokens :
            /\ IsLastOpen(t)
            /\ tokens' = [tokens EXCEPT ![t].end = pos + 1]
            /\ pos' = pos + 1
            /\ UNCHANGED <<buffer, length, scan, from, status>>
     ELSE Fail("unexpected_characters")

Skip ==
  /\ Reads("between", Blank \cup {":", ","})
  /\ MoveTo(pos + 1)

OpenQuote ==
  /\ Reads("between", {"\""})
  /\ Enter("string", pos + 1)

CloseQuote ==
  /\ Reads("string", {"\""})
  /\ AllocToken(Token("string", from + 1, pos), pos + 1)

IsEscape == At(pos) = "\\" /\ pos + 1 < length

StringCharacter ==
  /\ status = "parsing" /\ scan = "string"
  /\ ~AtEnd /\ At(pos) # "\"" /\ ~IsEscape
  /\ MoveTo(pos + 1)

\* Mutant: an escaped character is read again.
EscapeWithoutSkip ==
  /\ Reads("string", {"\\"}) /\ IsEscape
  /\ IF At(pos + 1) \in Escapable THEN MoveTo(pos + 1) ELSE Fail("unexpected_characters")

Escape ==
  /\ Reads("string", {"\\"}) /\ IsEscape
  /\ \/ At(pos + 1) \in Escapable /\ MoveTo(pos + 2)
     \/ \E n \in 0 .. 4 :
          LET next == pos + 2 + n IN
          /\ At(pos + 1) = "u"
          /\ \A p \in pos + 2 .. next - 1 : p < length /\ At(p) \in HexDigit
          /\ \/ (n = 4 \/ next >= length \/ At(next) = NUL) /\ MoveTo(next)
             \/ /\ n < 4 /\ next < length /\ At(next) \notin HexDigit \cup {NUL}
                /\ Fail("unexpected_characters")
     \/ At(pos + 1) \notin Escapable \cup {"u"} /\ Fail("unexpected_characters")

StringEnds ==
  /\ status = "parsing" /\ scan = "string" /\ AtEnd
  /\ Fail("incomplete_json")

PrimitiveStarts ==
  /\ status = "parsing" /\ scan = "between" /\ ~AtEnd
  /\ At(pos) \notin Opening \cup Closing \cup Blank \cup {"\"", ":", ","}
  /\ Enter("primitive", pos)

EndsPrimitive == AtEnd \/ At(pos) \in Blank \cup Closing \cup {":", ","}

PrimitiveCharacter ==
  /\ status = "parsing" /\ scan = "primitive" /\ ~EndsPrimitive
  /\ IF At(pos) \in Unprintable THEN Fail("unexpected_characters") ELSE MoveTo(pos + 1)

PrimitiveEnds ==
  /\ status = "parsing" /\ scan = "primitive" /\ EndsPrimitive
  /\ AllocToken(Token("primitive", from, pos), pos)

\* The end of jsmn_parse, and what json_parse makes of its result.
Finish ==
  /\ status = "parsing" /\ scan = "between" /\ AtEnd
  /\ status' = IF \E t \in DOMAIN tokens : tokens[t].end = Unset THEN "incomplete_json"
               ELSE IF tokens = <<>> THEN "zero_tokens" ELSE "ok"
  /\ UNCHANGED <<buffer, length, pos, scan, from, tokens>>

JsmnStep ==
  \/ Open \/ Close \/ Skip
  \/ OpenQuote \/ StringCharacter \/ Escape \/ CloseQuote \/ StringEnds
  \/ PrimitiveStarts \/ PrimitiveCharacter \/ PrimitiveEnds
  \/ Finish

JsmnNext == JsmnStep \/ \E text \in Texts : Begin(text)

JsmnSpec == JsmnInit /\ [][JsmnNext]_jsmnVars

-----------------------------------------------------------------------------
JsmnTypeOK ==
  /\ buffer \in Seq(STRING)
  /\ length \in 0 .. Len(buffer)
  /\ pos \in Nat /\ from \in Nat
  /\ scan \in {"between", "string", "primitive"}
  /\ tokens \in Seq([type : {"object", "array", "string", "primitive"},
                     start : Nat, end : Nat \cup {Unset}])
  /\ Len(tokens) <= MaxTokens
  /\ status \in {"idle", "parsing", "ok", "too_many_tokens", "unexpected_characters",
                 "incomplete_json", "zero_tokens"}

(* The tokens lie in the text in their order and nest: one that follows    *)
(* another begins behind it or ends before it does.  The walks of          *)
(* json_parser.c and the gaps of contains_whitespace are found by nothing  *)
(* but comparing where tokens start and end.                               *)
TokensNest ==
  \A i, j \in DOMAIN tokens : i < j =>
    /\ tokens[i].start < tokens[j].start
    /\ tokens[i].end # Unset =>
         \/ tokens[i].end <= tokens[j].start
         \/ tokens[j].end # Unset /\ tokens[j].end < tokens[i].end
=============================================================================
