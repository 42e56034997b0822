---------------------------- MODULE MCTxValidate ----------------------------
(* Small messages for TxValidate: documents with two required fields, with *)
(* whitespace at any one place, and texts that are no JSON.                *)
EXTENDS TxValidate

String(chars) == <<Lexeme("string", chars)>>
Key(c) == String(<<c>>)
Number(c) == <<Lexeme("primitive", <<c>>)>>
Sign(kind, c) == <<Lexeme(kind, <<c>>)>>

Separated(parts) ==
  FlattenSeq([n \in DOMAIN parts |-> IF n = 1 THEN parts[1] ELSE Sign("comma", ",") \o parts[n]])

List(parts) == Sign("open", "[") \o Separated(parts) \o Sign("close", "]")
Dictionary(fields) ==
  Sign("open", "{")
  \o Separated([n \in DOMAIN fields |-> fields[n][1] \o Sign("colon", ":") \o fields[n][2]])
  \o Sign("close", "}")

\* The values of the field b of a root {"a":1,"b":...}.
Values ==
  {Number("1"), String(<<>>), String(<<"\\", "\"", " ">>), List(<<>>), Dictionary(<<>>),
   List(<<Number("1"), String(<<"a">>)>>), List(<<Dictionary(<<>>), Number("1")>>),
   List(<<Dictionary(<<<<Key("a"), Number("1")>>>>)>>), List(<<List(<<>>)>>),
   Dictionary(<<<<Key("a"), List(<<>>)>>, <<Key("b"), Number("1")>>>>)}

\* Keys in and out of order: one a prefix of another, equal ones, one with a
\* character before the quote, three of them, and inner ones.
Unordered ==
  {Dictionary(<<<<Key("b"), Number("1")>>, <<Key("a"), Number("1")>>>>),
   Dictionary(<<<<Key("a"), Number("1")>>, <<String(<<"a", "b">>), Number("1")>>>>),
   Dictionary(<<<<String(<<"a", "b">>), Number("1")>>, <<Key("a"), Number("1")>>>>),
   Dictionary(<<<<Key("a"), Number("2")>>, <<Key("a"), Number("1")>>>>),
   Dictionary(<<<<Key("a"), Number("1")>>, <<String(<<"a", " ">>), Number("1")>>>>),
   Dictionary(<<<<Key("a"), Number("1")>>, <<Key("c"), Number("1")>>, <<Key("b"), Number("1")>>>>)}

Root(value) == Dictionary(<<<<Key("a"), Number("1")>>, <<Key("b"), value>>>>)

MCDocuments ==
  {Root(value) : value \in Values \cup Unordered} \cup Unordered
  \cup {List(<<Root(value)>>) : value \in Unordered}
  \cup {Number("1"), Dictionary(<<>>), Dictionary(<<<<Key("a"), Root(Number("1"))>>>>),
        List(<<Key("a"), Number("1"), Key("b")>>), List(<<Key("a"), Key("b"), Number("1")>>),
        List(<<Key("a"), Number("1"), Key("b"), List(<<Key("a"), Number("1"), Key("b")>>)>>)}

Spaced(m, k, blanks) == SubSeq(m, 1, k) \o blanks \o SubSeq(m, k + 1, Len(m))
Space == <<Lexeme("blank", <<" ">>)>>

Malformed ==
  {<<>>, Sign("open", "{"), Sign("close", "]"), Sign("open", "[") \o Sign("close", "}"),
   Sign("open", "{") \o Sign("open", "[") \o Sign("close", "}"),
   Sign("primitive", "\f"), Sign("primitive", "VT"), Sign("primitive", "high"), Sign("comma", ","),
   Sign("primitive", "\"") \o Sign("primitive", "a"),
   Sign("primitive", "\"") \o Sign("primitive", "\\"),
   String(<<"\\", "{">>), String(<<"\\", "u", "1", "a">>), String(<<"\\", "u", "1", "1", "a", "a">>),
   Sign("open", "[") \o Number("1") \o Number("NUL") \o Sign("close", "]"),
   Root(Number("1")) \o Root(Number("1"))}

MCMessages ==
  MCDocuments \cup Malformed
  \cup UNION {{Spaced(m, k, blanks) : k \in 0 .. Len(m), blanks \in {Space, Space \o Space}} :
             m \in {Root(value) : value \in Values}}

MCCodes == <<"NUL", "VT", "\f", " ", "\"", ",", "1", "2", ":", "[", "\\", "]", "a", "b", "c", "u", "{", "}", "high">>
MCTexts == {Rendered(m) : m \in MCMessages}
MCRemains == {<<>>, <<" ", "a">>, <<"}">>, <<"NUL", " ">>}
MCRequired == <<<<"a">>, <<"b">>>>
=============================================================================
