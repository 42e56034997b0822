---------------------------- MODULE MCTxDisplay -----------------------------
(* Small documents for TxDisplay, out of some chains, fees, memos and      *)
(* messages.                                                               *)
EXTENDS TxDisplay

Coins == Array(<<Object(<<Field("amount", Text("5")), Field("denom", Text("rune"))>>)>>)
Send == Object(<<Field("type", Text("send")),
                 Field("value", Object(<<Field("amount", Coins), Field("to", Text("a"))>>))>>)
Note == Object(<<Field("type", Text("note"))>>)
Nothing == Object(<<>>)

Chains == <<Text("thorchain"), Text("elsewhere")>>
Memos == <<Text(""), Text("memo")>>
Fees == <<Object(<<Field("amount", Array(<<>>)), Field("gas", Text("1"))>>),
          Object(<<Field("amount", Coins)>>),
          Text("1"),
          Array(<<Text("1")>>),
          Array(<<Note, Note>>)>>

\* Messages that are plain, up to as many as fill the counters and more.
Notes(many) == Array([n \in 1 .. many |-> Note])
PlainMessages ==
  <<Array(<<>>), Array(<<Note, Send, Note>>),
    Array(<<Object(<<Field("value", Nothing)>>), Note>>),
    Array(<<Object(<<Field("a", Array(<<Text("x")>>)), Field("b", Array(<<>>))>>)>>),
    Notes(Width - 6), Notes(Width - 1), Notes(Width), Notes(Width + 2)>>

Nested[depth \in Nat] ==
  IF depth = 0 THEN Text("x") ELSE Array(<<Nested[depth - 1]>>)

\* Other messages that the validation accepts.
OtherMessages ==
  <<Text("m"), Object(<<Field("a", Text("x")), Field("b", Text("y"))>>),
    Array(<<Nothing, Note>>), Array(<<Text("x"), Text("y"), Text("z")>>),
    Array(<<Note, Array(<<Text("x"), Note>>)>>), Nested[MAX_RECURSION_DEPTH + 1]>>

Messages == PlainMessages \o OtherMessages

Document(chain, fee, memo, msgs, more) ==
  Object(<<Field("account_number", Text("7")), Field("chain_id", chain),
           Field("fee", fee), Field("memo", memo), Field("msgs", msgs)>>
         \o more \o <<Field("sequence", Text("3"))>>)

MCDocs ==
  [n \in 1 .. 2 * Len(Fees) |->
     Document(Text("elsewhere"), Fees[(n + 1) \div 2], Memos[1 + (n % 2)], Array(<<Send>>), <<>>)]
  \o
  [n \in 1 .. 2 * Len(Messages) |->
     Document(Chains[1 + (n % 2)], Fees[1], Text("memo"), Messages[(n + 1) \div 2],
              <<Field("other", Note)>>)]
=============================================================================
