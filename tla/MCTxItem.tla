------------------------------ MODULE MCTxItem ------------------------------
(* Items for TxItem: amounts around the number of decimals and the sizes   *)
(* of the buffers, coins of other shapes, and values of other fields.      *)
EXTENDS TxItem

Zero == "0"
Digits == {Zero, "7"}
Amounts == UNION {[1 .. n -> Digits] : n \in 0 .. 4}
           \cup {<<"7">> \o [i \in 1 .. n |-> Zero] : n \in 4 .. 8}
           \cup {<<"7", "x", Zero>>, <<"-", "7">>}
Assets == {<<"r">>, <<"r", "/", "R", "x">>, <<"t", "h", "o", "r", ".", "r", "u", "n">>, <<>>}

\* Documents whose words are sequences of characters.
List(elements) == Node("array", <<"[", "]">>) \o Deeper(FlattenSeq(elements))
Dictionary(fields) == Node("object", <<"{", "}">>) \o Deeper(FlattenSeq(fields))

Coin(amount, asset) ==
  Dictionary(<<Field(<<"amount">>, Text(amount)), Field(<<"asset">>, Text(asset))>>)

\* The coins of a message, and what follows the message.
AmountItem(coins, next) ==
  [doc |-> List(<<Dictionary(<<Field(<<"value">>, Dictionary(<<Field(<<"coins">>, coins)>>))>>)>>
                \o next),
   at |-> 5, isAmount |-> TRUE]
ValueItem(value) == [doc |-> List(<<value>>), at |-> 1, isAmount |-> FALSE]

One == Coin(<<"7">>, <<"r">>)
NoCoin ==
  {List(<<>>), Dictionary(<<>>), Text(<<"7">>), List(<<Text(<<"7">>)>>), List(<<List(<<>>)>>),
   List(<<One, One>>), One, Dictionary(<<Field(<<"a">>, Text(<<"7">>))>>),
   Dictionary(<<Field(<<"a">>, One), Field(<<"b">>, Text(<<"r">>))>>),
   List(<<List([i \in 1 .. 4 |-> Text(<<"7">>)])>>),
   Dictionary(<<Field(<<"a">>, Node("primitive", <<"7">>)), Field(<<"b">>, Text(<<"r">>))>>)}

MCItems ==
  {AmountItem(List(<<Coin(amount, asset)>>), <<>>) : amount \in Amounts, asset \in Assets}
  \cup {AmountItem(coins, next) : coins \in NoCoin, next \in {<<>>, <<Text(<<"k">>)>>, <<One>>}}
  \cup {ValueItem(Text([i \in 1 .. n |-> IF i % 2 = 0 THEN "x" ELSE "y"])) : n \in 0 .. 15}
  \cup {ValueItem(List(<<>>)), ValueItem(Text(<<"send">>))}

MCUpper == [c \in {"r", "t", "h", "o", "u", "n", "x"} |->
              [r |-> "R", t |-> "T", h |-> "H", o |-> "O", u |-> "U", n |-> "N", x |-> "X"][c]]
MCSubstitutes == [w \in {<<"[", "]">>, <<"send">>} |-> IF w # <<"send">> THEN Empty ELSE <<"S", "e">>]
=============================================================================
