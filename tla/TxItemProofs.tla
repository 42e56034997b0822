---------------------------- MODULE TxItemProofs ----------------------------
(***************************************************************************)
(* Proofs about TxItem: what parser_validate accepts by its first page can *)
(* be shown to its last page, for all items, buffers and lines.  Nothing   *)
(* that an item shows has more pages than a uint8_t can count, so that the *)
(* count does not wrap, is the same for every page, and is never zero; and *)
(* the pages, one behind the other, are what the item shows.  What it      *)
(* shows of an amount is that amount: the parser finds the fields of the   *)
(* coin by where tokens start and end, and its zeros and point say the     *)
(* same number.                                                            *)
(***************************************************************************)
EXTENDS TxItem, JsonProofs

\* What texts are made of; that the characters of the code are strings is not
\* known to the provers.
Character == STRING \cup {"0", ".", " ", "Empty"}

\* A text whose pages can be counted.
IsText(text) ==
  /\ \E S : text \in Seq(S)
  /\ Len(text) \in Nat /\ Len(text) <= (Width - 1) * (ViewLen - 1)
  /\ text # <<>> => Len(text) > 0

\* The pages of an item.
Count == IF Got.text = <<>> THEN 1 ELSE PageCount(Got.text, ViewLen)

\* The review has shown the first pages, in order, of an item that
\* parser_validate has accepted.
IInv ==
  /\ item \in Items /\ expert \in BOOLEAN
  /\ stage \in {"none", "refused", "shown"}
  /\ stage # "shown" => pages = <<>>
  /\ stage = "shown" => Got.err = "ok" /\ Len(pages) <= Count
  /\ Len(pages) \in Nat
  /\ pages = [n \in 1 .. Len(pages) |-> GetItem(n - 1, ViewLen)]

-----------------------------------------------------------------------------
LEMMA Sizes ==
  /\ Width \in Nat \ {0, 1} /\ ViewLen \in Nat \ {0, 1} /\ Decimals \in Nat \ {0}
  /\ UiSize \in Nat /\ UiSize <= (Width - 1) * (ViewLen - 1)
BY ItemAssumption

LEMMA Characters == "0" \in Character /\ "." \in Character /\ " " \in Character
                    /\ "Empty" \in Character /\ STRING \subseteq Character
BY DEF Character

LEMMA Wider ==
  ASSUME NEW S, NEW T, S \subseteq T, NEW s \in Seq(S)
  PROVE  s \in Seq(T)
OBVIOUS

LEMMA Single ==
  ASSUME NEW S, NEW c \in S
  PROVE  <<c>> \in Seq(S) /\ Len(<<c>>) = 1
OBVIOUS

LEMMA Element ==
  ASSUME NEW S, NEW s \in Seq(S), NEW i \in DOMAIN s
  PROVE  s[i] \in S
OBVIOUS

LEMMA Pair ==
  ASSUME NEW S, NEW c \in S, NEW d \in S
  PROVE  <<c, d>> \in Seq(S) /\ Len(<<c, d>>) = 2
OBVIOUS

LEMMA Repeated ==
  ASSUME NEW S, NEW c \in S, NEW n \in Nat
  PROVE  [i \in 1 .. n |-> c] \in Seq(S)
OBVIOUS

LEMMA Joined ==
  ASSUME NEW S, NEW s \in Seq(S), NEW t \in Seq(S), NEW c \in S
  PROVE  s \o <<c>> \o t \in Seq(S) /\ Len(s \o <<c>> \o t) = Len(s) + 1 + Len(t)
OBVIOUS

LEMMA Beginning ==
  ASSUME NEW S, NEW s \in Seq(S), NEW n \in 1 .. Len(s)
  PROVE  SubSeq(s, 1, n) \in Seq(S)
OBVIOUS

LEMMA OneMore ==
  ASSUME NEW f, NEW n \in Nat, NEW s, s = [k \in 1 .. n |-> f[k - 1]]
  PROVE  /\ Append(s, f[n]) = [k \in 1 .. n + 1 |-> f[k - 1]]
         /\ Len(Append(s, f[n])) = n + 1
OBVIOUS

\* The loop that removes zeros finds a character to stop at.
LEMMA KeptExists ==
  ASSUME NEW s \in Seq(Character), Len(s) > 0
  PROVE  \E n \in 1 .. Len(s) : Kept(s, n)
<1> DEFINE Ends == {n \in 1 .. Len(s) : \A m \in n + 1 .. Len(s) : s[m] = "0" /\ s[m - 1] # "."}
<1>1. Len(s) \in Ends /\ Ends \subseteq Nat
  OBVIOUS
<1>2. PICK n \in Ends : \A m \in Ends : n <= m
  <2> HIDE DEF Ends
  <2> QED BY <1>1, Least
<1>3. CASE n = 1
  BY <1>2, <1>3 DEF Kept
<1>4. CASE n # 1
  <2>1. n - 1 \in 1 .. Len(s) /\ n - 1 \notin Ends
    BY <1>2, <1>4
  <2>2. PICK m \in n .. Len(s) : ~(s[m] = "0" /\ s[m - 1] # ".")
    BY <2>1
  <2>3. m = n
    BY <1>2, <2>2
  <2> QED BY <1>2, <2>2, <2>3 DEF Kept
<1> QED BY <1>3, <1>4

LEMMA NumberIsSeq ==
  ASSUME NEW amount \in Seq(Character)
  PROVE  DropZeros(FpStrToStr(amount)) \in Seq(Character)
<1> DEFINE s == FpStrToStr(amount)
<1>1. s \in Seq(Character) /\ Len(s) > 0
  <2>1. CASE Len(amount) <= Decimals
    <3>1. Zeros(Decimals - Len(amount)) \in Seq(Character)
      <4>1. Decimals - Len(amount) \in Nat
        BY <2>1, Sizes
      <4> QED BY <4>1, Repeated, Characters DEF Zeros
    <3>2. <<"0", ".">> \in Seq(Character) /\ Len(<<"0", ".">>) = 2
      BY Pair, Characters
    <3> DEFINE begin == <<"0", ".">>
               zeros == Zeros(Decimals - Len(amount))
    <3>3. s = begin \o zeros \o amount
      BY <2>1 DEF FpStrToStr
    <3> HIDE DEF begin, zeros, s
    <3>4. begin \in Seq(Character) /\ Len(begin) = 2 /\ zeros \in Seq(Character)
      BY <3>1, <3>2 DEF begin, zeros
    <3> QED BY <3>3, <3>4
  <2>2. CASE Len(amount) > Decimals
    <3>1. <<".">> \in Seq(Character) /\ Len(<<".">>) = 1
      BY Single, Characters
    <3>2. /\ SubSeq(amount, 1, Len(amount) - Decimals) \in Seq(Character)
          /\ Len(SubSeq(amount, 1, Len(amount) - Decimals)) \in Nat
          /\ SubSeq(amount, Len(amount) - Decimals + 1, Len(amount)) \in Seq(Character)
      BY <2>2, Sizes
    <3> DEFINE point == <<".">>
               before == SubSeq(amount, 1, Len(amount) - Decimals)
               behind == SubSeq(amount, Len(amount) - Decimals + 1, Len(amount))
    <3>3. s = before \o point \o behind
      <4>1. ~(Len(amount) <= Decimals)
        BY <2>2, Sizes
      <4> QED BY <4>1, Zenon DEF FpStrToStr
    <3> HIDE DEF point, before, behind, s
    <3>4. /\ point \in Seq(Character) /\ Len(point) = 1
          /\ before \in Seq(Character) /\ behind \in Seq(Character)
      BY <3>1, <3>2 DEF point, before, behind
    <3> QED BY <3>3, <3>4
  <2> QED BY <2>1, <2>2, Sizes
<1> HIDE DEF s
<1>2. (CHOOSE n \in 1 .. Len(s) : Kept(s, n)) \in 1 .. Len(s)
  BY <1>1, KeptExists
<1>3. DropZeros(s) \in Seq(Character)
  BY <1>1, <1>2, Beginning DEF DropZeros
<1> QED BY <1>3 DEF s

-----------------------------------------------------------------------------
\* The token of an item is that of its value.
LEMMA ItemIsToken ==
  ASSUME item \in Items
  PROVE  /\ item.at \in DOMAIN json /\ Value = item.at + 1
         /\ json[item.at].word = item.doc[Value].word
<1>1. item.doc \in Seq([depth : Nat, type : STRING, word : Seq(STRING)])
  BY ItemAssumption
<1>2. item.at \in Nat /\ item.at + 1 \in DOMAIN item.doc
  BY ItemAssumption
<1>3. item.at \in 0 .. Len(item.doc) - 1
  BY <1>1, <1>2
<1>4. DOMAIN json = 0 .. Len(item.doc) - 1 /\ json[item.at].word = item.doc[item.at + 1].word
  BY <1>3 DEF json, Tokens
<1> QED BY <1>3, <1>4 DEF Value

LEMMA WordIsText ==
  ASSUME item \in Items, NEW t \in DOMAIN json
  PROVE  json[t].word \in Seq(Character) /\ Countable(json[t].word)
<1>1. t + 1 \in DOMAIN item.doc /\ json[t].word = item.doc[t + 1].word
  <2>1. item.doc \in Seq([depth : Nat, type : STRING, word : Seq(STRING)])
    BY ItemAssumption
  <2> QED BY <2>1 DEF json, Tokens
<1>2. item.doc[t + 1].word \in Seq(STRING) /\ Countable(item.doc[t + 1].word)
  <2>1. /\ item.doc \in Seq([depth : Nat, type : STRING, word : Seq(STRING)])
        /\ \A i \in DOMAIN item.doc : Countable(item.doc[i].word)
    BY ItemAssumption
  <2>2. item.doc[t + 1] \in [depth : Nat, type : STRING, word : Seq(STRING)]
    BY <1>1, <2>1, Element
  <2> QED BY <1>1, <2>1, <2>2
<1> QED BY <1>1, <1>2, Characters, Wider

LEMMA AmountIsText ==
  ASSUME NEW amount \in Seq(Character), NEW asset \in Seq(Character),
         AmountText(amount, asset).err = "ok"
  PROVE  IsText(AmountText(amount, asset).text)
<1> DEFINE number == IF expert THEN amount ELSE DropZeros(FpStrToStr(amount))
           shown == number \o <<" ">> \o asset
           text == Capitalise(shown)
<1>1. number \in Seq(Character)
  BY NumberIsSeq
<1>2. AmountText(amount, asset).text = text /\ Len(number) + 1 + Len(asset) < UiSize
  <2>1. /\ AmountText(amount, asset) = Ok(text)
        /\ ~(Len(number) + 1 + Len(asset) >= UiSize)
    BY DEF AmountText, Error
  <2> HIDE DEF number, text
  <2> QED BY <1>1, <2>1, Sizes DEF Ok
<1> HIDE DEF number
<1>3. shown \in Seq(Character) /\ Len(shown) = Len(number) + 1 + Len(asset)
  BY <1>1, Characters, Joined DEF shown
<1> HIDE DEF shown
<1>4. text \in Seq({text[i] : i \in DOMAIN shown}) /\ Len(text) = Len(shown)
  BY <1>3 DEF Capitalise
<1>5. Len(text) \in Nat /\ 0 < Len(text) /\ Len(text) < UiSize
  BY <1>1, <1>2, <1>3, <1>4
<1> HIDE DEF text
<1> QED BY <1>2, <1>4, <1>5, Sizes DEF IsText

LEMMA WordsAreTexts ==
  ASSUME NEW text \in Seq(Character), Countable(text)
  PROVE  IsText(text)
BY DEF IsText, Countable

\* What an item shows, if anything, has pages that can be counted.
LEMMA GotIsText ==
  ASSUME item \in Items, Got.err = "ok"
  PROVE  IsText(Got.text)
<1>1. CASE item.isAmount
  <2> DEFINE coin == IF json[item.at].type = "array" THEN item.at + 1 ELSE item.at
  <2>1. Got = CoinText(json, item.at)
    BY <1>1 DEF Got
  <2>2. CASE Got = Ok(Empty)
    <3>1. 1 <= (Width - 1) * (ViewLen - 1)
      BY Sizes
    <3>2. Empty \in Seq(Character) /\ Len(Empty) = 1
      BY Single, Characters DEF Empty
    <3>3. Got.text = Empty
      BY <2>2 DEF Ok
    <3>4. Countable(Empty)
      BY <3>1, <3>2 DEF Countable
    <3> QED BY <3>2, <3>3, <3>4, WordsAreTexts
  <2>3. CASE Got # Ok(Empty)
    <3>1. /\ Got = AmountText(json[coin + 2].word, json[coin + 4].word)
          /\ TokenAt(json, coin + 2).type = "string"
          /\ TokenAt(json, coin + 4).type = "string"
      BY <2>1, <2>3 DEF CoinText, Error
    <3>2. coin + 2 \in DOMAIN json /\ coin + 4 \in DOMAIN json
      BY <3>1 DEF TokenAt, NoToken
    <3> HIDE DEF coin
    <3> QED BY <3>1, <3>2, WordIsText, AmountIsText
  <2> QED BY <2>2, <2>3
<1>2. CASE ~item.isAmount
  <2>1. item.at \in DOMAIN json
    BY ItemIsToken
  <2>2. Got = Ok(IF json[item.at].word \in DOMAIN Substitutes
                 THEN Substitutes[json[item.at].word] ELSE json[item.at].word)
    BY <1>2 DEF Got, ValueText
  <2>3. Got.text \in Seq(Character) /\ Countable(Got.text)
    <3>1. \A word \in DOMAIN Substitutes :
            Substitutes[word] \in Seq(Character) /\ Countable(Substitutes[word])
      BY ItemAssumption, Characters, Wider
    <3> QED BY <2>1, <2>2, <3>1, WordIsText DEF Ok
  <2> QED BY <2>3, WordsAreTexts
<1> QED BY <1>1, <1>2

-----------------------------------------------------------------------------
\* The count of the pages of a text does not wrap.
LEMMA CountExact ==
  ASSUME NEW text, IsText(text), text # <<>>
  PROVE  LET more == IF Len(text) % Line(ViewLen) > 0 THEN 1 ELSE 0
         IN  /\ PageCount(text, ViewLen) = Len(text) \div Line(ViewLen) + more
             /\ PageCount(text, ViewLen) \in 1 .. Width - 1
<1> DEFINE n == Len(text)
           line == Line(ViewLen)
           q == n \div line
           r == n % line
           more == IF r > 0 THEN 1 ELSE 0
<1>1. n \in Nat /\ n > 0 /\ n <= (Width - 1) * line
  BY DEF IsText, Line
<1>2. line \in Nat \ {0} /\ Width \in Nat \ {0, 1}
  BY Sizes DEF Line
<1>3. PageCount(text, ViewLen) = (q + more) % Width
  BY DEF PageCount
<1> HIDE DEF n, line
<1>4. q \in Nat /\ r \in 0 .. line - 1 /\ n = line * q + r
  BY <1>1, <1>2
<1> HIDE DEF q, r
<1>5. q + more >= 1
  BY <1>1, <1>2, <1>4
<1>6. q + more <= Width - 1
  <2>1. CASE r = 0
    <3>1. ~(q >= Width)
      <4>1. q >= Width => line * q >= line * Width
        BY <1>2, <1>4
      <4>2. line * Width = (Width - 1) * line + line
        BY <1>2
      <4> QED BY <1>1, <1>2, <1>4, <4>1, <4>2
    <3> QED BY <1>2, <1>4, <2>1, <3>1
  <2>2. CASE r # 0
    <3>1. ~(q >= Width - 1)
      <4>1. q >= Width - 1 => line * q >= line * (Width - 1)
        BY <1>2, <1>4
      <4>2. line * (Width - 1) = (Width - 1) * line
        BY <1>2
      <4> QED BY <1>1, <1>2, <1>4, <2>2, <4>1, <4>2
    <3> QED BY <1>2, <1>4, <2>2, <3>1
  <2> QED BY <2>1, <2>2
<1>7. (q + more) % Width = q + more
  BY <1>2, <1>4, <1>5, <1>6
<1>8. PageCount(text, ViewLen) = q + more /\ q + more \in 1 .. Width - 1
  BY <1>2, <1>3, <1>4, <1>5, <1>6, <1>7
<1> QED BY <1>8 DEF n, line, q, r

\* A page of it fits the line of the view, with the end of the string.
LEMMA PageFits ==
  ASSUME NEW text, IsText(text), NEW page \in Nat
  PROVE  Len(PageOf(text, ViewLen, page)) < ViewLen
<1> DEFINE n == Len(text)
           line == Line(ViewLen)
           q == n \div line
           r == n % line
           count == PageCount(text, ViewLen)
           chunk == IF r > 0 /\ page = count - 1 THEN r ELSE line
<1>1. line \in Nat \ {0} /\ ViewLen = line + 1 /\ n \in Nat
  BY Sizes DEF IsText, Line
<1>2. CASE ~(page < count)
  BY <1>1, <1>2, Sizes DEF PageOf
<1>3. CASE page < count
  <2>1. text # <<>>
    <3>1. text = <<>> => count = 0
      <4>1. text = <<>> => n = 0
        OBVIOUS
      <4> QED BY <1>1, <4>1, Sizes DEF PageCount
    <3> QED BY <1>3, <3>1
  <2>2. count = q + (IF r > 0 THEN 1 ELSE 0)
    BY <2>1, CountExact
  <2>3. PageOf(text, ViewLen, page) = SubSeq(text, page * line + 1, page * line + chunk)
    BY <1>3 DEF PageOf
  <2>4. PICK S : text \in Seq(S)
    BY DEF IsText
  <2> HIDE DEF n, line, count
  <2>5. q \in Nat /\ r \in 0 .. line - 1 /\ n = line * q + r
    BY <1>1
  <2> HIDE DEF q, r
  <2>6. chunk \in 1 .. line
    BY <1>1, <2>5
  <2>7. page * line + chunk <= n
    <3>1. CASE page = q
      <4>1. page * line = line * q /\ chunk = r
        BY <1>1, <1>3, <2>2, <2>5, <3>1
      <4> QED BY <1>1, <2>5, <4>1
    <3>2. CASE page # q
      <4>1. page + 1 <= q
        BY <1>3, <2>2, <2>5, <3>2
      <4>2. (page + 1) * line <= q * line
        BY <1>1, <2>5, <4>1
      <4>3. (page + 1) * line = page * line + line /\ q * line = line * q
        BY <1>1, <2>5
      <4> QED BY <1>1, <2>5, <2>6, <4>2, <4>3
    <3> QED BY <3>1, <3>2
  <2>8. page * line \in Nat
    BY <1>1
  <2> DEFINE begin == page * line
  <2> HIDE DEF begin, chunk
  <2>9. Len(SubSeq(text, begin + 1, begin + chunk)) = chunk
    BY <1>1, <2>4, <2>6, <2>7, <2>8 DEF n, begin
  <2> QED BY <1>1, <2>3, <2>6, <2>9 DEF begin, line
<1> QED BY <1>2, <1>3

\* An item that is shown has pages, and they can be counted.
LEMMA CountPositive ==
  ASSUME item \in Items, Got.err = "ok"
  PROVE  Count \in 1 .. Width - 1
<1>1. CASE Got.text = <<>>
  BY <1>1, Sizes DEF Count
<1>2. CASE Got.text # <<>>
  BY <1>2, GotIsText, CountExact DEF Count
<1> QED BY <1>1, <1>2

LEMMA PageIsOk ==
  ASSUME item \in Items, Got.err = "ok", NEW page \in Nat, page < Count
  PROVE  /\ GetItem(page, ViewLen).err = "ok" /\ GetItem(page, ViewLen).count = Count
         /\ GetItem(page, ViewLen).text = PageOf(Got.text, ViewLen, page)
BY CountPositive DEF GetItem, Count

\* What is shown does not change as long as item and mode do not.
LEMMA ItemUnchanged ==
  ASSUME UNCHANGED <<item, expert>>
  PROVE  /\ Got' = Got /\ Count' = Count
         /\ \A page : GetItem(page, ViewLen)' = GetItem(page, ViewLen)
<1>1. Got' = Got
  BY DEF Got, json, CoinText, AmountText, ValueText
<1> QED BY <1>1 DEF Count, GetItem

-----------------------------------------------------------------------------
LEMMA InitInv == Init => IInv
BY DEF Init, IInv

LEMMA ParseInv ==
  ASSUME NEW new \in Items, NEW mode \in BOOLEAN, Parse(new, mode)
  PROVE  IInv'
BY DEF Parse, IInv

LEMMA ValidateInv ==
  ASSUME IInv, ValidateItem
  PROVE  IInv'
<1>1. pages' = <<>> /\ item' \in Items /\ stage' \in {"shown", "refused"}
  BY DEF IInv, ValidateItem
<1>2. ASSUME stage' = "shown" PROVE Got'.err = "ok" /\ 0 <= Count'
  <2>1. GetItem(0, ValidateLen).err = "ok"
    BY <1>2 DEF ValidateItem
  <2>2. Got.err = "ok"
    BY <2>1 DEF GetItem
  <2>3. Count \in Nat
    BY <2>2, CountPositive, Sizes DEF IInv
  <2> QED BY <2>2, <2>3, ItemUnchanged DEF ValidateItem
<1>3. expert' \in BOOLEAN
  BY DEF IInv, ValidateItem
<1>4. Len(pages') = 0 /\ pages' = [n \in 1 .. Len(pages') |-> GetItem(n - 1, ViewLen)']
  BY <1>1
<1>5. stage' = "shown" => Len(pages') <= Count'
  BY <1>2, <1>4
<1> QED BY <1>1, <1>2, <1>3, <1>4, <1>5 DEF IInv

LEMMA ShowInv ==
  ASSUME IInv, ShowPage
  PROVE  IInv'
<1> DEFINE shown == Len(pages)
<1>1. /\ Got' = Got /\ Count' = Count
      /\ \A page : GetItem(page, ViewLen)' = GetItem(page, ViewLen)
  BY ItemUnchanged DEF ShowPage
<1>2. Got.err = "ok" /\ Count \in Nat \ {0}
  BY CountPositive, Sizes DEF IInv, ShowPage
<1>3. shown + 1 <= Count
  <2>1. CASE shown = 0
    BY <1>2, <2>1
  <2>2. CASE shown # 0
    <3>1. Last(pages) = GetItem(shown - 1, ViewLen) /\ pages # <<>>
      BY <2>2 DEF IInv, Last
    <3>2. Last(pages).count = Count
      BY <1>2, <2>2, <3>1, PageIsOk DEF IInv, ShowPage
    <3> QED BY <1>2, <3>1, <3>2 DEF IInv, ShowPage
  <2> QED BY <2>1, <2>2
<1>4. /\ pages' = [n \in 1 .. shown + 1 |-> GetItem(n - 1, ViewLen)]
      /\ Len(pages') = shown + 1
  <2>1. pages' = Append(pages, GetItem(shown, ViewLen)) /\ shown \in Nat
    BY DEF IInv, ShowPage
  <2> DEFINE f == [k \in Nat |-> GetItem(k, ViewLen)]
  <2>2. pages = [n \in 1 .. shown |-> f[n - 1]] /\ GetItem(shown, ViewLen) = f[shown]
    BY <2>1 DEF IInv
  <2>3. pages' = [n \in 1 .. shown + 1 |-> f[n - 1]] /\ Len(pages') = shown + 1
    <3> HIDE DEF f
    <3> QED BY <2>1, <2>2, OneMore
  <2> QED BY <2>1, <2>3
<1> QED BY <1>1, <1>2, <1>3, <1>4 DEF IInv, ShowPage

LEMMA StepInv == IInv /\ [Next]_vars => IInv'
<1> SUFFICES ASSUME IInv, [Next]_vars PROVE IInv'
  OBVIOUS
<1>1. ASSUME NEW new \in Items, NEW mode \in BOOLEAN, Parse(new, mode) PROVE IInv'
  BY <1>1, ParseInv
<1>2. CASE ValidateItem
  BY <1>2, ValidateInv
<1>3. CASE ShowPage
  BY <1>3, ShowInv
<1>4. CASE UNCHANGED vars
  <2>1. UNCHANGED <<item, expert, stage, pages>>
    BY <1>4 DEF vars
  <2>2. /\ Got' = Got /\ Count' = Count
        /\ \A page : GetItem(page, ViewLen)' = GetItem(page, ViewLen)
    BY <2>1, ItemUnchanged
  <2>3. pages' = [n \in 1 .. Len(pages') |-> GetItem(n - 1, ViewLen)']
    BY <2>1, <2>2 DEF IInv
  <2> QED BY <2>1, <2>2, <2>3 DEF IInv
<1> QED BY <1>1, <1>2, <1>3, <1>4 DEF Next

LEMMA InvImplies == IInv => EveryPageShown
<1> SUFFICES ASSUME IInv, stage = "shown", NEW n \in DOMAIN pages
             PROVE  /\ pages[n].err = "ok" /\ pages[n].count = pages[1].count
                    /\ pages[n].count >= n
  BY DEF EveryPageShown
<1>1. n \in 1 .. Len(pages) /\ Len(pages) <= Count /\ Count \in Nat
  BY CountPositive, Sizes DEF IInv
<1>2. pages[n] = GetItem(n - 1, ViewLen) /\ pages[1] = GetItem(0, ViewLen)
  BY <1>1 DEF IInv
<1>3. /\ pages[n].err = "ok" /\ pages[n].count = Count
      /\ pages[1].count = Count
  BY <1>1, <1>2, PageIsOk DEF IInv
<1> QED BY <1>1, <1>3

LEMMA InvImpliesType == IInv => TypeOK
<1> SUFFICES ASSUME IInv PROVE TypeOK
  OBVIOUS
<1>1. ASSUME NEW n \in DOMAIN pages
      PROVE  pages[n].count \in 0 .. Width - 1 /\ Len(pages[n].text) < ViewLen
  <2>1. stage = "shown" /\ n \in 1 .. Len(pages)
    BY DEF IInv
  <2>2. Got.err = "ok" /\ Count \in 1 .. Width - 1 /\ n - 1 \in Nat /\ n - 1 < Count
    BY <2>1, CountPositive, Sizes DEF IInv
  <2>3. pages[n] = GetItem(n - 1, ViewLen)
    BY <2>1 DEF IInv
  <2>4. pages[n].count = Count /\ pages[n].text = PageOf(Got.text, ViewLen, n - 1)
    BY <2>2, <2>3, PageIsOk DEF IInv
  <2> QED BY <2>2, <2>4, GotIsText, PageFits, Sizes DEF IInv
<1> QED BY <1>1 DEF IInv, TypeOK

(* No page of the review is longer than its line, and counts of pages are  *)
(* bytes, for every item and all sizes.                                    *)
THEOREM TypeCorrect == Spec => []TypeOK
<1>1. Init => IInv
  BY InitInv
<1>2. IInv /\ [Next]_vars => IInv'
  BY StepInv
<1>3. IInv => TypeOK
  BY InvImpliesType
<1> QED BY <1>1, <1>2, <1>3, PTL DEF Spec

(* What parser_validate has accepted by its first page can be shown to the *)
(* end, for every item and all sizes of buffers and lines that leave no    *)
(* text more pages than a uint8_t can count.                               *)
THEOREM AcceptedIsShown == Spec => []EveryPageShown
<1>1. Init => IInv
  BY InitInv
<1>2. IInv /\ [Next]_vars => IInv'
  BY StepInv
<1>3. IInv => EveryPageShown
  BY InvImplies
<1> QED BY <1>1, <1>2, <1>3, PTL DEF Spec

-----------------------------------------------------------------------------
\* Two parts of a text that follow each other.
LEMMA TwoParts ==
  ASSUME NEW S, NEW text \in Seq(S), NEW a \in Nat, NEW b \in Nat, a <= b, b <= Len(text)
  PROVE  SubSeq(text, 1, a) \o SubSeq(text, a + 1, b) = SubSeq(text, 1, b)
<1> DEFINE left == SubSeq(text, 1, a)
           right == SubSeq(text, a + 1, b)
           whole == SubSeq(text, 1, b)
<1>1. left \in Seq(S) /\ Len(left) = a /\ \A i \in 1 .. a : left[i] = text[i]
  OBVIOUS
<1>2. right \in Seq(S) /\ Len(right) = b - a /\ \A i \in 1 .. b - a : right[i] = text[a + i]
  OBVIOUS
<1>3. whole \in Seq(S) /\ Len(whole) = b /\ \A i \in 1 .. b : whole[i] = text[i]
  OBVIOUS
<1> HIDE DEF left, right, whole
<1>4. /\ left \o right \in Seq(S) /\ Len(left \o right) = b
      /\ \A i \in 1 .. b : (left \o right)[i] = IF i <= a THEN left[i] ELSE right[i - a]
  <2>1. b = Len(left) + Len(right)
    BY <1>1, <1>2
  <2>2. /\ left \o right \in Seq(S) /\ Len(left \o right) = Len(left) + Len(right)
        /\ \A i \in 1 .. Len(left) + Len(right) :
             (left \o right)[i] = IF i <= Len(left) THEN left[i] ELSE right[i - Len(left)]
    BY <1>1, <1>2, Concatenated, Zenon
  <2>3. Len(left) = a
    BY <1>1
  <2> HIDE DEF left
  <2> QED BY <2>1, <2>2, <2>3, Zenon
<1>5. \A i \in 1 .. b : (left \o right)[i] = whole[i]
  <2> TAKE i \in 1 .. b
  <2>1. CASE i <= a
    BY <1>1, <1>3, <1>4, <2>1
  <2>2. CASE ~(i <= a)
    <3>1. i - a \in 1 .. b - a /\ a + (i - a) = i
      BY <2>2
    <3> QED BY <1>2, <1>3, <1>4, <2>2, <3>1
  <2> QED BY <2>1, <2>2
<1>6. left \o right = whole
  BY <1>3, <1>4, <1>5
<1> QED BY <1>6 DEF left, right, whole

\* A text is what its parts are, one behind the other.
LEMMA PartsJoin ==
  ASSUME NEW S, NEW text \in Seq(S), NEW count \in Nat \ {0}, NEW end \in [0 .. count -> Nat],
         end[0] = 0, end[count] = Len(text),
         \A i \in 1 .. count : end[i - 1] <= end[i] /\ end[i] <= Len(text),
         NEW parts, Len(parts) = count,
         \A i \in 1 .. count : parts[i] = SubSeq(text, end[i - 1] + 1, end[i])
  PROVE  FlattenSeq(parts) = text
<1> DEFINE joined == [i \in 1 .. count |-> SubSeq(text, 1, end[i])]
           Joins(f) == f = [i \in 1 .. count |-> IF i = 1 THEN parts[i] ELSE f[i - 1] \o parts[i]]
           result == CHOOSE f : Joins(f)
<1>1. \A i \in 1 .. count : joined[i] = IF i = 1 THEN parts[i] ELSE joined[i - 1] \o parts[i]
  <2> TAKE i \in 1 .. count
  <2>1. CASE i = 1
    <3>1. parts[i] = SubSeq(text, 0 + 1, end[i]) /\ joined[i] = SubSeq(text, 1, end[i])
      <4>1. end[i - 1] = 0
        BY <2>1
      <4> QED BY <4>1
    <3> QED BY <2>1, <3>1
  <2>2. CASE i # 1
    <3>1. i - 1 \in 1 .. count /\ end[i - 1] \in Nat /\ end[i] \in Nat
      <4>1. i - 1 \in 1 .. count /\ i - 1 \in 0 .. count /\ i \in 0 .. count
        BY <2>2
      <4> HIDE DEF joined, Joins, result
      <4> QED BY <4>1
    <3>2. SubSeq(text, 1, end[i - 1]) \o SubSeq(text, end[i - 1] + 1, end[i]) = SubSeq(text, 1, end[i])
      BY <3>1, TwoParts
    <3>3. /\ parts[i] = SubSeq(text, end[i - 1] + 1, end[i])
          /\ joined[i] = SubSeq(text, 1, end[i])
          /\ joined[i - 1] = SubSeq(text, 1, end[i - 1])
      BY <3>1
    <3> HIDE DEF joined
    <3> QED BY <2>2, <3>2, <3>3
  <2> QED BY <2>1, <2>2
<1>2. Joins(joined)
  BY <1>1
<1>3. Joins(result)
  <2> HIDE DEF joined, Joins
  <2> QED BY <1>2
<1> HIDE DEF result
<1> DEFINE Wrong == {i \in 1 .. count : result[i] # joined[i]}
<1>4. Wrong = {}
  <2> SUFFICES ASSUME Wrong # {} PROVE FALSE
    OBVIOUS
  <2>1. PICK i \in Wrong : \A j \in Wrong : i <= j
    <3>1. Wrong \subseteq Nat
      OBVIOUS
    <3> HIDE DEF Wrong
    <3> QED BY <3>1, Least
  <2>2. result[i] = IF i = 1 THEN parts[i] ELSE result[i - 1] \o parts[i]
    BY <1>3, <2>1
  <2>3. joined[i] = IF i = 1 THEN parts[i] ELSE joined[i - 1] \o parts[i]
    BY <1>1, <2>1
  <2>4. i # 1 => i - 1 \in 1 .. count /\ i - 1 \notin Wrong
    <3>1. i \in 1 .. count /\ ~(i <= i - 1)
      BY <2>1
    <3> HIDE DEF Wrong
    <3> QED BY <2>1, <3>1
  <2>5. i # 1 => result[i - 1] = joined[i - 1]
    BY <2>4
  <2> HIDE DEF joined
  <2> QED BY <2>1, <2>2, <2>3, <2>5
<1>5. result[count] = SubSeq(text, 1, Len(text))
  <2>1. count \in 1 .. count /\ count \notin Wrong
    <3>1. count \in 1 .. count
      OBVIOUS
    <3> HIDE DEF Wrong
    <3> QED BY <1>4, <3>1
  <2>2. result[count] = joined[count]
    BY <2>1
  <2> QED BY <2>1, <2>2
<1>6. FlattenSeq(parts) = result[count]
  BY DEF FlattenSeq, result
<1> QED BY <1>5, <1>6

\* All pages of a text are the text.
LEMMA PagesJoin ==
  ASSUME NEW text, IsText(text), NEW count, NEW parts,
         count = (IF text = <<>> THEN 1 ELSE PageCount(text, ViewLen)),
         Len(parts) = count,
         \A i \in 1 .. count : parts[i] = PageOf(text, ViewLen, i - 1)
  PROVE  FlattenSeq(parts) = text
<1> DEFINE n == Len(text)
           line == Line(ViewLen)
           q == n \div line
           r == n % line
           end == [i \in 0 .. count |-> IF i = count THEN n ELSE i * line]
<1>1. line \in Nat \ {0} /\ n \in Nat
  BY Sizes DEF IsText, Line
<1>2. PICK S : text \in Seq(S)
  BY DEF IsText
<1>3. CASE text = <<>>
  <2>1. n = 0 /\ count = 1
    BY <1>3
  <2>2. PageCount(text, ViewLen) = 0
    BY <1>1, <2>1, Sizes DEF PageCount
  <2>3. parts[1] = <<>>
    BY <2>1, <2>2, Sizes DEF PageOf
  <2> DEFINE none == [i \in 0 .. count |-> 0]
  <2>4. /\ none \in [0 .. count -> Nat] /\ none[0] = 0 /\ none[count] = Len(text)
        /\ \A i \in 1 .. count : none[i - 1] <= none[i] /\ none[i] <= Len(text)
    BY <2>1
  <2>5. \A i \in 1 .. count : parts[i] = SubSeq(text, none[i - 1] + 1, none[i])
    <3> TAKE i \in 1 .. count
    <3>1. i = 1 /\ none[i - 1] = 0 /\ none[i] = 0
      BY <2>1
    <3>2. SubSeq(text, 0 + 1, 0) = <<>>
      BY <1>2
    <3> QED BY <2>3, <3>1, <3>2
  <2> HIDE DEF none
  <2> QED BY <1>2, <2>1, <2>4, <2>5, PartsJoin
<1>4. CASE text # <<>>
  <2>1. count = q + (IF r > 0 THEN 1 ELSE 0) /\ count \in 1 .. Width - 1
    BY <1>4, CountExact
  <2>2. count = PageCount(text, ViewLen)
    BY <1>4
  <2>3. \A i \in 1 .. count :
          parts[i] = SubSeq(text, (i - 1) * line + 1,
                            (i - 1) * line + IF r > 0 /\ i = count THEN r ELSE line)
    <3> TAKE i \in 1 .. count
    <3>1. /\ i - 1 < PageCount(text, ViewLen)
          /\ i - 1 = PageCount(text, ViewLen) - 1 <=> i = count
      BY <2>1, <2>2, Sizes
    <3> QED BY <3>1 DEF PageOf
  <2> HIDE DEF n, line
  <2>4. q \in Nat /\ r \in 0 .. line - 1 /\ n = line * q + r
    BY <1>1
  <2> HIDE DEF q, r
  <2>5. count \in Nat \ {0}
    BY <2>1, Sizes
  <2>6. ASSUME NEW i \in 1 .. count
        PROVE  /\ (i - 1) * line \in Nat /\ end[i - 1] = (i - 1) * line
               /\ end[i] = (i - 1) * line + IF r > 0 /\ i = count THEN r ELSE line
               /\ end[i] \in Nat /\ end[i - 1] <= end[i] /\ end[i] <= n
    <3>1. (i - 1) * line \in Nat /\ i * line = (i - 1) * line + line
      BY <1>1
    <3>2. end[i - 1] = (i - 1) * line
      BY <2>5
    <3>3. CASE i = count
      <4>1. end[i] = n
        BY <2>5, <3>3
      <4>2. CASE r = 0
        <5>1. i = q /\ i * line = line * q
          BY <1>1, <2>1, <2>4, <3>3, <4>2
        <5> QED BY <1>1, <2>4, <3>1, <3>2, <4>1, <4>2, <5>1
      <4>3. CASE r # 0
        <5>1. i - 1 = q /\ (i - 1) * line = line * q
          BY <1>1, <2>1, <2>4, <3>3, <4>3
        <5> QED BY <1>1, <2>4, <3>1, <3>2, <3>3, <4>1, <4>3, <5>1
      <4> QED BY <4>2, <4>3
    <3>4. CASE i # count
      <4>1. end[i] = i * line
        BY <3>4
      <4>2. i <= q
        BY <2>1, <2>4, <3>4
      <4>3. i * line <= q * line /\ q * line = line * q
        BY <1>1, <2>4, <4>2
      <4> DEFINE before == (i - 1) * line
                 upto == i * line
                 full == line * q
      <4>4. /\ before \in Nat /\ upto = before + line /\ upto <= full /\ n = full + r
            /\ end[i - 1] = before /\ end[i] = upto
        BY <2>4, <3>1, <3>2, <4>1, <4>3
      <4>5. full \in Nat
        BY <1>1, <2>4
      <4> HIDE DEF before, upto, full, end
      <4>6. end[i] = before + IF r > 0 /\ i = count THEN r ELSE line
        BY <3>4, <4>4
      <4>7. end[i] \in Nat /\ end[i - 1] <= end[i] /\ end[i] <= n
        BY <1>1, <2>4, <4>4, <4>5
      <4> QED BY <4>4, <4>6, <4>7 DEF before
    <3> QED BY <3>3, <3>4
  <2>7. end[0] = 0 /\ end[count] = n
    <3>1. end[0] = 0 * line
      BY <2>5
    <3> QED BY <1>1, <2>5, <3>1
  <2>8. end \in [0 .. count -> Nat]
    <3>1. \A i \in 0 .. count : end[i] \in Nat
      <4> TAKE i \in 0 .. count
      <4>1. i # 0 => i \in 1 .. count
        BY <2>5
      <4> HIDE DEF end
      <4> QED BY <2>6, <2>7, <4>1
    <3> QED BY <3>1
  <2>9. \A i \in 1 .. count : parts[i] = SubSeq(text, end[i - 1] + 1, end[i])
    BY <2>3, <2>6, ZenonT(60)
  <2> HIDE DEF end
  <2>10. \A i \in 1 .. count : end[i - 1] <= end[i] /\ end[i] <= Len(text)
    BY <2>6 DEF n
  <2>11. end[count] = Len(text)
    BY <2>7 DEF n
  <2> QED BY <1>2, <2>5, <2>7, <2>8, <2>9, <2>10, <2>11, PartsJoin
<1> QED BY <1>3, <1>4

\* Who has read all pages has read what the item shows.
LEMMA ReadIsGot ==
  ASSUME IInv, ReadAll
  PROVE  Read = Got.text
<1> DEFINE parts == [n \in DOMAIN pages |-> pages[n].text]
<1>1. /\ Len(pages) \in Nat \ {0} /\ stage = "shown" /\ Got.err = "ok" /\ item \in Items
      /\ Len(pages) <= Count /\ Count \in 1 .. Width - 1
      /\ pages = [n \in 1 .. Len(pages) |-> GetItem(n - 1, ViewLen)]
  BY CountPositive DEF IInv, ReadAll
<1>2. ASSUME NEW i \in 1 .. Len(pages)
      PROVE  pages[i].count = Count /\ pages[i].text = PageOf(Got.text, ViewLen, i - 1)
  <2>1. i - 1 \in Nat /\ i - 1 < Count /\ pages[i] = GetItem(i - 1, ViewLen)
    BY <1>1, Sizes
  <2> QED BY <1>1, <2>1, PageIsOk
<1>3. Len(pages) = Count
  <2>1. Last(pages) = pages[Len(pages)]
    BY DEF Last
  <2>2. Len(pages) >= Last(pages).count
    BY DEF ReadAll
  <2>3. Last(pages).count = Count
    <3>1. Len(pages) \in 1 .. Len(pages)
      BY <1>1
    <3> QED BY <1>2, <2>1, <3>1
  <2> DEFINE shown == Len(pages)
  <2>4. shown \in Nat /\ shown <= Count /\ Count <= shown
    BY <1>1, <2>2, <2>3
  <2>5. Count \in Nat
    <3>1. Width - 1 \in Nat
      BY Sizes
    <3> HIDE DEF shown, parts
    <3> QED BY <1>1, <3>1
  <2> HIDE DEF shown
  <2>6. shown = Count
    BY <2>4, <2>5
  <2> QED BY <2>6 DEF shown
<1>4. /\ Len(parts) = Count
      /\ \A i \in 1 .. Count : parts[i] = PageOf(Got.text, ViewLen, i - 1)
  <2>1. DOMAIN pages = 1 .. Count
    BY <1>1, <1>3
  <2>2. Len(parts) = Count
    BY <1>1, <2>1, Sizes
  <2> QED BY <1>2, <1>3, <2>1, <2>2
<1> HIDE DEF parts
<1>5. FlattenSeq(parts) = Got.text
  BY <1>1, <1>4, GotIsText, PagesJoin DEF Count
<1> QED BY <1>5 DEF Read, parts

LEMMA InvImpliesComplete == IInv => ValueIsComplete
<1> SUFFICES ASSUME IInv, ReadAll, ~item.isAmount
             PROVE  Read = ValueText(item.doc[Value].word).text
  BY DEF ValueIsComplete
<1>1. item.at \in DOMAIN json /\ json[item.at].word = item.doc[Value].word
  BY ItemIsToken DEF IInv
<1> QED BY <1>1, ReadIsGot DEF Got

(* A user who has read all pages of a value that is no amount has read all *)
(* of it, for every value, cut into lines of any length.                   *)
THEOREM ReadsWhole == Spec => []ValueIsComplete
<1>1. Init => IInv
  BY InitInv
<1>2. IInv /\ [Next]_vars => IInv'
  BY StepInv
<1>3. IInv => ValueIsComplete
  BY InvImpliesComplete
<1> QED BY <1>1, <1>2, <1>3, PTL DEF Spec

-----------------------------------------------------------------------------
\* What an amount is turned into has its point at p, and means the amount.
IsExact(s, p, number) ==
  /\ s \in Seq(Character) /\ p \in Nat /\ p >= 2 /\ Len(s) = p + Decimals /\ s[p] = "."
  /\ \A i \in DOMAIN s : s[i] \in Digit \cup {"."}
  /\ \A power \in Nat : ShownDigit(s, p, power) = DigitAt(number, power)

LEMMA DigitsAre == "0" \in Digit /\ "." \notin Digit /\ " " \notin Digit
BY DEF Digit

\* Where the characters of a text of three parts come from.
InThreeParts(all, r, s, t, a, b, c) ==
  /\ all \in Seq(Character) /\ Len(all) = a + b + c
  /\ \A i \in 1 .. a + b + c :
       /\ i <= a => all[i] = r[i]
       /\ i > a /\ i <= a + b => i - a \in 1 .. b /\ all[i] = s[i - a]
       /\ i > a + b => i - a - b \in 1 .. c /\ all[i] = t[i - a - b]

LEMMA ThreeParts ==
  ASSUME NEW r \in Seq(Character), NEW s \in Seq(Character), NEW t \in Seq(Character),
         NEW a \in Nat, a = Len(r), NEW b \in Nat, b = Len(s), NEW c \in Nat, c = Len(t)
  PROVE  InThreeParts(r \o s \o t, r, s, t, a, b, c)
<1> DEFINE front == r \o s
           all == front \o t
<1>1. front \in Seq(Character) /\ Len(front) = a + b
      /\ \A i \in 1 .. a + b : front[i] = IF i <= a THEN r[i] ELSE s[i - a]
  BY Concatenated
<1> HIDE DEF front
<1>2. all \in Seq(Character) /\ Len(all) = a + b + c
      /\ \A i \in 1 .. a + b + c : all[i] = IF i <= a + b THEN front[i] ELSE t[i - (a + b)]
  <2> DEFINE ab == a + b
  <2>1. ab = Len(front) /\ ab \in Nat
    BY <1>1
  <2> HIDE DEF ab
  <2>2. all \in Seq(Character) /\ Len(all) = ab + c
        /\ \A i \in 1 .. ab + c : all[i] = IF i <= ab THEN front[i] ELSE t[i - ab]
    <3>1. front \in Seq(Character)
      BY <1>1
    <3>2. /\ front \o t \in Seq(Character) /\ Len(front \o t) = Len(front) + Len(t)
          /\ \A i \in 1 .. Len(front) + Len(t) :
               (front \o t)[i] = IF i <= Len(front) THEN front[i] ELSE t[i - Len(front)]
      BY <3>1, Concatenated
    <3> QED BY <2>1, <3>2
  <2> QED BY <2>2 DEF ab
<1> HIDE DEF all
<1>3. ASSUME NEW i \in 1 .. a + b + c
      PROVE  /\ i <= a => all[i] = r[i]
             /\ i > a /\ i <= a + b => i - a \in 1 .. b /\ all[i] = s[i - a]
             /\ i > a + b => i - a - b \in 1 .. c /\ all[i] = t[i - a - b]
  <2>1. i <= a => i \in 1 .. a + b
    OBVIOUS
  <2>2. i > a /\ i <= a + b => i \in 1 .. a + b /\ ~(i <= a) /\ i - a \in 1 .. b
    OBVIOUS
  <2>3. i > a + b => ~(i <= a + b) /\ i - (a + b) = i - a - b /\ i - a - b \in 1 .. c
    OBVIOUS
  <2>4. i <= a => i <= a + b
    OBVIOUS
  <2> QED BY <1>1, <1>2, <2>1, <2>2, <2>3, <2>4
<1> QED BY <1>2, <1>3 DEF all, front, InThreeParts

\* The zeros in front of a short number.
LEMMA ShortIsExact ==
  ASSUME NEW number \in Seq(Character), Len(number) <= Decimals,
         \A i \in DOMAIN number : number[i] \in Digit
  PROVE  IsExact(FpStrToStr(number), 2, number)
<1>1. Decimals \in Nat \ {0}
  BY Sizes
<1>2. PICK n \in Nat : n = Len(number)
  OBVIOUS
<1>3. PICK lead \in Nat : lead + n = Decimals
  BY <1>1, <1>2
<1>4. PICK begin \in Seq(Character) : begin = <<"0", ".">>
  BY Pair, Characters
<1>5. Len(begin) = 2 /\ begin[1] = "0" /\ begin[2] = "."
  BY <1>4
<1>6. PICK zeros \in Seq(Character) : zeros = [i \in 1 .. lead |-> "0"]
  BY <1>3, Repeated, Characters
<1>7. Len(zeros) = lead /\ \A i \in 1 .. lead : zeros[i] = "0"
  BY <1>6
<1>8. PICK s : s = begin \o zeros \o number
  OBVIOUS
<1>9. FpStrToStr(number) = s
  <2>1. Decimals - Len(number) = lead
    BY <1>1, <1>2, <1>3
  <2> QED BY <1>4, <1>6, <1>8, <2>1 DEF FpStrToStr, Zeros
<1>10. /\ s \in Seq(Character) /\ Len(s) = 2 + lead + n
       /\ \A i \in 1 .. 2 + lead + n :
            /\ i <= 2 => s[i] = begin[i]
            /\ i > 2 /\ i <= 2 + lead => i - 2 \in 1 .. lead /\ s[i] = zeros[i - 2]
            /\ i > 2 + lead => i - 2 - lead \in 1 .. n /\ s[i] = number[i - 2 - lead]
  <2>1. 2 \in Nat /\ 2 = Len(begin)
    BY <1>5
  <2>2. lead = Len(zeros) /\ n = Len(number)
    BY <1>2, <1>7
  <2>3. begin \in Seq(Character) /\ zeros \in Seq(Character) /\ number \in Seq(Character)
    BY <1>4, <1>6
  <2>4. InThreeParts(s, begin, zeros, number, 2, lead, n)
    BY <1>8, <2>1, <2>2, <2>3, ThreeParts
  <2> QED BY <2>4 DEF InThreeParts
<1>11. Len(s) = 2 + Decimals /\ DOMAIN s = 1 .. 2 + Decimals /\ 2 + lead + n = 2 + Decimals
  BY <1>1, <1>3, <1>10
<1>12. ASSUME NEW i \in 1 .. 2 + Decimals
       PROVE  /\ i = 1 => s[i] = "0"
              /\ i = 2 => s[i] = "."
              /\ i > 2 /\ i <= 2 + lead => s[i] = "0"
              /\ i > 2 + lead => i - 2 - lead \in 1 .. n /\ s[i] = number[i - 2 - lead]
  BY <1>5, <1>7, <1>10, <1>11
<1>13. \A i \in DOMAIN s : s[i] \in Digit \cup {"."}
  <2> TAKE i \in DOMAIN s
  <2>1. i \in 1 .. 2 + Decimals /\ (i = 1 \/ i = 2 \/ (i > 2 /\ i <= 2 + lead) \/ i > 2 + lead)
    BY <1>1, <1>11
  <2>2. \A k \in 1 .. n : number[k] \in Digit
    BY <1>2
  <2> QED BY <1>12, <2>1, <2>2, DigitsAre
<1>14. ASSUME NEW power \in Nat PROVE ShownDigit(s, 2, power) = DigitAt(number, power)
  <2>1. CASE power >= Decimals
    <3> DEFINE place == 2 - 1 - (power - Decimals)
    <3>1. ShownDigit(s, 2, power) = IF place \in DOMAIN s THEN s[place] ELSE "0"
      BY <2>1 DEF ShownDigit
    <3>2. DigitAt(number, power) = "0"
      BY <1>1, <1>2, <1>3, <2>1 DEF DigitAt
    <3>3. place \in DOMAIN s => place = 1 /\ place \in 1 .. 2 + Decimals
      BY <1>1, <1>11, <2>1
    <3> HIDE DEF place
    <3> QED BY <1>12, <3>1, <3>2, <3>3
  <2>2. CASE ~(power >= Decimals)
    <3> DEFINE place == 2 + Decimals - power
    <3>1. ShownDigit(s, 2, power) = IF place \in DOMAIN s THEN s[place] ELSE "0"
      BY <2>2 DEF ShownDigit
    <3>2. place \in 1 .. 2 + Decimals /\ place > 2
      BY <1>1, <2>2
    <3>3. place > 2 + lead <=> power < n
      BY <1>1, <1>3
    <3>4. place <= 2 + lead <=> ~(power < n)
      BY <1>1, <1>3
    <3>5. place - 2 - lead = n - power
      BY <1>1, <1>3
    <3> HIDE DEF place
    <3> QED BY <1>2, <1>11, <1>12, <3>1, <3>2, <3>3, <3>4, <3>5 DEF DigitAt
  <2> QED BY <2>1, <2>2
<1>15. s[2] = "."
  BY <1>1, <1>12
<1> QED BY <1>1, <1>9, <1>10, <1>11, <1>13, <1>14, <1>15 DEF IsExact

LEMMA LongIsExact ==
  ASSUME NEW number \in Seq(Character), Len(number) > Decimals,
         \A i \in DOMAIN number : number[i] \in Digit
  PROVE  IsExact(FpStrToStr(number), Len(number) - Decimals + 1, number)
<1>1. Decimals \in Nat \ {0}
  BY Sizes
<1>2. PICK n \in Nat : n = Len(number)
  OBVIOUS
<1>3. PICK whole \in Nat : whole = n - Decimals
  <2>1. n - Decimals \in Nat
    BY <1>1, <1>2
  <2> QED BY <2>1
<1>4. whole > 0 /\ whole + Decimals = n
  BY <1>1, <1>2, <1>3
<1>5. PICK before : before = SubSeq(number, 1, whole)
  OBVIOUS
<1>6. /\ before \in Seq(Character) /\ Len(before) = whole
      /\ \A i \in 1 .. whole : i \in 1 .. n /\ before[i] = number[i]
  BY <1>1, <1>2, <1>4, <1>5
<1>7. PICK behind : behind = SubSeq(number, whole + 1, n)
  OBVIOUS
<1>8. /\ behind \in Seq(Character) /\ Len(behind) = Decimals
      /\ \A i \in 1 .. Decimals : whole + i \in 1 .. n /\ behind[i] = number[whole + i]
  BY <1>1, <1>2, <1>4, <1>7
<1>9. PICK point \in Seq(Character) : point = <<".">>
  BY Single, Characters
<1>10. Len(point) = 1 /\ point[1] = "."
  BY <1>9
<1>11. PICK s : s = before \o point \o behind
  OBVIOUS
<1>12. FpStrToStr(number) = s
  <2>1. ~(Len(number) <= Decimals)
    BY <1>1, <1>2, <1>4
  <2>2. /\ Len(number) - Decimals = whole /\ Len(number) = n
    BY <1>2, <1>3
  <2> QED BY <1>5, <1>7, <1>9, <1>11, <2>1, <2>2, Zenon DEF FpStrToStr
<1>13. /\ s \in Seq(Character) /\ Len(s) = whole + 1 + Decimals
       /\ \A i \in 1 .. whole + 1 + Decimals :
            /\ i <= whole => s[i] = before[i]
            /\ i > whole /\ i <= whole + 1 => i - whole \in 1 .. 1 /\ s[i] = point[i - whole]
            /\ i > whole + 1 => i - whole - 1 \in 1 .. Decimals /\ s[i] = behind[i - whole - 1]
  <2>1. 1 \in Nat /\ 1 = Len(point)
    BY <1>10
  <2>2. whole = Len(before) /\ Decimals = Len(behind) /\ Decimals \in Nat
    BY <1>1, <1>6, <1>8
  <2>3. before \in Seq(Character) /\ point \in Seq(Character) /\ behind \in Seq(Character)
    BY <1>6, <1>8, <1>9
  <2>4. InThreeParts(s, before, point, behind, whole, 1, Decimals)
    BY <1>11, <2>1, <2>2, <2>3, ThreeParts
  <2> QED BY <2>4 DEF InThreeParts
<1>14. DOMAIN s = 1 .. n + 1 /\ whole + 1 + Decimals = n + 1
  <2>1. whole + 1 + Decimals = n + 1
    BY <1>1, <1>4
  <2>2. DOMAIN s = 1 .. Len(s) /\ Len(s) = whole + 1 + Decimals
    BY <1>13
  <2> QED BY <2>1, <2>2
<1>15. ASSUME NEW i \in 1 .. n + 1
       PROVE  /\ i <= whole => i \in 1 .. n /\ s[i] = number[i]
              /\ i = whole + 1 => s[i] = "."
              /\ i > whole + 1 => i - 1 \in 1 .. n /\ s[i] = number[i - 1]
  <2>1. i <= whole => i \in 1 .. whole
    OBVIOUS
  <2>2. i = whole + 1 => i > whole /\ i <= whole + 1 /\ i - whole = 1
    OBVIOUS
  <2>3. i > whole + 1 => i - whole - 1 \in 1 .. Decimals /\ whole + (i - whole - 1) = i - 1
    BY <1>1, <1>4
  <2> QED BY <1>6, <1>8, <1>10, <1>13, <1>14, <2>1, <2>2, <2>3
<1>16. \A i \in DOMAIN s : s[i] \in Digit \cup {"."}
  <2> TAKE i \in DOMAIN s
  <2>1. i \in 1 .. n + 1 /\ (i <= whole \/ i = whole + 1 \/ i > whole + 1)
    BY <1>14
  <2>2. \A k \in 1 .. n : number[k] \in Digit
    <3>1. DOMAIN number = 1 .. n
      BY <1>2
    <3> QED BY <3>1
  <2> QED BY <1>15, <2>1, <2>2
<1>17. ASSUME NEW power \in Nat PROVE ShownDigit(s, whole + 1, power) = DigitAt(number, power)
  <2>1. CASE power >= Decimals
    <3> DEFINE place == (whole + 1) - 1 - (power - Decimals)
    <3>1. ShownDigit(s, whole + 1, power) = IF place \in DOMAIN s THEN s[place] ELSE "0"
      BY <2>1 DEF ShownDigit
    <3>2. place = n - power /\ place \in Int /\ place <= whole
      BY <1>1, <1>4, <2>1
    <3>3. place \in 1 .. n + 1 <=> power < n
      BY <1>1, <1>4, <3>2
    <3> HIDE DEF place
    <3> QED BY <1>2, <1>14, <1>15, <3>1, <3>2, <3>3 DEF DigitAt
  <2>2. CASE ~(power >= Decimals)
    <3> DEFINE place == (whole + 1) + Decimals - power
    <3>1. ShownDigit(s, whole + 1, power) = IF place \in DOMAIN s THEN s[place] ELSE "0"
      BY <2>2 DEF ShownDigit
    <3>2. place \in 1 .. n + 1 /\ place > whole + 1 /\ place - 1 = n - power /\ power < n
      BY <1>1, <1>4, <2>2
    <3> HIDE DEF place
    <3> QED BY <1>2, <1>14, <1>15, <3>1, <3>2 DEF DigitAt
  <2> QED BY <2>1, <2>2
<1>18. s[whole + 1] = "." /\ whole + 1 \in Nat /\ whole + 1 >= 2 /\ Len(s) = whole + 1 + Decimals
  <2>1. whole + 1 \in 1 .. n + 1
    BY <1>1, <1>4
  <2> QED BY <1>4, <1>13, <1>15, <2>1
<1>19. Len(number) - Decimals + 1 = whole + 1
  BY <1>2, <1>3
<1> QED BY <1>12, <1>13, <1>16, <1>17, <1>18, <1>19 DEF IsExact

\* Removing zeros leaves the point, a digit behind it, and what is meant.
LEMMA DroppedIsExact ==
  ASSUME NEW s, NEW p, NEW number, IsExact(s, p, number)
  PROVE  \E t : /\ t = DropZeros(s) /\ t \in Seq(Character)
                /\ Len(t) >= p + 1 /\ Len(t) <= Len(s) /\ t[p] = "."
                /\ \A i \in DOMAIN t : t[i] \in Digit \cup {"."}
                /\ \A power \in Nat : ShownDigit(t, p, power) = DigitAt(number, power)
<1>1. /\ s \in Seq(Character) /\ p \in Nat /\ p >= 2 /\ Len(s) = p + Decimals /\ s[p] = "."
      /\ Decimals \in Nat \ {0}
  BY Sizes DEF IsExact
<1> DEFINE k == CHOOSE n \in 1 .. Len(s) : Kept(s, n)
<1>2. k \in 1 .. Len(s) /\ Kept(s, k)
  <2>1. \E n \in 1 .. Len(s) : Kept(s, n)
    BY <1>1, KeptExists
  <2> QED BY <2>1
<1>3. DropZeros(s) = SubSeq(s, 1, k)
  BY DEF DropZeros
<1> HIDE DEF k
<1>4. \A m \in k + 1 .. Len(s) : s[m] = "0" /\ s[m - 1] # "."
  BY <1>2 DEF Kept
<1>5. k >= p + 1
  <2> SUFFICES ASSUME ~(k >= p + 1) PROVE FALSE
    OBVIOUS
  <2>1. p + 1 \in k + 1 .. Len(s) /\ (p + 1) - 1 = p
    BY <1>1, <1>2
  <2> QED BY <1>1, <1>4, <2>1
<1>6. PICK t : t = SubSeq(s, 1, k)
  OBVIOUS
<1>7. /\ t \in Seq(Character) /\ Len(t) = k /\ k <= Len(s) /\ DOMAIN t = 1 .. k
      /\ \A i \in 1 .. k : i \in DOMAIN s /\ t[i] = s[i]
  BY <1>1, <1>2, <1>6
<1>8. t[p] = "." /\ \A i \in DOMAIN t : t[i] \in Digit \cup {"."}
  <2>1. p \in 1 .. k
    BY <1>1, <1>2, <1>5
  <2> QED BY <1>1, <1>7, <2>1 DEF IsExact
<1>9. ASSUME NEW power \in Nat PROVE ShownDigit(t, p, power) = ShownDigit(s, p, power)
  <2>1. PICK place : place = IF power >= Decimals THEN p - 1 - (power - Decimals) ELSE p + Decimals - power
    OBVIOUS
  <2>2. /\ ShownDigit(t, p, power) = IF place \in DOMAIN t THEN t[place] ELSE "0"
        /\ ShownDigit(s, p, power) = IF place \in DOMAIN s THEN s[place] ELSE "0"
    BY <2>1 DEF ShownDigit
  <2>3. place \in DOMAIN s /\ place \notin DOMAIN t => place \in k + 1 .. Len(s)
    BY <1>1, <1>2, <1>7
  <2>4. place \in DOMAIN t => place \in 1 .. k
    BY <1>7
  <2> QED BY <1>4, <1>7, <2>2, <2>3, <2>4
<1>10. \A power \in Nat : ShownDigit(t, p, power) = DigitAt(number, power)
  BY <1>9 DEF IsExact
<1> QED BY <1>1, <1>3, <1>5, <1>6, <1>7, <1>8, <1>10

LEMMA NumberIsExact ==
  ASSUME NEW number \in Seq(Character), \A i \in DOMAIN number : number[i] \in Digit
  PROVE  \E p : IsExact(FpStrToStr(number), p, number)
<1>1. Decimals \in Nat /\ Len(number) \in Nat
  BY Sizes
<1>2. CASE Len(number) <= Decimals
  BY <1>2, ShortIsExact
<1>3. CASE ~(Len(number) <= Decimals)
  <2>1. Len(number) > Decimals
    BY <1>1, <1>3
  <2> QED BY <2>1, LongIsExact
<1> QED BY <1>2, <1>3

\* The point is one of the places of the text, and there are enough powers.
LEMMA ExactDenotes ==
  ASSUME NEW number \in Seq(Character), \A i \in DOMAIN number : number[i] \in Digit
  PROVE  \E t : /\ t = DropZeros(FpStrToStr(number)) /\ t \in Seq(Character)
                /\ \A i \in DOMAIN t : t[i] \in Digit \cup {"."}
                /\ Denotes(t, number)
<1>1. PICK s : s = FpStrToStr(number)
  OBVIOUS
<1>2. PICK p : IsExact(s, p, number)
  BY <1>1, NumberIsExact
<1>3. PICK t : /\ t = DropZeros(s) /\ t \in Seq(Character)
               /\ Len(t) >= p + 1 /\ Len(t) <= Len(s) /\ t[p] = "."
               /\ \A i \in DOMAIN t : t[i] \in Digit \cup {"."}
               /\ \A power \in Nat : ShownDigit(t, p, power) = DigitAt(number, power)
  BY <1>2, DroppedIsExact
<1>4. p \in 2 .. Len(t) - 1
  <2>1. p \in Nat /\ p >= 2
    BY <1>2 DEF IsExact
  <2> QED BY <1>3, <2>1
<1>5. \A power \in 0 .. Len(t) + Len(number) + Decimals : power \in Nat
  OBVIOUS
<1>6. Denotes(t, number)
  BY <1>3, <1>4, <1>5 DEF Denotes
<1> QED BY <1>1, <1>3, <1>6

LEMMA CapitaliseLeaves ==
  ASSUME NEW c \in Digit \cup {".", " "}
  PROVE  c \notin DOMAIN Upper
BY ItemAssumption

\* An amount of digits, a blank, and its asset.
ShowsAmount(text, amount, asset) ==
  \E n \in DOMAIN text :
    /\ SubSeq(text, n, Len(text)) = <<" ">> \o Capitalise(asset)
    /\ IF expert THEN SubSeq(text, 1, n - 1) = amount
       ELSE Denotes(SubSeq(text, 1, n - 1), amount)

LEMMA Part ==
  ASSUME NEW S, NEW s \in Seq(S), NEW a \in Nat, NEW b \in Nat, a <= b, b <= Len(s)
  PROVE  SubSeq(s, a + 1, b) = [i \in 1 .. b - a |-> s[a + i]]
OBVIOUS

LEMMA IsSeq ==
  ASSUME NEW S, NEW n \in Nat, NEW s, s = [i \in 1 .. n |-> s[i]], \A i \in 1 .. n : s[i] \in S
  PROVE  s \in Seq(S)
OBVIOUS

\* A text that is a number, a blank and something else.
IsSplit(text, number, blank, tail, k, m) ==
  /\ Len(number) = k /\ Len(tail) = m /\ Len(text) = k + 1 + m
  /\ \A i \in 1 .. k + 1 + m :
       /\ i <= k => text[i] = number[i]
       /\ i = k + 1 => text[i] = blank
       /\ i > k + 1 => i - k - 1 \in 1 .. m /\ text[i] = tail[i - k - 1]

Splits(text, n, left, right) ==
  SubSeq(text, 1, n - 1) = left /\ SubSeq(text, n, Len(text)) = right

LEMMA SplitAtBlank ==
  ASSUME NEW S, NEW text \in Seq(S), NEW tail \in Seq(S), NEW blank \in S,
         NEW number \in Seq(Character), NEW k \in Nat, NEW m \in Nat,
         IsSplit(text, number, blank, tail, k, m)
  PROVE  Splits(text, k + 1, number, <<blank>> \o tail)
<1> USE DEF IsSplit
<1>1. PICK whole \in Nat : whole = k + 1 + m
  OBVIOUS
<1>2. SubSeq(text, 1, (k + 1) - 1) = number
  <2>1. SubSeq(text, 0 + 1, k) = [i \in 1 .. k - 0 |-> text[0 + i]]
    <3>1. 0 <= k /\ k <= Len(text)
      OBVIOUS
    <3> QED BY <3>1, Part
  <2>2. ASSUME NEW i \in 1 .. k PROVE 0 + i = i /\ text[i] = number[i]
    <3>1. i \in 1 .. k + 1 + m /\ i <= k
      OBVIOUS
    <3> QED BY <3>1
  <2>3. number = [i \in 1 .. k |-> number[i]]
    OBVIOUS
  <2>4. SubSeq(text, 1, (k + 1) - 1) = SubSeq(text, 0 + 1, k) /\ k - 0 = k
    OBVIOUS
  <2>5. SubSeq(text, 0 + 1, k) = [i \in 1 .. k |-> text[0 + i]]
    BY <2>1, <2>4
  <2>6. SubSeq(text, 0 + 1, k) = number
    BY <2>2, <2>3, <2>5
  <2> QED BY <2>4, <2>6
<1>3. SubSeq(text, k + 1, Len(text)) = [i \in 1 .. 1 + m |-> text[k + i]]
  <2>1. k <= whole /\ whole <= Len(text) /\ whole - k = 1 + m /\ Len(text) = whole
    BY <1>1
  <2>2. SubSeq(text, k + 1, whole) = [i \in 1 .. whole - k |-> text[k + i]]
    BY <1>1, <2>1, Part
  <2> QED BY <2>1, <2>2
<1>4. PICK one : one = <<blank>>
  OBVIOUS
<1>5. one \in Seq(S) /\ Len(one) = 1 /\ one[1] = blank
  BY <1>4
<1>6. PICK right : right = one \o tail
  OBVIOUS
<1>7. /\ right \in Seq(S) /\ Len(right) = 1 + m
      /\ \A i \in 1 .. 1 + m : right[i] = IF i <= 1 THEN one[i] ELSE tail[i - 1]
  <2>1. /\ right \in Seq(S) /\ Len(right) = Len(one) + Len(tail)
        /\ \A i \in 1 .. Len(one) + Len(tail) :
             right[i] = IF i <= Len(one) THEN one[i] ELSE tail[i - Len(one)]
    BY <1>5, <1>6, Concatenated, Zenon
  <2>2. Len(one) = 1 /\ Len(tail) = m
    BY <1>5
  <2> QED BY <2>1, <2>2, Zenon
<1>8. right = [i \in 1 .. 1 + m |-> right[i]]
  BY <1>7
<1>9. ASSUME NEW i \in 1 .. 1 + m PROVE text[k + i] = right[i]
  <2>1. CASE i = 1
    <3>1. k + i = k + 1 /\ k + i \in 1 .. k + 1 + m
      BY <2>1
    <3> QED BY <1>5, <1>7, <2>1, <3>1
  <2>2. CASE i # 1
    <3>1. k + i \in 1 .. k + 1 + m /\ k + i > k + 1 /\ (k + i) - k - 1 = i - 1 /\ ~(i <= 1)
      BY <2>2
    <3> QED BY <1>7, <3>1
  <2> QED BY <2>1, <2>2
<1>10. SubSeq(text, k + 1, Len(text)) = right
  BY <1>3, <1>8, <1>9
<1> QED BY <1>2, <1>4, <1>6, <1>10 DEF Splits

LEMMA AmountIsShown ==
  ASSUME NEW amount \in Seq(Character), \A i \in DOMAIN amount : amount[i] \in Digit,
         NEW asset \in Seq(Character), AmountText(amount, asset).err = "ok"
  PROVE  ShowsAmount(AmountText(amount, asset).text, amount, asset)
<1>1. PICK number : number = IF expert THEN amount ELSE DropZeros(FpStrToStr(amount))
  OBVIOUS
<1>2. /\ number \in Seq(Character) /\ \A i \in DOMAIN number : number[i] \in Digit \cup {"."}
      /\ IF expert THEN number = amount ELSE Denotes(number, amount)
  BY <1>1, ExactDenotes
<1>0. PICK space \in Character : space = " " /\ space \notin DOMAIN Upper
  BY Characters, CapitaliseLeaves
<1>3. PICK shown : shown = number \o <<space>> \o asset
  OBVIOUS
<1>4. AmountText(amount, asset).text = Capitalise(shown)
  <2>1. AmountText(amount, asset) = Ok(Capitalise(shown))
    BY <1>0, <1>1, <1>3, Zenon DEF AmountText, Error
  <2> QED BY <2>1 DEF Ok
<1>5. PICK k \in Nat : k = Len(number)
  BY <1>2
<1>6. PICK m \in Nat : m = Len(asset)
  OBVIOUS
<1>7. PICK blank : blank = <<space>>
  OBVIOUS
<1>8. blank \in Seq(Character) /\ Len(blank) = 1 /\ blank[1] = space
  BY <1>0, <1>7, Single
<1>9. InThreeParts(shown, number, blank, asset, k, 1, m)
  <2>1. 1 \in Nat /\ 1 = Len(blank)
    BY <1>8
  <2> QED BY <1>2, <1>3, <1>5, <1>6, <1>7, <1>8, <2>1, ThreeParts
<1>10. PICK text : text = Capitalise(shown)
  OBVIOUS
<1>11. PICK tail : tail = Capitalise(asset)
  OBVIOUS
<1> DEFINE Capital(c) == IF c \in DOMAIN Upper THEN Upper[c] ELSE c
<1>12. /\ DOMAIN shown = 1 .. k + 1 + m /\ shown \in Seq(Character)
       /\ text = [i \in 1 .. k + 1 + m |-> Capital(shown[i])]
  BY <1>9, <1>10 DEF InThreeParts, Capitalise
<1>13. DOMAIN asset = 1 .. m /\ tail = [i \in 1 .. m |-> Capital(asset[i])]
  BY <1>6, <1>11 DEF Capitalise
<1>14. ASSUME NEW i \in 1 .. k + 1 + m
       PROVE  /\ i <= k => text[i] = number[i]
              /\ i = k + 1 => text[i] = space
              /\ i > k + 1 => i - k - 1 \in 1 .. m /\ text[i] = tail[i - k - 1]
  <2>1. text[i] = Capital(shown[i])
    <3> HIDE DEF Capital
    <3> QED BY <1>12
  <2>2. ASSUME i <= k PROVE text[i] = number[i]
    <3>1. i \in DOMAIN number /\ shown[i] = number[i]
      BY <1>2, <1>5, <1>9, <2>2 DEF InThreeParts
    <3>2. number[i] \notin DOMAIN Upper
      BY <1>2, <3>1, CapitaliseLeaves
    <3> QED BY <2>1, <3>1, <3>2
  <2>3. ASSUME i = k + 1 PROVE text[i] = space
    <3>1. shown[i] = space
      <4>1. i > k /\ i <= k + 1 /\ i - k = 1
        BY <2>3
      <4> QED BY <1>8, <1>9, <4>1 DEF InThreeParts
    <3> QED BY <1>0, <2>1, <3>1
  <2>4. ASSUME i > k + 1 PROVE i - k - 1 \in 1 .. m /\ text[i] = tail[i - k - 1]
    <3>1. i - k - 1 \in 1 .. m /\ shown[i] = asset[i - k - 1]
      BY <1>9, <2>4 DEF InThreeParts
    <3> HIDE DEF Capital
    <3> QED BY <1>13, <2>1, <3>1
  <2> QED BY <2>2, <2>3, <2>4
<1>15. PICK S : text \in Seq(S) /\ tail \in Seq(S) /\ space \in S
  <2> DEFINE T == {text[i] : i \in 1 .. k + 1 + m} \cup {tail[i] : i \in 1 .. m} \cup {space}
  <2> HIDE DEF Capital
  <2>1. text \in Seq(T)
    <3>1. text = [i \in 1 .. k + 1 + m |-> text[i]] /\ \A i \in 1 .. k + 1 + m : text[i] \in T
      BY <1>12
    <3>2. k + 1 + m \in Nat
      OBVIOUS
    <3> HIDE DEF T
    <3> QED BY <3>1, <3>2, IsSeq
  <2>2. tail \in Seq(T)
    <3>1. tail = [i \in 1 .. m |-> tail[i]] /\ \A i \in 1 .. m : tail[i] \in T
      BY <1>13
    <3> HIDE DEF T
    <3> QED BY <3>1, IsSeq
  <2>3. space \in T
    OBVIOUS
  <2> HIDE DEF T
  <2> QED BY <2>1, <2>2, <2>3
<1> HIDE DEF Capital
<1>16. Len(text) = k + 1 + m /\ Len(tail) = m
  BY <1>12, <1>13
<1>17. /\ SubSeq(text, 1, (k + 1) - 1) = number
       /\ SubSeq(text, k + 1, Len(text)) = <<space>> \o tail
  <2>1. number \in Seq(Character) /\ space \in S
    BY <1>2, <1>15
  <2>2. text \in Seq(S) /\ tail \in Seq(S)
    BY <1>15
  <2>3. IsSplit(text, number, space, tail, k, m)
    BY <1>5, <1>14, <1>16 DEF IsSplit
  <2>4. Splits(text, k + 1, number, <<space>> \o tail)
    BY <2>1, <2>2, <2>3, SplitAtBlank, Zenon
  <2> QED BY <2>4 DEF Splits
<1>18. k + 1 \in DOMAIN text
  BY <1>12
<1>19. ShowsAmount(text, amount, asset)
  BY <1>0, <1>2, <1>11, <1>17, <1>18, Zenon DEF ShowsAmount
<1> QED BY <1>4, <1>10, <1>19

-----------------------------------------------------------------------------
LEMMA ItemIsDocument ==
  ASSUME item \in Items
  PROVE  /\ IsNested(item.doc) /\ IsDocument(item.doc)
         /\ item.doc \in Seq([depth : Nat, type : STRING, word : Seq(STRING)])
         /\ item.at \in Nat /\ Value \in 1 .. Len(item.doc)
         /\ \A i \in 1 .. Len(item.doc) - 1 : item.doc[i + 1].depth <= item.doc[i].depth + 1
         /\ DOMAIN json = 0 .. Len(item.doc) - 1
         /\ \A t \in DOMAIN json :
              /\ t + 1 \in 1 .. Len(item.doc) /\ TokenAt(json, t) = json[t]
              /\ json[t].word = item.doc[t + 1].word /\ json[t].type = item.doc[t + 1].type
<1>1. /\ item.doc \in Seq([depth : Nat, type : STRING, word : Seq(STRING)])
      /\ IsDocument(item.doc) /\ item.at \in Nat /\ item.at + 1 \in DOMAIN item.doc
  BY ItemAssumption
<1>2. PICK doc \in Seq([depth : Nat, type : STRING, word : Seq(STRING)]) : doc = item.doc
  BY <1>1
<1>3. IsNested(doc)
  <2>1. ASSUME NEW i \in 1 .. Len(doc) PROVE doc[i].depth \in Nat
    <3>1. doc[i] \in [depth : Nat, type : STRING, word : Seq(STRING)]
      <4>1. i \in DOMAIN doc
        OBVIOUS
      <4> QED BY <1>2, <4>1, Element
    <3> QED BY <3>1
  <2> QED BY <2>1 DEF IsNested
<1>4. ASSUME NEW i \in 1 .. Len(doc) - 1 PROVE doc[i + 1].depth <= doc[i].depth + 1
  <2>1. doc[i].depth \in Nat /\ doc[i + 1].depth \in Nat
    <3>1. i \in 1 .. Len(doc) /\ i + 1 \in 1 .. Len(doc)
      OBVIOUS
    <3> QED BY <1>3, <3>1 DEF IsNested
  <2>2. doc[i + 1].depth <= doc[i].depth + IF IsScalar(doc[i].type) THEN 0 ELSE 1
    BY <1>1, <1>2 DEF IsDocument
  <2> QED BY <2>1, <2>2, SMTT(30)
<1>5. /\ DOMAIN json = 0 .. Len(doc) - 1
      /\ \A t \in DOMAIN json :
           /\ t + 1 \in 1 .. Len(doc) /\ TokenAt(json, t) = json[t]
           /\ json[t].word = doc[t + 1].word /\ json[t].type = doc[t + 1].type
  <2>1. json = Tokens(doc)
    BY <1>2 DEF json
  <2> QED BY <2>1 DEF Tokens, TokenAt
<1>6. Value \in 1 .. Len(doc)
  BY <1>1, <1>2 DEF Value
<1> QED BY <1>1, <1>2, <1>3, <1>4, <1>5, <1>6

\* The token that parser_formatAmount takes for the coin, and what it finds in it.
CoinToken == IF json[item.at].type = "array" THEN item.at + 1 ELSE item.at

CoinElements == ArrayElements(json, CoinToken)

\* If there is a coin, the token is that of the first one.
LEMMA CoinIsFirst ==
  ASSUME item \in Items, Coins # <<>>
  PROVE  /\ CoinToken \in DOMAIN json /\ Coins[1] = CoinToken + 1
         /\ Coins[1] \in 1 .. Len(item.doc) /\ CoinElements \in Seq(Nat)
         /\ Inside(item.doc, Coins[1]) = Shifted(CoinElements)
<1>1. item.at \in DOMAIN json /\ item.at \in Nat /\ Value = item.at + 1
  <2>1. Value \in 1 .. Len(item.doc) /\ item.at \in Nat /\ Value = item.at + 1
    BY ItemIsDocument DEF Value
  <2>2. Len(item.doc) \in Nat /\ DOMAIN json = 0 .. Len(item.doc) - 1
    BY ItemIsDocument DEF IsNested
  <2> QED BY <2>1, <2>2
<1>2. json[item.at].type = item.doc[Value].type
  BY <1>1, ItemIsDocument
<1>3. Coins[1] = CoinToken + 1 /\ Coins[1] \in 1 .. Len(item.doc) /\ CoinToken \in Nat
  <2>1. CASE item.doc[Value].type = "array"
    <3>1. Coins = Inside(item.doc, Value)
      BY <2>1 DEF Coins
    <3>2. Inside(item.doc, Value)[1] = Value + 1 /\ Value + 1 \in 1 .. Len(item.doc)
      <4>1. /\ IsNested(item.doc) /\ IsDocument(item.doc) /\ Value \in 1 .. Len(item.doc)
            /\ Inside(item.doc, Value) # <<>>
        BY <3>1, ItemIsDocument
      <4> QED BY <4>1, FirstInside
    <3>3. CoinToken = item.at + 1
      BY <1>2, <2>1 DEF CoinToken
    <3> QED BY <1>1, <3>1, <3>2, <3>3
  <2>2. CASE item.doc[Value].type # "array"
    <3>1. Coins[1] = Value /\ Value \in 1 .. Len(item.doc)
      BY <2>2, ItemIsDocument DEF Coins
    <3>2. CoinToken = item.at
      BY <1>2, <2>2 DEF CoinToken
    <3> QED BY <1>1, <3>1, <3>2
  <2> QED BY <2>1, <2>2
<1>4. CoinToken \in 0 .. Len(item.doc) - 1
  <2>1. Len(item.doc) \in Nat
    BY ItemIsDocument DEF IsNested
  <2> QED BY <1>3, <2>1
<1>5. /\ ArrayElements(Tokens(item.doc), CoinToken) \in Seq(Nat)
      /\ Inside(item.doc, CoinToken + 1) = Shifted(ArrayElements(Tokens(item.doc), CoinToken))
  BY <1>4, ItemIsDocument, ElementsAreInside
<1> QED BY <1>3, <1>4, <1>5, ItemIsDocument DEF CoinElements, json

\* What parser_formatAmount accepts as a coin is one, and the words are its.
LEMMA CoinIsShown ==
  ASSUME item \in Items, item.isAmount, Coins # <<>>, CoinElements # <<>>,
         Got.err # "unexpected_field"
  PROVE  /\ IsCoin
         /\ Got = AmountText(FieldWord(1), FieldWord(2))
         /\ FieldWord(1) \in Seq(Character) /\ FieldWord(2) \in Seq(Character)
<1>1. PICK doc : doc = item.doc
  OBVIOUS
<1>2. PICK i \in 1 .. Len(doc) : i = Coins[1] /\ i = CoinToken + 1
  BY <1>1, CoinIsFirst
<1>3. PICK t \in DOMAIN json : t = CoinToken
  BY CoinIsFirst
<1>4. i = t + 1 /\ t \in Nat /\ i \in Nat
  <2>1. DOMAIN json \subseteq Nat
    BY ItemIsDocument
  <2> QED BY <1>2, <1>3, <2>1
<1>5. Got = IF \/ Len(CoinElements) # 4 \/ json[t].type # "object"
               \/ TokenAt(json, t + 2).type # "string"
               \/ TokenAt(json, t + 4).type # "string"
            THEN Error("unexpected_field")
            ELSE AmountText(json[t + 2].word, json[t + 4].word)
  <2>1. Got = CoinText(json, item.at)
    BY DEF Got
  <2> QED BY <1>3, <2>1, Zenon DEF CoinText, CoinToken, CoinElements
<1>6. /\ Len(CoinElements) = 4 /\ json[t].type = "object"
      /\ TokenAt(json, t + 2).type = "string" /\ TokenAt(json, t + 4).type = "string"
      /\ Got = AmountText(json[t + 2].word, json[t + 4].word)
  BY <1>5 DEF Error
<1>7. t + 2 \in DOMAIN json /\ t + 4 \in DOMAIN json
  BY <1>6 DEF TokenAt, NoToken
<1>8. /\ doc[i].type = "object" /\ doc[i + 2].type = "string" /\ doc[i + 4].type = "string"
      /\ json[t + 2].word = doc[i + 2].word /\ json[t + 4].word = doc[i + 4].word
  <2>1. (t + 2) + 1 = i + 2 /\ (t + 4) + 1 = i + 4
    BY <1>4
  <2>2. ASSUME NEW u \in DOMAIN json
        PROVE  TokenAt(json, u) = json[u] /\ json[u].word = doc[u + 1].word /\ json[u].type = doc[u + 1].type
    BY <1>1, ItemIsDocument
  <2>3. /\ TokenAt(json, t + 2) = json[t + 2] /\ TokenAt(json, t + 4) = json[t + 4]
        /\ json[t + 2].type = doc[(t + 2) + 1].type /\ json[t + 4].type = doc[(t + 4) + 1].type
        /\ json[t + 2].word = doc[(t + 2) + 1].word /\ json[t + 4].word = doc[(t + 4) + 1].word
    BY <1>7, <2>2
  <2>4. json[t].type = doc[i].type
    BY <1>4, <2>2
  <2> QED BY <1>6, <2>1, <2>3, <2>4
<1>9. Len(Inside(doc, i)) = 4
  <2>1. Inside(doc, i) = Shifted(CoinElements)
    BY <1>1, <1>2, CoinIsFirst
  <2> QED BY <1>6, <2>1 DEF Shifted
<1>10. Fields(doc, i) = [n \in 1 .. 2 |-> <<i + 2 * n - 1, i + 2 * n>>]
  <2>1. IsNested(doc) /\ IsDocument(doc)
    BY <1>1, ItemIsDocument
  <2>2. IsScalar(doc[i + 2].type) /\ IsScalar(doc[i + 4].type)
    BY <1>8 DEF IsScalar
  <2> QED BY <1>8, <1>9, <2>1, <2>2, FourInside
<1>11. /\ Len(Fields(doc, i)) = 2
       /\ Fields(doc, i)[1][2] = i + 2 /\ Fields(doc, i)[2][2] = i + 4
  <2>1. i + 2 * 1 = i + 2 /\ i + 2 * 2 = i + 4
    BY <1>4
  <2>2. 1 \in 1 .. 2 /\ 2 \in 1 .. 2
    OBVIOUS
  <2>3. Len(Fields(doc, i)) = 2
    BY <1>10
  <2>4. /\ Fields(doc, i)[1][2] = i + 2 * 1 /\ Fields(doc, i)[2][2] = i + 2 * 2
    BY <1>10, <2>2
  <2> QED BY <2>1, <2>3, <2>4
<1>12. FieldWord(1) = json[t + 2].word /\ FieldWord(2) = json[t + 4].word
  BY <1>1, <1>2, <1>8, <1>11 DEF FieldWord
<1>13. IsCoin
  <2>1. \A n \in 1 .. 2 : n = 1 \/ n = 2
    OBVIOUS
  <2> QED BY <1>1, <1>2, <1>8, <1>11, <2>1 DEF IsCoin
<1> QED BY <1>6, <1>7, <1>12, <1>13, WordIsText

LEMMA DropZerosShortens ==
  ASSUME NEW s \in Seq(Character), Len(s) > 0
  PROVE  Len(DropZeros(s)) <= Len(s) /\ Len(DropZeros(s)) \in Nat
<1>1. PICK k \in 1 .. Len(s) : DropZeros(s) = SubSeq(s, 1, k)
  BY KeptExists DEF DropZeros
<1> QED BY <1>1

\* The text of an amount is one longer than its digits, if there are enough.
LEMMA LongLength ==
  ASSUME NEW number \in Seq(Character), Len(number) > Decimals
  PROVE  FpStrToStr(number) \in Seq(Character) /\ Len(FpStrToStr(number)) = Len(number) + 1
<1>1. PICK n \in Nat, whole \in Nat : n = Len(number) /\ whole = n - Decimals /\ whole + Decimals = n
  <2>1. Len(number) \in Nat /\ Decimals \in Nat
    BY Sizes
  <2>2. Len(number) - Decimals \in Nat /\ (Len(number) - Decimals) + Decimals = Len(number)
    BY <2>1
  <2> QED BY <2>1, <2>2
<1>2. PICK before, point, behind :
        /\ before = SubSeq(number, 1, whole) /\ point = <<".">>
        /\ behind = SubSeq(number, whole + 1, n)
  OBVIOUS
<1>3. point \in Seq(Character) /\ Len(point) = 1
  BY <1>2, Single, Characters
<1>4. before \in Seq(Character) /\ Len(before) = whole
  BY <1>1, <1>2, Sizes
<1>5. behind \in Seq(Character) /\ Len(behind) = Decimals /\ Decimals \in Nat
  BY <1>1, <1>2, Sizes
<1>6. FpStrToStr(number) = before \o point \o behind
  <2>1. ~(Len(number) <= Decimals)
    BY <1>1, Sizes
  <2>2. Len(number) - Decimals = whole /\ Len(number) = n
    BY <1>1
  <2> QED BY <1>2, <2>1, <2>2, Zenon DEF FpStrToStr
<1>7. InThreeParts(FpStrToStr(number), before, point, behind, whole, 1, Decimals)
  BY <1>3, <1>4, <1>5, <1>6, ThreeParts, ZenonT(60)
<1> QED BY <1>1, <1>5, <1>7 DEF InThreeParts

LEMMA InvImpliesLimit == IInv => OverrunOnlyAtLimit
<1> SUFFICES ASSUME IInv, Got.err = "overrun", Coins # <<>>
             PROVE  /\ IsCoin
                    /\ \/ Len(FieldWord(1)) <= Decimals
                       \/ Len(FieldWord(1)) + 2 + Len(FieldWord(2)) = UiSize
  BY DEF OverrunOnlyAtLimit
<1>1. item \in Items
  BY DEF IInv
<1>2. item.isAmount
  BY DEF Got, ValueText, Ok
<1>3. CoinElements # <<>>
  <2> SUFFICES ASSUME CoinElements = <<>> PROVE FALSE
    OBVIOUS
  <2>1. CoinToken \in DOMAIN json
    BY <1>1, CoinIsFirst
  <2>2. Got = Ok(Empty)
    BY <1>2, <2>1 DEF Got, CoinText, CoinToken, CoinElements
  <2> QED BY <2>2 DEF Ok
<1>4. PICK amount \in Seq(Character), asset \in Seq(Character) :
        /\ amount = FieldWord(1) /\ asset = FieldWord(2) /\ IsCoin
        /\ Got = AmountText(amount, asset)
  BY <1>1, <1>2, <1>3, CoinIsShown
<1> DEFINE number == IF expert THEN amount ELSE DropZeros(FpStrToStr(amount))
<1>5. /\ ~(UiSize < Len(amount) + 2 + Len(asset))
      /\ Len(number) + 1 + Len(asset) >= UiSize
  BY <1>4 DEF AmountText, Error, Ok
<1>6. CASE expert
  BY <1>4, <1>5, <1>6, Sizes
<1>7. CASE ~expert /\ Len(amount) > Decimals
  <2>1. Len(DropZeros(FpStrToStr(amount))) <= Len(amount) + 1 /\ Len(DropZeros(FpStrToStr(amount))) \in Nat
    <3>1. FpStrToStr(amount) \in Seq(Character) /\ Len(FpStrToStr(amount)) = Len(amount) + 1
      BY <1>7, LongLength
    <3>2. Len(FpStrToStr(amount)) > 0
      BY <3>1
    <3> QED BY <3>1, <3>2, DropZerosShortens
  <2>2. Len(DropZeros(FpStrToStr(amount))) + 1 + Len(asset) >= UiSize
    BY <1>5, <1>7
  <2>3. Len(amount) + 2 + Len(asset) = UiSize
    BY <1>5, <2>1, <2>2, Sizes
  <2> QED BY <1>4, <2>3
<1>8. CASE Len(amount) <= Decimals
  BY <1>4, <1>8
<1>9. Len(amount) \in Nat /\ Decimals \in Nat
  BY Sizes
<1> QED BY <1>6, <1>7, <1>8, <1>9

LEMMA InvImpliesExact == IInv => AmountIsExact
<1> SUFFICES ASSUME IInv, ReadAll, IsCoin, ToSet(FieldWord(1)) \subseteq Digit
             PROVE  ShowsAmount(Read, FieldWord(1), FieldWord(2))
  BY DEF AmountIsExact, ShowsAmount
<1>1. item \in Items /\ item.isAmount /\ Coins # <<>>
  BY DEF IInv, IsCoin
<1>2. Got.err = "ok" /\ Read = Got.text
  <2>1. stage = "shown"
    BY DEF IInv, ReadAll
  <2> QED BY <2>1, ReadIsGot DEF IInv
<1>3. CoinElements # <<>>
  <2> SUFFICES ASSUME CoinElements = <<>> PROVE FALSE
    OBVIOUS
  <2>1. Inside(item.doc, Coins[1]) = Shifted(<<>>)
    BY <1>1, CoinIsFirst
  <2>2. Len(Inside(item.doc, Coins[1])) = 0
    BY <2>1 DEF Shifted
  <2>3. Len(Fields(item.doc, Coins[1])) = 0
    BY <2>2 DEF Fields
  <2> QED BY <2>3 DEF IsCoin
<1>4. PICK amount \in Seq(Character), asset \in Seq(Character) :
        /\ amount = FieldWord(1) /\ asset = FieldWord(2)
        /\ Got = AmountText(amount, asset)
  <2>1. Got.err # "unexpected_field"
    BY <1>2
  <2> QED BY <1>1, <1>3, <2>1, CoinIsShown
<1>5. \A i \in DOMAIN amount : amount[i] \in Digit
  BY <1>4 DEF ToSet
<1>6. AmountText(amount, asset).err = "ok"
  BY <1>2, <1>4
<1> QED BY <1>2, <1>4, <1>5, <1>6, AmountIsShown

(* The check of the length of amount and asset leaves bufferUI too small   *)
(* only for amounts with leading zeros, and at its very limit, for all     *)
(* sizes.                                                                  *)
THEOREM OverrunsAtLimit == Spec => []OverrunOnlyAtLimit
<1>1. Init => IInv
  BY InitInv
<1>2. IInv /\ [Next]_vars => IInv'
  BY StepInv
<1>3. IInv => OverrunOnlyAtLimit
  BY InvImpliesLimit
<1> QED BY <1>1, <1>2, <1>3, PTL DEF Spec

(* A user who has read all pages of an amount of digits has read the       *)
(* amount that is signed, for every amount and asset, every number of      *)
(* decimals and lines of any length.                                       *)
THEOREM ReadsExactly == Spec => []AmountIsExact
<1>1. Init => IInv
  BY InitInv
<1>2. IInv /\ [Next]_vars => IInv'
  BY StepInv
<1>3. IInv => AmountIsExact
  BY InvImpliesExact
<1> QED BY <1>1, <1>2, <1>3, PTL DEF Spec
=============================================================================
