------------------------------- MODULE TxItem -------------------------------
(***************************************************************************)
(* What one item of a transaction shows: parser_formatAmount for the coins *)
(* of a message, with fpstr_to_str, and tx_getToken for everything else,   *)
(* both cut into pages by pageStringExt.  parser_validate asks for the     *)
(* first page of an item, the review for all of them, with a longer or a   *)
(* shorter line.  Words are sequences of characters here.                  *)
(***************************************************************************)
EXTENDS JsonParser

CONSTANTS
  Width,            \* 2^8, the number of values of a uint8_t
  Decimals,         \* COIN_DEFAULT_DENOM_FACTOR
  TmpSize,          \* sizeof(tmp)
  UiSize,           \* sizeof(bufferUI)
  ValidateLen,      \* sizeof(tmpVal) in parser_validate
  ViewLen,          \* MAX_CHARS_PER_VALUE1_LINE
  Items,            \* values in their documents
  Upper,            \* the capital letters of the small ones
  Substitutes       \* value_substitutions

Digit == {"0", "1", "2", "3", "4", "5", "6", "7", "8", "9"}

\* What fits a buffer has no more pages than can be counted with the line of
\* the view.
Countable(text) == Len(text) <= (Width - 1) * (ViewLen - 1)

ASSUME ItemAssumption ==
  /\ Width \in Nat \ {0, 1} /\ Decimals \in Nat \ {0}
  /\ TmpSize \in Nat /\ UiSize \in Nat /\ UiSize <= (Width - 1) * (ViewLen - 1)
  /\ ValidateLen \in Nat \ {0, 1} /\ ViewLen \in Nat \ {0, 1}
  /\ \A item \in Items :
       /\ item.doc \in Seq([depth : Nat, type : STRING, word : Seq(STRING)])
       /\ item.at \in Nat /\ item.at + 1 \in DOMAIN item.doc
       /\ \A i \in DOMAIN item.doc :
            Countable(item.doc[i].word)
       /\ IsDocument(item.doc)
  /\ \A word \in DOMAIN Substitutes :
       Substitutes[word] \in Seq(STRING) /\ Countable(Substitutes[word])
  /\ DOMAIN Upper \cap (Digit \cup {" ", "."}) = {}

VARIABLES
  item,     \* the item of the transaction that was parsed: a document, the
            \* token of a value in it, and whether its key is that of an amount
  expert,   \* tx_is_expert_mode()
  stage,    \* "none", "refused" by parser_validate, or "shown" in the review
  pages     \* what the review has shown of it, by page

vars == <<item, expert, stage, pages>>

Init == item \in Items /\ expert \in BOOLEAN /\ stage = "none" /\ pages = <<>>

-----------------------------------------------------------------------------
Zeros(n) == [i \in 1 .. n |-> "0"]

\* fpstr_to_str, for as many characters as parser_formatAmount lets through.
FpStrToStr(number) ==
  IF Len(number) <= Decimals
  THEN <<"0", ".">> \o Zeros(Decimals - Len(number)) \o number
  ELSE SubSeq(number, 1, Len(number) - Decimals) \o <<".">>
       \o SubSeq(number, Len(number) - Decimals + 1, Len(number))

\* Mutant: the zero behind the point goes, too.
KeptWithoutZero(s, n) ==
  /\ n = 1 \/ s[n] # "0"
  /\ \A m \in n + 1 .. Len(s) : s[m] = "0"

\* The loop that removes zeros stops at the last character that is none, or
\* behind the point.
Kept(s, n) ==
  /\ n = 1 \/ s[n] # "0" \/ s[n - 1] = "."
  /\ \A m \in n + 1 .. Len(s) : s[m] = "0" /\ s[m - 1] # "."

DropZeros(s) == SubSeq(s, 1, CHOOSE n \in 1 .. Len(s) : Kept(s, n))

Capitalise(s) == [i \in DOMAIN s |-> IF s[i] \in DOMAIN Upper THEN Upper[s[i]] ELSE s[i]]

Error(code) == [err |-> code, text |-> <<>>, count |-> 0]
Ok(text) == [err |-> "ok", text |-> text]

\* Mutant: the blank and the end of the string are not counted.
AmountTextTight(amount, asset) ==
  IF amount = <<>> \/ asset = <<>> \/ UiSize < Len(amount) + Len(asset)
  THEN Error("unexpected_buffer_end")
  ELSE IF ~expert /\ Len(amount) >= TmpSize THEN Error("unexpected_error")
  ELSE LET number == IF expert THEN amount ELSE DropZeros(FpStrToStr(amount))
       IN  IF Len(number) + 1 + Len(asset) >= UiSize THEN Error("overrun")
           ELSE Ok(Capitalise(number \o <<" ">> \o asset))

\* What an amount of an asset is turned into.  The first check counts the
\* digits of the amount and not those it is shown with: if these and the end
\* of the string are more than bufferUI has, what the code does is undefined.
AmountText(amount, asset) ==
  IF amount = <<>> \/ asset = <<>> \/ UiSize < Len(amount) + 2 + Len(asset)
  THEN Error("unexpected_buffer_end")
  ELSE IF ~expert /\ Len(amount) >= TmpSize THEN Error("unexpected_error")
  ELSE LET number == IF expert THEN amount ELSE DropZeros(FpStrToStr(amount))
       IN  IF Len(number) + 1 + Len(asset) >= UiSize THEN Error("overrun")
           ELSE Ok(Capitalise(number \o <<" ">> \o asset))

\* The word Empty.
Empty == <<"Empty">>

\* parser_formatAmount up to the pages: the coin is the token behind that of
\* an array, and must have two fields whose values are strings.
CoinText(tokens, t) ==
  LET coin == IF tokens[t].type = "array" THEN t + 1 ELSE t
      elements == IF coin \in DOMAIN tokens THEN ArrayElements(tokens, coin) ELSE <<>>
  IN  IF elements = <<>> THEN Ok(Empty)
      ELSE IF \/ Len(elements) # 4 \/ tokens[coin].type # "object"
              \/ TokenAt(tokens, coin + 2).type # "string"
              \/ TokenAt(tokens, coin + 4).type # "string"
      THEN Error("unexpected_field")
      ELSE AmountText(tokens[coin + 2].word, tokens[coin + 4].word)

\* tx_getToken up to the pages.
ValueText(word) == Ok(IF word \in DOMAIN Substitutes THEN Substitutes[word] ELSE word)

\* Mutant: no place is left for the end of the string.
LineWithoutEnd(outLen) == outLen
Line(outLen) == outLen - 1

\* Mutant: a last page that is not full is not counted.
PageCountOfFull(text, outLen) ==
  (Len(text) \div Line(outLen) + IF Len(text) \in 1 .. Line(outLen) - 1 THEN 1 ELSE 0) % Width

\* pageStringExt: the number of pages, in a uint8_t, and one page.
PageCount(text, outLen) ==
  (Len(text) \div Line(outLen) + IF Len(text) % Line(outLen) > 0 THEN 1 ELSE 0) % Width

PageOf(text, outLen, page) ==
  LET rest == Len(text) % Line(outLen)
      chunk == IF rest > 0 /\ page = PageCount(text, outLen) - 1 THEN rest ELSE Line(outLen)
  IN  IF page < PageCount(text, outLen)
      THEN SubSeq(text, page * Line(outLen) + 1, page * Line(outLen) + chunk) ELSE <<>>

json == Tokens(item.doc)
Got == IF item.isAmount THEN CoinText(json, item.at) ELSE ValueText(json[item.at].word)

\* Mutant: the last page is out of range.
GetItemBeforeLast(page, outLen) ==
  LET count == IF Got.text = <<>> THEN 1 ELSE PageCount(Got.text, outLen)
  IN  IF Got.err # "ok" THEN Got
      ELSE IF page > 0 /\ page + 1 >= count THEN Error("display_page_out_of_range")
      ELSE [err |-> "ok", text |-> PageOf(Got.text, outLen, page), count |-> count]

\* parser_getItem of the item: an empty value has one page, and only
\* tx_getToken looks whether there is the page that is asked for.
GetItem(page, outLen) ==
  LET count == IF Got.text = <<>> THEN 1 ELSE PageCount(Got.text, outLen)
  IN  IF Got.err # "ok" THEN Got
      ELSE IF ~item.isAmount /\ page >= count THEN Error("display_page_out_of_range")
      ELSE [err |-> "ok", text |-> PageOf(Got.text, outLen, page), count |-> count]

-----------------------------------------------------------------------------
\* A new transaction: parser_validate asks for the first page of the item.
Parse(new, mode) ==
  /\ item' = new /\ expert' = mode
  /\ stage' = "none" /\ pages' = <<>>

ValidateItem ==
  /\ stage = "none"
  /\ stage' = IF GetItem(0, ValidateLen).err = "ok" THEN "shown" ELSE "refused"
  /\ UNCHANGED <<item, expert, pages>>

\* The review shows the next page, as long as the last one said that there
\* are more.
ShowPage ==
  /\ stage = "shown"
  /\ pages # <<>> => Last(pages).err = "ok" /\ Len(pages) < Last(pages).count
  /\ pages' = Append(pages, GetItem(Len(pages), ViewLen))
  /\ UNCHANGED <<item, expert, stage>>

Next == \/ \E new \in Items, mode \in BOOLEAN : Parse(new, mode)
        \/ ValidateItem
        \/ ShowPage

Spec == Init /\ [][Next]_vars

-----------------------------------------------------------------------------
(* What an item is to show, from its document.                             *)

Value == item.at + 1
Coins == IF item.doc[Value].type = "array" THEN Inside(item.doc, Value) ELSE <<Value>>

\* The coin that is shown is one: two fields, with words.
IsCoin ==
  /\ item.isAmount /\ Coins # <<>>
  /\ item.doc[Coins[1]].type = "object"
  /\ LET fields == Fields(item.doc, Coins[1])
     IN  Len(fields) = 2 /\ \A n \in 1 .. 2 : item.doc[fields[n][2]].type = "string"

FieldWord(n) == item.doc[Fields(item.doc, Coins[1])[n][2]].word

\* The digit of a number at a power of ten, the smallest unit being 0.
DigitAt(number, power) == IF power < Len(number) THEN number[Len(number) - power] ELSE "0"

\* The same for a text with a point at place p, Decimals powers below it.
ShownDigit(s, p, power) ==
  LET place == IF power >= Decimals THEN p - 1 - (power - Decimals) ELSE p + Decimals - power
  IN  IF place \in DOMAIN s THEN s[place] ELSE "0"

\* The text s, with digits on both sides of a point, is number / 10^Decimals.
Denotes(s, number) ==
  \E p \in 2 .. Len(s) - 1 :
    /\ s[p] = "."
    /\ \A power \in 0 .. Len(s) + Len(number) + Decimals :
         ShownDigit(s, p, power) = DigitAt(number, power)

\* What the review has shown, and whether it was everything.
Read == FlattenSeq([n \in DOMAIN pages |-> pages[n].text])
ReadAll == pages # <<>> /\ Last(pages).err = "ok" /\ Len(pages) >= Last(pages).count

-----------------------------------------------------------------------------
TypeOK ==
  /\ item \in Items /\ expert \in BOOLEAN
  /\ stage \in {"none", "refused", "shown"}
  /\ \A n \in DOMAIN pages :
       pages[n].count \in 0 .. Width - 1 /\ Len(pages[n].text) < ViewLen

(* A user who has read all pages of an amount of digits has read the       *)
(* amount that is signed: in expert mode as it is, otherwise with its      *)
(* point, whatever zeros were added or removed and wherever it was cut.    *)
AmountIsExact ==
  ReadAll /\ IsCoin /\ ToSet(FieldWord(1)) \subseteq Digit =>
    \E n \in DOMAIN Read :
      /\ SubSeq(Read, n, Len(Read)) = <<" ">> \o Capitalise(FieldWord(2))
      /\ IF expert THEN SubSeq(Read, 1, n - 1) = FieldWord(1)
         ELSE Denotes(SubSeq(Read, 1, n - 1), FieldWord(1))

(* A user who has read all pages of any other value has read all of it.    *)
ValueIsComplete ==
  ReadAll /\ ~item.isAmount => Read = ValueText(item.doc[Value].word).text

(* What parser_validate has accepted by its first page can be shown to the *)
(* end: no page of the review fails, and all agree how many there are.     *)
EveryPageShown ==
  stage = "shown" => \A n \in DOMAIN pages :
    pages[n].err = "ok" /\ pages[n].count = pages[1].count /\ pages[n].count >= n

(* The check of the length of amount and asset is enough for bufferUI but  *)
(* for amounts that are shown with leading zeros, and at its very limit.   *)
OverrunOnlyAtLimit ==
  Got.err = "overrun" /\ Coins # <<>> =>
    /\ IsCoin
    /\ \/ Len(FieldWord(1)) <= Decimals
       \/ Len(FieldWord(1)) + 2 + Len(FieldWord(2)) = UiSize

=============================================================================
