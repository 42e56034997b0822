------------------------------- MODULE Paging -------------------------------
(***************************************************************************)
(* The paging of view.c, which both models of the device share: where the  *)
(* review stands (viewdata) and how it moves.  The counters are uint8_t.   *)
(* The transaction is its layout: the number of pages of each item, as     *)
(* parser_getItem finds them.                                              *)
(***************************************************************************)
EXTENDS Layout

CONSTANTS
  Width,      \* 2^8, the number of values of a uint8_t
  Layouts     \* the transactions: numbers of pages, item by item

\* parser_validate has checked that every item can be shown: none is without
\* pages; tx_getNumItems and pageCount are uint8_t.
ASSUME PagingAssumption ==
  /\ Width \in Nat \ {0, 1}
  /\ Layouts \subseteq Seq(1 .. Width - 1)
  /\ \A l \in Layouts : Len(l) < Width

Byte8 == 0 .. Width - 1

View == [itemIdx : Byte8, pageIdx : Byte8, itemCount : Byte8, pageCount : Byte8]

\* viewdata before the first review (.bss).
ZeroView == [itemIdx |-> 0, pageIdx |-> 0, itemCount |-> 0, pageCount |-> 0]

VIEW_ADDRESS_LAST_PAGE_DEFAULT == 0

PagingInit(v) == [v EXCEPT !.itemIdx = 0, !.pageIdx = 0, !.pageCount = 1]

\* Mutant: the page is not set back when the item advances.
IncreaseKeepingPage(v) ==
  IF v.pageIdx + 1 < v.pageCount THEN [v EXCEPT !.pageIdx = @ + 1]
  ELSE IF v.itemIdx + 1 < v.itemCount THEN [v EXCEPT !.itemIdx = @ + 1]
  ELSE v

\* h_paging_increase.
Increase(v) ==
  IF v.pageIdx + 1 < v.pageCount THEN [v EXCEPT !.pageIdx = @ + 1]
  ELSE IF v.itemIdx + 1 < v.itemCount
       THEN [v EXCEPT !.itemIdx = @ + 1, !.pageIdx = 0]
  ELSE v

\* h_paging_decrease.
Decrease(v) ==
  IF v.pageIdx # 0 THEN [v EXCEPT !.pageIdx = @ - 1]
  ELSE IF v.itemIdx > 0
       THEN [v EXCEPT !.itemIdx = @ - 1, !.pageIdx = VIEW_ADDRESS_LAST_PAGE_DEFAULT]
  ELSE v

\* What comes back for an item and a page, and the page count it leaves.
Got(err, pages) == [err |-> err, pageCount |-> pages]

\* Mutant: the index of the end passes the checks, as it does in tx_getItem.
GetItemPastEnd(v, l) ==
  CASE v.itemIdx > Len(l) -> Got("no_data", v.pageCount)
    [] v.itemIdx <= Len(l) /\ Len(l) = 0 -> Got("error", 0)
    [] v.itemIdx = Len(l) /\ Len(l) # 0 -> Got("no_error", 1)
    [] v.itemIdx < Len(l) ->
         Got(IF v.pageIdx < l[v.itemIdx + 1] THEN "no_error" ELSE "no_data",
             l[v.itemIdx + 1])

\* tx_getItem and the checks of parser_getItem and tx_getToken.
GetItem(v, l) ==
  CASE v.itemIdx > Len(l) -> Got("no_data", v.pageCount)
    [] v.itemIdx <= Len(l) /\ Len(l) = 0 -> Got("error", 0)
    [] v.itemIdx = Len(l) /\ Len(l) # 0 -> Got("no_data", 0)
    [] v.itemIdx < Len(l) ->
         Got(IF v.pageIdx < l[v.itemIdx + 1] THEN "no_error" ELSE "no_data",
             l[v.itemIdx + 1])

\* Mutant: the count of items does not count the end.
UpdateWithoutEnd(v, l) ==
  [v EXCEPT !.itemCount = Len(l), !.pageCount = GetItem(v, l).pageCount]

\* h_review_update_data: the count of items plus one for the end, and the
\* item.  No item has zero pages, so the loop runs once.
Update(v, l) ==
  [v EXCEPT !.itemCount = (Len(l) + 1) % Width, !.pageCount = GetItem(v, l).pageCount]

\* The count that Update stores is right.
Countable(l) == Len(l) + 1 < Width

Page(v) == <<v.itemIdx, v.pageIdx>>

=============================================================================
