--------------------------- MODULE ReviewSProofs ----------------------------
(***************************************************************************)
(* Proofs about ReviewS, for every transaction and every width of the      *)
(* counters: the review reads in order, and it implements Review.  The     *)
(* facts about the paging of view.c come first: the proofs about the other *)
(* models of the device rest on them as well.                              *)
(***************************************************************************)
EXTENDS ReviewS, TLAPS

-----------------------------------------------------------------------------
(* The paging of view.c. *)

\* The counters point at a page of the transaction.
OnPage(l, v) ==
  /\ v \in View
  /\ v.itemIdx < Len(l)
  /\ v.pageIdx < l[v.itemIdx + 1]

\* The counters as h_review_update_data leaves them for a page.
Settled(l, v) ==
  /\ OnPage(l, v)
  /\ v.pageCount = l[v.itemIdx + 1]
  /\ v.itemCount = (Len(l) + 1) % Width

\* The counters point at the end that follows the last item.
AtEnd(l, v) ==
  /\ v \in View
  /\ v.itemIdx = Len(l)
  /\ v.pageIdx = 0

(* What a layout is: fewer items than a byte counts, each with at least    *)
(* one page.                                                               *)
LEMMA LayoutType ==
  ASSUME NEW l \in Layouts
  PROVE  /\ Width \in Nat /\ Width > 1
         /\ l \in Seq(1 .. Width - 1)
         /\ Len(l) \in Nat /\ Len(l) < Width
         /\ \A i \in 1 .. Len(l) : l[i] \in 1 .. Width - 1
  BY PagingAssumption

(* The pages, by their two indices. *)
LEMMA PagesOf ==
  ASSUME NEW l \in Layouts, NEW p
  PROVE  p \in AllPages(l) <=> \E i \in 0 .. Len(l) - 1 : p \in {i} \X (0 .. l[i + 1] - 1)
  BY DEF AllPages

LEMMA PageIndices ==
  ASSUME NEW l \in Layouts, NEW i, NEW j
  PROVE  <<i, j>> \in AllPages(l) <=> i \in 0 .. Len(l) - 1 /\ j \in 0 .. l[i + 1] - 1
  BY PagesOf

LEMMA PageOfIndices ==
  ASSUME NEW l \in Layouts, NEW p \in AllPages(l)
  PROVE  /\ p = <<p[1], p[2]>>
         /\ p[1] \in 0 .. Len(l) - 1
         /\ p[2] \in 0 .. l[p[1] + 1] - 1
  BY PagesOf

(* What is below a byte is a byte. *)
LEMMA Below ==
  ASSUME NEW m \in Byte8, NEW i \in Nat, i <= m
  PROVE  i \in Byte8
  <1>1. Width \in Nat
    BY PagingAssumption
  <1>2. QED
    BY <1>1 DEF Byte8

(* The fields of the counters are bytes. *)
LEMMA Fields ==
  ASSUME NEW v \in View
  PROVE  /\ v.itemIdx \in Byte8 /\ v.pageIdx \in Byte8
         /\ v.itemIdx \in Nat /\ v.pageIdx \in Nat
         /\ v.itemCount \in Nat /\ v.pageCount \in Nat
  <1>1. Width \in Nat
    BY PagingAssumption
  <1>2. QED
    BY <1>1 DEF View, Byte8

(* What stays below the width is a byte. *)
LEMMA Bytes ==
  ASSUME NEW l \in Layouts, NEW i \in Nat
  PROVE  /\ i <= Len(l) => i \in Byte8
         /\ i = 0 \/ i = 1 => i \in Byte8
  BY LayoutType DEF Byte8

(* The sizes of the items of a page that the counters point at. *)
LEMMA PageBounds ==
  ASSUME NEW l \in Layouts, NEW v, OnPage(l, v)
  PROVE  /\ v \in View
         /\ v.itemIdx \in 0 .. Len(l) - 1
         /\ v.pageIdx \in 0 .. l[v.itemIdx + 1] - 1
         /\ l[v.itemIdx + 1] \in Byte8
         /\ l[v.itemIdx + 1] \in Nat
  <1>1. v \in View /\ v.itemIdx \in Nat /\ v.pageIdx \in Nat /\ v.itemIdx < Len(l)
    BY Fields DEF OnPage
  <1>2. v.itemIdx \in 0 .. Len(l) - 1
    BY <1>1, LayoutType
  <1>3. l[v.itemIdx + 1] \in 1 .. Width - 1
    BY <1>2, LayoutType
  <1>4. l[v.itemIdx + 1] \in Byte8 /\ l[v.itemIdx + 1] \in Nat
    BY <1>3, PagingAssumption DEF Byte8
  <1>5. v.pageIdx \in 0 .. l[v.itemIdx + 1] - 1
    BY <1>1, <1>4 DEF OnPage
  <1>6. QED
    BY <1>1, <1>2, <1>4, <1>5

(* The remainder of a number by itself or by a greater one. *)
LEMMA Remainder ==
  ASSUME NEW n \in Nat, NEW w \in Nat \ {0}, n <= w
  PROVE  n % w = IF n < w THEN n ELSE 0
  <1>1. CASE n < w
    BY <1>1
  <1>2. CASE n = w
    BY <1>2
  <1>3. QED
    BY <1>1, <1>2

(* The count of items and the end, as its byte holds it: right, or zero.   *)
LEMMA CountFits ==
  ASSUME NEW l \in Layouts
  PROVE  /\ (Len(l) + 1) % Width \in Byte8
         /\ (Len(l) + 1) % Width <= Len(l) + 1
  <1>1. Width \in Nat \ {0} /\ Len(l) \in Nat /\ Len(l) + 1 <= Width
    BY LayoutType
  <1> DEFINE n == Len(l) + 1
             c == n % Width
  <1>2. c = IF n < Width THEN n ELSE 0
    <2>1. n \in Nat /\ n <= Width
      BY <1>1
    <2> HIDE DEF n
    <2>2. QED
      BY <1>1, <2>1, Remainder
  <1> HIDE DEF c
  <1>3. c \in Byte8 /\ c <= Len(l) + 1
    BY <1>1, <1>2 DEF Byte8
  <1>4. QED
    BY <1>3 DEF c

(* tx_getItem on a page: it is shown, and the counters are settled there.  *)
LEMMA ItemOnPage ==
  ASSUME NEW l \in Layouts, NEW v, OnPage(l, v)
  PROVE  /\ GetItem(v, l).err = "no_error"
         /\ Settled(l, Update(v, l))
         /\ Page(Update(v, l)) = Page(v)
         /\ Page(v) \in AllPages(l)
  <1>1. /\ v \in View /\ v.itemIdx \in 0 .. Len(l) - 1
        /\ v.pageIdx \in 0 .. l[v.itemIdx + 1] - 1
        /\ l[v.itemIdx + 1] \in Byte8
    BY PageBounds
  <1>2. Len(l) \in Nat
    BY LayoutType
  <1>3. GetItem(v, l) = Got("no_error", l[v.itemIdx + 1])
    <2>1. v.itemIdx < Len(l) /\ ~(v.itemIdx > Len(l)) /\ v.itemIdx # Len(l) /\ Len(l) # 0
      BY <1>1, <1>2
    <2>2. v.pageIdx < l[v.itemIdx + 1]
      BY DEF OnPage
    <2>3. QED
      BY <2>1, <2>2 DEF GetItem
  <1>4. GetItem(v, l).err = "no_error" /\ GetItem(v, l).pageCount = l[v.itemIdx + 1]
    BY <1>3 DEF Got
  <1> DEFINE w == Update(v, l)
             c == (Len(l) + 1) % Width
             d == l[v.itemIdx + 1]
  <1>5. w = [v EXCEPT !.itemCount = c, !.pageCount = d]
    BY <1>4 DEF Update
  <1>6. c \in Byte8 /\ d \in Byte8
    BY <1>1, CountFits
  <1>7. /\ w \in View /\ w.itemIdx = v.itemIdx /\ w.pageIdx = v.pageIdx
        /\ w.itemCount = c /\ w.pageCount = d
        /\ Page(w) = Page(v)
    <2> HIDE DEF w, c, d
    <2>1. QED
      BY <1>1, <1>5, <1>6 DEF View, Page
  <1>8. Settled(l, w)
    BY <1>7 DEF Settled, OnPage
  <1>9. Page(v) \in AllPages(l)
    BY <1>1, PageIndices DEF Page
  <1>10. QED
    BY <1>4, <1>7, <1>8, <1>9

(* tx_getItem at the end: no data, unless the transaction is empty, which  *)
(* is an error.                                                            *)
LEMMA ItemAtEnd ==
  ASSUME NEW l \in Layouts, NEW v, AtEnd(l, v)
  PROVE  /\ l = <<>> => GetItem(v, l).err = "error"
         /\ l # <<>> => GetItem(v, l).err = "no_data"
         /\ AtEnd(l, Update(v, l))
  <1>1. v.itemIdx = Len(l) /\ v.pageIdx = 0 /\ v \in View
    BY DEF AtEnd
  <1>2. Len(l) \in Nat /\ (Len(l) = 0 <=> l = <<>>)
    BY LayoutType
  <1>3. /\ Len(l) = 0 => GetItem(v, l) = Got("error", 0)
        /\ Len(l) # 0 => GetItem(v, l) = Got("no_data", 0)
    <2>1. ~(v.itemIdx > Len(l)) /\ v.itemIdx <= Len(l) /\ ~(v.itemIdx < Len(l))
      BY <1>1, <1>2
    <2>2. QED
      BY <1>1, <2>1 DEF GetItem
  <1>4. /\ Len(l) = 0 => GetItem(v, l).err = "error"
        /\ Len(l) # 0 => GetItem(v, l).err = "no_data"
        /\ GetItem(v, l).pageCount = 0
    BY <1>3 DEF Got
  <1> DEFINE w == Update(v, l)
             c == (Len(l) + 1) % Width
  <1>5. w = [v EXCEPT !.itemCount = c, !.pageCount = 0]
    BY <1>4 DEF Update
  <1>6. c \in Byte8 /\ 0 \in Byte8
    BY CountFits, Bytes
  <1>7. AtEnd(l, w)
    <2> HIDE DEF w, c
    <2>1. QED
      BY <1>1, <1>5, <1>6 DEF AtEnd, View
  <1>8. QED
    BY <1>2, <1>4, <1>7

(* The start of a review: the first page, or the end of an empty           *)
(* transaction; and it is as far back as one gets.                         *)
LEMMA InitPosition ==
  ASSUME NEW l \in Layouts, NEW v \in View
  PROVE  /\ PagingInit(v) \in View
         /\ Page(PagingInit(v)) = FirstPage
         /\ l # <<>> => OnPage(l, PagingInit(v))
         /\ l = <<>> => AtEnd(l, PagingInit(v))
         /\ Decrease(PagingInit(v)) = PagingInit(v)
  <1> DEFINE w == PagingInit(v)
  <1>1. 0 \in Byte8 /\ 1 \in Byte8
    BY Bytes
  <1>2. w \in View /\ w.itemIdx = 0 /\ w.pageIdx = 0
    BY <1>1 DEF PagingInit, View
  <1>3. l # <<>> => Len(l) > 0 /\ l[1] > 0
    BY LayoutType
  <1>4. l # <<>> => OnPage(l, w)
    <2> HIDE DEF w
    <2>1. QED
      BY <1>2, <1>3 DEF OnPage
  <1>5. l = <<>> => AtEnd(l, w)
    BY <1>2 DEF AtEnd
  <1>6. Page(w) = FirstPage /\ Decrease(w) = w
    <2> HIDE DEF w
    <2>1. QED
      BY <1>2 DEF Page, FirstPage, Decrease
  <1>7. QED
    BY <1>2, <1>4, <1>5, <1>6

(* No page before the first: it alone is read when it is shown.            *)
LEMMA UpToFirst ==
  ASSUME NEW l \in Layouts
  PROVE  UpTo(l, FirstPage) \subseteq {FirstPage}
  <1>1. ASSUME NEW p \in UpTo(l, FirstPage)
        PROVE  p = FirstPage
    <2>1. p \in AllPages(l) /\ (p[1] < 0 \/ (p[1] = 0 /\ p[2] <= 0))
      BY DEF UpTo, FirstPage
    <2>2. p = <<p[1], p[2]>> /\ p[1] \in Nat /\ p[2] \in Nat
      BY <2>1, PageOfIndices
    <2>3. p[1] = 0 /\ p[2] = 0
      BY <2>1, <2>2
    <2>4. QED
      BY <2>2, <2>3 DEF FirstPage
  <1>2. QED
    BY <1>1

(* h_paging_decrease stays on a page and never moves on in reading order.  *)
LEMMA DecreaseGoesBack ==
  ASSUME NEW l \in Layouts, NEW v, Settled(l, v)
  PROVE  /\ OnPage(l, Decrease(v))
         /\ UpTo(l, Page(Decrease(v))) \subseteq UpTo(l, Page(v))
  <1> DEFINE w == Decrease(v)
  <1>1. OnPage(l, v)
    BY DEF Settled
  <1>2. /\ v \in View
        /\ v.itemIdx \in 0 .. Len(l) - 1
        /\ v.pageIdx \in 0 .. l[v.itemIdx + 1] - 1
        /\ v.itemIdx \in Byte8 /\ v.pageIdx \in Byte8
        /\ Len(l) \in Nat /\ l[v.itemIdx + 1] \in Nat
    BY <1>1, PageBounds, Fields, LayoutType
  <1>3. /\ OnPage(l, w)
        /\ w.itemIdx < v.itemIdx \/ (w.itemIdx = v.itemIdx /\ w.pageIdx <= v.pageIdx)
    <2>1. CASE v.pageIdx # 0
      <3>1. w = [v EXCEPT !.itemIdx = v.itemIdx, !.pageIdx = v.pageIdx - 1]
        BY <1>2, <2>1 DEF Decrease, View
      <3>2. v.pageIdx - 1 \in Byte8
        BY <1>2, <2>1, Below
      <3>3. w \in View /\ w.itemIdx = v.itemIdx /\ w.pageIdx = v.pageIdx - 1
        <4> HIDE DEF w
        <4>1. QED
          BY <1>2, <3>1, <3>2 DEF View, Page
      <3>4. QED
        BY <1>2, <3>3 DEF OnPage
    <2>2. CASE v.pageIdx = 0 /\ v.itemIdx > 0
      <3>1. w = [v EXCEPT !.itemIdx = v.itemIdx - 1, !.pageIdx = 0]
        BY <2>2 DEF Decrease, VIEW_ADDRESS_LAST_PAGE_DEFAULT
      <3>2. v.itemIdx - 1 \in Byte8 /\ 0 \in Byte8
        BY <1>2, <2>2, Below
      <3>3. w \in View /\ w.itemIdx = v.itemIdx - 1 /\ w.pageIdx = 0
        <4> HIDE DEF w
        <4>1. QED
          BY <1>2, <3>1, <3>2 DEF View, Page
      <3>4. l[v.itemIdx] > 0
        BY <1>2, <2>2, LayoutType, SMTT(30)
      <3>5. QED
        BY <1>2, <3>3, <3>4 DEF OnPage
    <2>3. CASE v.pageIdx = 0 /\ ~(v.itemIdx > 0)
      <3>1. w = v
        BY <2>3 DEF Decrease
      <3>2. QED
        BY <1>1, <1>2, <3>1
    <2>4. QED
      BY <2>1, <2>2, <2>3
  <1>4. w.itemIdx \in Nat /\ w.pageIdx \in Nat
    BY <1>3, Fields DEF OnPage
  <1>5. ASSUME NEW p \in UpTo(l, Page(w))
        PROVE  p \in UpTo(l, Page(v))
    <2>1. p \in AllPages(l) /\ p[1] \in Nat /\ p[2] \in Nat
      BY PageOfIndices, LayoutType DEF UpTo
    <2>2. p[1] < w.itemIdx \/ (p[1] = w.itemIdx /\ p[2] <= w.pageIdx)
      BY DEF UpTo, Page
    <2>3. p[1] < v.itemIdx \/ (p[1] = v.itemIdx /\ p[2] <= v.pageIdx)
      <3> HIDE DEF w
      <3>1. QED
        BY <1>2, <1>3, <1>4, <2>1, <2>2, SMTT(30)
    <2>4. QED
      BY <2>1, <2>3 DEF UpTo, Page
  <1>6. QED
    BY <1>3, <1>5

(* From the end h_paging_decrease goes back to a page. *)
LEMMA DecreaseFromEnd ==
  ASSUME NEW l \in Layouts, NEW v, AtEnd(l, v), l # <<>>
  PROVE  OnPage(l, Decrease(v))
  <1> DEFINE w == Decrease(v)
  <1>1. v \in View /\ v.itemIdx = Len(l) /\ v.pageIdx = 0
    BY DEF AtEnd
  <1>2. Len(l) \in Nat /\ Len(l) > 0 /\ l[Len(l)] > 0
    BY LayoutType
  <1>3. w = [v EXCEPT !.itemIdx = Len(l) - 1, !.pageIdx = 0]
    BY <1>1, <1>2 DEF Decrease, VIEW_ADDRESS_LAST_PAGE_DEFAULT
  <1>4. Len(l) - 1 \in Byte8 /\ 0 \in Byte8
    BY <1>2, Bytes
  <1>5. w \in View /\ w.itemIdx = Len(l) - 1 /\ w.pageIdx = 0
    <2> HIDE DEF w
    <2>1. QED
      BY <1>1, <1>3, <1>4 DEF View
  <1>6. QED
    BY <1>2, <1>5 DEF OnPage

(* h_paging_increase skips nothing: on a page it adds that page alone to   *)
(* what has been read, and it reaches the end from the last page only.     *)
LEMMA IncreaseSkipsNothing ==
  ASSUME NEW l \in Layouts, NEW v, Settled(l, v)
  PROVE  \/ /\ OnPage(l, Increase(v))
            /\ UpTo(l, Page(Increase(v))) \subseteq UpTo(l, Page(v)) \cup {Page(Increase(v))}
         \/ /\ AtEnd(l, Increase(v))
            /\ l # <<>>
            /\ AllPages(l) \subseteq UpTo(l, Page(v))
  <1> DEFINE w == Increase(v)
  <1>1. OnPage(l, v) /\ v.pageCount = l[v.itemIdx + 1] /\ v.itemCount <= Len(l) + 1
    BY CountFits DEF Settled
  <1>2. /\ v \in View
        /\ v.itemIdx \in 0 .. Len(l) - 1
        /\ v.pageIdx \in 0 .. l[v.itemIdx + 1] - 1
        /\ v.itemIdx \in Byte8 /\ v.pageIdx \in Byte8 /\ v.itemCount \in Nat
        /\ Len(l) \in Nat /\ l[v.itemIdx + 1] \in Byte8 /\ l[v.itemIdx + 1] \in Nat
    BY <1>1, PageBounds, Fields, LayoutType
  <1>3. \A p \in AllPages(l) : p \in UpTo(l, Page(v)) <=>
          p[1] < v.itemIdx \/ (p[1] = v.itemIdx /\ p[2] <= v.pageIdx)
    BY DEF UpTo, Page
  <1>4. \A p \in AllPages(l) :
          p = <<p[1], p[2]>> /\ p[1] \in 0 .. Len(l) - 1 /\ p[2] \in 0 .. l[p[1] + 1] - 1
    BY PageOfIndices
  <1>5. CASE v.pageIdx + 1 < v.pageCount
    <2>1. w = [v EXCEPT !.itemIdx = v.itemIdx, !.pageIdx = v.pageIdx + 1]
      BY <1>2, <1>5 DEF Increase, View
    <2>2. v.pageIdx + 1 \in Byte8
      BY <1>1, <1>2, <1>5, Below
    <2>3. /\ w \in View /\ w.itemIdx = v.itemIdx /\ w.pageIdx = v.pageIdx + 1
          /\ Page(w) = <<v.itemIdx, v.pageIdx + 1>>
      <3> HIDE DEF w
      <3>1. QED
        BY <1>2, <2>1, <2>2 DEF View, Page
    <2>4. OnPage(l, w)
      BY <1>1, <1>2, <1>5, <2>3 DEF OnPage
    <2>5. ASSUME NEW p \in UpTo(l, Page(w)), p # Page(w)
          PROVE  p \in UpTo(l, Page(v))
      <3>1. p \in AllPages(l) /\ (p[1] < v.itemIdx \/ (p[1] = v.itemIdx /\ p[2] <= v.pageIdx + 1))
        BY <2>3 DEF UpTo
      <3>2. p = <<p[1], p[2]>> /\ p[1] \in Nat /\ p[2] \in Nat
        BY <1>2, <1>4, <3>1
      <3>3. p[1] = v.itemIdx => p[2] # v.pageIdx + 1
        BY <2>3, <2>5, <3>2
      <3>4. p[1] < v.itemIdx \/ (p[1] = v.itemIdx /\ p[2] <= v.pageIdx)
        BY <1>2, <3>1, <3>2, <3>3
      <3>5. QED
        BY <1>3, <3>1, <3>4
    <2>6. QED
      BY <2>4, <2>5
  <1>6. CASE ~(v.pageIdx + 1 < v.pageCount) /\ v.itemIdx + 1 < v.itemCount
    <2>1. w = [v EXCEPT !.itemIdx = v.itemIdx + 1, !.pageIdx = 0]
      BY <1>6 DEF Increase
    <2>2. v.itemIdx + 1 \in Byte8 /\ 0 \in Byte8
      BY <1>2, Bytes
    <2>3. /\ w \in View /\ w.itemIdx = v.itemIdx + 1 /\ w.pageIdx = 0
          /\ Page(w) = <<v.itemIdx + 1, 0>>
      <3> HIDE DEF w
      <3>1. QED
        BY <1>2, <2>1, <2>2 DEF View, Page
    <2>4. v.pageIdx = l[v.itemIdx + 1] - 1
      BY <1>1, <1>2, <1>6, SMTT(30)
    <2>5. CASE v.itemIdx + 1 < Len(l)
      <3>1. l[(v.itemIdx + 1) + 1] > 0
        BY <1>2, <2>5, LayoutType, SMTT(30)
      <3>2. OnPage(l, w)
        BY <2>3, <2>5, <3>1 DEF OnPage
      <3>3. ASSUME NEW p \in UpTo(l, Page(w)), p # Page(w)
            PROVE  p \in UpTo(l, Page(v))
        <4>1. p \in AllPages(l) /\ (p[1] < v.itemIdx + 1 \/ (p[1] = v.itemIdx + 1 /\ p[2] <= 0))
          BY <2>3 DEF UpTo
        <4>2. p = <<p[1], p[2]>> /\ p[1] \in Nat /\ p[2] \in 0 .. l[p[1] + 1] - 1
          BY <1>2, <1>4, <4>1
        <4>3. p[1] = v.itemIdx + 1 => p[2] # 0
          BY <2>3, <3>3, <4>2
        <4>4. p[2] >= 0
          BY <4>2
        <4>5. p[1] < v.itemIdx + 1
          BY <4>1, <4>2, <4>3, <4>4
        <4>6. p[1] = v.itemIdx => p[2] <= v.pageIdx
          BY <2>4, <4>2
        <4>7. p[1] < v.itemIdx \/ p[1] = v.itemIdx
          BY <1>2, <4>2, <4>5
        <4>8. QED
          BY <1>3, <4>1, <4>6, <4>7
      <3>4. QED
        BY <3>2, <3>3
    <2>6. CASE v.itemIdx + 1 = Len(l)
      <3>1. AtEnd(l, w) /\ l # <<>>
        BY <1>2, <2>3, <2>6 DEF AtEnd
      <3>2. ASSUME NEW p \in AllPages(l)
            PROVE  p \in UpTo(l, Page(v))
        <4>1. p[1] \in 0 .. Len(l) - 1 /\ p[2] \in 0 .. l[p[1] + 1] - 1
          BY <1>4
        <4>2. p[1] = v.itemIdx => p[2] <= v.pageIdx
          BY <2>4, <4>1
        <4>3. p[1] < v.itemIdx \/ p[1] = v.itemIdx
          BY <1>2, <2>6, <4>1
        <4>4. QED
          BY <1>3, <4>2, <4>3
      <3>3. QED
        BY <3>1, <3>2
    <2>7. QED
      BY <1>2, <2>5, <2>6
  <1>7. CASE ~(v.pageIdx + 1 < v.pageCount) /\ ~(v.itemIdx + 1 < v.itemCount)
    <2>1. w = v
      BY <1>7 DEF Increase
    <2>2. QED
      BY <1>1, <2>1
  <1>8. QED
    BY <1>5, <1>6, <1>7

-----------------------------------------------------------------------------
(* The review. *)

(* The inductive invariant: while a page is on the screen the counters are *)
(* those of that page, and everything up to it has been shown.             *)
ReviewInv ==
  /\ TypeOK
  /\ screen = "item" =>
       /\ layout \in Layouts
       /\ Settled(layout, view)
       /\ UpTo(layout, Page(view)) \subseteq shown

-----------------------------------------------------------------------------
(* The switch on a page shows it. *)
LEMMA SwitchOnPage ==
  ASSUME NEW l \in Layouts, NEW v, NEW before, OnPage(l, v), Switch(l, v, before)
  PROVE  /\ screen' = "item"
         /\ view' \in View /\ Settled(l, view') /\ Page(view') = Page(v)
         /\ shown' = before \cup {Page(v)}
         /\ Page(v) \in AllPages(l)
  <1>1. /\ GetItem(v, l).err = "no_error" /\ Page(v) \in AllPages(l)
        /\ Settled(l, Update(v, l)) /\ Page(Update(v, l)) = Page(v)
    BY ItemOnPage
  <1>2. /\ view' = Update(v, l) /\ screen' = "item"
        /\ shown' = before \cup {Page(v)}
    BY <1>1 DEF Switch
  <1>3. QED
    BY <1>1, <1>2 DEF Settled, OnPage

(* The switch at the end offers the choice, or reports the error of an     *)
(* empty transaction.                                                      *)
LEMMA SwitchAtEnd ==
  ASSUME NEW l \in Layouts, NEW v, NEW before, AtEnd(l, v), Switch(l, v, before)
  PROVE  /\ l = <<>> => screen' = "error"
         /\ l # <<>> => screen' = "menu"
         /\ view' \in View
         /\ shown' = before
  <1>1. /\ l = <<>> => GetItem(v, l).err = "error"
        /\ l # <<>> => GetItem(v, l).err = "no_data"
        /\ Update(v, l) \in View
    BY ItemAtEnd DEF AtEnd
  <1>2. QED
    BY <1>1 DEF Switch

(* The beginning: the first page, or the error of an empty transaction.    *)
LEMMA BeginEffect ==
  ASSUME TypeOK, NEW l \in Layouts, NEW e \in BOOLEAN, Begin(l, e)
  PROVE  /\ view' \in View
         /\ \/ /\ screen' = "item" /\ l # <<>>
               /\ Settled(l, view') /\ Page(view') = FirstPage
               /\ shown' = {FirstPage} /\ FirstPage \in AllPages(l)
            \/ screen' = "error" /\ l = <<>> /\ shown' = {}
  <1>1. view \in View /\ Switch(l, PagingInit(view), {})
    BY DEF TypeOK, Begin
  <1>2. CASE l = <<>>
    BY <1>1, <1>2, InitPosition, SwitchAtEnd
  <1>3. CASE l # <<>>
    <2>1. OnPage(l, PagingInit(view)) /\ Page(PagingInit(view)) = FirstPage
      BY <1>1, <1>3, InitPosition
    <2>2. QED
      BY <1>1, <1>3, <2>1, SwitchOnPage
  <1>4. QED
    BY <1>2, <1>3

(* The left button: some page up to the one on the screen.                 *)
LEMMA LeftEffect ==
  ASSUME ReviewInv, Left
  PROVE  /\ layout \in Layouts /\ screen' = "item"
         /\ view' \in View /\ Settled(layout, view')
         /\ UpTo(layout, Page(view')) \subseteq shown
         /\ shown' = shown \cup {Page(view')} /\ Page(view') \in AllPages(layout)
  <1>1. layout \in Layouts /\ Settled(layout, view) /\ UpTo(layout, Page(view)) \subseteq shown
    BY DEF ReviewInv, Left
  <1>2. /\ OnPage(layout, Decrease(view))
        /\ UpTo(layout, Page(Decrease(view))) \subseteq UpTo(layout, Page(view))
    BY <1>1, DecreaseGoesBack
  <1>3. Switch(layout, Decrease(view), shown)
    BY DEF Left
  <1>4. /\ screen' = "item" /\ view' \in View /\ Settled(layout, view')
        /\ Page(view') = Page(Decrease(view))
        /\ shown' = shown \cup {Page(Decrease(view))}
        /\ Page(Decrease(view)) \in AllPages(layout)
    BY <1>1, <1>2, <1>3, SwitchOnPage
  <1>5. QED
    BY <1>1, <1>2, <1>4

(* The right button: the next page, or the choice after the last.          *)
LEMMA RightEffect ==
  ASSUME ReviewInv, Right
  PROVE  /\ layout \in Layouts /\ layout # <<>> /\ view' \in View
         /\ \/ /\ screen' = "item" /\ Settled(layout, view')
               /\ UpTo(layout, Page(view')) \subseteq shown'
               /\ shown' = shown \cup {Page(view')} /\ Page(view') \in AllPages(layout)
            \/ screen' = "menu" /\ shown' = shown /\ shown = AllPages(layout)
  <1>1. /\ layout \in Layouts /\ Settled(layout, view) /\ UpTo(layout, Page(view)) \subseteq shown
        /\ shown \subseteq AllPages(layout)
    BY DEF ReviewInv, TypeOK, Right
  <1>2. layout # <<>>
    BY <1>1, PageBounds, LayoutType DEF Settled
  <1>3. Switch(layout, Increase(view), shown)
    BY DEF Right
  <1>4. CASE /\ OnPage(layout, Increase(view))
             /\ UpTo(layout, Page(Increase(view)))
                  \subseteq UpTo(layout, Page(view)) \cup {Page(Increase(view))}
    <2>1. /\ screen' = "item" /\ view' \in View /\ Settled(layout, view')
          /\ Page(view') = Page(Increase(view))
          /\ shown' = shown \cup {Page(Increase(view))}
          /\ Page(Increase(view)) \in AllPages(layout)
      BY <1>1, <1>3, <1>4, SwitchOnPage
    <2>2. UpTo(layout, Page(view')) \subseteq shown'
      BY <1>1, <1>4, <2>1
    <2>3. QED
      BY <1>1, <1>2, <2>1, <2>2
  <1>5. CASE /\ AtEnd(layout, Increase(view))
             /\ AllPages(layout) \subseteq UpTo(layout, Page(view))
    <2>1. screen' = "menu" /\ view' \in View /\ shown' = shown
      BY <1>1, <1>2, <1>3, <1>5, SwitchAtEnd
    <2>2. shown = AllPages(layout)
      BY <1>1, <1>5
    <2>3. QED
      BY <1>1, <1>2, <2>1, <2>2
  <1>6. QED
    BY <1>1, <1>4, <1>5, IncreaseSkipsNothing

-----------------------------------------------------------------------------
LEMMA InitReviewInv == Init => ReviewInv
  <1> SUFFICES ASSUME Init PROVE ReviewInv
    OBVIOUS
  <1>1. view \in View
    BY Bytes, PagingAssumption DEF Init, ZeroView, View, Byte8
  <1>2. QED
    BY <1>1 DEF Init, ReviewInv, TypeOK

LEMMA NextReviewInv == ReviewInv /\ [Next]_vars => ReviewInv'
  <1> SUFFICES ASSUME ReviewInv, [Next]_vars
               PROVE  ReviewInv'
    OBVIOUS
  <1>1. ASSUME NEW l \in Layouts, NEW e \in BOOLEAN, Begin(l, e)
        PROVE  ReviewInv'
    <2>1. layout' = l /\ expert' = e /\ outcome' = "none"
      BY <1>1 DEF Begin
    <2>2. /\ view' \in View
          /\ \/ /\ screen' = "item" /\ l # <<>>
                /\ Settled(l, view') /\ Page(view') = FirstPage
                /\ shown' = {FirstPage} /\ FirstPage \in AllPages(l)
             \/ screen' = "error" /\ l = <<>> /\ shown' = {}
      BY <1>1, BeginEffect DEF ReviewInv
    <2>3. TypeOK'
      BY <2>1, <2>2 DEF TypeOK
    <2>4. screen' = "item" => UpTo(l, Page(view')) \subseteq shown'
      BY <2>2, UpToFirst
    <2>5. QED
      BY <2>1, <2>2, <2>3, <2>4 DEF ReviewInv
  <1>2. CASE Left
    <2>1. UNCHANGED <<review, outcome>>
      BY <1>2 DEF Left
    <2>2. TypeOK'
      BY <1>2, <2>1, LeftEffect DEF ReviewInv, TypeOK, review
    <2>3. QED
      BY <1>2, <2>1, <2>2, LeftEffect DEF ReviewInv, review
  <1>3. CASE Right
    <2>1. UNCHANGED <<review, outcome>>
      BY <1>3 DEF Right
    <2>2. TypeOK'
      BY <1>3, <2>1, RightEffect DEF ReviewInv, TypeOK, review
    <2>3. QED
      BY <1>3, <2>1, <2>2, RightEffect DEF ReviewInv, review
  <1>4. CASE Both
    BY <1>4 DEF Both, ReviewInv, TypeOK, review
  <1>5. CASE Approve \/ Reject \/ AcceptError
    BY <1>5 DEF Approve, Reject, AcceptError, End, ReviewInv, TypeOK, review
  <1>6. CASE UNCHANGED vars
    BY <1>6 DEF vars, review, ReviewInv, TypeOK
  <1>7. QED
    BY <1>1, <1>2, <1>3, <1>4, <1>5, <1>6 DEF Next

(* The inductive invariant holds throughout. *)
THEOREM Invariance == Spec => []ReviewInv
  BY InitReviewInv, NextReviewInv, PTL DEF Spec

(* The counters of viewdata stay bytes and the history stays within the    *)
(* transaction, whatever is pressed.                                       *)
THEOREM TypeCorrect == Spec => []TypeOK
  <1>1. ReviewInv => TypeOK
    BY DEF ReviewInv
  <1>2. QED
    BY <1>1, Invariance, PTL

(* What is on the screen is a page of the transaction that was reached     *)
(* without skipping one, for any transaction the app accepts and any       *)
(* presses.                                                                *)
THEOREM ReadsInOrder == Spec => []ReadInOrder
  <1>1. ReviewInv => ReadInOrder
    BY DEF ReviewInv, ReadInOrder
  <1>2. QED
    BY <1>1, Invariance, PTL

-----------------------------------------------------------------------------
(* The pages of Review are those of Paging. *)
LEMMA SamePages ==
  Promise!AllPages(layout) = AllPages(layout) /\ Promise!FirstPage = FirstPage
  BY DEF Promise!AllPages, AllPages, Promise!FirstPage, FirstPage

LEMMA RefineInit == Init => Promise!Init
  BY DEF Init, Promise!Init

LEMMA RefineNext == ReviewInv /\ [Next]_vars => [Promise!Next]_(Promise!vars)
  <1> SUFFICES ASSUME ReviewInv, [Next]_vars
               PROVE  Promise!Next \/ UNCHANGED Promise!vars
    OBVIOUS
  <1>1. ASSUME NEW l \in Layouts, NEW e \in BOOLEAN, Begin(l, e)
        PROVE  Promise!Begin(l, e)
    <2>1. /\ screen = "idle"
          /\ layout' = l /\ expert' = e /\ outcome' = "none"
      BY <1>1 DEF Begin
    <2>2. \/ /\ screen' = "item" /\ l # <<>>
             /\ shown' = {FirstPage} /\ FirstPage \in AllPages(l)
          \/ screen' = "error" /\ l = <<>> /\ shown' = {}
      BY <1>1, BeginEffect DEF ReviewInv
    <2>3. Promise!AllPages(l) = AllPages(l) /\ Promise!FirstPage = FirstPage
      BY DEF Promise!AllPages, AllPages, Promise!FirstPage, FirstPage
    <2>4. QED
      BY <2>1, <2>2, <2>3 DEF Promise!Begin
  <1>2. CASE Left
    <2>1. screen = "item" /\ UNCHANGED <<review, outcome>>
      BY <1>2 DEF Left
    <2>2. Promise!Show(Page(view'))
      BY <1>2, <2>1, LeftEffect, SamePages DEF Promise!Show, review
    <2>3. QED
      BY <1>2, <2>2, LeftEffect, SamePages DEF Promise!Next
  <1>3. CASE Right
    <2>1. screen = "item" /\ UNCHANGED <<review, outcome>>
      BY <1>3 DEF Right
    <2>2. CASE /\ screen' = "item" /\ shown' = shown \cup {Page(view')}
               /\ Page(view') \in AllPages(layout)
      <3>1. Promise!Show(Page(view'))
        BY <2>1, <2>2, SamePages DEF Promise!Show, review
      <3>2. QED
        BY <2>2, <3>1, SamePages DEF Promise!Next
    <2>3. CASE screen' = "menu" /\ shown' = shown /\ shown = AllPages(layout)
      <3>1. Promise!Offer
        BY <1>3, <2>1, <2>3, RightEffect, SamePages DEF Promise!Offer, review
      <3>2. QED
        BY <3>1 DEF Promise!Next
    <2>4. QED
      BY <1>3, <2>2, <2>3, RightEffect
  <1>4. CASE Both
    <2>1. layout # <<>>
      BY <1>4, PageBounds, LayoutType DEF Both, ReviewInv, Settled
    <2>2. Promise!Offer
      BY <1>4, <2>1 DEF Both, Promise!Offer, review
    <2>3. QED
      BY <2>2 DEF Promise!Next
  <1>5. CASE Approve
    BY <1>5 DEF Approve, End, Promise!Next, Promise!End, review
  <1>6. CASE Reject
    BY <1>6 DEF Reject, End, Promise!Next, Promise!End, review
  <1>7. CASE AcceptError
    BY <1>7 DEF AcceptError, End, Promise!Next, Promise!End, review
  <1>8. CASE UNCHANGED vars
    BY <1>8 DEF vars, review, Promise!vars
  <1>9. QED
    BY <1>1, <1>2, <1>3, <1>4, <1>5, <1>6, <1>7, <1>8 DEF Next, Promise!Next

(* The review of the Nano S keeps the promise of Review: it shows pages of *)
(* the transaction one at a time, offers the choice only when all of them  *)
(* have been shown or to an expert, and ends an empty transaction with an  *)
(* error.                                                                  *)
THEOREM Refinement == Spec => ImplementsReview
  BY RefineInit, RefineNext, Invariance, PTL DEF Spec, ImplementsReview, Promise!Spec
=============================================================================
