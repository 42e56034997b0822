--------------------------- MODULE ReviewXProofs ----------------------------
(***************************************************************************)
(* Proofs about ReviewX, for every transaction and every width of the      *)
(* counters: the flow reads in order, never leaves its steps, and          *)
(* implements Review.                                                      *)
(***************************************************************************)
EXTENDS ReviewX, TLAPS

\* The facts about the paging, which are about no variable of a review, are
\* proved with the review of the Nano S.
Common == INSTANCE ReviewSProofs WITH screen <- step, expert <- FALSE

OnPage(l, v) == Common!OnPage(l, v)
Settled(l, v) == Common!Settled(l, v)
AtEnd(l, v) == Common!AtEnd(l, v)

LEMMA SamePaging ==
  /\ Common!PagingAssumption
  /\ Common!View = View /\ Common!FirstPage = FirstPage
  /\ \A l : Common!AllPages(l) = AllPages(l)
  /\ \A l, p : Common!UpTo(l, p) = UpTo(l, p)
  /\ \A v : /\ Common!PagingInit(v) = PagingInit(v)
            /\ Common!Increase(v) = Increase(v)
            /\ Common!Decrease(v) = Decrease(v)
            /\ Common!Page(v) = Page(v)
  /\ \A v, l : /\ Common!GetItem(v, l) = GetItem(v, l)
               /\ Common!Update(v, l) = Update(v, l)
  BY PagingAssumption
     DEF Common!PagingAssumption, Common!View, View, Common!Byte8, Byte8,
         Common!FirstPage, FirstPage, Common!AllPages, AllPages, Common!UpTo, UpTo,
         Common!PagingInit, PagingInit, Common!Increase, Increase, Common!Decrease,
         Decrease, Common!VIEW_ADDRESS_LAST_PAGE_DEFAULT, VIEW_ADDRESS_LAST_PAGE_DEFAULT,
         Common!Page, Page, Common!GetItem, GetItem, Common!Got, Got, Common!Update, Update

(* On a page it is shown, and the counters are settled there.              *)
LEMMA ItemOnPage ==
  ASSUME NEW l \in Layouts, NEW v, OnPage(l, v)
  PROVE  /\ v \in View /\ l # <<>>
         /\ GetItem(v, l).err = "no_error"
         /\ Update(v, l) \in View /\ Settled(l, Update(v, l))
         /\ Page(Update(v, l)) = Page(v)
         /\ Page(v) \in AllPages(l)
  <1>1. Common!OnPage(l, v)
    BY DEF OnPage
  <1>2. /\ Common!GetItem(v, l).err = "no_error" /\ Common!Settled(l, Common!Update(v, l))
        /\ Common!Page(Common!Update(v, l)) = Common!Page(v)
        /\ Common!Page(v) \in Common!AllPages(l)
    BY <1>1, SamePaging, Common!ItemOnPage
  <1>3. l # <<>> /\ v \in Common!View
    BY <1>1, SamePaging, Common!PageBounds, Common!LayoutType
  <1>4. Common!Update(v, l) \in Common!View
    BY <1>2 DEF Common!Settled, Common!OnPage
  <1>5. QED
    BY <1>2, <1>3, <1>4, SamePaging DEF Settled

(* At the end there are no data, or the error of an empty transaction.     *)
LEMMA ItemAtEnd ==
  ASSUME NEW l \in Layouts, NEW v, AtEnd(l, v)
  PROVE  /\ l = <<>> => GetItem(v, l).err = "error"
         /\ l # <<>> => GetItem(v, l).err = "no_data"
         /\ Update(v, l) \in View /\ AtEnd(l, Update(v, l))
  <1>1. /\ l = <<>> => Common!GetItem(v, l).err = "error"
        /\ l # <<>> => Common!GetItem(v, l).err = "no_data"
        /\ Common!AtEnd(l, Common!Update(v, l))
    BY SamePaging, Common!ItemAtEnd DEF AtEnd
  <1>2. Common!Update(v, l) \in Common!View
    BY <1>1 DEF Common!AtEnd
  <1>3. QED
    BY <1>1, <1>2, SamePaging DEF AtEnd

(* The start is the first page, or the end of an empty transaction.        *)
LEMMA InitPosition ==
  ASSUME NEW l \in Layouts, NEW v \in View
  PROVE  /\ PagingInit(v) \in View
         /\ Page(PagingInit(v)) = FirstPage
         /\ l # <<>> => OnPage(l, PagingInit(v))
         /\ l = <<>> => AtEnd(l, PagingInit(v))
         /\ Decrease(PagingInit(v)) = PagingInit(v)
         /\ UpTo(l, FirstPage) \subseteq {FirstPage}
  BY SamePaging, Common!InitPosition, Common!UpToFirst DEF OnPage, AtEnd

(* What the two counters do on a page and at the end.                      *)
LEMMA Moves ==
  ASSUME NEW l \in Layouts, NEW v
  PROVE  /\ Settled(l, v) =>
              /\ v \in View /\ OnPage(l, v)
              /\ OnPage(l, Decrease(v))
              /\ UpTo(l, Page(Decrease(v))) \subseteq UpTo(l, Page(v))
              /\ \/ /\ OnPage(l, Increase(v))
                    /\ UpTo(l, Page(Increase(v)))
                         \subseteq UpTo(l, Page(v)) \cup {Page(Increase(v))}
                 \/ AtEnd(l, Increase(v)) /\ AllPages(l) \subseteq UpTo(l, Page(v))
         /\ AtEnd(l, v) => v \in View
         /\ AtEnd(l, v) /\ l # <<>> => OnPage(l, Decrease(v))
  <1>1. ASSUME Common!Settled(l, v)
        PROVE  /\ v \in Common!View /\ Common!OnPage(l, v)
               /\ Common!OnPage(l, Common!Decrease(v))
               /\ Common!UpTo(l, Common!Page(Common!Decrease(v)))
                    \subseteq Common!UpTo(l, Common!Page(v))
               /\ \/ /\ Common!OnPage(l, Common!Increase(v))
                     /\ Common!UpTo(l, Common!Page(Common!Increase(v)))
                          \subseteq Common!UpTo(l, Common!Page(v))
                                      \cup {Common!Page(Common!Increase(v))}
                  \/ /\ Common!AtEnd(l, Common!Increase(v))
                     /\ Common!AllPages(l) \subseteq Common!UpTo(l, Common!Page(v))
    <2>1. v \in Common!View /\ Common!OnPage(l, v)
      BY <1>1 DEF Common!Settled, Common!OnPage
    <2>2. QED
      BY <1>1, <2>1, SamePaging, Common!DecreaseGoesBack, Common!IncreaseSkipsNothing
  <1>2. /\ Common!AtEnd(l, v) => v \in Common!View
        /\ Common!AtEnd(l, v) /\ l # <<>> => Common!OnPage(l, Common!Decrease(v))
    BY SamePaging, Common!DecreaseFromEnd DEF Common!AtEnd
  <1>3. QED
    BY <1>1, <1>2, SamePaging DEF OnPage, Settled, AtEnd

-----------------------------------------------------------------------------

(* The inductive invariant, step by step: on "View" nothing has been shown *)
(* yet; on the item the counters are those of its page and everything up   *)
(* to it has been shown; on "Sign" and "Reject" the counters are at the    *)
(* end and everything has been shown.                                      *)
FlowInv ==
  /\ TypeOK
  /\ step = "view" => ~inside /\ layout \in Layouts /\ shown = {}
  /\ step = "item" =>
       /\ inside
       /\ layout \in Layouts
       /\ Settled(layout, view)
       /\ UpTo(layout, Page(view)) \subseteq shown
  /\ step \in {"sign", "reject"} =>
       /\ ~inside
       /\ layout \in Layouts \ {<<>>}
       /\ AtEnd(layout, view)
       /\ shown = AllPages(layout)

-----------------------------------------------------------------------------
(* What the turn to a page leaves: the item step on that page.             *)
OnItem(v) ==
  /\ step' = "item" /\ inside'
  /\ view' \in View /\ Settled(layout, view') /\ Page(view') = Page(v)
  /\ shown' = shown \cup {Page(v)} /\ Page(v) \in AllPages(layout)

(* The item step on a page shows it. *)
LEMMA ShowsPage ==
  ASSUME layout \in Layouts, NEW v, OnPage(layout, v),
         view' = Update(v, layout), ShowItem(v)
  PROVE  OnItem(v)
  <1>1. /\ GetItem(v, layout).err = "no_error" /\ Page(v) \in AllPages(layout)
        /\ Update(v, layout) \in View /\ Settled(layout, Update(v, layout)) /\ Page(Update(v, layout)) = Page(v)
    BY ItemOnPage
  <1>2. step' = "item" /\ inside' /\ shown' = shown \cup {Page(v)}
    BY <1>1 DEF ShowItem
  <1>3. QED
    BY <1>1, <1>2 DEF OnItem

(* Right from "View": the first page, or the error of an empty             *)
(* transaction.                                                            *)
LEMMA FromView ==
  ASSUME FlowInv, RightFromView
  PROVE  /\ step = "view" /\ layout \in Layouts /\ shown = {} /\ view' \in View
         /\ \/ OnItem(PagingInit(view)) /\ Page(PagingInit(view)) = FirstPage
            \/ layout = <<>> /\ step' = "ok" /\ inside' = inside /\ shown' = shown
  <1> DEFINE v == PagingInit(view)
  <1>1. /\ step = "view" /\ ~inside /\ layout \in Layouts /\ shown = {}
        /\ view \in View /\ LoopStart
    BY DEF FlowInv, TypeOK, RightFromView, Turn
  <1>2. /\ view' = Update(v, layout)
        /\ \/ GetItem(v, layout).err # "error" /\ ShowItem(v)
           \/ GetItem(v, layout).err = "error" /\ step' = "ok" /\ inside' = inside /\ shown' = shown
    BY <1>1 DEF LoopStart
  <1>3. CASE layout = <<>>
    <2>1. AtEnd(layout, v)
      BY <1>1, <1>3, InitPosition
    <2>2. GetItem(v, layout).err = "error" /\ Update(v, layout) \in View
      BY <1>1, <1>3, <2>1, ItemAtEnd
    <2>3. QED
      BY <1>1, <1>2, <1>3, <2>2
  <1>4. CASE layout # <<>>
    <2>1. OnPage(layout, v) /\ Page(v) = FirstPage
      BY <1>1, <1>4, InitPosition
    <2>2. GetItem(v, layout).err = "no_error"
      BY <1>1, <2>1, ItemOnPage
    <2>3. OnItem(v)
      BY <1>1, <1>2, <2>1, <2>2, ShowsPage
    <2>4. QED
      BY <1>1, <2>1, <2>3 DEF OnItem
  <1>5. QED
    BY <1>3, <1>4

(* Left from the item: some page up to the one on the screen.              *)
LEMMA BackFromItem ==
  ASSUME FlowInv, LeftFromItem
  PROVE  /\ step = "item" /\ layout \in Layouts
         /\ OnItem(Decrease(view))
         /\ UpTo(layout, Page(Decrease(view))) \subseteq shown
  <1> DEFINE v == Decrease(view)
  <1>1. /\ step = "item" /\ inside /\ layout \in Layouts /\ Settled(layout, view)
        /\ UpTo(layout, Page(view)) \subseteq shown /\ LoopStart
    BY DEF FlowInv, LeftFromItem, Turn
  <1>2. OnPage(layout, v) /\ UpTo(layout, Page(v)) \subseteq UpTo(layout, Page(view))
    BY <1>1, Moves
  <1>3. GetItem(v, layout).err = "no_error"
    BY <1>1, <1>2, ItemOnPage
  <1>4. view' = Update(v, layout) /\ ShowItem(v)
    BY <1>1, <1>3 DEF LoopStart
  <1>5. OnItem(v)
    BY <1>1, <1>2, <1>4, ShowsPage
  <1>6. QED
    BY <1>1, <1>2, <1>5

(* Right from the item: the next page, or "Sign" after the last.           *)
LEMMA OnFromItem ==
  ASSUME FlowInv, RightFromItem
  PROVE  /\ step = "item" /\ layout \in Layouts /\ layout # <<>>
         /\ \/ /\ OnItem(Increase(view))
               /\ UpTo(layout, Page(Increase(view))) \subseteq shown'
            \/ /\ step' = "sign" /\ ~inside' /\ AtEnd(layout, view')
               /\ shown' = shown /\ shown = AllPages(layout)
  <1> DEFINE v == Increase(view)
  <1>1. /\ step = "item" /\ inside /\ layout \in Layouts /\ Settled(layout, view)
        /\ UpTo(layout, Page(view)) \subseteq shown /\ shown \subseteq AllPages(layout)
        /\ LoopEnd
    BY DEF FlowInv, TypeOK, RightFromItem, Turn
  <1>2. layout # <<>>
    BY <1>1, Moves, ItemOnPage
  <1>3. /\ view' = Update(v, layout)
        /\ \/ /\ GetItem(v, layout).err = "no_data"
              /\ step' = "sign" /\ inside' = FALSE /\ shown' = shown
           \/ GetItem(v, layout).err \notin {"no_data", "error"} /\ ShowItem(v)
           \/ GetItem(v, layout).err = "error"
    BY <1>1 DEF LoopEnd
  <1>4. CASE /\ OnPage(layout, v)
             /\ UpTo(layout, Page(v)) \subseteq UpTo(layout, Page(view)) \cup {Page(v)}
    <2>1. GetItem(v, layout).err = "no_error"
      BY <1>1, <1>4, ItemOnPage
    <2>2. OnItem(v)
      BY <1>1, <1>3, <1>4, <2>1, ShowsPage
    <2>3. UpTo(layout, Page(v)) \subseteq shown'
      BY <1>1, <1>4, <2>2 DEF OnItem
    <2>4. QED
      BY <1>1, <1>2, <2>2, <2>3
  <1>5. CASE AtEnd(layout, v) /\ AllPages(layout) \subseteq UpTo(layout, Page(view))
    <2>1. GetItem(v, layout).err = "no_data" /\ AtEnd(layout, Update(v, layout))
      BY <1>1, <1>2, <1>5, ItemAtEnd
    <2>2. step' = "sign" /\ ~inside' /\ AtEnd(layout, view') /\ shown' = shown
      BY <1>3, <2>1 DEF ShowItem
    <2>3. QED
      BY <1>1, <1>2, <1>5, <2>2
  <1>6. QED
    BY <1>1, <1>4, <1>5, Moves

(* Left from "Sign": back to a page of the last item.                      *)
LEMMA BackFromSign ==
  ASSUME FlowInv, LeftFromSign
  PROVE  /\ step = "sign" /\ layout \in Layouts /\ shown = AllPages(layout)
         /\ OnItem(Decrease(view))
  <1> DEFINE v == Decrease(view)
  <1>1. /\ step = "sign" /\ ~inside /\ layout \in Layouts /\ layout # <<>>
        /\ AtEnd(layout, view) /\ shown = AllPages(layout) /\ LoopEnd
    BY DEF FlowInv, LeftFromSign, Turn
  <1>2. OnPage(layout, v)
    BY <1>1, Moves
  <1>3. GetItem(v, layout).err = "no_error"
    BY <1>1, <1>2, ItemOnPage
  <1>4. view' = Update(v, layout) /\ ShowItem(v)
    BY <1>1, <1>3 DEF LoopEnd
  <1>5. OnItem(v)
    BY <1>1, <1>2, <1>4, ShowsPage
  <1>6. QED
    BY <1>1, <1>5

-----------------------------------------------------------------------------
LEMMA InitFlowInv == Init => FlowInv
  <1> SUFFICES ASSUME Init PROVE FlowInv
    OBVIOUS
  <1>1. view \in View
    BY PagingAssumption DEF Init, ZeroView, View, Byte8
  <1>2. QED
    BY <1>1 DEF Init, FlowInv, TypeOK

(* Turning to a page keeps the invariant when no page up to it is skipped. *)
LEMMA ItemFlowInv ==
  ASSUME FlowInv, layout \in Layouts, UNCHANGED <<layout, outcome>>,
         NEW v, OnItem(v), UpTo(layout, Page(v)) \subseteq shown'
  PROVE  FlowInv'
  <1>1. TypeOK'
    BY DEF FlowInv, TypeOK, OnItem
  <1>2. QED
    BY <1>1 DEF FlowInv, OnItem

LEMMA NextFlowInv == FlowInv /\ [Next]_vars => FlowInv'
  <1> SUFFICES ASSUME FlowInv, [Next]_vars
               PROVE  FlowInv'
    OBVIOUS
  <1>1. ASSUME NEW l \in Layouts, Begin(l)
        PROVE  FlowInv'
    <2>1. view' \in View
      BY <1>1, InitPosition DEF Begin, FlowInv, TypeOK
    <2>2. QED
      BY <1>1, <2>1 DEF Begin, FlowInv, TypeOK
  <1>2. CASE RightFromView
    <2>1. UNCHANGED <<layout, outcome>>
      BY <1>2 DEF RightFromView, Turn
    <2>2. CASE OnItem(PagingInit(view)) /\ Page(PagingInit(view)) = FirstPage
      <3>1. UpTo(layout, FirstPage) \subseteq shown'
        BY <1>2, <2>2, FromView, InitPosition DEF OnItem
      <3>2. QED
        BY <1>2, <2>1, <2>2, <3>1, FromView, ItemFlowInv
    <2>3. CASE step' = "ok" /\ inside' = inside /\ shown' = shown
      BY <1>2, <2>1, <2>3, FromView DEF FlowInv, TypeOK
    <2>4. QED
      BY <1>2, <2>2, <2>3, FromView
  <1>3. CASE LeftFromItem
    <2>1. UNCHANGED <<layout, outcome>>
      BY <1>3 DEF LeftFromItem, Turn
    <2>2. UpTo(layout, Page(Decrease(view))) \subseteq shown'
      BY <1>3, BackFromItem DEF OnItem
    <2>3. QED
      BY <1>3, <2>1, <2>2, BackFromItem, ItemFlowInv
  <1>4. CASE RightFromItem
    <2>1. UNCHANGED <<layout, outcome>>
      BY <1>4 DEF RightFromItem, Turn
    <2>2. CASE /\ OnItem(Increase(view))
               /\ UpTo(layout, Page(Increase(view))) \subseteq shown'
      BY <1>4, <2>1, <2>2, OnFromItem, ItemFlowInv
    <2>3. CASE /\ step' = "sign" /\ ~inside' /\ AtEnd(layout, view')
               /\ shown' = shown /\ shown = AllPages(layout)
      <3>1. inside' \in BOOLEAN /\ view' \in View
        BY <1>4, <2>3, OnFromItem, Moves DEF RightFromItem, Turn, LoopEnd, FlowInv, ShowItem
      <3>2. QED
        BY <1>4, <2>1, <2>3, <3>1, OnFromItem DEF FlowInv, TypeOK
    <2>4. QED
      BY <1>4, <2>2, <2>3, OnFromItem
  <1>5. CASE LeftFromSign
    <2>1. UNCHANGED <<layout, outcome>>
      BY <1>5 DEF LeftFromSign, Turn
    <2>2. UpTo(layout, Page(Decrease(view))) \subseteq shown'
      BY <1>5, BackFromSign DEF OnItem, UpTo
    <2>3. QED
      BY <1>5, <2>1, <2>2, BackFromSign, ItemFlowInv
  <1>6. CASE LeftFromReject \/ LeftFromOk \/ RightFromSign \/ RightFromError
    BY <1>6 DEF LeftFromReject, LeftFromOk, RightFromSign, RightFromError, Move,
                FlowInv, TypeOK
  <1>7. CASE Approve \/ Reject \/ AcceptError
    BY <1>7 DEF Approve, Reject, AcceptError, End, FlowInv, TypeOK
  <1>8. CASE UNCHANGED vars
    BY <1>8 DEF vars, FlowInv, TypeOK
  <1>9. QED
    BY <1>1, <1>2, <1>3, <1>4, <1>5, <1>6, <1>7, <1>8 DEF Next, Left, Right

(* The inductive invariant holds throughout. *)
THEOREM Invariance == Spec => []FlowInv
  BY InitFlowInv, NextFlowInv, PTL DEF Spec

(* The flow index never leaves the flow ("lost" is not reached), and the   *)
(* counters of viewdata stay bytes, whatever is pressed.                   *)
THEOREM TypeCorrect == Spec => []TypeOK
  <1>1. FlowInv => TypeOK
    BY DEF FlowInv
  <1>2. QED
    BY <1>1, Invariance, PTL

(* The item step shows a page of the transaction, never empty lines, and   *)
(* one that was reached without skipping any, for any transaction the app  *)
(* accepts and any presses.                                                *)
THEOREM ReadsInOrder == Spec => []ReadInOrder
  <1>1. FlowInv => ReadInOrder
    BY ItemOnPage, Moves DEF FlowInv, ReadInOrder
  <1>2. QED
    BY <1>1, Invariance, PTL

-----------------------------------------------------------------------------
(* The pages of Review are those of Paging. *)
LEMMA SamePages ==
  /\ \A l : Promise!AllPages(l) = AllPages(l)
  /\ Promise!FirstPage = FirstPage
  BY DEF Promise!AllPages, AllPages, Promise!FirstPage, FirstPage

LEMMA RefineInit == Init => Promise!Init
  BY DEF Init, Promise!Init

(* Turning to a page shows it. *)
LEMMA RefineItem ==
  ASSUME step \in {"view", "item", "sign"}, UNCHANGED <<layout, outcome>>,
         NEW v, OnItem(v)
  PROVE  Promise!Next
  <1>1. Promise!Show(Page(v))
    BY SamePages DEF OnItem, Promise!Show
  <1>2. Page(v) \in Promise!AllPages(layout)
    BY SamePages DEF OnItem
  <1>3. QED
    BY <1>1, <1>2 DEF Promise!Next

LEMMA RefineNext == FlowInv /\ [Next]_vars => [Promise!Next]_(Promise!vars)
  <1> SUFFICES ASSUME FlowInv, [Next]_vars
               PROVE  Promise!Next \/ UNCHANGED Promise!vars
    OBVIOUS
  <1>1. ASSUME NEW l \in Layouts, Begin(l)
        PROVE  Promise!Next
    <2>1. Promise!Begin(l, FALSE)
      BY <1>1 DEF Begin, Promise!Begin
    <2>2. QED
      BY <2>1 DEF Promise!Next
  <1>2. CASE RightFromView
    <2>1. UNCHANGED <<layout, outcome>>
      BY <1>2 DEF RightFromView, Turn
    <2>2. CASE OnItem(PagingInit(view))
      BY <1>2, <2>1, <2>2, FromView, RefineItem
    <2>3. CASE layout = <<>> /\ step' = "ok" /\ shown' = shown
      <3>1. Promise!Fail
        BY <1>2, <2>1, <2>3, FromView DEF Promise!Fail
      <3>2. QED
        BY <3>1 DEF Promise!Next
    <2>4. QED
      BY <1>2, <2>2, <2>3, FromView
  <1>3. CASE LeftFromItem
    BY <1>3, BackFromItem, RefineItem DEF LeftFromItem, Turn
  <1>4. CASE RightFromItem
    <2>1. UNCHANGED <<layout, outcome>>
      BY <1>4 DEF RightFromItem, Turn
    <2>2. CASE OnItem(Increase(view))
      BY <1>4, <2>1, <2>2, OnFromItem, RefineItem
    <2>3. CASE step' = "sign" /\ shown' = shown /\ shown = AllPages(layout)
      <3>1. Promise!Offer
        BY <1>4, <2>1, <2>3, OnFromItem, SamePages DEF Promise!Offer
      <3>2. QED
        BY <3>1 DEF Promise!Next
    <2>4. QED
      BY <1>4, <2>2, <2>3, OnFromItem
  <1>5. CASE LeftFromSign
    BY <1>5, BackFromSign, RefineItem DEF LeftFromSign, Turn
  <1>6. CASE LeftFromReject \/ LeftFromOk \/ RightFromSign \/ RightFromError
    BY <1>6 DEF LeftFromReject, LeftFromOk, RightFromSign, RightFromError, Move, Promise!vars
  <1>7. CASE Approve
    BY <1>7 DEF Approve, End, Promise!Next, Promise!End
  <1>8. CASE Reject
    BY <1>8 DEF Reject, End, Promise!Next, Promise!End
  <1>9. CASE AcceptError
    BY <1>9 DEF AcceptError, End, Promise!Next, Promise!End
  <1>10. CASE UNCHANGED vars
    BY <1>10 DEF vars, Promise!vars
  <1>11. QED
    BY <1>1, <1>2, <1>3, <1>4, <1>5, <1>6, <1>7, <1>8, <1>9, <1>10 DEF Next, Left, Right

(* The flow of the Nano X and the Nano S Plus keeps the promise of Review, *)
(* in any mode: it shows pages of the transaction one at a time, reaches   *)
(* "Sign" and "Reject" only when all of them have been shown, and ends an  *)
(* empty transaction with an error.                                        *)
THEOREM Refinement == Spec => ImplementsReview
  BY RefineInit, RefineNext, Invariance, PTL DEF Spec, ImplementsReview, Promise!Spec
=============================================================================
