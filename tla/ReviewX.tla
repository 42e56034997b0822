------------------------------ MODULE ReviewX -------------------------------
(***************************************************************************)
(* The review of a transaction on the Nano X and the Nano S Plus: the flow *)
(* of view_x.c over the paging of view.c.  The flow has six steps, "View", *)
(* a start step, the item, an end step, "Sign" and "Reject"; the start and *)
(* the end step never stay on the screen, their callbacks turn the page    *)
(* and move on.  Each action is one press of a button.  The SDK splits a   *)
(* long text over several screens of the item step and runs through them   *)
(* before it leaves the step: they count as one page here.                 *)
(***************************************************************************)
EXTENDS Paging

VARIABLES
  layout,   \* the transaction under review
  step,     \* the step on the screen: "idle" (main menu), "view", "item",
            \* "sign" or "reject"; "error" and "ok" of the error flow; "lost"
            \* when the flow index would leave the flow
  inside,   \* flow_inside_loop
  view,     \* the counters of viewdata
  shown,    \* history: the pages shown since the review began
  outcome   \* the reply that ended the last review

vars == <<layout, step, inside, view, shown, outcome>>

Init ==
  /\ layout = <<>>
  /\ step = "idle" /\ inside = FALSE /\ view = ZeroView
  /\ shown = {} /\ outcome = "none"

\* view_sign_show_impl, called for a transaction that passed tx_parse.
Begin(l) ==
  /\ step = "idle"
  /\ layout' = l /\ outcome' = "none" /\ shown' = {}
  /\ view' = Decrease(PagingInit(view))
  /\ inside' = FALSE
  /\ step' = "view"

\* The item step with what h_review_update_data found at v: its own callback
\* is h_review_loop_inside.  Without data the step shows empty lines.
ShowItem(v) ==
  /\ step' = "item"
  /\ inside' = TRUE
  /\ shown' = IF GetItem(v, layout).err = "no_error" THEN shown \cup {Page(v)} ELSE shown

\* Mutant: the item step comes up after an error too.
LoopStartIgnoresError ==
  LET v == IF inside THEN Decrease(view) ELSE PagingInit(view)
  IN  view' = Update(v, layout) /\ ShowItem(v)

\* h_review_loop_start.  viewdata.itemIdx is a uint8_t: it is never below
\* zero, and the branch that would leave to the left is dead.  After an error
\* ux_flow_next moves within the error flow.
LoopStart ==
  LET v == IF inside THEN Decrease(view) ELSE PagingInit(view)
  IN  /\ view' = Update(v, layout)
      /\ \/ GetItem(v, layout).err # "error" /\ ShowItem(v)
         \/ GetItem(v, layout).err = "error" /\ step' = "ok" /\ UNCHANGED <<inside, shown>>

\* Mutant: the last item is taken for the end of the data.
LoopEndEarly ==
  LET v == IF inside THEN Increase(view) ELSE Decrease(view)
      err == GetItem(v, layout).err
      last == v.itemIdx + 1 >= Len(layout)
  IN  /\ view' = Update(v, layout)
      /\ \/ inside /\ last /\ step' = "sign" /\ inside' = FALSE /\ UNCHANGED shown
         \/ (inside => ~last) /\ err # "error" /\ ShowItem(v)
         \/ err = "error" /\ step' = "lost" /\ UNCHANGED <<inside, shown>>

\* h_review_loop_end.  At the end of the data the flow moves on to "Sign";
\* after an error the index of the error flow, just set to 0, is decreased.
LoopEnd ==
  LET v == IF inside THEN Increase(view) ELSE Decrease(view)
      err == GetItem(v, layout).err
  IN  /\ view' = Update(v, layout)
      /\ \/ inside /\ err = "no_data" /\ step' = "sign" /\ inside' = FALSE /\ UNCHANGED shown
         \/ (inside => err # "no_data") /\ err # "error" /\ ShowItem(v)
         \/ err = "error" /\ step' = "lost" /\ UNCHANGED <<inside, shown>>

\* Presses that turn pages.
Turn(from, loop) ==
  /\ step = from
  /\ loop
  /\ UNCHANGED <<layout, outcome>>

RightFromView == Turn("view", LoopStart)
RightFromItem == Turn("item", LoopEnd)
LeftFromItem == Turn("item", LoopStart)
LeftFromSign == Turn("sign", LoopEnd)

\* Presses that move between two steps of a flow.
Move(from, to) ==
  /\ step = from
  /\ step' = to
  /\ UNCHANGED <<layout, inside, view, shown, outcome>>

RightFromSign == Move("sign", "reject")
LeftFromReject == Move("reject", "sign")
LeftFromOk == Move("ok", "error")
RightFromError == Move("error", "ok")

\* Both buttons on "Sign", on "Reject" and on the "Ok" of the error flow.
End(from, how) ==
  /\ step = from
  /\ step' = "idle"
  /\ outcome' = how
  /\ UNCHANGED <<layout, inside, view, shown>>

Approve == End("sign", "approved")
Reject == End("reject", "rejected")
AcceptError == End("ok", "failed")

Left == LeftFromItem \/ LeftFromSign \/ LeftFromReject \/ LeftFromOk
Right == RightFromView \/ RightFromItem \/ RightFromSign \/ RightFromError

Next == \/ \E l \in Layouts : Begin(l)
        \/ Left \/ Right
        \/ Approve \/ Reject \/ AcceptError

Spec == Init /\ [][Next]_vars

\* A user who presses right again and again.
ReadingSpec == Spec /\ WF_vars(Right)

-----------------------------------------------------------------------------
TypeOK ==
  /\ layout \in Layouts \cup {<<>>}
  /\ step \in {"idle", "view", "item", "sign", "reject", "error", "ok"}
  /\ inside \in BOOLEAN
  /\ view \in View
  /\ shown \subseteq AllPages(layout)
  /\ outcome \in {"none", "approved", "rejected", "failed"}

(* The item step shows a page of the transaction, never the empty lines of *)
(* an index past the end, and no page before it was skipped on the way.    *)
ReadInOrder ==
  step = "item" =>
    Page(view) \in AllPages(layout) /\ UpTo(layout, Page(view)) \subseteq shown

(* "Sign" and "Reject" come up after every page has been shown, in expert  *)
(* mode too: this flow has no way to skip pages.                           *)
Promise == INSTANCE Review WITH
  expert <- FALSE,
  stage <- CASE step = "idle" -> "idle"
             [] step \in {"view", "item"} -> "showing"
             [] step \in {"sign", "reject"} -> "offered"
             [] OTHER -> "failed"

ImplementsReview == Promise!Spec

(* A user who in the end only presses right gets out of the pages, when    *)
(* the count of items and the end fits its counter.                        *)
ReaderGetsThrough ==
  <>[][~Left]_vars =>
    ((step \in {"view", "item"} /\ Countable(layout)) ~> step \notin {"view", "item"})

-----------------------------------------------------------------------------
(* What a comment says and the code does not keep. *)

(* parser_validate iterates through all items to check that all can be     *)
(* shown.  So a user who in the end only presses right sees them all.      *)
AllCanBeShown ==
  <>[][~Left]_vars => (step = "view" /\ layout # <<>> ~> shown = AllPages(layout))
=============================================================================
