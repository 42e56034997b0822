------------------------------ MODULE ReviewS -------------------------------
(***************************************************************************)
(* The review of a transaction on the Nano S: the screens of view_s.c over *)
(* the paging of view.c.  Each action is one press of a button, whose      *)
(* callback runs to completion.                                            *)
(***************************************************************************)
EXTENDS Paging

VARIABLES
  layout,   \* the transaction under review
  expert,   \* app_mode_expert()
  screen,   \* "idle", "item" (view_review), "menu" (menu_sign) or "error"
  view,     \* the counters of viewdata
  shown,    \* history: the pages shown since the review began
  outcome   \* the reply that ended the last review

review == <<layout, expert>>
vars == <<review, screen, view, shown, outcome>>

Init ==
  /\ layout = <<>> /\ expert \in BOOLEAN
  /\ screen = "idle" /\ view = ZeroView
  /\ shown = {} /\ outcome = "none"

\* h_review_update_data at v, and the switch on its result that all callers
\* share: view_review_show, view_sign_show_s or view_error_show.
Switch(l, v, before) ==
  /\ view' = Update(v, l)
  /\ \/ /\ GetItem(v, l).err = "no_error"
        /\ screen' = "item"
        /\ shown' = before \cup {Page(v)}
     \/ /\ GetItem(v, l).err = "no_data"
        /\ screen' = "menu"
        /\ shown' = before
     \/ /\ GetItem(v, l).err = "error"
        /\ screen' = "error"
        /\ shown' = before

\* view_sign_show_impl, called for a transaction that passed tx_parse.
Begin(l, e) ==
  /\ screen = "idle"
  /\ layout' = l /\ expert' = e /\ outcome' = "none"
  /\ Switch(l, PagingInit(view), {})

\* h_review_button_left.
Left ==
  /\ screen = "item"
  /\ Switch(layout, Decrease(view), shown)
  /\ UNCHANGED <<review, outcome>>

\* h_review_button_right.
Right ==
  /\ screen = "item"
  /\ Switch(layout, Increase(view), shown)
  /\ UNCHANGED <<review, outcome>>

\* Mutant: both buttons end the review in any mode.
BothInAnyMode ==
  /\ screen = "item"
  /\ screen' = "menu"
  /\ UNCHANGED <<review, view, shown, outcome>>

\* Both buttons in view_review_button: expert mode may skip the rest.
Both ==
  /\ screen = "item"
  /\ expert
  /\ screen' = "menu"
  /\ UNCHANGED <<review, view, shown, outcome>>

\* The entries of menu_sign, and the right button in view_error_button.
End(from, how) ==
  /\ screen = from
  /\ screen' = "idle"
  /\ outcome' = how
  /\ UNCHANGED <<review, view, shown>>

Approve == End("menu", "approved")
Reject == End("menu", "rejected")
AcceptError == End("error", "failed")

Next == \/ \E l \in Layouts, e \in BOOLEAN : Begin(l, e)
        \/ Left \/ Right \/ Both
        \/ Approve \/ Reject \/ AcceptError

Spec == Init /\ [][Next]_vars

\* A user who presses right again and again.
ReadingSpec == Spec /\ WF_vars(Right)

-----------------------------------------------------------------------------
TypeOK ==
  /\ layout \in Layouts \cup {<<>>}
  /\ expert \in BOOLEAN
  /\ screen \in {"idle", "item", "menu", "error"}
  /\ view \in View
  /\ shown \subseteq AllPages(layout)
  /\ outcome \in {"none", "approved", "rejected", "failed"}

(* What is on the screen is a page of the transaction, and no page before  *)
(* it was skipped on the way there, whatever was pressed: the review reads *)
(* in order, item by item and page by page.                                *)
ReadInOrder ==
  screen = "item" => UpTo(layout, Page(view)) \subseteq shown

(* The choice is offered after every page has been shown, or to an expert. *)
Promise == INSTANCE Review WITH
  stage <- CASE screen = "idle" -> "idle" [] screen = "item" -> "showing"
             [] screen = "menu" -> "offered" [] screen = "error" -> "failed"

ImplementsReview == Promise!Spec

(* A user who in the end only presses right gets out of the pages, when    *)
(* the count of items and the end fits its counter.                        *)
ReaderGetsThrough ==
  <>[][~Left]_vars => ((screen = "item" /\ Countable(layout)) ~> screen # "item")
=============================================================================
