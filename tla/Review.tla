------------------------------- MODULE Review -------------------------------
(***************************************************************************)
(* What the review of a transaction promises, on any model of the device:  *)
(* the pages of the transaction are shown one at a time, the choice        *)
(* between Approve and Reject is offered when every page has been shown    *)
(* (or at any time to a user in expert mode), and a transaction without    *)
(* pages can only be turned down with an error.                            *)
(***************************************************************************)
EXTENDS Layout

CONSTANT Layouts     \* the transactions: numbers of pages, item by item

VARIABLES
  layout,   \* the transaction under review
  expert,   \* whether the user may skip pages
  stage,    \* "idle", "showing", "offered" or "failed"
  shown,    \* the pages shown since the review began
  outcome   \* how the last review ended

vars == <<layout, expert, stage, shown, outcome>>

Init ==
  /\ layout = <<>> /\ expert \in BOOLEAN
  /\ stage = "idle" /\ shown = {} /\ outcome = "none"

\* A review begins with nothing or with the first page.
Begin(l, e) ==
  /\ stage = "idle"
  /\ layout' = l /\ expert' = e /\ outcome' = "none"
  /\ \/ stage' = "showing" /\ shown' \in {{}, {FirstPage} \cap AllPages(l)}
     \/ stage' = "failed" /\ l = <<>> /\ shown' = {}

Show(page) ==
  /\ stage \in {"showing", "offered"}
  /\ page \in AllPages(layout)
  /\ stage' = "showing"
  /\ shown' = shown \cup {page}
  /\ UNCHANGED <<layout, expert, outcome>>

Offer ==
  /\ stage = "showing"
  /\ expert \/ shown = AllPages(layout)
  /\ layout # <<>>
  /\ stage' = "offered"
  /\ UNCHANGED <<layout, expert, shown, outcome>>

Fail ==
  /\ stage = "showing"
  /\ layout = <<>>
  /\ stage' = "failed"
  /\ UNCHANGED <<layout, expert, shown, outcome>>

End(from, how) ==
  /\ stage = from
  /\ stage' = "idle"
  /\ outcome' = how
  /\ UNCHANGED <<layout, expert, shown>>

Next == \/ \E l \in Layouts, e \in BOOLEAN : Begin(l, e)
        \/ \E page \in AllPages(layout) : Show(page)
        \/ Offer
        \/ Fail
        \/ End("offered", "approved")
        \/ End("offered", "rejected")
        \/ End("failed", "failed")

Spec == Init /\ [][Next]_vars
=============================================================================
