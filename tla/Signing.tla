------------------------------ MODULE Signing -------------------------------
(***************************************************************************)
(* Device and ReviewS together: the commands of the host, the pages of the *)
(* review of a Nano S and the steps of its address flow, over the globals  *)
(* they share.  Device has each screen that asks for a decision as one     *)
(* step; here the user has to get through its pages first.  An action of   *)
(* this module is one of Device, one of ReviewS, or one of both at once:   *)
(* a handler that opens a review, a choice that answers the host.          *)
(***************************************************************************)
EXTENDS Integers, Sequences

CONSTANTS
  Byte, Chunks, Capacity, Paths, Hrps, Valid, None,     \* as in Device
  Width, Layouts,                                       \* as in ReviewS
  LayoutOf      \* LayoutOf[expert][message]: the pages of a valid message

VARIABLES
  inbox, owed, reply, phase, async, tx, apdu, hdPath, hrp, expert,
  screen, log, added, parsed, served, sent, session,    \* as in Device
  layout, window, view, shown, outcome,                 \* as in ReviewS
  mode,         \* the mode its review began in, ReviewS's expert
  flow,         \* the steps of the address flow that is open
  step,         \* where the user is in it, 0 when it is closed
  read          \* history: the address and the path shown for the command,
                \* and whether it is to show both

\* A valid message without pages shows nothing.
Blank == [e \in BOOLEAN |-> {message \in Valid[e] : LayoutOf[e][message] = <<>>}]

App == INSTANCE Device
Pages == INSTANCE ReviewS WITH expert <- mode, screen <- window

ASSUME SigningAssumption ==
  /\ App!DeviceAssumption /\ Pages!PagingAssumption
  /\ \A e \in BOOLEAN : \A message \in Valid[e] : LayoutOf[e][message] \in Layouts

device == <<inbox, owed, reply, phase, async, tx, apdu, hdPath, hrp, expert, screen,
            log, added, parsed, served, sent, session>>
review == <<layout, window, view, shown, outcome, mode>>
address == <<flow, step, read>>
vars == <<device, review, address>>

Nothing == [address |-> App!NoReply, path |-> None, both |-> FALSE]

Init ==
  /\ App!Init /\ Pages!Init
  /\ flow = <<>> /\ step = 0 /\ read = Nothing

-----------------------------------------------------------------------------
(* The address flow: view_address_show picks the steps by the mode, and    *)
(* what a step shows is read from the APDU buffer or from hdPath when the  *)
(* user gets there.                                                        *)

Steps(e) == IF e THEN <<"address", "path", "ok">> ELSE <<"address", "ok">>

\* h_addr_update_item.
ReadAfter(name, before) ==
  CASE name = "address" -> [before EXCEPT !.address = apdu']
    [] name = "path" /\ expert -> [before EXCEPT !.path = hdPath']
    [] OTHER -> before

GoTo(n) == step' = n /\ read' = ReadAfter(flow'[n], read)

OpenAddress ==
  /\ flow' = Steps(expert)
  /\ step' = 1
  /\ read' = ReadAfter("address", [Nothing EXCEPT !.both = expert])

CloseAddress == flow' = <<>> /\ step' = 0 /\ UNCHANGED read

\* A press inside the flow.
Turn(to) ==
  /\ phase = "exchange"
  /\ step # 0 /\ to \in DOMAIN flow
  /\ UNCHANGED <<device, review, flow>>
  /\ GoTo(to)

NextStep == Turn(step + 1)
PreviousStep == Turn(step - 1)

-----------------------------------------------------------------------------
\* Commands that open no screen, and the loop between them.
HostSend(c) ==
  /\ App!HostSend(c)
  /\ read' = Nothing
  /\ UNCHANGED <<review, flow, step>>

Exchange == App!Exchange /\ UNCHANGED <<review, address>>
NoScreen ==
  /\ App!Refuse \/ App!GetVersion \/ App!SignInit \/ App!SignAdd
  /\ UNCHANGED <<review, address>>

GetAddr ==
  /\ App!GetAddr
  /\ UNCHANGED review
  /\ IF screen' = "address" THEN OpenAddress ELSE UNCHANGED address

\* view_sign_show at the end of a message that parses.
SignLast ==
  /\ App!SignLast
  /\ UNCHANGED address
  /\ IF screen' = "idle" THEN UNCHANGED review
     ELSE Pages!Begin(LayoutOf[expert][parsed'], expert)

Handle == NoScreen \/ GetAddr \/ SignLast

-----------------------------------------------------------------------------
\* Presses on the pages of a review.
Page(press) ==
  /\ phase = "exchange"
  /\ press
  /\ UNCHANGED <<device, mode, address>>

Left == Page(Pages!Left)
Right == Page(Pages!Right)

\* Mutant: both buttons lead to the choice in any mode.
BothInAnyMode == Page(Pages!BothInAnyMode)
Both == Page(expert /\ Pages!Both)

\* Mutant: the address can be accepted on every step.
AcceptAddressAnywhere ==
  /\ step # 0
  /\ App!AcceptAddress /\ CloseAddress
  /\ UNCHANGED review

\* The choices, each with its reply.
AcceptAddress ==
  /\ step # 0 /\ flow[step] = "ok"
  /\ App!AcceptAddress /\ CloseAddress
  /\ UNCHANGED review

Approve == App!AcceptSign /\ Pages!Approve /\ UNCHANGED address
Reject == App!RejectSign /\ Pages!Reject /\ UNCHANGED address
AcceptError == App!AcceptError /\ Pages!AcceptError /\ UNCHANGED address

Choose == AcceptAddress \/ Approve \/ Reject \/ AcceptError

ApproveThrows ==
  /\ window = "menu"
  /\ App!SignThrows
  /\ UNCHANGED <<review, address>>

ToggleExpert == App!ToggleExpert /\ UNCHANGED <<review, address>>

\* viewdata and the screens are in RAM, too.
Restart ==
  /\ App!Restart
  /\ layout' = <<>> /\ mode' = FALSE /\ window' = "idle" /\ view' = Pages!ZeroView
  /\ shown' = {} /\ outcome' = "none"
  /\ flow' = <<>> /\ step' = 0 /\ read' = Nothing

Next == \/ \E c \in App!Commands : HostSend(c)
        \/ Exchange
        \/ Handle
        \/ NextStep \/ PreviousStep \/ Left \/ Right \/ Both
        \/ Choose \/ ApproveThrows \/ ToggleExpert
        \/ Restart

Spec == Init /\ [][Next]_vars

\* The loop runs by itself; a user reads on, and chooses in the end even if
\* the OS fails now and then.
UserSpec ==
  /\ Spec
  /\ WF_vars(Exchange) /\ WF_vars(Handle)
  /\ WF_vars(Right) /\ WF_vars(NextStep) /\ SF_vars(Choose)

-----------------------------------------------------------------------------
(* The screens that Device has as one are what the pages and the flow make *)
(* of them: a review never turns into an error halfway, none is left open  *)
(* behind a reply, and its mode is still the one it began in.              *)
ScreensAgree ==
  /\ screen = "review" <=> window \in {"item", "menu"}
  /\ screen = "error" <=> window = "error"
  /\ screen = "address" <=> step # 0
  /\ screen = "review" => mode = expert /\ layout = LayoutOf[expert][log]

(* A signature was asked for after all pages of the very message it covers *)
(* have been shown, or by a user who may skip pages: over packets, failed  *)
(* messages, exceptions and restarts.                                      *)
SignedAfterReading ==
  reply.kind = "signature" =>
    /\ layout = LayoutOf[mode][reply.message] /\ layout # <<>>
    /\ mode \/ shown = Pages!AllPages(layout)

(* An address that needed confirmation is the one that its user has read,  *)
(* and so is the path if the flow opened in expert mode.                   *)
ConfirmedAddressWasRead ==
  reply.kind = "address" /\ served.confirm =>
    /\ read.address = reply
    /\ read.both => read.path = reply.path

(* With a user who in the end only reads on, every command is answered,    *)
(* but for one whose review has as many items as its counter can count.    *)
EveryCommandAnswered ==
  <>[][~Left /\ ~PreviousStep]_vars =>
    (owed = 1 ~> owed = 0 \/ (window = "item" /\ ~Pages!Countable(layout)))
=============================================================================
