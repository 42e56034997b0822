--------------------------- MODULE SigningProofs ----------------------------
(***************************************************************************)
(* Proofs about Signing, for every set of paths, prefixes, chunks and      *)
(* transactions and every width of the counters: the composition keeps to  *)
(* Device, the screens of the two parts agree, and what is signed or       *)
(* confirmed has been read.  What Device and ReviewS do by themselves is   *)
(* proved with them, and cited here from there.                            *)
(***************************************************************************)
EXTENDS Signing, TLAPS

Dev == INSTANCE DeviceProofs
Rev == INSTANCE ReviewSProofs WITH expert <- mode, screen <- window

(* What a review offers: it has pages, and the choice comes after all of   *)
(* them or to an expert.                                                   *)
Offered ==
  /\ window \in {"item", "menu"} => layout # <<>>
  /\ window = "menu" => mode \/ shown = Pages!AllPages(layout)

(* In the address flow: the steps of the mode, the address as it will be   *)
(* sent, and, past the first step of an expert, its path.                  *)
AddressRead ==
  /\ read = [address |-> read.address, path |-> read.path, both |-> read.both]
  /\ step # 0 =>
       /\ flow = Steps(expert) /\ step \in DOMAIN flow
       /\ read.address = apdu /\ read.both = expert
       /\ step > 1 /\ expert => read.path = hdPath
       /\ apdu.path = hdPath

\* What is to be shown of a step, once the two parts have taken theirs.
Agreement ==
  ScreensAgree /\ Offered /\ SignedAfterReading /\ AddressRead /\ ConfirmedAddressWasRead

(* The inductive invariant. *)
SigningInv == Dev!IInv /\ Rev!ReviewInv /\ Agreement

-----------------------------------------------------------------------------
(* The parts as Signing names them are the parts their proofs are about. *)

LEMMA Assumptions == Dev!DeviceAssumption /\ Rev!PagingAssumption
  BY SigningAssumption
     DEF App!DeviceAssumption, Dev!DeviceAssumption, App!Path, Dev!Path, App!Word, Dev!Word,
         Pages!PagingAssumption, Rev!PagingAssumption

LEMMA SameNames ==
  /\ App!NoReply = Dev!NoReply /\ App!NoCommand = Dev!NoCommand
  /\ App!ZeroPath = Dev!ZeroPath /\ App!TooSmall = Dev!TooSmall
  /\ App!Commands = Dev!Commands /\ App!Refusals = Dev!Refusals
  /\ \A sw : App!Status(sw) = Dev!Status(sw)
  /\ \A p, h : App!Address(p, h) = Dev!Address(p, h)
  /\ \A p, m : App!Signature(p, m) = Dev!Signature(p, m)
  BY DEF App!NoReply, Dev!NoReply, App!NoCommand, Dev!NoCommand, App!ZeroPath, Dev!ZeroPath,
         App!Plain, Dev!Plain, App!TooSmall, Dev!TooSmall, App!Commands, Dev!Commands,
         App!Refusals, Dev!Refusals, App!Cuts, Dev!Cuts, App!Status, Dev!Status,
         App!Address, Dev!Address, App!Signature, Dev!Signature

LEMMA SameHelpers ==
  /\ \A c : App!Receive(c) <=> Dev!Receive(c)
  /\ \A r : App!Finish(r) <=> Dev!Finish(r)
  /\ \A s : App!Await(s) <=> Dev!Await(s)
  /\ \A r : App!Deliver(r) <=> Dev!Deliver(r)
  /\ \A s, r : App!Decide(s, r) <=> Dev!Decide(s, r)
  /\ \A p : App!PathVerdict(p) = Dev!PathVerdict(p)
  /\ \A p : App!Derivable(p) <=> Dev!Derivable(p)
  BY SameNames
     DEF App!Receive, Dev!Receive, App!Finish, Dev!Finish, App!Await, Dev!Await,
         App!Deliver, Dev!Deliver, App!SentAfter, Dev!SentAfter,
         App!SessionAfter, Dev!SessionAfter, App!Decide, Dev!Decide, App!loop, Dev!loop,
         App!PathVerdict, Dev!PathVerdict, App!FixedWords, Dev!FixedWords,
         App!LowIndices, Dev!LowIndices, App!IndexLimit, Dev!IndexLimit,
         App!Derivable, Dev!Derivable, App!HDPATH_0_DEFAULT, Dev!HDPATH_0_DEFAULT,
         App!HDPATH_1_DEFAULT, Dev!HDPATH_1_DEFAULT, App!HDPATH_3_DEFAULT,
         Dev!HDPATH_3_DEFAULT, App!Hardened, Dev!Hardened, App!Plain, Dev!Plain

LEMMA SameInit == App!Init => Dev!Init
  BY SameNames DEF App!Init, Dev!Init

LEMMA SameNext == [App!Next]_(App!vars) => [Dev!Next]_(Dev!vars)
  <1> USE SameNames, SameHelpers
  <1> SUFFICES ASSUME [App!Next]_(App!vars) PROVE [Dev!Next]_(Dev!vars)
    OBVIOUS
  <1>1. ASSUME NEW c \in App!Commands, App!HostSend(c) PROVE Dev!HostSend(c)
    BY <1>1 DEF App!HostSend, Dev!HostSend, App!loop, Dev!loop, App!globals, Dev!globals
  <1>2. App!Exchange => Dev!Exchange
    BY DEF App!Exchange, Dev!Exchange, App!transport, Dev!transport, App!history,
           Dev!history, App!globals, Dev!globals
  <1>3. App!Refuse \/ App!GetVersion => Dev!Refuse \/ Dev!GetVersion
    BY DEF App!Refuse, Dev!Refuse, App!GetVersion, Dev!GetVersion
  <1>4. App!GetAddr => Dev!GetAddr
    <2>1. /\ \A c, h, p : App!Read(c, h, p) <=> Dev!Read(c, h, p)
          /\ \A c, h, p : App!AnswerAddress(c, h, p) <=> Dev!AnswerAddress(c, h, p)
          /\ App!Cuts = Dev!Cuts
      BY DEF App!Read, Dev!Read, App!AnswerAddress, Dev!AnswerAddress, App!Cuts, Dev!Cuts
    <2>2. QED
      BY <2>1, Zenon DEF App!GetAddr, Dev!GetAddr
  <1>5. App!SignInit => Dev!SignInit
    BY DEF App!SignInit, Dev!SignInit, App!StartMessage, Dev!StartMessage,
           App!Log!Reset, Dev!Log!Reset
  <1>6. App!SignAdd => Dev!SignAdd
    BY DEF App!SignAdd, Dev!SignAdd, App!Log!AppendChunk, Dev!Log!AppendChunk,
           App!Log!Fits, Dev!Log!Fits
  <1>7. App!SignLast => Dev!SignLast
    BY DEF App!SignLast, Dev!SignLast, App!Log!AppendChunk, Dev!Log!AppendChunk,
           App!Log!Fits, Dev!Log!Fits, App!ReviewOrError, Dev!ReviewOrError
  <1>8. App!ToggleExpert => Dev!ToggleExpert
    BY DEF App!ToggleExpert, Dev!ToggleExpert, App!transport, Dev!transport, App!loop,
           Dev!loop, App!globals, Dev!globals, App!history, Dev!history
  <1>9. /\ App!AcceptAddress => Dev!AcceptAddress
        /\ App!AcceptError => Dev!AcceptError
        /\ App!AcceptSign => Dev!AcceptSign
        /\ App!RejectSign => Dev!RejectSign
    BY DEF App!AcceptAddress, Dev!AcceptAddress, App!AcceptError, Dev!AcceptError,
           App!AcceptSign, Dev!AcceptSign, App!RejectSign, Dev!RejectSign
  <1>10. App!SignThrows => Dev!SignThrows
    BY DEF App!SignThrows, Dev!SignThrows, App!transport, Dev!transport, App!history,
           Dev!history
  <1>11. App!Restart => Dev!Restart
    BY DEF App!Restart, Dev!Restart, App!Log!Restart, Dev!Log!Restart
  <1>12. UNCHANGED App!vars => UNCHANGED Dev!vars
    BY DEF App!vars, Dev!vars, App!transport, Dev!transport, App!loop, Dev!loop,
           App!globals, Dev!globals, App!history, Dev!history
  <1>13. QED
    BY <1>1, <1>2, <1>3, <1>4, <1>5, <1>6, <1>7, <1>8, <1>9, <1>10, <1>11, <1>12
       DEF App!Next, Dev!Next, App!Handle, Dev!Handle, App!User, Dev!User

LEMMA SamePages ==
  /\ \A l : Pages!AllPages(l) = Rev!AllPages(l)
  /\ Pages!Init => Rev!Init
  /\ Pages!ZeroView = Rev!ZeroView
  /\ \A l, e : Pages!Begin(l, e) <=> Rev!Begin(l, e)
  /\ Pages!Left <=> Rev!Left
  /\ Pages!Right <=> Rev!Right
  /\ Pages!Both <=> Rev!Both
  /\ Pages!Approve <=> Rev!Approve
  /\ Pages!Reject <=> Rev!Reject
  /\ Pages!AcceptError <=> Rev!AcceptError
  <1>1. \A l, v, b : Pages!Switch(l, v, b) <=> Rev!Switch(l, v, b)
    BY DEF Pages!Switch, Rev!Switch, Pages!Update, Rev!Update, Pages!GetItem, Rev!GetItem,
           Pages!Got, Rev!Got, Pages!Page, Rev!Page
  <1>2. /\ \A v : Pages!Increase(v) = Rev!Increase(v)
        /\ \A v : Pages!Decrease(v) = Rev!Decrease(v)
        /\ \A v : Pages!PagingInit(v) = Rev!PagingInit(v)
    BY DEF Pages!Increase, Rev!Increase, Pages!Decrease, Rev!Decrease,
           Pages!PagingInit, Rev!PagingInit, Pages!VIEW_ADDRESS_LAST_PAGE_DEFAULT,
           Rev!VIEW_ADDRESS_LAST_PAGE_DEFAULT
  <1>3. QED
    BY <1>1, <1>2
       DEF Pages!AllPages, Rev!AllPages, Pages!Init, Rev!Init, Pages!ZeroView, Rev!ZeroView,
           Pages!Begin, Rev!Begin, Pages!Left, Rev!Left, Pages!Right, Rev!Right,
           Pages!Both, Rev!Both, Pages!Approve, Rev!Approve, Pages!Reject, Rev!Reject,
           Pages!AcceptError, Rev!AcceptError, Pages!End, Rev!End, Pages!review, Rev!review

-----------------------------------------------------------------------------
(* Every step is one of Device, or leaves its variables alone.             *)
LEMMA DeviceStep == [Next]_vars => [App!Next]_(App!vars)
  <1> SUFFICES ASSUME [Next]_vars PROVE App!Next \/ UNCHANGED App!vars
    OBVIOUS
  <1>1. UNCHANGED device => UNCHANGED App!vars
    BY DEF device, App!vars, App!transport, App!loop, App!globals, App!history
  <1>2. CASE \E c \in App!Commands : HostSend(c)
    BY <1>2 DEF HostSend, App!Next
  <1>3. CASE Exchange
    BY <1>3 DEF Exchange, App!Next
  <1>4. CASE Handle
    BY <1>4 DEF Handle, NoScreen, GetAddr, SignLast, App!Next, App!Handle
  <1>5. CASE NextStep \/ PreviousStep \/ Left \/ Right \/ Both
    BY <1>1, <1>5 DEF NextStep, PreviousStep, Turn, Left, Right, Both, Page
  <1>6. CASE Choose \/ ApproveThrows \/ ToggleExpert
    BY <1>6 DEF Choose, AcceptAddress, Approve, Reject, AcceptError, ApproveThrows,
                ToggleExpert, App!Next, App!User
  <1>7. CASE Restart
    BY <1>7 DEF Restart, App!Next
  <1>8. CASE UNCHANGED vars
    BY <1>1, <1>8 DEF vars
  <1>9. QED
    BY <1>2, <1>3, <1>4, <1>5, <1>6, <1>7, <1>8 DEF Next

(* The composition keeps to Device: pages and steps only come between a    *)
(* handler that opens a screen and the choice that closes it.              *)
THEOREM ImplementsDevice == Spec => App!Spec
  <1>1. Init => App!Init
    BY DEF Init
  <1>2. QED
    BY <1>1, DeviceStep, PTL DEF Spec, App!Spec

LEMMA DeviceInvNext == Dev!IInv /\ [Next]_vars => Dev!IInv'
  <1> SUFFICES ASSUME Dev!IInv, [Next]_vars PROVE Dev!IInv'
    OBVIOUS
  <1>1. [Dev!Next]_(Dev!vars)
    BY DeviceStep, SameNext
  <1>2. Dev!TypeOK'
    BY <1>1, Assumptions, Dev!TypeNext
  <1>3. Dev!Control'
    BY <1>1, Assumptions, Dev!ControlNext
  <1>4. QED
    BY <1>2, <1>3 DEF Dev!IInv, Dev!Control

(* What the proofs below use of the invariant of Device.                   *)
LEMMA DeviceFacts ==
  ASSUME Dev!IInv
  PROVE  /\ expert \in BOOLEAN
         /\ screen \in {"idle", "address", "review", "error"}
         /\ owed = 0 => screen = "idle"
         /\ screen # "idle" => reply = App!NoReply
         /\ screen = "review" => log \in Valid[expert] \ Blank[expert]
         /\ tx.kind # "signature"
         /\ tx.kind = "address" => ~served.confirm
         /\ screen = "address" => apdu.kind = "address"
  BY SameNames
     DEF Dev!IInv, Dev!TypeOK, Dev!LoopInv, Dev!MessageInv, Dev!AddressInv,
         Dev!AnswersGetAddr, Dev!Decisions

LEMMA HandlerFacts ==
  ASSUME Dev!IInv, NEW c \in App!Commands, App!Receive(c)
  PROVE  /\ screen = "idle" /\ reply = App!NoReply
         /\ reply' = reply /\ served' = c
  <1>1. Dev!Receive(c) /\ c \in Dev!Commands
    BY SameNames, SameHelpers
  <1>2. screen = "idle" /\ reply = Dev!NoReply /\ served' = c /\ reply' = Dev!NoReply
    BY <1>1, Assumptions, Dev!HandlerFrame
  <1>3. QED
    BY <1>2, SameNames

(* view_sign_show is called for a valid message, and ends on a page of it, *)
(* or on the error of one without pages.                                   *)
LEMMA SignLastEffect ==
  ASSUME Dev!IInv, App!SignLast
  PROVE  /\ screen = "idle" /\ reply = App!NoReply /\ reply' = reply
         /\ expert' = expert
         /\ \/ screen' = "idle"
            \/ /\ log' = parsed' /\ parsed' \in Valid[expert]
               /\ LayoutOf[expert][parsed'] = <<>> => screen' = "error"
               /\ LayoutOf[expert][parsed'] # <<>> => screen' = "review"
  <1>1. PICK c \in [ins : {"SIGN_LAST"}, data : Chunks] :
          /\ App!Receive(c)
          /\ UNCHANGED expert
          /\ \/ UNCHANGED screen
             \/ parsed' = log' /\ App!ReviewOrError
    BY DEF App!SignLast, App!Finish
  <1>2. c \in App!Commands
    BY DEF App!Commands
  <1>3. screen = "idle" /\ reply = App!NoReply /\ reply' = reply /\ expert \in BOOLEAN
    BY <1>1, <1>2, HandlerFacts, DeviceFacts
  <1>4. \A m \in Valid[expert] : m \in Blank[expert] <=> LayoutOf[expert][m] = <<>>
    BY <1>3 DEF Blank
  <1>5. ASSUME parsed' = log', App!ReviewOrError
        PROVE  \/ screen' = "idle"
               \/ /\ log' = parsed' /\ parsed' \in Valid[expert]
                  /\ LayoutOf[expert][parsed'] = <<>> => screen' = "error"
                  /\ LayoutOf[expert][parsed'] # <<>> => screen' = "review"
    BY <1>3, <1>4, <1>5 DEF App!ReviewOrError, App!Finish, App!Await
  <1>6. QED
    BY <1>1, <1>3, <1>5

-----------------------------------------------------------------------------
(* The pages: a step of ReviewS, none, or a restart.                       *)
LEMMA ReviewInvNext ==
  ASSUME Dev!IInv, Rev!ReviewInv, [Next]_vars
  PROVE  Rev!ReviewInv'
  <1>1. ASSUME [Rev!Next]_(Rev!vars) PROVE Rev!ReviewInv'
    BY <1>1, Assumptions, Rev!NextReviewInv
  <1>2. UNCHANGED review => UNCHANGED Rev!vars
    BY DEF review, Rev!vars, Rev!review
  <1>3. CASE (\E c \in App!Commands : HostSend(c)) \/ Exchange \/ NoScreen \/ GetAddr
    BY <1>1, <1>2, <1>3 DEF HostSend, Exchange, NoScreen, GetAddr
  <1>4. CASE SignLast
    <2>1. App!SignLast
      BY <1>4 DEF SignLast
    <2>2. CASE screen' = "idle"
      BY <1>1, <1>2, <1>4, <2>2 DEF SignLast
    <2>3. CASE screen' # "idle"
      <3>1. Pages!Begin(LayoutOf[expert][parsed'], expert)
        BY <1>4, <2>3 DEF SignLast
      <3>2. LayoutOf[expert][parsed'] \in Layouts /\ expert \in BOOLEAN
        BY <2>1, <2>3, SignLastEffect, DeviceFacts, SigningAssumption
      <3>3. Rev!Next
        BY <3>1, <3>2, SamePages DEF Rev!Next
      <3>4. QED
        BY <1>1, <3>3
    <2>4. QED
      BY <2>2, <2>3
  <1>5. CASE NextStep \/ PreviousStep
    BY <1>1, <1>2, <1>5 DEF NextStep, PreviousStep, Turn
  <1>6. CASE Left \/ Right \/ Both
    BY <1>1, <1>6, SamePages DEF Left, Right, Both, Page, Rev!Next
  <1>7. CASE AcceptAddress \/ ApproveThrows \/ ToggleExpert
    BY <1>1, <1>2, <1>7 DEF AcceptAddress, ApproveThrows, ToggleExpert
  <1>8. CASE Approve \/ Reject \/ AcceptError
    <2>1. Rev!Approve \/ Rev!Reject \/ Rev!AcceptError
      BY <1>8, SamePages DEF Approve, Reject, AcceptError
    <2>2. QED
      BY <1>1, <2>1 DEF Rev!Next
  <1>9. CASE Restart
    <2>1. view' \in Rev!View
      <3>1. 0 \in Rev!Byte8
        BY Assumptions DEF Rev!Byte8, Rev!PagingAssumption
      <3>2. QED
        BY <1>9, <3>1, SamePages DEF Restart, Rev!ZeroView, Rev!View
    <2>2. QED
      BY <1>9, <2>1 DEF Restart, Rev!ReviewInv, Rev!TypeOK
  <1>10. CASE UNCHANGED vars
    BY <1>1, <1>2, <1>10 DEF vars
  <1>11. QED
    BY <1>3, <1>4, <1>5, <1>6, <1>7, <1>8, <1>9, <1>10 DEF Next, Handle, Choose

LEMMA WindowType ==
  ASSUME Rev!ReviewInv
  PROVE  window \in {"idle", "item", "menu", "error"} /\ mode \in BOOLEAN
  BY DEF Rev!ReviewInv, Rev!TypeOK

(* A review begins on a page of a transaction that has some, or ends in    *)
(* the error of one without.                                               *)
LEMMA BeginEffect ==
  ASSUME Rev!ReviewInv, NEW l \in Layouts, NEW e \in BOOLEAN, Pages!Begin(l, e)
  PROVE  /\ layout' = l /\ mode' = e
         /\ l # <<>> => window' = "item"
         /\ l = <<>> => window' = "error"
  <1>1. Rev!Begin(l, e) /\ Rev!TypeOK
    BY SamePages DEF Rev!ReviewInv
  <1>2. layout' = l /\ mode' = e
    BY <1>1 DEF Rev!Begin
  <1>3. QED
    BY <1>1, <1>2, Assumptions, Rev!BeginEffect

(* A press leads to a page, or to the choice: after the last page, or in   *)
(* expert mode.                                                            *)
LEMMA PressEffect ==
  ASSUME Rev!ReviewInv, Left \/ Right \/ Both
  PROVE  /\ window = "item" /\ UNCHANGED <<device, mode, address, layout>>
         /\ \/ window' = "item"
            \/ window' = "menu" /\ (mode \/ shown' = Pages!AllPages(layout))
  <1>1. /\ UNCHANGED <<device, mode, address>>
        /\ Rev!Left \/ Rev!Right \/ Rev!Both
    BY SamePages DEF Left, Right, Both, Page
  <1>2. window = "item" /\ UNCHANGED layout
    BY <1>1 DEF Rev!Left, Rev!Right, Rev!Both, Rev!review
  <1>3. CASE Rev!Left
    BY <1>1, <1>2, <1>3, Assumptions, Rev!LeftEffect
  <1>4. CASE Rev!Right
    <2>1. \/ window' = "item"
          \/ window' = "menu" /\ shown' = Rev!AllPages(layout)
      BY <1>4, Assumptions, Rev!RightEffect
    <2>2. QED
      BY <1>1, <1>2, <2>1, SamePages
  <1>5. CASE Rev!Both
    BY <1>1, <1>2, <1>5 DEF Rev!Both
  <1>6. QED
    BY <1>1, <1>3, <1>4, <1>5

-----------------------------------------------------------------------------
(* The screens, apart from the replies. *)
OnScreen == ScreensAgree /\ Offered /\ AddressRead

\* The replies.
Replied == SignedAfterReading /\ ConfirmedAddressWasRead

(* A step that moves no screen, and changes under an open one nothing that *)
(* it is about.                                                            *)
LEMMA SameScreen ==
  ASSUME OnScreen, UNCHANGED <<review, address, screen>>,
         screen # "idle" => UNCHANGED expert,
         screen = "review" => UNCHANGED log,
         screen = "address" => UNCHANGED <<apdu, hdPath>>
  PROVE  OnScreen'
  <1> USE DEF OnScreen, review, address
  <1>1. ScreensAgree'
    BY DEF ScreensAgree
  <1>2. Offered'
    BY DEF Offered
  <1>3. AddressRead'
    BY DEF AddressRead, ScreensAgree
  <1>4. QED
    BY <1>1, <1>2, <1>3

(* Replies that neither sign nor confirm.                                  *)
LEMMA PlainReply ==
  ASSUME reply'.kind # "signature", reply'.kind = "address" => ~served'.confirm
  PROVE  Replied'
  BY DEF Replied, SignedAfterReading, ConfirmedAddressWasRead

\* No reply is a plain one.
LEMMA NoReplyIsPlain ==
  ASSUME reply' = App!NoReply
  PROVE  Replied'
  <1>1. reply'.kind = "none"
    BY DEF App!NoReply
  <1>2. QED
    BY <1>1, PlainReply

(* Back to the main menu.                                                  *)
LEMMA BackToMenu ==
  ASSUME AddressRead, screen' = "idle", window' = "idle", step' = 0, UNCHANGED read
  PROVE  OnScreen'
  BY DEF OnScreen, ScreensAgree, Offered, AddressRead

(* With nothing on the screen there is no page and no step.                *)
LEMMA Idle ==
  ASSUME OnScreen, Rev!ReviewInv, screen = "idle"
  PROVE  window = "idle" /\ step = 0
  BY WindowType DEF OnScreen, ScreensAgree

LEMMA HostSendAgrees ==
  ASSUME SigningInv, NEW c \in App!Commands, HostSend(c)
  PROVE  Agreement'
  <1>1. /\ App!HostSend(c) /\ UNCHANGED <<review, flow, step>> /\ read' = Nothing
        /\ screen = "idle" /\ OnScreen
    BY DeviceFacts DEF HostSend, App!HostSend, SigningInv, Agreement, OnScreen
  <1>2. screen' = "idle" /\ reply' = App!NoReply /\ window' = "idle" /\ step' = 0
    BY <1>1, Idle DEF App!HostSend, review, SigningInv
  <1>3. OnScreen'
    BY <1>1, <1>2 DEF OnScreen, ScreensAgree, Offered, AddressRead, Nothing
  <1>4. Replied'
    BY <1>2, NoReplyIsPlain
  <1>5. QED
    BY <1>3, <1>4 DEF Agreement, OnScreen, Replied

LEMMA ExchangeAgrees ==
  ASSUME SigningInv, Exchange
  PROVE  Agreement'
  <1>1. /\ App!Exchange /\ UNCHANGED <<review, address>>
        /\ OnScreen /\ Replied
    BY DEF Exchange, SigningInv, Agreement, OnScreen, Replied
  <1>2. UNCHANGED <<screen, expert, log, apdu, hdPath>>
    BY <1>1 DEF App!Exchange, App!globals
  <1>3. OnScreen'
    BY <1>1, <1>2, SameScreen
  <1>4. ASSUME UNCHANGED <<reply, served>> PROVE Replied'
    BY <1>1, <1>4
       DEF Replied, SignedAfterReading, ConfirmedAddressWasRead, review, address
  <1>5. ASSUME reply' = tx, served' = served PROVE Replied'
    BY <1>5, PlainReply, DeviceFacts DEF SigningInv
  <1>6. QED
    BY <1>1, <1>3, <1>4, <1>5
       DEF App!Exchange, App!Deliver, App!transport, App!history, Agreement, OnScreen, Replied

LEMMA NoScreenAgrees ==
  ASSUME SigningInv, NoScreen
  PROVE  Agreement'
  <1>1. UNCHANGED <<review, address>> /\ OnScreen
    BY DEF NoScreen, SigningInv, Agreement, OnScreen
  <1>2. PICK c \in App!Commands : App!Receive(c) /\ UNCHANGED <<screen, expert>>
    <2>1. [ins |-> "GET_VERSION"] \in App!Commands
      BY DEF App!Commands
    <2>2. QED
      BY <2>1 DEF NoScreen, App!Refuse, App!GetVersion, App!SignInit, App!SignAdd,
                  App!StartMessage, App!Finish, App!Commands
  <1>3. screen = "idle" /\ reply' = App!NoReply
    BY <1>2, HandlerFacts DEF SigningInv
  <1>4. OnScreen'
    BY <1>1, <1>2, <1>3, SameScreen
  <1>5. Replied'
    BY <1>3, NoReplyIsPlain
  <1>6. QED
    BY <1>4, <1>5 DEF Agreement, OnScreen, Replied

LEMMA GetAddrAgrees ==
  ASSUME SigningInv, GetAddr
  PROVE  Agreement'
  <1>1. /\ App!GetAddr /\ UNCHANGED review /\ OnScreen
        /\ IF screen' = "address" THEN OpenAddress ELSE UNCHANGED address
    BY DEF GetAddr, SigningInv, Agreement, OnScreen
  <1>2. PICK c \in App!Commands :
          /\ App!Receive(c) /\ UNCHANGED expert
          /\ \/ UNCHANGED screen
             \/ screen' = "address" /\ apdu'.path = hdPath'
    <2>1. PICK c \in [ins : {"GET_ADDR"}, confirm : BOOLEAN, hrp : Hrps \cup {None},
                      path : Paths, cut : App!Cuts] :
            /\ App!Receive(c) /\ UNCHANGED expert
            /\ \/ UNCHANGED screen
               \/ \E h, p : App!AnswerAddress(c, h, p)
      BY <1>1 DEF App!GetAddr, App!Finish
    <2>2. c \in App!Commands
      BY DEF App!Commands
    <2>3. ASSUME NEW h, NEW p, App!AnswerAddress(c, h, p)
          PROVE  UNCHANGED screen \/ (screen' = "address" /\ apdu'.path = hdPath')
      BY <2>3 DEF App!AnswerAddress, App!Finish, App!Await, App!Address
    <2>4. QED
      BY <2>1, <2>2, <2>3
  <1>3. screen = "idle" /\ reply' = App!NoReply
    BY <1>2, HandlerFacts DEF SigningInv
  <1>4. window = "idle" /\ step = 0 /\ expert \in BOOLEAN
    BY <1>1, <1>3, Idle, DeviceFacts DEF SigningInv
  <1>5. ASSUME screen' = "idle" PROVE OnScreen'
    BY <1>1, <1>2, <1>3, <1>5, SameScreen
  <1>6. ASSUME screen' = "address" PROVE OnScreen'
    <2>1. OpenAddress /\ apdu'.path = hdPath' /\ window' = "idle"
      BY <1>1, <1>2, <1>3, <1>4, <1>6 DEF review
    <2>2. /\ flow' = Steps(expert) /\ step' = 1
          /\ read' = [address |-> apdu', path |-> None, both |-> expert]
      BY <2>1 DEF OpenAddress, ReadAfter, Nothing
    <2>3. step' \in DOMAIN flow'
      BY <2>2 DEF Steps
    <2>4. AddressRead'
      BY <1>2, <2>1, <2>2, <2>3 DEF AddressRead
    <2>5. QED
      BY <1>6, <2>1, <2>2, <2>4 DEF OnScreen, ScreensAgree, Offered
  <1>7. OnScreen'
    BY <1>2, <1>3, <1>5, <1>6
  <1>8. Replied'
    BY <1>3, NoReplyIsPlain
  <1>9. QED
    BY <1>7, <1>8 DEF Agreement, OnScreen, Replied

LEMMA SignLastAgrees ==
  ASSUME SigningInv, SignLast
  PROVE  Agreement'
  <1>1. /\ App!SignLast /\ UNCHANGED address /\ OnScreen
        /\ IF screen' = "idle" THEN UNCHANGED review
           ELSE Pages!Begin(LayoutOf[expert][parsed'], expert)
    BY DEF SignLast, SigningInv, Agreement, OnScreen
  <1>2. /\ screen = "idle" /\ reply' = App!NoReply /\ expert' = expert
        /\ window = "idle" /\ step = 0 /\ expert \in BOOLEAN
    BY <1>1, Idle, SignLastEffect, DeviceFacts DEF SigningInv
  <1>3. ASSUME screen' = "idle" PROVE OnScreen'
    BY <1>1, <1>2, <1>3, SameScreen
  <1>4. ASSUME screen' # "idle" PROVE OnScreen'
    <2> DEFINE l == LayoutOf[expert][parsed']
    <2>1. /\ log' = parsed' /\ parsed' \in Valid[expert]
          /\ l = <<>> => screen' = "error"
          /\ l # <<>> => screen' = "review"
      BY <1>1, <1>4, SignLastEffect DEF SigningInv
    <2>2. l \in Layouts
      BY <1>2, <2>1, SigningAssumption
    <2>3. /\ layout' = l /\ mode' = expert
          /\ l # <<>> => window' = "item"
          /\ l = <<>> => window' = "error"
      BY <1>1, <1>2, <1>4, <2>2, BeginEffect DEF SigningInv
    <2>4. step' = 0
      BY <1>1, <1>2 DEF address
    <2>5. ScreensAgree'
      <3> HIDE DEF l
      <3>1. layout' = LayoutOf[expert'][log'] /\ mode' = expert'
        BY <1>2, <2>1, <2>3 DEF l
      <3>2. QED
        BY <2>1, <2>3, <2>4, <3>1 DEF ScreensAgree
    <2>6. Offered'
      BY <2>3 DEF Offered
    <2>7. AddressRead'
      BY <1>1, <2>4 DEF AddressRead, OnScreen, address
    <2>8. QED
      BY <2>5, <2>6, <2>7 DEF OnScreen
  <1>5. Replied'
    BY <1>2, NoReplyIsPlain
  <1>6. QED
    BY <1>3, <1>4, <1>5 DEF Agreement, OnScreen, Replied

(* A press in the address flow.  The flow has no step before "address" and *)
(* "path" comes before "ok".                                               *)
LEMMA TurnAgrees ==
  ASSUME SigningInv, NextStep \/ PreviousStep
  PROVE  Agreement'
  <1>1. /\ UNCHANGED <<device, review, flow>> /\ OnScreen
        /\ step # 0 /\ step' \in DOMAIN flow /\ step' \in {step + 1, step - 1}
        /\ read' = ReadAfter(flow[step'], read)
    BY DEF NextStep, PreviousStep, Turn, GoTo, SigningInv, Agreement, OnScreen
  <1>2. /\ screen = "address" /\ reply = App!NoReply /\ expert \in BOOLEAN
        /\ flow = Steps(expert) /\ step \in DOMAIN flow /\ read.address = apdu
        /\ read = [address |-> read.address, path |-> read.path, both |-> read.both]
        /\ read.both = expert /\ apdu.path = hdPath
        /\ step > 1 /\ expert => read.path = hdPath
    BY <1>1, DeviceFacts DEF SigningInv, OnScreen, ScreensAgree, AddressRead
  <1>3. UNCHANGED <<reply, apdu, hdPath, expert, screen, log>>
    BY <1>1 DEF device
  <1>4. /\ expert => flow = <<"address", "path", "ok">> /\ DOMAIN flow = 1 .. 3
        /\ ~expert => flow = <<"address", "ok">> /\ DOMAIN flow = 1 .. 2
    BY <1>2 DEF Steps
  <1>5. /\ read' = [address |-> read'.address, path |-> read'.path, both |-> read'.both]
        /\ read'.address = apdu /\ read'.both = expert
        /\ step' > 1 /\ expert => read'.path = hdPath
    BY <1>1, <1>2, <1>3, <1>4 DEF ReadAfter
  <1>6. step' # 0
    BY <1>1, <1>4
  <1>7. AddressRead'
    BY <1>1, <1>2, <1>3, <1>5 DEF AddressRead
  <1>8. ScreensAgree' /\ Offered'
    BY <1>1, <1>2, <1>3, <1>6 DEF OnScreen, ScreensAgree, Offered, review
  <1>9. Replied'
    BY <1>2, <1>3, NoReplyIsPlain
  <1>10. QED
    BY <1>7, <1>8, <1>9 DEF Agreement, Replied

LEMMA PressAgrees ==
  ASSUME SigningInv, Left \/ Right \/ Both
  PROVE  Agreement'
  <1>1. /\ window = "item" /\ UNCHANGED <<device, mode, address, layout>> /\ OnScreen
        /\ \/ window' = "item"
           \/ window' = "menu" /\ (mode \/ shown' = Pages!AllPages(layout))
    BY PressEffect DEF SigningInv, Agreement, OnScreen
  <1>2. screen = "review" /\ reply = App!NoReply
    BY <1>1, DeviceFacts DEF SigningInv, OnScreen, ScreensAgree
  <1>3. UNCHANGED <<reply, apdu, hdPath, expert, screen, log, flow, step, read>>
    BY <1>1 DEF device, address
  <1>4. ScreensAgree'
    BY <1>1, <1>2, <1>3 DEF OnScreen, ScreensAgree
  <1>5. Offered'
    BY <1>1, <1>3 DEF OnScreen, Offered
  <1>6. AddressRead'
    BY <1>1, <1>3 DEF OnScreen, AddressRead
  <1>7. Replied'
    BY <1>2, <1>3, NoReplyIsPlain
  <1>8. QED
    BY <1>4, <1>5, <1>6, <1>7 DEF Agreement, Replied

(* The address that is sent is the one in the APDU buffer, which the user  *)
(* has been shown on the first step; "ok" comes after the path.            *)
LEMMA AcceptAddressAgrees ==
  ASSUME SigningInv, AcceptAddress
  PROVE  Agreement'
  <1>1. /\ step # 0 /\ flow[step] = "ok" /\ screen = "address" /\ screen' = "idle"
        /\ reply' = apdu /\ step' = 0 /\ read' = read /\ UNCHANGED review /\ OnScreen
    BY DEF AcceptAddress, App!AcceptAddress, App!Decide, App!Deliver, CloseAddress,
           SigningInv, Agreement, OnScreen
  <1>2. /\ AddressRead /\ apdu.kind = "address" /\ expert \in BOOLEAN
        /\ window = "idle"
    BY <1>1, DeviceFacts, WindowType DEF SigningInv, OnScreen, ScreensAgree
  <1>3. OnScreen'
    BY <1>1, <1>2, BackToMenu DEF review
  <1>4. expert => step > 1
    BY <1>1, <1>2 DEF AddressRead, Steps
  <1>5. read'.address = reply' /\ (read'.both => read'.path = reply'.path)
    BY <1>1, <1>2, <1>4 DEF AddressRead
  <1>6. Replied'
    BY <1>1, <1>2, <1>5 DEF Replied, SignedAfterReading, ConfirmedAddressWasRead
  <1>7. QED
    BY <1>3, <1>6 DEF Agreement, OnScreen, Replied

(* The choices of a review and of an error: what is signed is the message  *)
(* in the buffer, whose pages are the layout under review.                 *)
LEMMA ChoiceAgrees ==
  ASSUME SigningInv, Approve \/ Reject \/ AcceptError
  PROVE  Agreement'
  <1>1. /\ screen' = "idle" /\ window' = "idle" /\ UNCHANGED <<address, layout, mode, shown>>
        /\ \/ /\ screen = "review" /\ window = "menu"
              /\ reply' = App!Signature(hdPath, log)
           \/ \E sw : reply' = App!Status(sw)
    BY DEF Approve, Reject, AcceptError, App!AcceptSign, App!RejectSign, App!AcceptError,
           App!Decide, App!Deliver, Pages!Approve, Pages!Reject, Pages!AcceptError,
           Pages!End, Pages!review
  <1>2. OnScreen /\ AddressRead
    BY DEF SigningInv, Agreement, OnScreen
  <1>3. step = 0 => OnScreen'
    BY <1>1, <1>2, BackToMenu DEF address
  <1>4. window # "idle"
    BY DEF Approve, Reject, AcceptError, Pages!Approve, Pages!Reject, Pages!AcceptError,
           Pages!End
  <1>5. step = 0
    BY <1>2, <1>4, WindowType DEF SigningInv, OnScreen, ScreensAgree
  <1>6. ASSUME NEW sw, reply' = App!Status(sw) PROVE Replied'
    <2>1. reply'.kind = "status"
      BY <1>6 DEF App!Status
    <2>2. QED
      BY <2>1, PlainReply
  <1>7. ASSUME screen = "review", window = "menu", reply' = App!Signature(hdPath, log)
        PROVE  Replied'
    <2>1. reply'.kind = "signature" /\ reply'.message = log
      BY <1>7 DEF App!Signature
    <2>2. /\ layout = LayoutOf[mode][log] /\ layout # <<>>
          /\ mode \/ shown = Pages!AllPages(layout)
      BY <1>2, <1>7 DEF OnScreen, ScreensAgree, Offered
    <2>3. QED
      BY <1>1, <2>1, <2>2 DEF Replied, SignedAfterReading, ConfirmedAddressWasRead
  <1>8. QED
    BY <1>1, <1>3, <1>5, <1>6, <1>7 DEF Agreement, OnScreen, Replied

\* Signing may throw and the mode may be switched: the screen stays.
LEMMA StayAgrees ==
  ASSUME SigningInv, ApproveThrows \/ ToggleExpert \/ UNCHANGED vars
  PROVE  Agreement'
  <1>1. /\ UNCHANGED <<review, address, screen, reply, served, log>>
        /\ \/ screen = "review" /\ UNCHANGED <<expert, hdPath>>
           \/ screen = "idle"
           \/ UNCHANGED <<expert, hdPath, apdu>>
        /\ OnScreen /\ Replied
    BY DEF ApproveThrows, App!SignThrows, App!transport, App!history, ToggleExpert,
           App!ToggleExpert, App!globals, vars, device, SigningInv, Agreement, OnScreen,
           Replied
  <1>2. OnScreen'
    BY <1>1, SameScreen
  <1>3. Replied'
    BY <1>1 DEF Replied, SignedAfterReading, ConfirmedAddressWasRead, review, address
  <1>4. QED
    BY <1>2, <1>3 DEF Agreement, OnScreen, Replied

LEMMA RestartAgrees == Restart => Agreement'
  <1> SUFFICES ASSUME Restart PROVE Agreement'
    OBVIOUS
  <1>1. /\ screen' = "idle" /\ window' = "idle" /\ step' = 0 /\ read' = Nothing
        /\ reply' = App!NoReply
    BY DEF Restart, App!Restart
  <1>2. OnScreen'
    BY <1>1 DEF OnScreen, ScreensAgree, Offered, AddressRead, Nothing
  <1>3. Replied'
    BY <1>1, NoReplyIsPlain
  <1>4. QED
    BY <1>2, <1>3 DEF Agreement, OnScreen, Replied

LEMMA SigningInit == Init => SigningInv
  <1> SUFFICES ASSUME Init PROVE SigningInv
    OBVIOUS
  <1>1. Dev!IInv
    <2>1. Dev!Init
      BY SameInit DEF Init
    <2>2. Dev!TypeOK /\ Dev!Control
      BY <2>1, Assumptions, Dev!TypeInit, Dev!ControlInit
    <2>3. QED
      BY <2>2 DEF Dev!IInv, Dev!Control
  <1>2. Rev!ReviewInv
    BY SamePages, Assumptions, Rev!InitReviewInv DEF Init
  <1>3. /\ screen = "idle" /\ window = "idle" /\ step = 0 /\ read = Nothing
        /\ reply.kind = "none"
    BY DEF Init, App!Init, Pages!Init, App!NoReply
  <1>4. Agreement
    BY <1>3 DEF Agreement, ScreensAgree, Offered, SignedAfterReading, AddressRead,
                ConfirmedAddressWasRead, Nothing
  <1>5. QED
    BY <1>1, <1>2, <1>4 DEF SigningInv

LEMMA SigningNext == SigningInv /\ [Next]_vars => SigningInv'
  <1> SUFFICES ASSUME SigningInv, [Next]_vars PROVE SigningInv'
    OBVIOUS
  <1>1. Dev!IInv'
    BY DeviceInvNext DEF SigningInv
  <1>2. Rev!ReviewInv'
    BY ReviewInvNext DEF SigningInv
  <1>3. Agreement'
    <2>1. CASE \E c \in App!Commands : HostSend(c)
      BY <2>1, HostSendAgrees
    <2>2. CASE Exchange
      BY <2>2, ExchangeAgrees
    <2>3. CASE Handle
      BY <2>3, NoScreenAgrees, GetAddrAgrees, SignLastAgrees DEF Handle
    <2>4. CASE NextStep \/ PreviousStep
      BY <2>4, TurnAgrees
    <2>5. CASE Left \/ Right \/ Both
      BY <2>5, PressAgrees
    <2>6. CASE Choose
      BY <2>6, AcceptAddressAgrees, ChoiceAgrees DEF Choose
    <2>7. CASE ApproveThrows \/ ToggleExpert \/ UNCHANGED vars
      BY <2>7, StayAgrees
    <2>8. CASE Restart
      BY <2>8, RestartAgrees
    <2>9. QED
      BY <2>1, <2>2, <2>3, <2>4, <2>5, <2>6, <2>7, <2>8 DEF Next
  <1>4. QED
    BY <1>1, <1>2, <1>3 DEF SigningInv

(* The inductive invariant holds throughout. *)
THEOREM Invariance == Spec => []SigningInv
  BY SigningInit, SigningNext, PTL DEF Spec

(* The one screen that Device has for a review, an error or an address is  *)
(* open exactly while the pages or the steps of view.c are, a review goes  *)
(* on in the mode and over the message it began with.                      *)
THEOREM ScreensAlwaysAgree == Spec => []ScreensAgree
  <1>1. SigningInv => ScreensAgree
    BY DEF SigningInv, Agreement
  <1>2. QED
    BY <1>1, Invariance, PTL

(* A signature was asked for after every page of the message it covers was *)
(* shown, or by an expert, for any message, any pages, any order of        *)
(* commands, presses, exceptions and restarts.                             *)
THEOREM SignsWhatWasRead == Spec => []SignedAfterReading
  <1>1. SigningInv => SignedAfterReading
    BY DEF SigningInv, Agreement
  <1>2. QED
    BY <1>1, Invariance, PTL

(* An address that needed confirmation is the one that was shown, and its  *)
(* path was shown to an expert, however the user went through the steps.   *)
THEOREM ConfirmsWhatWasRead == Spec => []ConfirmedAddressWasRead
  <1>1. SigningInv => ConfirmedAddressWasRead
    BY DEF SigningInv, Agreement
  <1>2. QED
    BY <1>1, Invariance, PTL
=============================================================================
