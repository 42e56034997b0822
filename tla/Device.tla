------------------------------- MODULE Device -------------------------------
(***************************************************************************)
(* The application as the host and the user meet it: the loop of app_main, *)
(* the APDU handlers, the globals they share (hdPath, bech32_hrp, the APDU *)
(* buffer, the transaction buffer, the expert flag), and the decisions the *)
(* user takes on the screen.  The program has one thread: handlers run to  *)
(* completion, buttons are served inside io_exchange while it waits.  What *)
(* can interleave is the order of commands, button presses, replies and    *)
(* restarts.                                                               *)
(*                                                                         *)
(* The pages of a review are one screen here (ReviewS and ReviewX have     *)
(* them), the transaction buffer is the log that Buffering implements, and *)
(* the verdict of the parser on a message is a parameter.                  *)
(***************************************************************************)
EXTENDS Integers, Sequences

CONSTANTS
  Byte,       \* the bytes of a transaction
  Chunks,     \* the payloads of SIGN packets, sequences of bytes
  Capacity,   \* FLASH_BUFFER_SIZE
  Paths,      \* the derivation paths packets carry
  Hrps,       \* the bech32 prefixes packets carry, of legal length
  Valid,      \* Valid[expert]: the messages tx_parse accepts in that mode
  Blank,      \* Blank[expert]: those of them with no item to display
  None        \* no path, no prefix

Hardened(n) == [hard |-> TRUE, index |-> n]
Plain(n) == [hard |-> FALSE, index |-> n]
Word == [hard : BOOLEAN, index : Nat]
Path == [0 .. 4 -> Word]

ASSUME DeviceAssumption ==
  /\ Capacity \in Nat
  /\ Chunks \subseteq Seq(Byte)
  /\ Paths \subseteq Path
  /\ None \notin Paths
  /\ None \notin Hrps

VARIABLES
  inbox,    \* the command the transport holds for io_exchange
  owed,     \* commands the host sent minus replies it was given
  reply,    \* the reply to the last command
  phase,    \* "exchange": waiting in io_exchange; "top": about to enter it
  async,    \* flags & IO_ASYNCH_REPLY
  tx,       \* the reply a handler left in the APDU buffer for the loop to send
  apdu,     \* the address app_fill_address left in the APDU buffer
  hdPath,   \* hdPath
  hrp,      \* bech32_hrp, None when it is empty
  expert,   \* app_mode.expert
  screen,   \* what the display asks: "idle", "address", "review" or "error"
  log,      \* the transaction buffer
  added,    \* what the last tx_append returned
  parsed,   \* the message ctx_parsed_tx was last set up for
  served,   \* history: the command being served, or served last
  sent,     \* history: the message as the host knows it from the replies
  session   \* history: the path of the signing session under way, or None

transport == <<inbox, owed, reply>>
loop == <<phase, async, tx>>
globals == <<apdu, hdPath, hrp, log, added, parsed>>
history == <<served, sent, session>>
vars == <<transport, loop, globals, expert, screen, history>>

Log == INSTANCE MessageLog

Decisions == {"address", "review", "error"}

-----------------------------------------------------------------------------
(* extractHDPath: the constants of coin.h and the checks on a path. *)

HDPATH_0_DEFAULT == Hardened(44)
HDPATH_1_DEFAULT == Hardened(931)
HDPATH_3_DEFAULT == Plain(0)
IndexLimit == 100

FixedWords(p) == /\ p[0] = HDPATH_0_DEFAULT
                 /\ p[1] = HDPATH_1_DEFAULT
                 /\ p[3] = HDPATH_3_DEFAULT

LowIndices(p) == \A i \in 2 .. 4 : p[i].index <= IndexLimit

PathVerdict(p) ==
  IF ~FixedWords(p) THEN "DATA_INVALID"
  ELSE IF ~expert /\ ~LowIndices(p) THEN "CONDITIONS_NOT_SATISFIED" ELSE "OK"

\* The OS derives keys below the APPPATH the application was loaded with,
\* and throws for any other path.
Derivable(p) == p[0] = HDPATH_0_DEFAULT /\ p[1] = HDPATH_1_DEFAULT

\* hdPath before the first packet (.bss).
ZeroPath == [i \in 0 .. 4 |-> Plain(0)]

-----------------------------------------------------------------------------
(* Commands and replies. *)

\* "refused" stands for every command turned down before it touches state:
\* wrong CLA or INS, too few bytes, a P1 or P2 that SIGN rejects.  cut says
\* where the bytes of a GET_ADDR end too early, if they do.
Refusals == {"CLA_NOT_SUPPORTED", "INS_NOT_SUPPORTED", "WRONG_LENGTH",
             "INVALIDP1P2", "EMPTY_BUFFER"}

Cuts == {"none", "in path", "in hrp", "before hrp"}

Commands ==
  [ins : {"refused"}, sw : Refusals]
  \cup [ins : {"GET_VERSION"}]
  \cup [ins : {"GET_ADDR"}, confirm : BOOLEAN, hrp : Hrps \cup {None},
        path : Paths, cut : Cuts]
  \cup [ins : {"SIGN_INIT"}, path : Paths \cup {None}]
  \cup [ins : {"SIGN_ADD", "SIGN_LAST"}, data : Chunks]

NoCommand == [ins |-> "none"]

Status(sw) == [kind |-> "status", sw |-> sw]
Address(p, h) == [kind |-> "address", path |-> p, hrp |-> h]
Signature(p, m) == [kind |-> "signature", path |-> p, message |-> m]
NoReply == [kind |-> "none"]

Codes == Refusals \cup
  {"OK", "DATA_INVALID", "CONDITIONS_NOT_SATISFIED", "OUTPUT_BUFFER_TOO_SMALL",
   "COMMAND_NOT_ALLOWED", "SIGN_VERIFY_ERROR", "EXCEPTION"}

DevicePaths == Paths \cup {ZeroPath}
Messages == Seq(Byte)
Addresses == [kind : {"address"}, path : DevicePaths, hrp : Hrps \cup {None}]
Replies == [kind : {"status"}, sw : Codes]
           \cup Addresses
           \cup [kind : {"signature"}, path : DevicePaths, message : Messages]

TooSmall == Status("OUTPUT_BUFFER_TOO_SMALL")

-----------------------------------------------------------------------------
(* Ends of a handler and of a button callback. *)

\* The history once the command being served is answered with r: the host
\* counts a chunk as taken unless it is told the buffer is too small, a first
\* packet starts a new message, and a session lasts until another packet
\* brings a path.
SentAfter(r) ==
  CASE served.ins = "SIGN_INIT" -> <<>>
    [] served.ins \in {"SIGN_ADD", "SIGN_LAST"} /\ r # TooSmall -> sent \o served.data
    [] OTHER -> sent

SessionAfter(r) ==
  CASE served.ins = "SIGN_INIT" -> IF r = Status("OK") THEN served.path ELSE None
    [] served.ins = "GET_ADDR" -> None
    [] OTHER -> session

Deliver(r) ==
  /\ reply' = r
  /\ owed' = owed - 1
  /\ sent' = SentAfter(r)
  /\ session' = SessionAfter(r)
  /\ UNCHANGED <<inbox, served>>

\* io_exchange returns the command c, and handleApdu runs.
Receive(c) ==
  /\ phase = "exchange"
  /\ inbox = c
  /\ inbox' = NoCommand
  /\ served' = c
  /\ phase' = "top"
  /\ UNCHANGED <<owed, reply, sent, session>>

\* A handler that ends with THROW(code): flags = 0, and the reply is ready.
Finish(r) ==
  /\ tx' = r
  /\ async' = FALSE
  /\ UNCHANGED screen

\* A handler that opens a screen and sets IO_ASYNCH_REPLY.
Await(s) ==
  /\ tx' = NoReply
  /\ async' = TRUE
  /\ screen' = s

-----------------------------------------------------------------------------
(* Start, restart, host. *)

Init ==
  /\ inbox = NoCommand /\ owed = 0 /\ reply = NoReply
  /\ phase = "exchange" /\ async = FALSE /\ tx = NoReply
  /\ apdu = NoReply /\ hdPath = ZeroPath /\ hrp = None
  /\ log = <<>> /\ added = 0 /\ parsed = <<>>
  /\ expert = FALSE /\ screen = "idle"
  /\ served = NoCommand /\ sent = <<>> /\ session = None

\* The application ends (Quit, power loss, cable) and starts again: main,
\* app_init, app_main.  All of its state is in RAM but for the flash cells of
\* the transaction buffer, whose positions tx_initialize sets to zero.
Restart ==
  /\ inbox' = NoCommand /\ owed' = 0 /\ reply' = NoReply
  /\ phase' = "exchange" /\ async' = FALSE /\ tx' = NoReply
  /\ apdu' = NoReply /\ hdPath' = ZeroPath /\ hrp' = None
  /\ Log!Restart /\ parsed' = <<>>
  /\ expert' = FALSE /\ screen' = "idle"
  /\ served' = NoCommand /\ sent' = <<>> /\ session' = None

\* The transport is half-duplex: a host sends when nothing is outstanding.
HostSend(c) ==
  /\ owed = 0
  /\ owed' = 1
  /\ inbox' = c
  /\ reply' = NoReply
  /\ served' = NoCommand
  /\ UNCHANGED <<loop, globals, expert, screen, sent, session>>

\* The top of the loop of app_main: io_exchange sends what the handler left,
\* unless IO_ASYNCH_REPLY holds it back, and waits for the next command.
Exchange ==
  /\ phase = "top"
  /\ phase' = "exchange"
  /\ tx' = NoReply
  /\ IF tx # NoReply /\ ~async
     THEN Deliver(tx)
     ELSE UNCHANGED <<transport, history>>
  /\ UNCHANGED <<async, globals, expert, screen>>

-----------------------------------------------------------------------------
(* handleApdu: one action per command. *)

Refuse ==
  \E c \in [ins : {"refused"}, sw : Refusals] :
    /\ Receive(c)
    /\ Finish(Status(c.sw))
    /\ apdu' = NoReply
    /\ UNCHANGED <<hdPath, hrp, log, added, parsed, expert>>

GetVersion ==
  /\ Receive([ins |-> "GET_VERSION"])
  /\ Finish(Status("OK"))
  /\ apdu' = NoReply
  /\ UNCHANGED <<hdPath, hrp, log, added, parsed, expert>>

\* What extractHRP and extractHDPath read: the bytes of the command or, past
\* its end, bytes that an earlier command or reply left in the APDU buffer.
\* (rx - offset) is unsigned, so a command that ends inside the prefix passes
\* the length check of extractHDPath.  None as a path: WRONG_LENGTH.
Read(c, h, p) ==
  \/ c.cut = "none" /\ h = c.hrp /\ p = c.path
  \/ c.cut = "in path" /\ h = c.hrp /\ p = None
  \/ c.cut = "in hrp" /\ h \in Hrps /\ p \in Paths

\* Mutant: the address is put in the buffer before the path is extracted.
AnswerAddressEarly(c, h, p) ==
  /\ hdPath' = p
  /\ IF PathVerdict(p) # "OK"
     THEN Finish(Status(PathVerdict(p))) /\ apdu' = NoReply
     ELSE /\ apdu' = Address(hdPath, h)
          /\ IF c.confirm THEN Await("address") ELSE Finish(Address(hdPath, h))

\* The rest of handleGetAddrSecp256K1 once both fields have been copied.
AnswerAddress(c, h, p) ==
  /\ hdPath' = p
  /\ IF PathVerdict(p) # "OK"
     THEN Finish(Status(PathVerdict(p))) /\ apdu' = NoReply
     ELSE /\ apdu' = Address(p, h)
          /\ IF c.confirm THEN Await("address") ELSE Finish(Address(p, h))

GetAddr ==
  \E c \in [ins : {"GET_ADDR"}, confirm : BOOLEAN, hrp : Hrps \cup {None},
            path : Paths, cut : Cuts] :
    /\ Receive(c)
    /\ \/ /\ c.cut = "before hrp"
          /\ Finish(Status("DATA_INVALID"))
          /\ apdu' = NoReply
          /\ UNCHANGED <<hrp, hdPath>>
       \/ \E h \in Hrps \cup {None}, p \in Paths \cup {None} :
            /\ Read(c, h, p)
            /\ hrp' = h
            /\ \/ h # None /\ p # None /\ AnswerAddress(c, h, p)
               \/ /\ h = None \/ p = None
                  /\ Finish(Status(IF h = None THEN "DATA_INVALID" ELSE "WRONG_LENGTH"))
                  /\ apdu' = NoReply
                  /\ UNCHANGED hdPath
    /\ UNCHANGED <<log, added, parsed, expert>>

\* Mutant: the first packet does not reset the transaction buffer.
SignInitNoReset(c) ==
  /\ UNCHANGED <<log, added>>
  /\ \/ c.path = None /\ Finish(Status("WRONG_LENGTH")) /\ UNCHANGED hdPath
     \/ c.path # None /\ Finish(Status(PathVerdict(c.path))) /\ hdPath' = c.path

\* Mutant: the path is checked where it lies in the APDU buffer, and not kept.
SignInitPathNotKept(c) ==
  /\ Log!Reset
  /\ UNCHANGED hdPath
  /\ Finish(IF c.path = None THEN Status("WRONG_LENGTH")
            ELSE Status(PathVerdict(c.path)))

\* process_chunk, first packet: the transaction buffer is reset whatever the
\* path turns out to be, and hdPath is overwritten before it is checked.
StartMessage(c) ==
  /\ Log!Reset
  /\ \/ c.path = None /\ Finish(Status("WRONG_LENGTH")) /\ UNCHANGED hdPath
     \/ c.path # None /\ Finish(Status(PathVerdict(c.path))) /\ hdPath' = c.path

SignInit ==
  \E c \in [ins : {"SIGN_INIT"}, path : Paths \cup {None}] :
    /\ Receive(c)
    /\ StartMessage(c)
    /\ apdu' = NoReply
    /\ UNCHANGED <<hrp, parsed, expert>>

SignAdd ==
  \E c \in [ins : {"SIGN_ADD"}, data : Chunks] :
    /\ Receive(c)
    /\ Log!AppendChunk(c.data)
    /\ Finish(IF Log!Fits(c.data) THEN Status("OK") ELSE TooSmall)
    /\ apdu' = NoReply
    /\ UNCHANGED <<hdPath, hrp, parsed, expert>>

\* Mutant: a transaction with nothing to display is signed at once.
ReviewOrSign ==
  \/ /\ log' \notin Valid[expert]
     /\ apdu' = NoReply
     /\ Finish(Status("DATA_INVALID"))
  \/ /\ log' \in Valid[expert]
     /\ apdu' = Address(hdPath, hrp)
     /\ IF log' \in Blank[expert]
        THEN Finish(Signature(hdPath, log'))
        ELSE Await("review")

\* Mutant: the verdict of tx_parse is not looked at.
ReviewUnparsed ==
  /\ apdu' = Address(hdPath, hrp)
  /\ Await(IF log' \in Blank[expert] THEN "error" ELSE "review")

\* handleSignSecp256K1 after the last chunk, from tx_parse on: the text of the
\* error, or view_sign_show, which ends on the error screen when the review
\* has no item to show.
ReviewOrError ==
  \/ /\ log' \notin Valid[expert]
     /\ apdu' = NoReply
     /\ Finish(Status("DATA_INVALID"))
  \/ /\ log' \in Valid[expert]
     /\ apdu' = Address(hdPath, hrp)
     /\ Await(IF log' \in Blank[expert] THEN "error" ELSE "review")

\* A chunk that fits stays in the buffer whatever happens next.
SignLast ==
  \E c \in [ins : {"SIGN_LAST"}, data : Chunks] :
    /\ Receive(c)
    /\ Log!AppendChunk(c.data)
    /\ \/ /\ ~Log!Fits(c.data)
          /\ Finish(TooSmall)
          /\ apdu' = NoReply
          /\ UNCHANGED parsed
       \/ /\ Log!Fits(c.data)
          /\ ~Derivable(hdPath)
          /\ Finish(Status("EXCEPTION"))
          /\ apdu' = NoReply
          /\ UNCHANGED parsed
       \/ /\ Log!Fits(c.data)
          /\ Derivable(hdPath)
          /\ parsed' = log'
          /\ ReviewOrError
    /\ UNCHANGED <<hdPath, hrp, expert>>

-----------------------------------------------------------------------------
(* The user: callbacks served inside io_exchange. *)

\* Mutant: the mode can be switched on any screen.
ToggleAnywhere ==
  /\ phase = "exchange"
  /\ expert' = ~expert
  /\ UNCHANGED <<transport, loop, globals, screen, history>>

\* h_expert_toggle, an entry of the main menu.
ToggleExpert ==
  /\ phase = "exchange"
  /\ screen = "idle"
  /\ expert' = ~expert
  /\ UNCHANGED <<transport, loop, globals, screen, history>>

\* Mutant: the decision is answered but its screen stays.
DecideAndStay(s, r) ==
  /\ phase = "exchange"
  /\ screen = s
  /\ Deliver(r)
  /\ UNCHANGED <<loop, hdPath, hrp, log, added, parsed, expert, screen>>

\* A decision: back to the main menu, and the reply the loop did not send.
Decide(s, r) ==
  /\ phase = "exchange"
  /\ screen = s
  /\ screen' = "idle"
  /\ Deliver(r)
  /\ UNCHANGED <<loop, hdPath, hrp, log, added, parsed, expert>>

\* h_address_accept: app_reply_address sends what the APDU buffer holds.
AcceptAddress == Decide("address", apdu) /\ UNCHANGED apdu

\* h_sign_accept: app_sign signs the transaction buffer with hdPath, into the
\* APDU buffer; the OS may fail to sign.
AcceptSign ==
  /\ \/ Decide("review", Signature(hdPath, log))
     \/ Decide("review", Status("SIGN_VERIFY_ERROR"))
  /\ apdu' = NoReply

\* Mutant: rejecting only goes back to the main menu.
RejectSilently ==
  /\ phase = "exchange"
  /\ screen = "review"
  /\ screen' = "idle"
  /\ UNCHANGED <<transport, loop, globals, expert, history>>

\* Mutant: app_main clears flags before it sends the code of an exception.
SignThrowsAndClears ==
  /\ phase = "exchange"
  /\ screen = "review"
  /\ phase' = "top" /\ tx' = Status("EXCEPTION") /\ apdu' = NoReply
  /\ async' = FALSE
  /\ UNCHANGED <<transport, hdPath, hrp, log, added, parsed, expert, screen, history>>

\* The OS throws in app_sign, say because it has locked the device.  The
\* exception ends io_exchange before flags is cleared, and app_main puts its
\* code in the APDU buffer; the review stays on the screen.
SignThrows ==
  /\ phase = "exchange"
  /\ screen = "review"
  /\ phase' = "top" /\ tx' = Status("EXCEPTION") /\ apdu' = NoReply
  /\ UNCHANGED <<transport, async, hdPath, hrp, log, added, parsed, expert, screen, history>>

\* h_sign_reject.
RejectSign ==
  /\ Decide("review", Status("COMMAND_NOT_ALLOWED"))
  /\ apdu' = NoReply

\* h_error_accept.
AcceptError ==
  /\ Decide("error", Status("DATA_INVALID"))
  /\ apdu' = NoReply

-----------------------------------------------------------------------------
Handle == Refuse \/ GetVersion \/ GetAddr \/ SignInit \/ SignAdd \/ SignLast

User == \/ ToggleExpert
        \/ AcceptAddress \/ AcceptError
        \/ AcceptSign \/ SignThrows \/ RejectSign

Next == \/ \E c \in Commands : HostSend(c)
        \/ Exchange
        \/ Handle
        \/ User
        \/ Restart

Spec == Init /\ [][Next]_vars

-----------------------------------------------------------------------------
TypeOK ==
  /\ inbox \in Commands \cup {NoCommand}
  /\ owed \in {0, 1}
  /\ reply \in Replies \cup {NoReply}
  /\ phase \in {"exchange", "top"}
  /\ async \in BOOLEAN
  /\ tx \in Replies \cup {NoReply}
  /\ apdu \in Addresses \cup {NoReply}
  /\ hdPath \in DevicePaths
  /\ hrp \in Hrps \cup {None}
  /\ expert \in BOOLEAN
  /\ screen \in Decisions \cup {"idle"}
  /\ log \in Messages /\ Len(log) <= Capacity
  /\ added \in Nat
  /\ parsed \in Messages
  /\ served \in Commands \cup {NoCommand}
  /\ sent \in Messages
  /\ session \in Paths \cup {None}

(* No command is lost and none is answered without being asked: while the  *)
(* loop waits and holds no command, the host is owed a reply exactly when  *)
(* a screen is open on which the user's choice will send it.               *)
NoCommandLost ==
  phase = "exchange" /\ inbox = NoCommand =>
    (owed = 1 <=> screen \in Decisions)

(* While the user looks at a review the transaction buffer holds the       *)
(* message that was parsed for it, which is what the host sent, and the    *)
(* mode is the one it was parsed and found displayable in: nothing shown   *)
(* can differ from what Approve will sign.                                 *)
ReviewIsCurrent ==
  screen = "review" =>
    /\ log = parsed
    /\ log = SentAfter(NoReply)
    /\ log \in Valid[expert] \ Blank[expert]
    /\ Derivable(hdPath)

(* A signature covers the message that was parsed and shown, and that is   *)
(* the concatenation of all chunks since the first packet that the device  *)
(* did not refuse as too large, however the chunks were cut and in         *)
(* whatever order commands, errors and restarts came.                      *)
SignatureCoversSent ==
  reply.kind = "signature" => reply.message = sent /\ reply.message = parsed

(* An address reply answers the command it was asked by: its path passed   *)
(* the checks, and path and prefix are those of the command, also when the *)
(* reply waited on the screen in the shared APDU buffer.                   *)
AddressIsRequested ==
  reply.kind = "address" =>
    /\ served.ins = "GET_ADDR"
    /\ FixedWords(reply.path)
    /\ served.cut = "none" => reply.path = served.path /\ reply.hrp = served.hrp

(* Between a first packet that was accepted and the next packet that       *)
(* carries a path, keys are derived from the path of that first packet.    *)
SessionKeepsPath ==
  phase = "exchange" /\ inbox = NoCommand /\ owed = 0 /\ session # None =>
    hdPath = session

(* Nothing the user has on the screen changes under them: the mode, the    *)
(* path, the prefix, the message and the address wait for the decision.    *)
DecisionIsStable ==
  [][screen' = screen /\ screen \in Decisions
       => /\ UNCHANGED <<expert, hdPath, hrp, log, parsed>>
          /\ screen = "address" => UNCHANGED apdu]_vars

(* A signature, and the address of a command that asked for confirmation,  *)
(* leave the device only in the step that closes the screen that asked.    *)
OnlyWithConsent ==
  [][reply' # reply =>
       /\ reply'.kind = "signature" => screen = "review" /\ screen' = "idle"
       /\ reply'.kind = "address" /\ served.confirm
            => screen = "address" /\ screen' = "idle"]_vars
=============================================================================
