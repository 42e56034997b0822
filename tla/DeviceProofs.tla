---------------------------- MODULE DeviceProofs ----------------------------
(***************************************************************************)
(* Proofs about Device, for every set of paths, prefixes, chunks and every *)
(* capacity: type correctness, that no command is lost, that signatures    *)
(* cover what was sent and shown, that address replies belong to their     *)
(* command, that a session keeps its path, and the two action properties.  *)
(***************************************************************************)
EXTENDS Device, SequenceTheorems, TLAPS

(* A command is in the hands of the device from the moment io_exchange     *)
(* returns it until its reply leaves.                                      *)
Serving == owed = 1 /\ inbox = NoCommand

(* Where the loop, the transport and the screen can be together.           *)
LoopInv ==
  /\ owed = 0 => inbox = NoCommand /\ phase = "exchange" /\ screen = "idle"
  /\ owed = 1 => reply = NoReply
  /\ inbox # NoCommand => owed = 1 /\ phase = "exchange" /\ screen = "idle"
  /\ phase = "exchange" => tx = NoReply
  /\ phase = "exchange" /\ Serving => screen \in Decisions /\ async
  /\ phase = "top" =>
       /\ Serving
       /\ \/ tx # NoReply /\ ~async /\ screen = "idle"
          \/ tx = NoReply /\ async /\ screen \in Decisions
          \/ tx = Status("EXCEPTION") /\ async /\ screen = "review"
  /\ Serving => served \in Commands

(* The transaction buffer is what the host will know it to be once the     *)
(* command at hand is answered.                                            *)
MessageInv ==
  /\ ~Serving => log = sent
  /\ Serving => log = SentAfter(tx)
  /\ screen \in {"review", "error"} => served.ins = "SIGN_LAST"
  /\ screen = "review" =>
       /\ log = parsed
       /\ log \in Valid[expert] \ Blank[expert]
       /\ Derivable(hdPath)
  /\ tx.kind # "signature"
  /\ SignatureCoversSent

(* An address that waits, in the APDU buffer or in the reply, is the one   *)
(* of the command at hand.                                                 *)
AnswersGetAddr(r) ==
  /\ r.kind = "address"
  /\ served.ins = "GET_ADDR"
  /\ FixedWords(r.path)
  /\ served.cut = "none" => r.path = served.path /\ r.hrp = served.hrp

AddressInv ==
  /\ screen = "address" => AnswersGetAddr(apdu) /\ served.confirm
  /\ tx.kind = "address" => AnswersGetAddr(tx) /\ ~served.confirm
  /\ reply.kind = "address" => AnswersGetAddr(reply)

(* hdPath is the session's path whenever a session will be open once the   *)
(* command at hand is answered.                                            *)
SessionInv ==
  /\ ~Serving => (session # None => hdPath = session)
  /\ Serving => (SessionAfter(tx) # None => hdPath = SessionAfter(tx))

IInv == TypeOK /\ LoopInv /\ MessageInv /\ AddressInv /\ SessionInv

-----------------------------------------------------------------------------
(* The message grows by a legal chunk and stays within the capacity.       *)
LEMMA AppendType ==
  ASSUME TypeOK, NEW data \in Chunks, Log!AppendChunk(data)
  PROVE  /\ log' \in Messages /\ Len(log') <= Capacity /\ added' \in Nat
         /\ Log!Fits(data) => log' = log \o data
         /\ ~Log!Fits(data) => log' = log
  <1>1. data \in Seq(Byte) /\ log \in Seq(Byte)
    BY DeviceAssumption DEF TypeOK, Messages
  <1>2. /\ log \o data \in Seq(Byte)
        /\ Len(log \o data) = Len(log) + Len(data)
        /\ Len(data) \in Nat
    BY <1>1
  <1>3. Len(log) \in Nat /\ Len(log) <= Capacity /\ Capacity \in Nat
    BY <1>1, DeviceAssumption DEF TypeOK
  <1>4. CASE Log!Fits(data)
    BY <1>1, <1>2, <1>3, <1>4 DEF Log!AppendChunk, Log!Fits, Messages
  <1>5. CASE ~Log!Fits(data)
    BY <1>1, <1>2, <1>3, <1>5 DEF Log!AppendChunk, Messages
  <1>6. QED
    BY <1>4, <1>5

(* What the history records of a served command is well typed.             *)
LEMMA HistoryType ==
  ASSUME TypeOK, NEW r, served \in Commands
  PROVE  SentAfter(r) \in Messages /\ SessionAfter(r) \in Paths \cup {None}
  <1>1. CASE served.ins = "SIGN_INIT"
    <2>1. served.path \in Paths \cup {None}
      BY <1>1 DEF Commands
    <2>2. QED
      BY <1>1, <2>1 DEF SentAfter, SessionAfter, Messages
  <1>2. CASE served.ins \in {"SIGN_ADD", "SIGN_LAST"}
    <2>1. served.data \in Seq(Byte)
      BY <1>2, DeviceAssumption DEF Commands
    <2>2. sent \o served.data \in Seq(Byte)
      BY <2>1 DEF TypeOK, Messages
    <2>3. SentAfter(r) \in Messages
      BY <1>2, <2>2 DEF SentAfter, Messages, TypeOK
    <2>4. SessionAfter(r) \in Paths \cup {None}
      BY <1>2 DEF SessionAfter, TypeOK
    <2>5. QED
      BY <2>3, <2>4
  <1>3. CASE served.ins \notin {"SIGN_INIT", "SIGN_ADD", "SIGN_LAST"}
    BY <1>3 DEF SentAfter, SessionAfter, TypeOK
  <1>4. QED
    BY <1>1, <1>2, <1>3

(* The replies the handlers make are replies.                              *)
LEMMA ReplyType ==
  /\ \A sw \in Codes : Status(sw) \in Replies
  /\ \A p \in DevicePaths, h \in Hrps \cup {None} :
       Address(p, h) \in Addresses /\ Address(p, h) \in Replies
  /\ \A p \in DevicePaths, m \in Messages : Signature(p, m) \in Replies
  /\ \A p \in Paths : p \in DevicePaths /\ Status(PathVerdict(p)) \in Replies
  /\ Addresses \subseteq Replies
  /\ TooSmall \in Replies
  <1>1. \A p : PathVerdict(p) \in Codes
    BY DEF PathVerdict, Codes
  <1>2. "OUTPUT_BUFFER_TOO_SMALL" \in Codes
    BY DEF Codes
  <1>3. QED
    BY <1>1, <1>2 DEF Status, Address, Signature, Replies, Addresses, DevicePaths, TooSmall

(* What holds when a handler runs: the host waits for its reply, nothing   *)
(* is on the screen, and the loop has nothing of its own to send.          *)
LEMMA HandlerFrame ==
  ASSUME IInv, NEW c \in Commands, Receive(c)
  PROVE  /\ owed = 1 /\ ~Serving /\ reply = NoReply /\ screen = "idle"
         /\ owed' = 1 /\ inbox' = NoCommand /\ served' = c /\ phase' = "top"
         /\ reply' = NoReply /\ sent' = sent /\ session' = session
         /\ Serving' /\ log = sent
         /\ session # None => hdPath = session
         /\ c # NoCommand
  <1>1. c # NoCommand
    BY DEF Commands, NoCommand
  <1>2. QED
    BY <1>1 DEF IInv, LoopInv, MessageInv, SessionInv, Receive, Serving, TypeOK

-----------------------------------------------------------------------------
(* Type correctness. *)

LEMMA TypeInit == Init => TypeOK
  <1> SUFFICES ASSUME Init PROVE TypeOK
    OBVIOUS
  <1>1. log \in Messages /\ Len(log) = 0 /\ parsed \in Messages /\ sent \in Messages
    BY EmptySeq DEF Init, Messages
  <1>2. hdPath \in DevicePaths
    BY DEF Init, DevicePaths
  <1>3. Len(log) <= Capacity
    BY <1>1, DeviceAssumption
  <1>4. /\ inbox = NoCommand /\ owed = 0 /\ reply = NoReply
        /\ phase = "exchange" /\ async = FALSE /\ tx = NoReply
        /\ apdu = NoReply /\ hrp = None /\ added = 0
        /\ expert = FALSE /\ screen = "idle"
        /\ served = NoCommand /\ session = None
    BY DEF Init
  <1>5. QED
    BY <1>1, <1>2, <1>3, <1>4 DEF TypeOK, Decisions

(* Delivering a reply to a command being served keeps the types of the     *)
(* transport and of the history.                                           *)
LEMMA DeliverType ==
  ASSUME TypeOK, LoopInv, Serving, NEW r \in Replies, Deliver(r)
  PROVE  /\ inbox' \in Commands \cup {NoCommand} /\ inbox' = NoCommand
         /\ owed' = 0
         /\ reply' \in Replies /\ reply' = r
         /\ sent' \in Messages /\ sent' = SentAfter(r)
         /\ session' \in Paths \cup {None} /\ session' = SessionAfter(r)
         /\ served' \in Commands /\ served' = served
  <1>1. served \in Commands
    BY DEF LoopInv
  <1>2. QED
    BY <1>1, HistoryType DEF Deliver, Serving

LEMMA TypeNext == IInv /\ [Next]_vars => TypeOK'
  <1> SUFFICES ASSUME IInv, [Next]_vars PROVE TypeOK'
    OBVIOUS
  <1> USE DEF IInv
  <1>1. ASSUME NEW c \in Commands, HostSend(c) PROVE TypeOK'
    BY <1>1 DEF HostSend, TypeOK, loop, globals
  <1>2. CASE Exchange
    <2>1. CASE tx # NoReply /\ ~async
      <3>1. Serving /\ tx \in Replies
        BY <1>2, <2>1 DEF Exchange, LoopInv, TypeOK
      <3>2. Deliver(tx)
        BY <1>2, <2>1 DEF Exchange
      <3>3. QED
        BY <1>2, <3>1, <3>2, DeliverType DEF Exchange, TypeOK, globals
    <2>2. CASE ~(tx # NoReply /\ ~async)
      BY <1>2, <2>2 DEF Exchange, TypeOK, globals, transport, history
    <2>3. QED
      BY <2>1, <2>2
  <1>3. ASSUME NEW c \in Commands, Receive(c),
               tx' \in Replies \cup {NoReply}, async' \in BOOLEAN,
               screen' \in Decisions \cup {"idle"},
               apdu' \in Addresses \cup {NoReply}, hdPath' \in DevicePaths,
               hrp' \in Hrps \cup {None}, expert' = expert,
               log' \in Messages, Len(log') <= Capacity, added' \in Nat,
               parsed' \in Messages
        PROVE  TypeOK'
    BY <1>3, HandlerFrame DEF TypeOK, Receive
  <1>4. CASE Refuse
    <2> PICK c \in [ins : {"refused"}, sw : Refusals] :
          /\ Receive(c)
          /\ Finish(Status(c.sw))
          /\ apdu' = NoReply
          /\ UNCHANGED <<hdPath, hrp, log, added, parsed, expert>>
      BY <1>4 DEF Refuse
    <2>1. c \in Commands /\ Status(c.sw) \in Replies
      BY ReplyType DEF Commands, Codes
    <2>2. QED
      BY <1>3, <2>1 DEF Finish, TypeOK
  <1>5. CASE GetVersion
    <2>1. [ins |-> "GET_VERSION"] \in Commands /\ Status("OK") \in Replies
      BY ReplyType DEF Commands, Codes
    <2>2. QED
      BY <1>3, <1>5, <2>1 DEF GetVersion, Finish, TypeOK
  <1>6. CASE GetAddr
    <2> PICK c \in [ins : {"GET_ADDR"}, confirm : BOOLEAN, hrp : Hrps \cup {None},
                    path : Paths, cut : Cuts] :
          /\ Receive(c)
          /\ \/ /\ c.cut = "before hrp"
                /\ Finish(Status("DATA_INVALID"))
                /\ apdu' = NoReply
                /\ UNCHANGED <<hrp, hdPath>>
             \/ \E h \in Hrps \cup {None}, p \in Paths \cup {None} :
                  /\ Read(c, h, p)
                  /\ hrp' = h
                  /\ \/ h # None /\ p # None /\ AnswerAddress(c, h, p)
                     \/ /\ h = None \/ p = None
                        /\ Finish(Status(IF h = None THEN "DATA_INVALID" ELSE "WRONG_LENGTH"))
                        /\ apdu' = NoReply
                        /\ UNCHANGED hdPath
          /\ UNCHANGED <<log, added, parsed, expert>>
      BY <1>6 DEF GetAddr
    <2>1. /\ c \in Commands
          /\ Status("DATA_INVALID") \in Replies /\ Status("WRONG_LENGTH") \in Replies
      BY ReplyType DEF Commands, Codes, Refusals
    <2>2. CASE /\ Finish(Status("DATA_INVALID"))
               /\ apdu' = NoReply
               /\ UNCHANGED <<hrp, hdPath>>
      BY <1>3, <2>1, <2>2 DEF Finish, TypeOK
    <2>3. ASSUME NEW h \in Hrps \cup {None}, NEW p \in Paths,
                 hrp' = h, AnswerAddress(c, h, p)
          PROVE  TypeOK'
      <3>1. /\ Address(p, h) \in Addresses /\ Address(p, h) \in Replies
            /\ Status(PathVerdict(p)) \in Replies /\ p \in DevicePaths
        BY ReplyType DEF DevicePaths
      <3>2. QED
        BY <1>3, <2>1, <2>3, <3>1 DEF AnswerAddress, Finish, Await, TypeOK, Decisions
    <2>4. ASSUME NEW h \in Hrps \cup {None}, hrp' = h,
                 Finish(Status(IF h = None THEN "DATA_INVALID" ELSE "WRONG_LENGTH")),
                 apdu' = NoReply, UNCHANGED hdPath
          PROVE  TypeOK'
      BY <1>3, <2>1, <2>4 DEF Finish, TypeOK
    <2>5. QED
      BY <2>2, <2>3, <2>4
  <1>7. CASE SignInit
    <2> PICK c \in [ins : {"SIGN_INIT"}, path : Paths \cup {None}] :
          /\ Receive(c)
          /\ StartMessage(c)
          /\ apdu' = NoReply
          /\ UNCHANGED <<hrp, parsed, expert>>
      BY <1>7 DEF SignInit
    <2>1. c \in Commands /\ Status("WRONG_LENGTH") \in Replies
      BY ReplyType DEF Commands, Codes, Refusals
    <2>2. log' \in Messages /\ Len(log') <= Capacity /\ added' = added
      BY EmptySeq, DeviceAssumption DEF StartMessage, Log!Reset, Messages
    <2>3. CASE c.path = None
      BY <1>3, <2>1, <2>2, <2>3 DEF StartMessage, Finish, TypeOK
    <2>4. CASE c.path # None
      <3>1. c.path \in DevicePaths /\ Status(PathVerdict(c.path)) \in Replies
        BY <2>4, ReplyType
      <3>2. QED
        BY <1>3, <2>1, <2>2, <2>4, <3>1 DEF StartMessage, Finish, TypeOK
    <2>5. QED
      BY <2>3, <2>4
  <1>8. CASE SignAdd
    <2> PICK c \in [ins : {"SIGN_ADD"}, data : Chunks] :
          /\ Receive(c)
          /\ Log!AppendChunk(c.data)
          /\ Finish(IF Log!Fits(c.data) THEN Status("OK") ELSE TooSmall)
          /\ apdu' = NoReply
          /\ UNCHANGED <<hdPath, hrp, parsed, expert>>
      BY <1>8 DEF SignAdd
    <2>1. c \in Commands /\ c.data \in Chunks
      BY DEF Commands
    <2>2. Status("OK") \in Replies /\ TooSmall \in Replies
      BY ReplyType DEF Codes
    <2>3. log' \in Messages /\ Len(log') <= Capacity /\ added' \in Nat
      BY <2>1, AppendType
    <2>4. QED
      BY <1>3, <2>1, <2>2, <2>3 DEF Finish, TypeOK
  <1>9. CASE SignLast
    <2> PICK c \in [ins : {"SIGN_LAST"}, data : Chunks] :
          /\ Receive(c)
          /\ Log!AppendChunk(c.data)
          /\ \/ /\ ~Log!Fits(c.data)
                /\ Finish(TooSmall)
                /\ apdu' = NoReply
                /\ UNCHANGED parsed
             \/ /\ Log!Fits(c.data)
                /\ ~Derivable(hdPath)
                /\ Finish(Status("EXCEPTION"))
                /\ apdu' = NoReply
                /\ UNCHANGED parsed
             \/ /\ Log!Fits(c.data)
                /\ Derivable(hdPath)
                /\ parsed' = log'
                /\ ReviewOrError
          /\ UNCHANGED <<hdPath, hrp, expert>>
      BY <1>9 DEF SignLast
    <2>1. c \in Commands /\ c.data \in Chunks
      BY DEF Commands
    <2>2. /\ TooSmall \in Replies /\ Status("EXCEPTION") \in Replies
          /\ Status("DATA_INVALID") \in Replies
      BY ReplyType DEF Codes
    <2>3. log' \in Messages /\ Len(log') <= Capacity /\ added' \in Nat
      BY <2>1, AppendType
    <2>4. Address(hdPath, hrp) \in Addresses
      BY ReplyType DEF TypeOK
    <2>5. QED
      BY <1>3, <2>1, <2>2, <2>3, <2>4
         DEF ReviewOrError, Finish, Await, TypeOK, Decisions
  <1>10. CASE ToggleExpert
    BY <1>10 DEF ToggleExpert, TypeOK, transport, loop, globals, history
  <1>11. ASSUME NEW s \in Decisions, NEW r \in Replies, Decide(s, r),
                apdu' \in Addresses \cup {NoReply}
         PROVE  TypeOK'
    <2>1. Serving /\ Deliver(r)
      BY <1>11 DEF Decide, Decisions, LoopInv, Serving, TypeOK
    <2>2. QED
      BY <1>11, <2>1, DeliverType DEF Decide, TypeOK, loop
  <1>12. CASE AcceptAddress
    <2>1. screen = "address" /\ apdu \in Replies
      BY <1>12, ReplyType DEF AcceptAddress, Decide, AddressInv, AnswersGetAddr, TypeOK, NoReply
    <2>2. QED
      BY <1>11, <1>12, <2>1 DEF AcceptAddress, Decisions, TypeOK
  <1>13. CASE AcceptSign
    <2>1. Signature(hdPath, log) \in Replies /\ Status("SIGN_VERIFY_ERROR") \in Replies
      BY ReplyType DEF Codes, TypeOK
    <2>2. QED
      BY <1>11, <1>13, <2>1 DEF AcceptSign, Decisions
  <1>14. CASE RejectSign
    <2>1. Status("COMMAND_NOT_ALLOWED") \in Replies
      BY ReplyType DEF Codes
    <2>2. QED
      BY <1>11, <1>14, <2>1 DEF RejectSign, Decisions
  <1>15. CASE AcceptError
    <2>1. Status("DATA_INVALID") \in Replies
      BY ReplyType DEF Codes
    <2>2. QED
      BY <1>11, <1>15, <2>1 DEF AcceptError, Decisions
  <1>16. CASE Restart
    <2>1. log' \in Messages /\ Len(log') = 0 /\ parsed' \in Messages /\ sent' \in Messages
      BY <1>16, EmptySeq DEF Restart, Log!Restart, Messages
    <2>2. Len(log') <= Capacity
      BY <2>1, DeviceAssumption
    <2>3. hdPath' \in DevicePaths
      BY <1>16 DEF Restart, DevicePaths
    <2>4. /\ inbox' = NoCommand /\ owed' = 0 /\ reply' = NoReply
          /\ phase' = "exchange" /\ async' = FALSE /\ tx' = NoReply
          /\ apdu' = NoReply /\ hrp' = None /\ added' = 0
          /\ expert' = FALSE /\ screen' = "idle"
          /\ served' = NoCommand /\ session' = None
      BY <1>16 DEF Restart, Log!Restart
    <2>5. QED
      BY <2>1, <2>2, <2>3, <2>4 DEF TypeOK, Decisions
  <1>17. CASE UNCHANGED vars
    BY <1>17 DEF vars, transport, loop, globals, history, TypeOK
  <1>18. CASE SignThrows
    <2>1. Status("EXCEPTION") \in Replies
      BY ReplyType DEF Codes
    <2>2. QED
      BY <1>18, <2>1 DEF SignThrows, TypeOK, transport, history
  <1>19. QED
    BY <1>1, <1>2, <1>4, <1>5, <1>6, <1>7, <1>8, <1>9, <1>10, <1>12, <1>13,
       <1>14, <1>15, <1>16, <1>17, <1>18 DEF Next, Handle, User

-----------------------------------------------------------------------------
(* The control part of the invariant, preserved by every step. *)

Control == LoopInv /\ MessageInv /\ AddressInv /\ SessionInv

LEMMA ControlInit == Init => Control
  BY DEF Init, Control, LoopInv, MessageInv, AddressInv, SessionInv, Serving,
         SignatureCoversSent, NoReply, NoCommand

(* What is left to show of a handler: how it ends, and what it leaves      *)
(* behind in the globals.                                                  *)
LEMMA HandlerControl ==
  ASSUME IInv, NEW c \in Commands, Receive(c),
         \/ tx' # NoReply /\ async' = FALSE /\ screen' = screen
         \/ tx' = NoReply /\ async' = TRUE /\ screen' \in Decisions,
         log' = SentAfter(tx)',
         screen' \in {"review", "error"} => c.ins = "SIGN_LAST",
         screen' = "review" => /\ log' = parsed'
                               /\ log' \in Valid[expert'] \ Blank[expert']
                               /\ Derivable(hdPath'),
         tx'.kind # "signature",
         screen' = "address" => AnswersGetAddr(apdu)' /\ c.confirm,
         tx'.kind = "address" => AnswersGetAddr(tx)' /\ ~c.confirm,
         SessionAfter(tx)' # None => hdPath' = SessionAfter(tx)'
  PROVE  Control'
  <1> USE HandlerFrame
  <1>1. LoopInv'
    BY DEF LoopInv, Serving, NoCommand
  <1>2. MessageInv'
    BY DEF MessageInv, SignatureCoversSent, NoReply
  <1>3. AddressInv'
    BY DEF AddressInv, NoReply
  <1>4. SessionInv'
    BY DEF SessionInv
  <1>5. QED
    BY <1>1, <1>2, <1>3, <1>4 DEF Control

LEMMA RefuseControl == IInv /\ Refuse => Control'
  <1> SUFFICES ASSUME IInv, NEW c \in [ins : {"refused"}, sw : Refusals],
                      Receive(c), Finish(Status(c.sw)), apdu' = NoReply,
                      UNCHANGED <<hdPath, hrp, log, added, parsed, expert>>
               PROVE  Control'
    BY DEF Refuse
  <1>1. c \in Commands /\ c.ins = "refused"
    BY DEF Commands
  <1>2. /\ tx' # NoReply /\ async' = FALSE /\ screen' = screen /\ screen' = "idle"
        /\ tx'.kind = "status"
    BY <1>1, HandlerFrame DEF Finish, Status, NoReply
  <1>3. log' = SentAfter(tx)' /\ (SessionAfter(tx)' # None => hdPath' = SessionAfter(tx)')
    BY <1>1, HandlerFrame DEF SentAfter, SessionAfter
  <1>4. QED
    BY <1>1, <1>2, <1>3, HandlerControl

LEMMA GetVersionControl == IInv /\ GetVersion => Control'
  <1> SUFFICES ASSUME IInv, GetVersion PROVE Control'
    OBVIOUS
  <1> DEFINE c == [ins |-> "GET_VERSION"]
  <1>1. c \in Commands /\ c.ins = "GET_VERSION" /\ Receive(c)
    BY DEF Commands, GetVersion
  <1> HIDE DEF c
  <1>2. /\ tx' # NoReply /\ async' = FALSE /\ screen' = screen /\ screen' = "idle"
        /\ tx'.kind = "status"
    BY <1>1, HandlerFrame DEF GetVersion, Finish, Status, NoReply
  <1>3. log' = SentAfter(tx)' /\ (SessionAfter(tx)' # None => hdPath' = SessionAfter(tx)')
    BY <1>1, HandlerFrame DEF GetVersion, SentAfter, SessionAfter
  <1>4. QED
    BY <1>1, <1>2, <1>3, HandlerControl

LEMMA GetAddrControl == IInv /\ GetAddr => Control'
  <1> SUFFICES ASSUME IInv,
                      NEW c \in [ins : {"GET_ADDR"}, confirm : BOOLEAN,
                                 hrp : Hrps \cup {None}, path : Paths, cut : Cuts],
                      Receive(c), UNCHANGED <<log, added, parsed, expert>>,
                      \/ Finish(Status("DATA_INVALID"))
                      \/ \E h \in Hrps \cup {None}, p \in Paths \cup {None} :
                           /\ Read(c, h, p)
                           /\ \/ AnswerAddress(c, h, p)
                              \/ Finish(Status(IF h = None THEN "DATA_INVALID"
                                                           ELSE "WRONG_LENGTH"))
               PROVE  Control'
    BY DEF GetAddr
  <1>1. c \in Commands /\ c.ins = "GET_ADDR" /\ c.confirm \in BOOLEAN
    BY DEF Commands
  <1>2. log' = SentAfter(tx)' /\ SessionAfter(tx)' = None
    BY <1>1, HandlerFrame DEF SentAfter, SessionAfter
  <1>3. ASSUME NEW sw, Finish(Status(sw)) PROVE Control'
    <2>1. /\ tx' # NoReply /\ async' = FALSE /\ screen' = screen /\ screen' = "idle"
          /\ tx'.kind = "status"
      BY <1>1, <1>3, HandlerFrame DEF Finish, Status, NoReply
    <2>2. QED
      BY <1>1, <1>2, <2>1, HandlerControl
  <1>4. ASSUME NEW h, NEW p, Read(c, h, p), FixedWords(p),
               apdu' = Address(p, h),
               IF c.confirm THEN Await("address") ELSE Finish(Address(p, h))
        PROVE  Control'
    <2>1. served' = c
      BY <1>1, HandlerFrame
    <2>2. AnswersGetAddr(apdu)'
      BY <1>1, <1>4, <2>1 DEF AnswersGetAddr, Address, Read
    <2>3. CASE c.confirm
      <3>1. tx' = NoReply /\ async' = TRUE /\ screen' = "address"
        BY <1>4, <2>3 DEF Await
      <3>2. QED
        BY <1>1, <1>2, <2>2, <2>3, <3>1, HandlerControl DEF Decisions, NoReply
    <2>4. CASE ~c.confirm
      <3>1. /\ tx' = Address(p, h) /\ async' = FALSE /\ screen' = screen
            /\ screen' = "idle"
        BY <1>1, <1>4, <2>4, HandlerFrame DEF Finish
      <3>2. tx' # NoReply /\ tx'.kind = "address" /\ AnswersGetAddr(tx)'
        BY <1>1, <1>4, <2>1, <3>1 DEF AnswersGetAddr, Address, Read, NoReply
      <3>3. QED
        BY <1>1, <1>2, <2>4, <3>1, <3>2, HandlerControl
    <2>5. QED
      BY <2>3, <2>4
  <1>5. ASSUME NEW h, NEW p, Read(c, h, p), AnswerAddress(c, h, p) PROVE Control'
    <2>1. CASE PathVerdict(p) # "OK"
      BY <1>3, <1>5, <2>1 DEF AnswerAddress
    <2>2. CASE PathVerdict(p) = "OK"
      <3>1. FixedWords(p)
        BY <2>2 DEF PathVerdict
      <3>2. QED
        BY <1>4, <1>5, <2>2, <3>1 DEF AnswerAddress
    <2>3. QED
      BY <2>1, <2>2
  <1>6. QED
    BY <1>3, <1>5

LEMMA SignInitControl == IInv /\ SignInit => Control'
  <1> SUFFICES ASSUME IInv, NEW c \in [ins : {"SIGN_INIT"}, path : Paths \cup {None}],
                      Receive(c), StartMessage(c)
               PROVE  Control'
    BY DEF SignInit
  <1>1. c \in Commands /\ c.ins = "SIGN_INIT"
    BY DEF Commands
  <1>2. served' = c /\ screen = "idle"
    BY <1>1, HandlerFrame
  <1>3. PICK sw : Finish(Status(sw)) /\ (sw = "OK" => hdPath' = c.path)
    BY DEF StartMessage
  <1>4. /\ tx' = Status(sw) /\ tx' # NoReply /\ async' = FALSE
        /\ screen' = screen /\ tx'.kind = "status"
    BY <1>3 DEF Finish, Status, NoReply
  <1>5. log' = SentAfter(tx)'
    BY <1>1, <1>2 DEF SentAfter, StartMessage, Log!Reset
  <1>6. SessionAfter(tx)' # None => hdPath' = SessionAfter(tx)'
    BY <1>1, <1>2, <1>3, <1>4 DEF SessionAfter, Status
  <1>7. QED
    BY <1>1, <1>2, <1>4, <1>5, <1>6, HandlerControl

(* After a chunk, the buffer holds what the host will make of the reply.   *)
LEMMA AppendHistory ==
  ASSUME IInv, NEW c \in Commands, Receive(c), c.ins \in {"SIGN_ADD", "SIGN_LAST"},
         Log!AppendChunk(c.data),
         tx' = TooSmall <=> ~Log!Fits(c.data)
  PROVE  /\ log' = SentAfter(tx)'
         /\ SessionAfter(tx)' = session
  <1>1. served' = c /\ sent' = sent /\ session' = session /\ log = sent
    BY HandlerFrame
  <1>2. c.data \in Chunks
    BY DEF Commands
  <1>3. /\ Log!Fits(c.data) => log' = log \o c.data
        /\ ~Log!Fits(c.data) => log' = log
    BY <1>2, AppendType DEF IInv
  <1>4. QED
    BY <1>1, <1>3 DEF SentAfter, SessionAfter

LEMMA SignAddControl == IInv /\ SignAdd => Control'
  <1> SUFFICES ASSUME IInv, NEW c \in [ins : {"SIGN_ADD"}, data : Chunks],
                      Receive(c), Log!AppendChunk(c.data), UNCHANGED hdPath,
                      Finish(IF Log!Fits(c.data) THEN Status("OK") ELSE TooSmall)
               PROVE  Control'
    BY DEF SignAdd
  <1>1. c \in Commands /\ c.ins = "SIGN_ADD"
    BY DEF Commands
  <1>2. /\ tx' # NoReply /\ async' = FALSE /\ screen' = screen /\ screen' = "idle"
        /\ tx'.kind = "status" /\ (tx' = TooSmall <=> ~Log!Fits(c.data))
    BY <1>1, HandlerFrame DEF Finish, Status, NoReply, TooSmall
  <1>3. log' = SentAfter(tx)' /\ SessionAfter(tx)' = session
    BY <1>1, <1>2, AppendHistory
  <1>4. session # None => hdPath' = session
    BY <1>1, HandlerFrame
  <1>5. QED
    BY <1>1, <1>2, <1>3, <1>4, HandlerControl

LEMMA SignLastControl == IInv /\ SignLast => Control'
  <1> SUFFICES ASSUME IInv, NEW c \in [ins : {"SIGN_LAST"}, data : Chunks],
                      Receive(c), Log!AppendChunk(c.data),
                      UNCHANGED <<hdPath, expert>>,
                      \/ ~Log!Fits(c.data) /\ Finish(TooSmall)
                      \/ Log!Fits(c.data) /\ Finish(Status("EXCEPTION"))
                      \/ /\ Log!Fits(c.data) /\ Derivable(hdPath)
                         /\ parsed' = log' /\ ReviewOrError
               PROVE  Control'
    BY DEF SignLast
  <1>1. c \in Commands /\ c.ins = "SIGN_LAST"
    BY DEF Commands
  <1>2. session # None => hdPath' = session
    BY <1>1, HandlerFrame
  <1>3. ASSUME NEW sw, Finish(Status(sw)),
               sw = "OUTPUT_BUFFER_TOO_SMALL" <=> ~Log!Fits(c.data)
        PROVE  Control'
    <2>1. /\ tx' # NoReply /\ async' = FALSE /\ screen' = screen /\ screen' = "idle"
          /\ tx'.kind = "status" /\ (tx' = TooSmall <=> ~Log!Fits(c.data))
      BY <1>1, <1>3, HandlerFrame DEF Finish, Status, NoReply, TooSmall
    <2>2. log' = SentAfter(tx)' /\ SessionAfter(tx)' = session
      BY <1>1, <2>1, AppendHistory
    <2>3. QED
      BY <1>1, <1>2, <2>1, <2>2, HandlerControl
  <1>4. ASSUME NEW s \in {"review", "error"}, Await(s),
               Log!Fits(c.data), Derivable(hdPath), parsed' = log',
               s = "review" => log' \in Valid[expert] \ Blank[expert]
        PROVE  Control'
    <2>1. /\ tx' = NoReply /\ async' = TRUE /\ screen' = s
          /\ tx'.kind = "none" /\ tx' # TooSmall
      BY <1>4 DEF Await, NoReply, TooSmall, Status
    <2>2. log' = SentAfter(tx)' /\ SessionAfter(tx)' = session
      BY <1>1, <1>4, <2>1, AppendHistory
    <2>3. QED
      BY <1>1, <1>2, <1>4, <2>1, <2>2, HandlerControl DEF Decisions
  <1>5. CASE ~Log!Fits(c.data) /\ Finish(TooSmall)
    BY <1>3, <1>5 DEF TooSmall
  <1>6. CASE Log!Fits(c.data) /\ Finish(Status("EXCEPTION"))
    BY <1>3, <1>6
  <1>7. CASE /\ Log!Fits(c.data) /\ Derivable(hdPath)
             /\ parsed' = log' /\ ReviewOrError
    <2>1. CASE Finish(Status("DATA_INVALID"))
      BY <1>3, <1>7, <2>1
    <2>2. CASE /\ log' \in Valid[expert]
               /\ Await(IF log' \in Blank[expert] THEN "error" ELSE "review")
      BY <1>4, <1>7, <2>2
    <2>3. QED
      BY <1>7, <2>1, <2>2 DEF ReviewOrError
  <1>8. QED
    BY <1>5, <1>6, <1>7

LEMMA ExchangeControl == IInv /\ Exchange => Control'
  <1> SUFFICES ASSUME IInv, Exchange PROVE Control'
    OBVIOUS
  <1> USE DEF IInv
  <1>1. CASE tx # NoReply /\ ~async
    <2>1. Serving /\ tx \in Replies /\ screen = "idle"
      BY <1>1 DEF Exchange, LoopInv, TypeOK
    <2>2. Deliver(tx) /\ served' = served /\ owed' = 0 /\ inbox' = NoCommand
          /\ reply' = tx /\ sent' = SentAfter(tx) /\ session' = SessionAfter(tx)
      BY <1>1, <2>1 DEF Exchange, Deliver, Serving
    <2>3. /\ tx' = NoReply /\ phase' = "exchange"
          /\ UNCHANGED <<apdu, hdPath, hrp, log, added, parsed, expert, screen>>
      BY DEF Exchange, globals
    <2>4. LoopInv'
      BY <2>1, <2>2, <2>3 DEF LoopInv, Serving, NoCommand
    <2>5. MessageInv'
      BY <2>1, <2>2, <2>3 DEF MessageInv, SignatureCoversSent, Serving, NoReply
    <2>6. AddressInv'
      BY <2>1, <2>2, <2>3 DEF AddressInv, AnswersGetAddr, NoReply
    <2>7. SessionInv'
      BY <2>1, <2>2, <2>3 DEF SessionInv, Serving
    <2>8. QED
      BY <2>4, <2>5, <2>6, <2>7 DEF Control
  <1>2. CASE ~(tx # NoReply /\ ~async)
    <2>1. /\ tx \in {NoReply, Status("EXCEPTION")} /\ async
          /\ Serving /\ screen \in Decisions
      BY <1>2 DEF Exchange, LoopInv, Decisions
    <2>2. tx' = NoReply /\ phase' = "exchange"
          /\ UNCHANGED <<transport, history, async, globals, expert, screen>>
      BY <1>2, <2>1 DEF Exchange
    <2>3. LoopInv'
      BY <2>1, <2>2 DEF LoopInv, Serving, transport, history
    <2>4. served.ins \in {"GET_ADDR", "SIGN_LAST"}
      BY <2>1 DEF MessageInv, AddressInv, AnswersGetAddr, Decisions
    <2>5. SentAfter(tx)' = SentAfter(tx) /\ SessionAfter(tx)' = SessionAfter(tx)
      BY <2>1, <2>2, <2>4 DEF SentAfter, SessionAfter, TooSmall, Status, NoReply, history
    <2>6. MessageInv'
      BY <2>1, <2>2, <2>5 DEF MessageInv, SignatureCoversSent, Serving, NoReply,
                        transport, history, globals
    <2>7. AddressInv'
      BY <2>1, <2>2 DEF AddressInv, AnswersGetAddr, transport, history, globals, NoReply
    <2>8. SessionInv'
      BY <2>1, <2>2, <2>5 DEF SessionInv, Serving, transport, history, globals
    <2>9. QED
      BY <2>3, <2>6, <2>7, <2>8 DEF Control
  <1>3. QED
    BY <1>1, <1>2

(* An exception in app_sign leaves the review open, and its code is not a  *)
(* reply yet.                                                              *)
LEMMA SignThrowsControl == IInv /\ SignThrows => Control'
  <1> SUFFICES ASSUME IInv, SignThrows PROVE Control'
    OBVIOUS
  <1> USE DEF IInv
  <1>1. Serving /\ tx = NoReply /\ async /\ served.ins = "SIGN_LAST"
    BY DEF SignThrows, LoopInv, MessageInv, Serving, TypeOK
  <1>2. /\ tx' = Status("EXCEPTION") /\ phase' = "top" /\ screen' = screen
        /\ screen = "review" /\ phase = "exchange"
        /\ UNCHANGED <<transport, async, hdPath, hrp, log, parsed, expert, history>>
    BY DEF SignThrows
  <1>3. /\ tx'.kind = "status" /\ tx' # TooSmall /\ tx' # NoReply
        /\ SentAfter(tx)' = SentAfter(tx) /\ SessionAfter(tx)' = SessionAfter(tx)
    BY <1>1, <1>2 DEF SentAfter, SessionAfter, TooSmall, Status, NoReply, history
  <1>4. LoopInv'
    BY <1>1, <1>2 DEF LoopInv, Serving, transport, history, Decisions
  <1>5. MessageInv'
    BY <1>1, <1>2, <1>3 DEF MessageInv, SignatureCoversSent, Serving, transport, history
  <1>6. AddressInv'
    BY <1>2, <1>3 DEF AddressInv, AnswersGetAddr, transport, history
  <1>7. SessionInv'
    BY <1>1, <1>2, <1>3 DEF SessionInv, Serving, transport, history
  <1>8. QED
    BY <1>4, <1>5, <1>6, <1>7 DEF Control

(* A decision is taken on the command being served, and closes its screen. *)
LEMMA DecideControl ==
  ASSUME IInv, NEW s \in Decisions, NEW r, Decide(s, r), r # TooSmall, r # NoReply,
         r # Status("OK"),
         r.kind = "signature" => s = "review" /\ r.message = log,
         r.kind = "address" => AnswersGetAddr(r)
  PROVE  Control'
  <1> USE DEF IInv
  <1>1. Serving /\ tx = NoReply /\ phase = "exchange" /\ screen = s
    BY DEF Decide, LoopInv, Decisions, Serving, TypeOK
  <1>2. /\ served' = served /\ owed' = 0 /\ inbox' = NoCommand /\ reply' = r
        /\ sent' = SentAfter(r) /\ session' = SessionAfter(r)
        /\ screen' = "idle" /\ tx' = NoReply /\ phase' = "exchange"
        /\ UNCHANGED <<hdPath, hrp, log, parsed, expert>>
    BY <1>1 DEF Decide, Deliver, Serving, loop
  <1>3. served.ins \in {"GET_ADDR", "SIGN_LAST"}
    BY <1>1 DEF MessageInv, AddressInv, AnswersGetAddr, Decisions
  <1>4. SentAfter(r) = SentAfter(tx) /\ SessionAfter(r) = SessionAfter(tx)
    BY <1>1, <1>3 DEF SentAfter, SessionAfter, TooSmall, Status, NoReply
  <1>5. LoopInv'
    BY <1>1, <1>2 DEF LoopInv, Serving, NoCommand
  <1>6. MessageInv'
    BY <1>1, <1>2, <1>4 DEF MessageInv, SignatureCoversSent, Serving, NoReply
  <1>7. AddressInv'
    BY <1>1, <1>2 DEF AddressInv, AnswersGetAddr, NoReply
  <1>8. SessionInv'
    BY <1>1, <1>2, <1>4 DEF SessionInv, Serving
  <1>9. QED
    BY <1>5, <1>6, <1>7, <1>8 DEF Control

LEMMA ControlNext == IInv /\ [Next]_vars => Control'
  <1> SUFFICES ASSUME IInv, [Next]_vars PROVE Control'
    OBVIOUS
  <1>1. ASSUME NEW c \in Commands, HostSend(c) PROVE Control'
    <2>1. c # NoCommand
      BY DEF Commands, NoCommand
    <2>2. /\ owed = 0 /\ owed' = 1 /\ inbox' = c /\ reply' = NoReply
          /\ served' = NoCommand /\ phase = "exchange" /\ screen = "idle" /\ tx = NoReply
          /\ UNCHANGED <<loop, globals, expert, screen, sent, session>>
      BY <1>1 DEF HostSend, IInv, LoopInv
    <2>3. LoopInv'
      BY <2>1, <2>2 DEF LoopInv, Serving, loop
    <2>4. MessageInv'
      BY <2>1, <2>2 DEF IInv, MessageInv, SignatureCoversSent, Serving, loop, globals, NoReply
    <2>5. AddressInv'
      BY <2>2 DEF AddressInv, loop, globals, NoReply
    <2>6. SessionInv'
      BY <2>1, <2>2 DEF IInv, SessionInv, Serving, loop, globals
    <2>7. QED
      BY <2>3, <2>4, <2>5, <2>6 DEF Control
  <1>2. CASE ToggleExpert
    BY <1>2 DEF ToggleExpert, IInv, Control, LoopInv, MessageInv, AddressInv, SessionInv,
                AnswersGetAddr, SignatureCoversSent, Serving, SentAfter, SessionAfter,
                transport, loop, globals, history
  <1>3. CASE AcceptAddress
    <2>1. screen = "address" /\ AnswersGetAddr(apdu)
      BY <1>3 DEF AcceptAddress, Decide, IInv, AddressInv
    <2>2. QED
      BY <1>3, <2>1, DecideControl
         DEF AcceptAddress, Decisions, AnswersGetAddr, TooSmall, Status, NoReply
  <1>4. CASE AcceptSign
    BY <1>4, DecideControl DEF AcceptSign, Decisions, Signature, TooSmall, Status, NoReply
  <1>5. CASE RejectSign
    BY <1>5, DecideControl DEF RejectSign, Decisions, TooSmall, Status, NoReply
  <1>6. CASE AcceptError
    BY <1>6, DecideControl DEF AcceptError, Decisions, TooSmall, Status, NoReply
  <1>7. CASE Restart
    BY <1>7 DEF Restart, Log!Restart, Control, LoopInv, MessageInv, AddressInv, SessionInv,
                Serving, SignatureCoversSent, NoReply, NoCommand
  <1>8. CASE UNCHANGED vars
    BY <1>8 DEF IInv, Control, LoopInv, MessageInv, AddressInv, SessionInv,
                AnswersGetAddr, SignatureCoversSent, Serving, SentAfter, SessionAfter,
                vars, transport, loop, globals, history
  <1>9. QED
    BY <1>1, <1>2, <1>3, <1>4, <1>5, <1>6, <1>7, <1>8, ExchangeControl, RefuseControl,
       GetVersionControl, GetAddrControl, SignInitControl, SignAddControl,
       SignLastControl, SignThrowsControl DEF Next, Handle, User

-----------------------------------------------------------------------------
LEMMA Invariance == Spec => []IInv
  <1>1. Init => IInv
    BY TypeInit, ControlInit DEF IInv, Control
  <1>2. IInv /\ [Next]_vars => IInv'
    BY TypeNext, ControlNext DEF IInv, Control
  <1>3. QED
    BY <1>1, <1>2, PTL DEF Spec

(* Every variable keeps its type; in particular the host is never owed     *)
(* less than nothing, and the message never outgrows the flash buffer.     *)
THEOREM TypeCorrect == Spec => []TypeOK
  BY Invariance, PTL DEF IInv

(* Every command is answered or waits on a screen for the user.            *)
THEOREM NoCommandIsLost == Spec => []NoCommandLost
  <1>1. IInv => NoCommandLost
    BY DEF IInv, LoopInv, NoCommandLost, Serving, Decisions, TypeOK
  <1>2. QED
    BY <1>1, Invariance, PTL

(* What is under review is what was sent, parsed and will be signed.       *)
THEOREM ReviewStaysCurrent == Spec => []ReviewIsCurrent
  <1>1. IInv => ReviewIsCurrent
    <2> SUFFICES ASSUME IInv, screen = "review" PROVE ReviewIsCurrent
      BY DEF ReviewIsCurrent
    <2>1. Serving
      BY DEF IInv, LoopInv, Serving, TypeOK
    <2>2. tx \in {NoReply, Status("EXCEPTION")}
      BY DEF IInv, LoopInv, TypeOK
    <2>3. SentAfter(tx) = SentAfter(NoReply)
      BY <2>2 DEF SentAfter, TooSmall, Status, NoReply
    <2>4. QED
      BY <2>1, <2>3 DEF IInv, MessageInv, ReviewIsCurrent
  <1>2. QED
    BY <1>1, Invariance, PTL

(* A signature covers exactly the message sent and shown.                  *)
THEOREM SignaturesCoverSent == Spec => []SignatureCoversSent
  <1>1. IInv => SignatureCoversSent
    BY DEF IInv, MessageInv
  <1>2. QED
    BY <1>1, Invariance, PTL

(* An address reply belongs to the command that asked for it.              *)
THEOREM AddressesAreRequested == Spec => []AddressIsRequested
  <1>1. IInv => AddressIsRequested
    BY DEF IInv, AddressInv, AnswersGetAddr, AddressIsRequested
  <1>2. QED
    BY <1>1, Invariance, PTL

(* An open session keeps its path.                                         *)
THEOREM SessionsKeepPath == Spec => []SessionKeepsPath
  <1>1. IInv => SessionKeepsPath
    BY DEF IInv, SessionInv, Serving, SessionKeepsPath
  <1>2. QED
    BY <1>1, Invariance, PTL

(* A handler runs only when nothing is on the screen, and makes no reply   *)
(* itself: the loop sends it.                                              *)
LEMMA HandlersKeepQuiet == IInv /\ Handle => screen = "idle" /\ reply' = reply
  <1>1. ASSUME IInv, NEW c \in Commands, Receive(c)
        PROVE  screen = "idle" /\ reply' = reply
    BY <1>1, HandlerFrame
  <1>2. ASSUME Handle PROVE \E c \in Commands : Receive(c)
    BY <1>2 DEF Handle, Refuse, GetVersion, GetAddr, SignInit, SignAdd, SignLast, Commands
  <1>3. QED
    BY <1>1, <1>2

(* Nothing the user has on the screen changes before the decision.         *)
THEOREM DecisionsAreStable == Spec => DecisionIsStable
  <1> DEFINE Still == screen' = screen /\ screen \in Decisions
                        => /\ UNCHANGED <<expert, hdPath, hrp, log, parsed>>
                           /\ screen = "address" => UNCHANGED apdu
  <1>1. IInv /\ [Next]_vars => Still
    <2> SUFFICES ASSUME IInv, [Next]_vars, screen' = screen, screen \in Decisions
                 PROVE  /\ UNCHANGED <<expert, hdPath, hrp, log, parsed>>
                        /\ screen = "address" => UNCHANGED apdu
      OBVIOUS
    <2>1. screen # "idle"
      BY DEF Decisions
    <2>2. ~ (\E c \in Commands : HostSend(c))
      BY <2>1 DEF HostSend, IInv, LoopInv
    <2>3. ~ Handle
      BY <2>1, HandlersKeepQuiet
    <2>4. CASE User
      <3>1. SignThrows
        BY <2>1, <2>4 DEF User, ToggleExpert, AcceptAddress, AcceptSign, RejectSign,
                          AcceptError, Decide
      <3>2. QED
        BY <3>1 DEF SignThrows
    <2>5. ~ Restart
      BY <2>1 DEF Restart
    <2>6. CASE Exchange
      BY <2>6 DEF Exchange, globals
    <2>7. CASE UNCHANGED vars
      BY <2>7 DEF vars, globals
    <2>8. QED
      BY <2>2, <2>3, <2>4, <2>5, <2>6, <2>7 DEF Next
  <1>2. QED
    BY <1>1, Invariance, PTL DEF Spec, DecisionIsStable

(* Signatures and confirmed addresses leave by the user's choice only.     *)
THEOREM ConsentIsNeeded == Spec => OnlyWithConsent
  <1> DEFINE Consented ==
        reply' # reply =>
          /\ reply'.kind = "signature" => screen = "review" /\ screen' = "idle"
          /\ reply'.kind = "address" /\ served.confirm
               => screen = "address" /\ screen' = "idle"
  <1>1. IInv /\ [Next]_vars => Consented
    <2> SUFFICES ASSUME IInv, [Next]_vars, reply' # reply PROVE Consented
      OBVIOUS
    <2>1. ASSUME NEW c \in Commands, HostSend(c) PROVE Consented
      BY <2>1 DEF HostSend, NoReply
    <2>2. CASE Exchange
      BY <2>2 DEF Exchange, Deliver, transport, IInv, MessageInv, AddressInv
    <2>3. ~ Handle
      BY HandlersKeepQuiet
    <2>4. CASE ToggleExpert
      BY <2>4 DEF ToggleExpert, transport
    <2>5. CASE AcceptAddress
      BY <2>5 DEF AcceptAddress, Decide, Deliver, IInv, AddressInv, AnswersGetAddr
    <2>6. CASE AcceptSign
      BY <2>6 DEF AcceptSign, Decide, Deliver, Signature, Status
    <2>7. CASE RejectSign \/ AcceptError
      BY <2>7 DEF RejectSign, AcceptError, Decide, Deliver, Status
    <2>8. CASE Restart \/ SignThrows
      BY <2>8 DEF Restart, SignThrows, transport, NoReply
    <2>9. CASE UNCHANGED vars
      BY <2>9 DEF vars, transport
    <2>10. QED
      BY <2>1, <2>2, <2>3, <2>4, <2>5, <2>6, <2>7, <2>8, <2>9 DEF Next, User
  <1>2. QED
    BY <1>1, Invariance, PTL DEF Spec, OnlyWithConsent
=============================================================================
