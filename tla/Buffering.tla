----------------------------- MODULE Buffering ------------------------------
(***************************************************************************)
(* The transaction buffer of deps/ledger-zxlib/src/buffering.c: messages   *)
(* start in a small RAM buffer and spill into a larger flash buffer when   *)
(* the RAM one is full.  A reset moves positions and flags only, so cells  *)
(* keep the bytes of earlier messages.                                     *)
(***************************************************************************)
EXTENDS Integers, Sequences

CONSTANTS
  Byte,        \* the values of a buffer cell
  Zero,        \* the byte a fresh RAM cell holds (.bss)
  RamSize,     \* RAM_BUFFER_SIZE
  FlashSize,   \* FLASH_BUFFER_SIZE
  Chunks       \* the payloads buffering_append may be called with

ASSUME BufferingAssumption ==
  /\ RamSize \in Nat
  /\ FlashSize \in Nat
  /\ RamSize <= FlashSize
  /\ Zero \in Byte
  /\ Chunks \subseteq Seq(Byte)

VARIABLES
  ram,    \* buffer_state_t ram
  flash,  \* buffer_state_t flash
  added   \* the value returned by the last buffering_append

vars == <<ram, flash, added>>

Cells(size) == 0 .. size - 1

State(size) == [data : [Cells(size) -> Byte], pos : 0 .. size, in_use : BOOLEAN]

TypeOK == /\ ram \in State(RamSize)
          /\ flash \in State(FlashSize)
          /\ added \in Nat

-----------------------------------------------------------------------------
(* Pure operators on a buffer_state_t. *)

Room(buf, size) == size - buf.pos

\* MEMCPY of data at the buffer's position, and pos += length.
Copied(buf, data) ==
  [i \in DOMAIN buf.data |-> IF i \in buf.pos .. buf.pos + Len(data) - 1
                             THEN data[i - buf.pos + 1]
                             ELSE buf.data[i]]

Written(buf, data) ==
  [data |-> Copied(buf, data), pos |-> buf.pos + Len(data), in_use |-> buf.in_use]

\* The bytes of a buffer below its position.
Prefix(buf) == [i \in 1 .. buf.pos |-> buf.data[i - 1]]

Emptied(buf, used) == [data |-> buf.data, pos |-> 0, in_use |-> used]

\* buffering_get_buffer: the buffer in use, and the message it holds.
Active == IF ram.in_use THEN ram ELSE flash
Contents == Prefix(Active)

-----------------------------------------------------------------------------
\* RAM is zeroed when the application starts, flash holds what an earlier
\* run left there; tx_initialize sets positions and flags.
Init ==
  /\ ram = [data |-> [i \in Cells(RamSize) |-> Zero], pos |-> 0, in_use |-> TRUE]
  /\ \E cells \in [Cells(FlashSize) -> Byte] :
       flash = [data |-> cells, pos |-> 0, in_use |-> FALSE]
  /\ added = 0

\* buffering_init (with the same two arrays every time) and buffering_reset.
Reset ==
  /\ ram' = Emptied(ram, TRUE)
  /\ flash' = Emptied(flash, FALSE)
  /\ UNCHANGED added

AppendToRam(data) ==
  /\ ram.in_use
  /\ Room(ram, RamSize) >= Len(data)
  /\ ram' = Written(ram, data)
  /\ added' = Len(data)
  /\ UNCHANGED flash

\* Mutant: the room test of the flash branch is off by one.
FlashAfterOneTooMany(buf, data) ==
  IF Room(buf, FlashSize) + 1 >= Len(data) THEN Written(buf, data) ELSE buf

\* The else branch: data goes to a flash buffer that is already in use.
FlashAfter(buf, data) ==
  IF Room(buf, FlashSize) >= Len(data) THEN Written(buf, data) ELSE buf

AppendToFlash(data) ==
  /\ ~ram.in_use
  /\ flash' = FlashAfter(flash, data)
  /\ added' = IF Room(flash, FlashSize) >= Len(data) THEN Len(data) ELSE 0
  /\ UNCHANGED ram

\* Mutant: the spill forgets the bytes that are already in RAM.
SpilledEmpty == [flash EXCEPT !.in_use = TRUE]

\* The two recursive calls of buffering_append when RAM is too small: the
\* RAM contents go to flash first (their result is not looked at), then data.
Spilled == FlashAfter([flash EXCEPT !.in_use = TRUE],
                      IF ram.pos > 0 THEN Prefix(ram) ELSE <<>>)

\* Mutant: the spill leaves the RAM position where it was.
SpillKeepingPosition(data) ==
  /\ ram.in_use
  /\ Room(ram, RamSize) < Len(data)
  /\ flash' = FlashAfter(Spilled, data)
  /\ added' = IF Room(Spilled, FlashSize) >= Len(data) THEN Len(data) ELSE 0
  /\ ram' = [ram EXCEPT !.in_use = FALSE]

SpillToFlash(data) ==
  /\ ram.in_use
  /\ Room(ram, RamSize) < Len(data)
  /\ flash' = FlashAfter(Spilled, data)
  /\ added' = IF Room(Spilled, FlashSize) >= Len(data) THEN Len(data) ELSE 0
  /\ ram' = Emptied(ram, FALSE)

AppendChunk(data) == AppendToRam(data) \/ SpillToFlash(data) \/ AppendToFlash(data)

\* A restart of the application (power loss, Quit): RAM is fresh, flash keeps
\* its cells, and when an append was under way any prefix of its flash writes.
Restart ==
  /\ ram' = [data |-> [i \in Cells(RamSize) |-> Zero], pos |-> 0, in_use |-> TRUE]
  /\ added' = 0
  /\ \/ flash' = Emptied(flash, FALSE)
     \/ \E data \in Chunks, n \in Cells(FlashSize) :
          LET target == IF ram.in_use THEN FlashAfter(Spilled, data)
                                      ELSE FlashAfter(flash, data)
          IN  /\ ram.in_use => Room(ram, RamSize) < Len(data)
              /\ flash' = [data |-> [i \in Cells(FlashSize) |->
                                       IF i < n THEN target.data[i] ELSE flash.data[i]],
                           pos |-> 0, in_use |-> FALSE]

Next == \/ Reset
        \/ \E data \in Chunks : AppendChunk(data)
        \/ Restart

Spec == Init /\ [][Next]_vars

-----------------------------------------------------------------------------
(* Exactly one buffer is in use and the other one holds no message, so     *)
(* that buffering_get_buffer never hands out half of a message.            *)
OneBuffer ==
  /\ ram.in_use # flash.in_use
  /\ ram.in_use => flash.pos = 0
  /\ flash.in_use => ram.pos = 0

BufferInv == TypeOK /\ OneBuffer

(* Every append is taken whole or refused with the message so far intact,  *)
(* wherever the bytes live and whenever the spill happens: this buffer     *)
(* implements MessageLog with the larger of its two capacities.            *)
Log == INSTANCE MessageLog WITH log <- Contents, Capacity <- FlashSize
ImplementsLog == Log!Spec
=============================================================================
