-------------------------- MODULE BufferingProofs ---------------------------
(***************************************************************************)
(* Proofs about Buffering, for every buffer size and every set of chunks:  *)
(* the invariant that exactly one buffer is in use, and the refinement of  *)
(* MessageLog.                                                             *)
(***************************************************************************)
EXTENDS Buffering, SequenceTheorems, TLAPS

(* Copying data at the position of a buffer with room for it yields a      *)
(* buffer of the same size: MEMCPY stays inside the array.                 *)
LEMMA WrittenType ==
  ASSUME NEW size \in Nat, NEW buf \in State(size), NEW data \in Seq(Byte),
         Room(buf, size) >= Len(data)
  PROVE  /\ Written(buf, data) \in State(size)
         /\ Written(buf, data).pos = buf.pos + Len(data)
         /\ Written(buf, data).in_use = buf.in_use
  <1>1. buf.pos + Len(data) \in 0 .. size
    BY DEF State, Room
  <1>2. Copied(buf, data) \in [Cells(size) -> Byte]
    <2>1. DOMAIN buf.data = Cells(size)
      BY DEF State
    <2>2. ASSUME NEW i \in Cells(size)
          PROVE  (IF i \in buf.pos .. buf.pos + Len(data) - 1
                  THEN data[i - buf.pos + 1] ELSE buf.data[i]) \in Byte
      <3>1. CASE i \in buf.pos .. buf.pos + Len(data) - 1
        <4>1. i - buf.pos + 1 \in 1 .. Len(data)
          BY <3>1 DEF State, Cells
        <4>2. QED
          BY <3>1, <4>1
      <3>2. CASE i \notin buf.pos .. buf.pos + Len(data) - 1
        BY <3>2 DEF State
      <3>3. QED
        BY <3>1, <3>2
    <2>3. QED
      BY <2>1, <2>2 DEF Copied
  <1>3. QED
    BY <1>1, <1>2 DEF State, Written

(* The message of a buffer is a sequence of bytes as long as its position. *)
LEMMA PrefixType ==
  ASSUME NEW size \in Nat, NEW buf \in State(size)
  PROVE  /\ Prefix(buf) \in Seq(Byte)
         /\ Len(Prefix(buf)) = buf.pos
  <1>1. buf.pos \in Nat /\ \A i \in 1 .. buf.pos : buf.data[i - 1] \in Byte
    BY DEF State, Cells
  <1>2. QED
    BY <1>1 DEF Prefix

(* What an append adds to the message of a buffer is the data, whole.      *)
LEMMA PrefixOfWritten ==
  ASSUME NEW size \in Nat, NEW buf \in State(size), NEW data \in Seq(Byte),
         Room(buf, size) >= Len(data)
  PROVE  Prefix(Written(buf, data)) = Prefix(buf) \o data
  <1> DEFINE new == Written(buf, data)
  <1>1. new \in State(size) /\ new.pos = buf.pos + Len(data)
    BY WrittenType
  <1>2. Prefix(new) \in Seq(Byte) /\ Len(Prefix(new)) = buf.pos + Len(data)
    BY <1>1, PrefixType
  <1>3. Prefix(buf) \in Seq(Byte) /\ Len(Prefix(buf)) = buf.pos
    BY PrefixType
  <1>4. ASSUME NEW i \in 1 .. buf.pos + Len(data)
        PROVE  Prefix(new)[i] = (Prefix(buf) \o data)[i]
    <2>1. i - 1 \in DOMAIN buf.data /\ buf.pos \in Nat
      BY DEF State, Cells, Room
    <2>2. Prefix(new)[i] = Copied(buf, data)[i - 1]
      BY <1>1 DEF Prefix, Written
    <2>3. CASE i <= buf.pos
      <3>1. i - 1 \notin buf.pos .. buf.pos + Len(data) - 1
        BY <2>1, <2>3
      <3>2. Copied(buf, data)[i - 1] = buf.data[i - 1]
        BY <2>1, <3>1 DEF Copied
      <3>3. Prefix(buf)[i] = buf.data[i - 1]
        BY <2>1, <2>3 DEF Prefix
      <3>4. QED
        BY <1>3, <2>1, <2>2, <2>3, <3>2, <3>3
    <2>4. CASE i > buf.pos
      <3>1. i - 1 \in buf.pos .. buf.pos + Len(data) - 1
        BY <2>1, <2>4
      <3>2. Copied(buf, data)[i - 1] = data[i - 1 - buf.pos + 1]
        BY <2>1, <3>1 DEF Copied
      <3>3. i - 1 - buf.pos + 1 = i - buf.pos
        BY <2>1
      <3>4. QED
        BY <1>3, <2>1, <2>2, <2>4, <3>2, <3>3
    <2>5. i \in Int
      BY <2>1
    <2>6. i <= buf.pos \/ i > buf.pos
      BY <2>1, <2>5
    <2>7. QED
      BY <2>3, <2>4, <2>6
  <1>5. /\ Prefix(buf) \o data \in Seq(Byte)
        /\ Len(Prefix(buf) \o data) = buf.pos + Len(data)
    BY <1>3
  <1>6. QED
    BY <1>2, <1>4, <1>5, SeqEqual

(* The flash branch takes the data whole or leaves the buffer as it was.   *)
LEMMA FlashAfterSpec ==
  ASSUME NEW buf \in State(FlashSize), NEW data \in Seq(Byte)
  PROVE  /\ FlashAfter(buf, data) \in State(FlashSize)
         /\ FlashAfter(buf, data).in_use = buf.in_use
         /\ Room(buf, FlashSize) >= Len(data)
              => Prefix(FlashAfter(buf, data)) = Prefix(buf) \o data
         /\ ~(Room(buf, FlashSize) >= Len(data)) => FlashAfter(buf, data) = buf
  BY BufferingAssumption, WrittenType, PrefixOfWritten DEF FlashAfter

(* A spill moves the message of the RAM buffer to flash unchanged: the     *)
(* flash buffer is empty then, and at least as large.                      *)
LEMMA SpilledSpec ==
  ASSUME TypeOK, OneBuffer, ram.in_use
  PROVE  /\ Spilled \in State(FlashSize)
         /\ Spilled.in_use
         /\ Prefix(Spilled) = Prefix(ram)
         /\ Spilled.pos = ram.pos
  <1> DEFINE opened == [flash EXCEPT !.in_use = TRUE]
  <1> DEFINE held == IF ram.pos > 0 THEN Prefix(ram) ELSE <<>>
  <1>1. /\ opened \in State(FlashSize) /\ opened.in_use
        /\ opened.pos = 0 /\ flash.pos = 0
    BY DEF TypeOK, OneBuffer, State
  <1>2. /\ Prefix(ram) \in Seq(Byte) /\ Len(Prefix(ram)) = ram.pos
        /\ ram.pos \in 0 .. RamSize
    BY PrefixType, BufferingAssumption DEF TypeOK, State
  <1>3. /\ Prefix(opened) \in Seq(Byte) /\ Len(Prefix(opened)) = 0
    BY <1>1, PrefixType, BufferingAssumption
  <1>4. held \in Seq(Byte) /\ held = Prefix(ram)
    <2>1. CASE ram.pos > 0
      BY <2>1, <1>2
    <2>2. CASE ~(ram.pos > 0)
      <3>1. ram.pos = 0
        BY <1>2, <2>2, BufferingAssumption
      <3>2. Prefix(ram) = <<>>
        BY <1>2, <3>1
      <3>3. QED
        BY <2>2, <3>2, <1>2
    <2>3. QED
      BY <2>1, <2>2
  <1>5. Room(opened, FlashSize) >= Len(held)
    BY <1>1, <1>2, <1>4, BufferingAssumption DEF Room
  <1>6. Prefix(opened) \o held = held
    BY <1>3, <1>4, EmptySeq, ConcatEmptySeq
  <1>7. Spilled = FlashAfter(opened, held)
    BY DEF Spilled
  <1> HIDE DEF opened, held
  <1>8. /\ Spilled \in State(FlashSize) /\ Spilled.in_use
        /\ Prefix(Spilled) = Prefix(ram)
    BY <1>1, <1>4, <1>5, <1>6, <1>7, FlashAfterSpec
  <1>9. Spilled.pos = Len(Prefix(Spilled))
    BY <1>8, PrefixType, BufferingAssumption
  <1>10. QED
    BY <1>8, <1>9, <1>2

-----------------------------------------------------------------------------
(* Every reachable state of the buffers has its type: positions stay       *)
(* within the arrays; and exactly one buffer is in use, the other empty.   *)
LEMMA InitInv == Init => BufferInv
  BY BufferingAssumption DEF Init, BufferInv, TypeOK, OneBuffer, State, Cells

LEMMA RestartInv == BufferInv /\ Restart => BufferInv'
  <1> SUFFICES ASSUME BufferInv, Restart PROVE BufferInv'
    OBVIOUS
  <1> USE BufferingAssumption DEF BufferInv
  <1>1. ram' \in State(RamSize) /\ ram'.in_use /\ ram'.pos = 0
    BY DEF Restart, State, Cells
  <1>2. flash' \in State(FlashSize) /\ ~flash'.in_use /\ flash'.pos = 0
    <2>1. CASE flash' = Emptied(flash, FALSE)
      BY <2>1 DEF Emptied, State, TypeOK
    <2>2. ASSUME NEW data \in Chunks, NEW n \in Cells(FlashSize),
                 NEW target \in State(FlashSize),
                 flash' = [data |-> [i \in Cells(FlashSize) |->
                             IF i < n THEN target.data[i] ELSE flash.data[i]],
                           pos |-> 0, in_use |-> FALSE]
          PROVE  flash' \in State(FlashSize) /\ ~flash'.in_use /\ flash'.pos = 0
      <3>1. \A i \in Cells(FlashSize) :
              (IF i < n THEN target.data[i] ELSE flash.data[i]) \in Byte
        BY DEF State, TypeOK
      <3>2. QED
        BY <2>2, <3>1 DEF State
    <2>3. ASSUME NEW data \in Chunks, ram.in_use
          PROVE  FlashAfter(Spilled, data) \in State(FlashSize)
      BY <2>3, SpilledSpec, FlashAfterSpec
    <2>4. ASSUME NEW data \in Chunks
          PROVE  FlashAfter(flash, data) \in State(FlashSize)
      BY FlashAfterSpec DEF TypeOK
    <2>5. QED
      BY <2>1, <2>2, <2>3, <2>4 DEF Restart
  <1>3. added' \in Nat
    BY DEF Restart
  <1>4. QED
    BY <1>1, <1>2, <1>3 DEF TypeOK, OneBuffer

LEMMA NextInv == BufferInv /\ [Next]_vars => BufferInv'
  <1> SUFFICES ASSUME BufferInv, [Next]_vars PROVE BufferInv'
    OBVIOUS
  <1> USE BufferingAssumption DEF BufferInv
  <1>1. CASE Reset
    BY <1>1 DEF Reset, Emptied, TypeOK, OneBuffer, State
  <1>2. ASSUME NEW data \in Chunks, AppendToRam(data) PROVE BufferInv'
    <2>1. data \in Seq(Byte) /\ Len(data) \in Nat
      OBVIOUS
    <2>2. ram' \in State(RamSize) /\ ram'.in_use = ram.in_use
      BY <1>2, <2>1, WrittenType DEF AppendToRam, TypeOK
    <2>3. QED
      BY <1>2, <2>1, <2>2 DEF AppendToRam, TypeOK, OneBuffer
  <1>3. ASSUME NEW data \in Chunks, SpillToFlash(data) PROVE BufferInv'
    <2>1. data \in Seq(Byte) /\ Len(data) \in Nat
      OBVIOUS
    <2>2. flash' \in State(FlashSize) /\ flash'.in_use
      BY <1>3, <2>1, SpilledSpec, FlashAfterSpec DEF SpillToFlash
    <2>3. ram' \in State(RamSize) /\ ~ram'.in_use /\ ram'.pos = 0
      BY <1>3 DEF SpillToFlash, Emptied, TypeOK, State
    <2>4. QED
      BY <1>3, <2>1, <2>2, <2>3 DEF SpillToFlash, TypeOK, OneBuffer
  <1>4. ASSUME NEW data \in Chunks, AppendToFlash(data) PROVE BufferInv'
    <2>1. data \in Seq(Byte) /\ Len(data) \in Nat
      OBVIOUS
    <2>2. flash' \in State(FlashSize) /\ flash'.in_use = flash.in_use
      BY <1>4, <2>1, FlashAfterSpec DEF AppendToFlash, TypeOK
    <2>3. QED
      BY <1>4, <2>1, <2>2 DEF AppendToFlash, TypeOK, OneBuffer
  <1>5. CASE Restart
    BY <1>5, RestartInv
  <1>6. CASE UNCHANGED vars
    BY <1>6 DEF vars, TypeOK, OneBuffer
  <1>7. QED
    BY <1>1, <1>2, <1>3, <1>4, <1>5, <1>6 DEF Next, AppendChunk

LEMMA Invariance == Spec => []BufferInv
  BY InitInv, NextInv, PTL DEF Spec

(* Positions never leave the arrays and every cell holds a byte.           *)
THEOREM TypeCorrect == Spec => []TypeOK
  BY Invariance, PTL DEF BufferInv

(* buffering_get_buffer always returns the one buffer that holds the       *)
(* message: the other one is unused and empty.                             *)
THEOREM OneBufferInUse == Spec => []OneBuffer
  BY Invariance, PTL DEF BufferInv

-----------------------------------------------------------------------------
(* The message of a well-formed buffer pair, and its length.               *)
LEMMA ContentsType ==
  ASSUME BufferInv
  PROVE  /\ Contents \in Seq(Byte)
         /\ Len(Contents) = Active.pos
  <1>1. CASE ram.in_use
    BY <1>1, PrefixType, BufferingAssumption
       DEF BufferInv, TypeOK, Contents, Active
  <1>2. CASE ~ram.in_use
    BY <1>2, PrefixType, BufferingAssumption
       DEF BufferInv, TypeOK, Contents, Active
  <1>3. QED
    BY <1>1, <1>2

(* A buffer whose position is zero holds the empty message.                *)
LEMMA EmptyPrefix ==
  ASSUME NEW buf, buf.pos = 0
  PROVE  Prefix(buf) = <<>>
  BY DEF Prefix

LEMMA RefineInit == Init => Log!Init
  <1> SUFFICES ASSUME Init PROVE Log!Init
    OBVIOUS
  <1>1. Contents = <<>>
    BY EmptyPrefix DEF Init, Contents, Active
  <1>2. QED
    BY <1>1 DEF Init, Log!Init

(* One append of the buffers is one append of the log, for each of the     *)
(* three ways the code takes.                                              *)
LEMMA RefineAppend ==
  ASSUME BufferInv, NEW data \in Chunks, AppendChunk(data)
  PROVE  Log!AppendChunk(data)
  <1> USE BufferingAssumption
  <1>1. data \in Seq(Byte) /\ Len(data) \in Nat
    OBVIOUS
  <1>2. Contents \in Seq(Byte) /\ Len(Contents) = Active.pos
    BY ContentsType
  <1>3. CASE AppendToRam(data)
    <2>1. ram \in State(RamSize) /\ Active = ram /\ ram.pos \in 0 .. RamSize
      BY <1>3 DEF AppendToRam, Active, BufferInv, TypeOK, State
    <2>2. Len(Contents) + Len(data) <= FlashSize
      BY <1>1, <1>2, <1>3, <2>1 DEF AppendToRam, Room
    <2>3. ram'.in_use = ram.in_use
      BY <1>1, <1>3, <2>1, WrittenType DEF AppendToRam
    <2>4. Contents' = Prefix(ram')
      BY <1>3, <2>3 DEF AppendToRam, Contents, Active
    <2>5. Contents' = Contents \o data
      BY <1>1, <1>3, <2>1, <2>4, PrefixOfWritten DEF AppendToRam, Contents
    <2>6. QED
      BY <1>3, <2>2, <2>5 DEF AppendToRam, Log!AppendChunk, Log!Fits
  <1>4. CASE SpillToFlash(data)
    <2>1. /\ Spilled \in State(FlashSize) /\ Spilled.in_use
          /\ Prefix(Spilled) = Prefix(ram) /\ Spilled.pos = ram.pos
      BY <1>4, SpilledSpec DEF SpillToFlash, BufferInv
    <2>2. Active = ram /\ Contents = Prefix(ram)
      BY <1>4 DEF SpillToFlash, Active, Contents
    <2>3. ~ram'.in_use
      BY <1>4 DEF SpillToFlash, Emptied
    <2>4. Contents' = Prefix(flash')
      BY <2>3 DEF Contents, Active
    <2>5. Room(Spilled, FlashSize) >= Len(data)
            <=> Len(Contents) + Len(data) <= FlashSize
      <3>1. ram.pos \in Nat
        BY DEF BufferInv, TypeOK, State
      <3>2. QED
        BY <1>1, <1>2, <2>1, <2>2, <3>1 DEF Room
    <2>6. CASE Room(Spilled, FlashSize) >= Len(data)
      <3>1. Contents' = Contents \o data
        BY <1>1, <1>4, <2>1, <2>2, <2>4, <2>6, FlashAfterSpec DEF SpillToFlash
      <3>2. QED
        BY <1>4, <2>5, <2>6, <3>1 DEF SpillToFlash, Log!AppendChunk, Log!Fits
    <2>7. CASE ~(Room(Spilled, FlashSize) >= Len(data))
      <3>1. Contents' = Contents
        BY <1>1, <1>4, <2>1, <2>2, <2>4, <2>7, FlashAfterSpec DEF SpillToFlash
      <3>2. QED
        BY <1>4, <2>5, <2>7, <3>1 DEF SpillToFlash, Log!AppendChunk, Log!Fits
    <2>8. QED
      BY <2>6, <2>7
  <1>5. CASE AppendToFlash(data)
    <2>1. flash \in State(FlashSize) /\ Active = flash /\ Contents = Prefix(flash)
      BY <1>5 DEF AppendToFlash, Active, Contents, BufferInv, TypeOK
    <2>2. Contents' = Prefix(flash')
      BY <1>5 DEF AppendToFlash, Contents, Active
    <2>3. Room(flash, FlashSize) >= Len(data)
            <=> Len(Contents) + Len(data) <= FlashSize
      <3>1. flash.pos \in Nat
        BY <2>1 DEF State
      <3>2. QED
        BY <1>1, <1>2, <2>1, <3>1 DEF Room
    <2>4. CASE Room(flash, FlashSize) >= Len(data)
      <3>1. Contents' = Contents \o data
        BY <1>1, <1>5, <2>1, <2>2, <2>4, FlashAfterSpec DEF AppendToFlash
      <3>2. QED
        BY <1>5, <2>3, <2>4, <3>1 DEF AppendToFlash, Log!AppendChunk, Log!Fits
    <2>5. CASE ~(Room(flash, FlashSize) >= Len(data))
      <3>1. Contents' = Contents
        BY <1>1, <1>5, <2>1, <2>2, <2>5, FlashAfterSpec DEF AppendToFlash
      <3>2. QED
        BY <1>5, <2>3, <2>5, <3>1 DEF AppendToFlash, Log!AppendChunk, Log!Fits
    <2>6. QED
      BY <2>4, <2>5
  <1>6. QED
    BY <1>3, <1>4, <1>5 DEF AppendChunk

LEMMA RefineNext ==
  BufferInv /\ [Next]_vars => [Log!Next]_<<Contents, added>>
  <1> SUFFICES ASSUME BufferInv, [Next]_vars
               PROVE  Log!Next \/ UNCHANGED <<Contents, added>>
    OBVIOUS
  <1>1. CASE Reset
    <2>1. Contents' = <<>>
      BY <1>1, EmptyPrefix DEF Reset, Emptied, Contents, Active
    <2>2. QED
      BY <1>1, <2>1 DEF Reset, Log!Next, Log!Reset
  <1>2. ASSUME NEW data \in Chunks, AppendChunk(data)
        PROVE  Log!Next
    BY <1>2, RefineAppend DEF Log!Next
  <1>3. CASE Restart
    <2>1. Contents' = <<>>
      BY <1>3, EmptyPrefix DEF Restart, Contents, Active
    <2>2. QED
      BY <1>3, <2>1 DEF Restart, Log!Next, Log!Restart
  <1>4. CASE UNCHANGED vars
    BY <1>4 DEF vars, Contents, Active, Prefix
  <1>5. QED
    BY <1>1, <1>2, <1>3, <1>4 DEF Next

(* The RAM-then-flash buffer implements the append-or-refuse log: a chunk  *)
(* that does not fit never damages the message already taken, and no byte  *)
(* is lost or doubled when the message moves to flash.                     *)
THEOREM Refinement == Spec => ImplementsLog
  BY RefineInit, RefineNext, Invariance, PTL DEF Spec, ImplementsLog, Log!Spec
=============================================================================
