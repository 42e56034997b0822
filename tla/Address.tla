------------------------------- MODULE Address -------------------------------
(***************************************************************************)
(* From a GET_ADDR command to the texts the user and the host get: the     *)
(* address that crypto_fillAddress encodes with bech32.c and segwit_addr.c *)
(* for the prefix in the command, the path as bip32_to_str writes it, and  *)
(* what the lines of the address screen keep of either.  Characters are    *)
(* their codes.  The hash of the public key is given.                      *)
(***************************************************************************)
EXTENDS Integers, Sequences, SequencesExt, Bitwise

CONSTANTS
  Hrps,         \* the prefixes of commands, sequences of character codes
  Hashes,           \* hashes of public keys, sequences of bytes
  Paths,            \* paths that pass the checks of extractHDPath
  Mistakes          \* misread characters of an address, by place

VARIABLES
  target,       \* the device the application is built for
  command,      \* the prefix, hash and path of the last GET_ADDR
  reply,        \* its answer: a status, and the address if there is one
  step,         \* the step of the address flow that is shown, "none" before the first
  screen        \* what it shows of viewdata.addr

vars == <<target, command, reply, step, screen>>

NUL == 0
Separator == 49
Prime == 39
Slash == 47
Space == 32

MAX_BECH32_HRP_LEN == 83
CRYPTO_HASH_LEN == 20
\* What IO_APDU_BUFFER_SIZE leaves behind the status and the public key.
AddressRoom == 260 - 2 - 33

ASSUME AddressAssumption ==
  /\ \A prefix \in Hrps : prefix \in Seq(0 .. 255)
  /\ \A hash \in Hashes : hash \in Seq(0 .. 255) /\ Len(hash) = CRYPTO_HASH_LEN
  /\ \A path \in Paths : path \in Seq([hard : BOOLEAN, index : Nat])

-----------------------------------------------------------------------------
(* segwit_addr.c. *)

Generators == <<996825010, 642813549, 513874426, 1027748829, 705979059>>

\* The generators of the bits of b.
Feedback == [b \in 0 .. 31 |->
  FoldLeft(LAMBDA sum, n : IF (b \div 2^(n - 1)) % 2 = 1 THEN sum ^^ Generators[n] ELSE sum,
           0, <<1, 2, 3, 4, 5>>)]

\* Mutant: the bits that are shifted out are lost.
PolymodStepWithoutFeedback(pre) == (pre % 2^25) * 2^5

bech32_polymod_step(pre) == ((pre % 2^25) * 2^5) ^^ Feedback[pre \div 2^25]

\* The checksum, of 30 bits, after symbol i - 1 and those that follow it in s.
RECURSIVE PolymodFrom(_, _, _)
PolymodFrom(chk, i, s) ==
  IF chk < 2^30 /\ i \in DOMAIN s
  THEN PolymodFrom(bech32_polymod_step(chk) ^^ s[i], i + 1, s) ELSE chk

Polymod(s) == PolymodFrom(1, 1, s)

\* The symbols a prefix counts for: high bits, zero, low bits.
Expanded(hrp) ==
  [i \in DOMAIN hrp |-> hrp[i] \div 32] \o <<0>> \o [i \in DOMAIN hrp |-> hrp[i] % 32]

charset == <<113, 112, 122, 114, 121, 57, 120, 56, 103, 102, 50, 116, 118, 100, 119, 48,
             115, 51, 106, 110, 53, 52, 107, 104, 99, 101, 54, 109, 117, 97, 55, 108>>
Upper(c) == IF c \in 97 .. 122 THEN c - 32 ELSE c
charset_rev == [c \in ToSet(charset) \cup {Upper(charset[i]) : i \in DOMAIN charset} |->
                  CHOOSE v \in 0 .. 31 : c \in {charset[v + 1], Upper(charset[v + 1])}]

Printable(c) == c \in 33 .. 126
Small(c) == c \in 97 .. 122
Capital(c) == c \in 65 .. 90

\* The text for a prefix and symbols; nothing is written when it returns 0.
bech32_encode(hrp, data) ==
  LET sum == Polymod(Expanded(hrp) \o data \o <<0, 0, 0, 0, 0, 0>>) ^^ 1
      check == [i \in 1 .. 6 |-> (sum \div 2^(5 * (6 - i))) % 32]
      symbols == data \o check
  IN  IF \/ \E i \in DOMAIN hrp : ~Printable(hrp[i]) \/ Capital(hrp[i])
         \/ Len(hrp) + 7 + Len(data) > 90
      THEN <<>>
      ELSE hrp \o <<Separator>> \o [i \in DOMAIN symbols |-> charset[symbols[i] + 1]]

NotDecoded == [hrp |-> <<>>, data |-> <<>>]

\* What it takes a text for.
bech32_decode(input) ==
  LET ones == {0} \cup {i \in DOMAIN input : input[i] = Separator}
      last == CHOOSE i \in ones : \A j \in ones : j <= i
      hrp == [i \in 1 .. last - 1 |-> IF Capital(input[i]) THEN input[i] + 32 ELSE input[i]]
      rest == SubSeq(input, last + 1, Len(input))
      symbols == [i \in DOMAIN rest |-> charset_rev[rest[i]]]
  IN  IF /\ Len(input) \in 8 .. 90 /\ last > 1 /\ Len(rest) >= 6
         /\ \A i \in DOMAIN hrp : Printable(hrp[i])
         /\ ToSet(rest) \subseteq DOMAIN charset_rev
         /\ ~\E i, j \in DOMAIN input : Small(input[i]) /\ Capital(input[j])
         /\ Polymod(Expanded(hrp) \o symbols) = 1
      THEN [hrp |-> hrp, data |-> SubSeq(symbols, 1, Len(symbols) - 6)]
      ELSE NotDecoded

\* Numbers of inBits bits as numbers of outBits bits, zeros added at the end.
\* val has 32 bits in the code, of which only those that are not written yet
\* are looked at.
convert_bits(in, inBits, outBits) ==
  LET sum == FoldLeft(LAMBDA s, v :
               LET val == s.val * 2^inBits + v
                   bits == s.bits + inBits
                   n == bits \div outBits
               IN  [val |-> val % 2^(bits % outBits), bits |-> bits % outBits,
                    out |-> s.out \o [k \in 1 .. n |->
                              (val \div 2^(bits - k * outBits)) % 2^outBits]],
               [val |-> 0, bits |-> 0, out |-> <<>>], in)
  IN  IF sum.bits > 0 THEN Append(sum.out, sum.val * 2^(outBits - sum.bits)) ELSE sum.out

-----------------------------------------------------------------------------
\* The first n characters of a text, or all of them.
UpTo(s, n) == IF Len(s) <= n THEN s ELSE SubSeq(s, 1, n)

\* bech32EncodeFromBytes; its caller does not look at what it returns.
bech32EncodeFromBytes(room, hrp, in) ==
  IF room < Len(hrp) + 2 * Len(in) + 7 THEN <<>>
  ELSE bech32_encode(hrp, convert_bits(in, 8, 5))

\* What bech32_hrp holds for a prefix: a string ends at its first zero.
AsString(s) ==
  LET ends == {i \in DOMAIN s : s[i] = NUL}
  IN  IF ends = {} THEN s
      ELSE SubSeq(s, 1, (CHOOSE i \in ends : \A j \in ends : i <= j) - 1)

\* crypto_fillAddress, as a table for the commands there are.
crypto_fillAddress == [hrp \in {AsString(prefix) : prefix \in Hrps}, hash \in Hashes |->
  bech32EncodeFromBytes(AddressRoom, hrp, hash)]

Refused == [status |-> "DATA_INVALID", text |-> <<>>]

\* extractHRP and what follows it.
Answer(c) ==
  IF Len(c.prefix) \notin 1 .. MAX_BECH32_HRP_LEN THEN Refused
  ELSE [status |-> "OK", text |-> crypto_fillAddress[AsString(c.prefix), c.hash]]

Digits[n \in Nat] ==
  IF n < 10 THEN <<48 + n>> ELSE Append(Digits[n \div 10], 48 + (n % 10))

bip32_to_str(path) ==
  FlattenSeq([i \in DOMAIN path |->
    Digits[path[i].index] \o (IF path[i].hard THEN <<Prime>> ELSE <<>>)
    \o (IF i = Len(path) THEN <<>> ELSE <<Slash>>)])

\* view_internal.h: the lines that lie under viewdata.addr.
MAX_CHARS_PER_KEY_LINE == IF target = "S" THEN 33 ELSE 64
MAX_CHARS_PER_VALUE_LINE == 18
MAX_CHARS_PER_VALUE1_LINE == IF target = "S" THEN 2 * MAX_CHARS_PER_VALUE_LINE + 1 ELSE 4096
MAX_CHARS_ADDR == MAX_CHARS_PER_KEY_LINE + MAX_CHARS_PER_VALUE1_LINE

\* Mutant: the value is taken to begin where the address does.
SplitFromStart(s) ==
  IF target = "S" /\ Len(s) > 2 * MAX_CHARS_PER_VALUE_LINE
  THEN SubSeq(s, 1, 2 * MAX_CHARS_PER_VALUE_LINE) ELSE s

\* The value is what lies behind the key line.  A Nano S cuts it at its
\* second line, the others put a space into one that is empty.
splitValueField(s) ==
  IF target = "S"
  THEN UpTo(s, MAX_CHARS_PER_KEY_LINE + MAX_CHARS_PER_VALUE_LINE)
  ELSE IF Len(s) = MAX_CHARS_PER_KEY_LINE THEN Append(s, Space) ELSE s

\* view_printAddr, view_printPath.
PrintText(s) == screen' = splitValueField(UpTo(s, MAX_CHARS_ADDR - 1))

-----------------------------------------------------------------------------
NoCommand == [prefix |-> <<>>, hash |-> <<>>, path |-> <<>>]

Init ==
  /\ target \in {"S", "X"}
  /\ command = NoCommand /\ reply = Refused /\ step = "none" /\ screen = <<>>

GetAddr ==
  /\ command' \in [prefix : Hrps, hash : Hashes, path : Paths]
  /\ reply' = Answer(command')
  /\ step' = "none" /\ screen' = <<>>
  /\ UNCHANGED target

ShowAddress ==
  /\ reply.status = "OK"
  /\ PrintText(reply.text)
  /\ step' = "address"
  /\ UNCHANGED <<target, command, reply>>

\* In expert mode.
ShowPath ==
  /\ step # "none"
  /\ PrintText(bip32_to_str(command.path))
  /\ step' = "path"
  /\ UNCHANGED <<target, command, reply>>

Next == GetAddr \/ ShowAddress \/ ShowPath

Spec == Init /\ [][Next]_vars

-----------------------------------------------------------------------------
\* The bits of numbers of a width.
Bits(s, width) ==
  FlattenSeq([i \in DOMAIN s |-> [k \in 1 .. width |-> (s[i] \div 2^(width - k)) % 2]])

\* The texts with a mistake: a character misread, or in the place of the one
\* behind it.
Mistaken(s) ==
  LET misread == {m \in Mistakes : m.place + 1 \in DOMAIN s}
  IN  ({[s EXCEPT ![m.place] = m.char] : m \in misread}
       \cup {[s EXCEPT ![m.place] = s[m.place + 1], ![m.place + 1] = s[m.place]] : m \in misread})
      \ {s}

\* What a text with its separators and primes says.
PathRead(s) ==
  FoldLeft(LAMBDA p, c :
             CASE c = Slash -> Append(p, [hard |-> FALSE, index |-> 0])
               [] c = Prime -> [p EXCEPT ![Len(p)].hard = TRUE]
               [] OTHER -> [p EXCEPT ![Len(p)].index = 10 * @ + (c - 48)],
           <<[hard |-> FALSE, index |-> 0]>>, s)

(* A decoder takes the address for the prefix and the hash it was made     *)
(* of, and refuses it when a character is misread or two are exchanged.    *)
(* A prefix that bech32 does not allow, or that makes it longer than 90    *)
(* characters, gets an answer without an address.                          *)
AddressDecodes ==
  LET hrp == AsString(command.prefix)
      decoded == bech32_decode(reply.text)
  IN  step = "none" /\ reply.status = "OK" /\ hrp # <<>> =>
        IF /\ \A i \in DOMAIN hrp : Printable(hrp[i]) /\ ~Capital(hrp[i])
           /\ Len(hrp) + 1 + (8 * CRYPTO_HASH_LEN) \div 5 + 6 <= 90
        THEN /\ decoded.hrp = hrp
             /\ Bits(decoded.data, 5) = Bits(command.hash, 8)
             /\ \A s \in Mistaken(reply.text) : bech32_decode(s) = NotDecoded
        ELSE reply.text = <<>>

(* What the user reads is what the host gets: the address, of which a Nano *)
(* S may cut what is behind 51 characters, and the others may put a space  *)
(* behind one that fills the key line; and the path, whatever its indices  *)
(* are.                                                                    *)
ScreenShowsReply ==
  /\ step = "address" =>
       IF target = "S"
       THEN IsPrefix(screen, reply.text) /\ UpTo(screen, 51) = UpTo(reply.text, 51)
       ELSE \/ screen = reply.text
            \/ Len(reply.text) = 64 /\ screen = Append(reply.text, Space)
  /\ step = "path" => PathRead(screen) = command.path
=============================================================================
