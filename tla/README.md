# Verification of the THORChain Ledger application

This directory holds TLA+ models of the application in this repository (the
firmware under `app/` and the parts of `deps/ledger-zxlib/` it is built with),
the TLC configurations that check them on small instances, and TLAPS proofs
about them. Paths below are relative to the repository root.

- [The system](#the-system)
- [The modules](#the-modules)
- [The runs](#the-runs)
- [What is proved](#what-is-proved)
- [Disagreements found](#disagreements-found)
- [Only model-checked, and not modelled](#only-model-checked-and-not-modelled)
- [Plan](#plan)

## The system

The application runs on one thread inside the device. A host sends commands
(APDUs); the user sees screens and presses buttons; the application answers
with addresses and signatures. Nothing is preempted: `app_main` loops over
`io_exchange`, a handler runs to completion, and button callbacks run *inside*
`io_exchange` while it waits (`io_event`). What makes the system hard is the
order in which commands, decisions, failures and restarts come, because all of
them share a few globals.

| component | state | operations | interacts with |
|---|---|---|---|
| APDU loop (`app/src/common/app_main.c`, `app/src/apdu_handler.c`) | `tx`, `flags` of `app_main`; `G_io_apdu_buffer` | receive, dispatch, reply now or set `IO_ASYNCH_REPLY` | calls every other component; exceptions carry status words |
| Path and prefix (`extractHDPath`, `extractHRP`) | `hdPath`, `bech32_hrp` | set by GET_ADDR and by the first SIGN packet | read by address and signature |
| Actions (`app/src/common/actions.*`, `app/src/crypto.c`) | `action_addr_len`, bytes in `G_io_apdu_buffer` | fill address, reply address, sign, reply error | called by handlers and by button callbacks |
| Transaction buffer (`app/src/common/tx.c`, `deps/ledger-zxlib/src/buffering.c`) | `ram`, `flash` | init, reset, append | filled packet by packet, read by parser and signer |
| Parser (`parser.c`, `parser_impl.c`, `tx_parser.c`, `tx_validate.c`, `tx_display.c`, `json/`, jsmn) | `parser_tx_obj` (tokens, query, flags), `display_cache` | parse, validate, count and fetch items | reads the buffer in place; called by the handler once and by the review on every page |
| Review and screens (`deps/ledger-zxlib/app/common/view*.c`) | `viewdata`, `flow_inside_loop` (Nano X), the screen | show, page left and right, approve, reject, acknowledge | calls parser and actions |
| Expert mode (`app_mode.c`) | `app_mode.expert` | reset at start, toggle in the main menu | read by path checks, parser and review |
| Encoders (`bech32.c`, the parts of `segwit_addr.c` it uses) | none | pure | called by actions |

What makes each correct, in one line:

- **APDU loop**: each command is answered exactly once, or waits on a screen
  whose every exit answers it.
- **Path and prefix**: an address or a signature uses the path that was checked
  for it.
- **Actions**: what leaves is what was on the screen, after the user agreed.
- **Transaction buffer**: the message is the concatenation of the accepted
  chunks, whichever buffer holds it.
- **Parser**: the verdict and the items depend on the message only, and every
  item of the message is displayed.
- **Tokenizer and validation**: the tokens are those of the document; what is
  refused for its whitespace, its order of keys or a missing field is what the
  specification refuses.
- **Items**: the pages of an item, read one after the other, are the value or
  amount in the message.
- **Review**: every page is shown in order before the choice is offered, and a
  reader always gets to the choice.
- **Addresses**: the address decodes to the key it was made of, and is what the
  screen shows.
- **Expert mode**: it cannot change under an open decision.

Hard behaviours: packets in any order (a first packet in the middle of a
message, a last packet without a first one, a retry after an error); failed
packets that leave partial state behind; a decision that is answered much later
than its command, from buffers that other commands also use; spills from RAM to
flash; power loss at any time, in the middle of a flash write too; exceptions of
the OS in the middle of a button callback; bytes that an earlier message left
behind the end of a text; 8-bit counters of items and pages. `PROJECT.json` lists these hazards with their lines and
the properties that cover them.

## The modules

```
MessageLog <--INSTANCE-- Device <--EXTENDS-- MCDevice, DeviceProofs
     ^                      ^
     |                      +---INSTANCE-- Signing <-- MCSigning, SigningProofs
     |                                        |
     |   Layout <-- Review <--INSTANCE-- ReviewS <-- MCReviewS, ReviewSProofs
     |      ^          ^
     |      |          +------INSTANCE-- ReviewX <-- MCReviewX, ReviewXProofs
     |      +-- Paging <--EXTENDS-- ReviewS, ReviewX
     +-----INSTANCE----- Buffering <--EXTENDS-- MCBuffering, BufferingProofs

SigningProofs takes instances of DeviceProofs and ReviewSProofs, and
ReviewXProofs one of ReviewSProofs.

Jsmn <--EXTENDS-- TxValidate <-- MCTxValidate
                      |
Json <-- JsonParser <-+
             ^
             +-- TxItem <-- MCTxItem, TxItemProofs
             +-- TxParser <-- TxDisplay <-- MCTxDisplay, TxDisplayProofs

JsonProofs is about Jsmn and JsonParser; TxItemProofs and TxDisplayProofs
extend it (for them the variables of Jsmn are bystanders).

Address <-- MCAddress
```

**MessageLog** is the abstract transaction buffer: a sequence of at most
`Capacity` bytes; a chunk is appended whole or not at all; it is empty after a
reset and after a restart.

**Buffering** is `buffering.c`: two arrays with a position and a flag each.
`AppendToRam`, `SpillToFlash` and `AppendToFlash` are the three paths through
`buffering_append`, the two recursive calls included; `Reset` moves positions
and flags only, so cells keep old bytes. `Restart` gives fresh RAM and a flash
whose cells are those of the last run, with any prefix of an append that was
under way. It implements `MessageLog` through `Contents`, what
`buffering_get_buffer` hands out.

**Device** is the application between the host and the user. Its variables are
the transport (`inbox`, `owed`, `reply`), the state of `app_main` (`phase`,
`async`, `tx`), the globals (`apdu`, `hdPath`, `hrp`, `log`, `added`, `parsed`,
`expert`), the `screen`, and three history variables that only the properties
read: the command being served, the message as the host knows it from the
replies it got, and the path of the session that a first packet opened.
There is one action per command (`Refuse` for everything turned down before it
touches state, `GetVersion`, `GetAddr`, `SignInit`, `SignAdd`, `SignLast`), one
for the top of the loop (`Exchange`, which sends the reply unless
`IO_ASYNCH_REPLY` holds it back), one per decision (`AcceptAddress`,
`AcceptSign`, `RejectSign`, `AcceptError`), one for an exception of the OS inside
the callback of "Sign" (`SignThrows`: the review stays on the screen,
`IO_ASYNCH_REPLY` stays set and holds the error code back), and `ToggleExpert`, `HostSend`,
`Restart`. Data is reduced to what the properties tell apart: a path is five
words, a command that ends too early says where (`cut`), an address and a
signature are records of their inputs, and the parser's verdict on a message is
a constant (`Valid` and `Blank`, per mode). The key derivation of the OS
succeeds below the path the application is loaded with
(`app/Makefile`, `APPPATH`) and throws otherwise (`Derivable`). The host is half-duplex: it sends when nothing is
outstanding. That is an assumption on the transport below `io_exchange`, which is the SDK's; no handler
checks it. All that is said of `Device` and `Signing` about a screen that waits holds under it.

**Layout** names the pages of a transaction, **Review** says what a review
promises: pages are shown one at a time, and the choice is offered only when all
of them have been (or the user may skip them), never for a transaction
without pages.

**Paging** is the part of `view.c` both device families share, as operators on
the counters of `viewdata` (`uint8_t`, `Width` values): `Increase`, `Decrease`,
`Update` for `h_review_update_data`, `GetItem` for the checks `tx_getItem` and
`parser_getItem` make on item and page. **ReviewS** adds the screens and buttons
of the Nano S (`view_s.c`), **ReviewX** the six-step flow of the Nano X and S
Plus (`view_x.c`), with its loop between a start and an end step that is driven
by `flow_inside_loop`. In both one action is one press, and `Begin` starts a new
review on the counters the last one left. Both implement `Review`; `ReviewX` does
with `expert` mapped to `FALSE`, as its flow has no way to skip pages.

**Signing** is the device with its pages: `Device` and `ReviewS` as instances over
shared state, where an action is one of `Device`, one of `ReviewS`, or one of both
at once (a handler that opens a review, a choice that answers the host). It adds
the address flow, step by step, with what each step reads from `G_io_apdu_buffer`
and `hdPath` when the user gets there. It is where what was read meets what is
signed.

**Jsmn** is the tokenizer `jsmn.c` as it is built here (not strict, without links to
parents), over the transaction buffer: one action per kind of character in each of
its three loops, on any text. Behind the text lie bytes of earlier messages. What
nothing in this build reads is left out: sizes of tokens and `toksuper`.

**Json** has JSON documents, as sequences of their values and keys with depths,
and the tokens jsmn makes of their text. Places in the text are counted in
delimiters only, since the parser does nothing but compare them: they keep the
order of the text, and values that follow each other do not touch.
**JsonParser** is `json_parser.c`: it finds keys, values and elements by those
comparisons, without looking at the structure of the document. Its loops that
count and those that find the n-th are the same loop, and one operator gives all
they find as a sequence. **TxParser** is `tx_traverse_find` in the same way: the
sequence of all items a search with item index 0, 1, ... finds, each with the keys
on its path, under the limits on level and recursion. Where `array_get_nth_element` fails
because more elements were counted than there are, the search behaves as at
the end of the array.

**TxDisplay** is the state machine over them
(`tx_display.c`, and `parser_parse`, `parser_getNumItems` and `parser_getItem`
in `parser.c`): the parsed text, the cache and its flag, the mode, and what the
last call returned. One action is one call. It also holds the logic of
`docs/TXSPEC.md` as a definition of its own over the document, not over
tokens (`Display`, `Specified`), to which the calls are compared.

**TxValidate** is `tx_validate.c` over the tokens of `Jsmn` and the characters of the
buffer: gaps, `strcmp` of keys on text that ends with the buffer, and the fields of
the root. A message is a sequence of lexemes; the properties compare what the code
finds in the characters with what the lexemes are, as a document of `Json`.

**TxItem** is what one item shows: `parser_formatAmount` with `fpstr_to_str`, the
removal of zeros, the capitals and the sizes of its buffers; the substitutions of
`tx_getToken`; and `pageStringExt`, whose count of pages is a `uint8_t`. One action
is a parse, the one page that `parser_validate` asks for, or the next page of
the review. The amount is compared with a definition by digits and powers of ten
(`Denotes`) that knows nothing of paddings or zeros removed.

**Address** is the text of an address: `crypto_fillAddress`, `convert_bits`,
`bech32_encode` with its checksum on the numbers of the code, `bip32_to_str`, and
the lines of the address screen of both families of devices. It has the decoder of
`bech32.c` too, which the application does not call: the encoder is checked
against it.

Definitions whose comment begins with "Mutant:" are plausible bugs, used to see that each
property notices when the code is changed; no specification uses them.

## The runs

Every passing run checks deadlock freedom too: no state without a next step.

| run | shows | instance |
|---|---|---|
| `buffering` | type correctness (no write past a buffer), one buffer in use, refinement of `MessageLog` | RAM 2, flash 4, two byte values, chunks of 0 to 2 bytes |
| `device` | six invariants and two action properties, below | four paths, two prefixes, two chunks, capacity 2 |
| `signing` | the device with its pages, below | one path, one prefix, two chunks, reviews of 0, 1 and 3 items |
| `review_s`, `review_x` | reading in order, refinement of `Review`, a reader gets through | `uint8_t` with 5 values, 0 to 4 items of 1 to 2 (S) or 3 (X) pages |
| `review_x_all_shown` | a statement of a comment that the code does not keep | as above |
| `validate` | the tokenizer and the validation, below | 34 documents, some with whitespace at any one place, 16 texts that are no JSON, 10 tokens |
| `validate_no_spaces` | a statement of `docs/TXSPEC.md` that the code does not keep | as `validate` |
| `display` | the display, below | 38 documents, `uint8_t` with 9 values |
| `display_each_message` | a statement of `docs/TXSPEC.md` that the code does not keep | as `display` |
| `item` | amounts, values and their pages, below | amounts of up to 9 digits, values of up to 15 characters, lines of 4 and 5 |
| `address` | the address and its screen, below | 17 prefixes, two hashes, two paths, with the real sizes |

The properties of `device`:

- `NoCommandLost`: when the loop waits and holds no command, the host is owed a
  reply exactly if a decision is on the screen, exceptions in a callback included.
- `ReviewIsCurrent`: during a review the buffer holds the message that was
  parsed, which is the one sent, and the mode is the one it was parsed in.
- `SignatureCoversSent`: a signature covers the concatenation of the chunks since
  the first packet that the host was not told were too large.
- `AddressIsRequested`: an address reply belongs to its command.
- `SessionKeepsPath`: from an accepted first packet to the next packet with a
  path, keys come from that path.
- `DecisionIsStable`: nothing on the screen's account changes while it waits.
- `OnlyWithConsent`: a signature, or an address that needed confirmation, leaves
  in the step that closes the screen that asked.

The properties of `signing`:

- `ScreensAgree`: the screen that `Device` takes as one is what the pages make of
  it; no review fails halfway, none stays open behind a reply.
- `SignedAfterReading`: a signature covers a message all of whose pages were
  shown since its review began, or whose user may skip pages.
- `ConfirmedAddressWasRead`: what is confirmed and sent is what the steps
  showed, the path included where there is a step for it.
- `EveryCommandAnswered`: a user who in the end only reads on and chooses
  gets every command answered.

The properties of `validate`:

- `TokensNest`: tokens follow each other or lie in each other, at every
  character and for texts that are no JSON.
- `TokensAsDocument`: for JSON of any layout the tokens are those of the
  document, by types, words and everything `json_parser.c` compares of their places.
  This is what lets `display` start from documents.
- `WhitespaceFound`: a JSON text with whitespace is refused, unless all of it stands where the
  gaps do not reach (`Overlooked`); and one without any is not refused for whitespace, unless the byte that an earlier
  message left right behind it is a space. Neither exception is required: a code that looked at all
  gaps, or not behind the text, would keep the property.
- `KeysInOrder`: the comparison on the raw buffer tells the order of keys.
- `FieldsAtRoot`: what is accepted has its fields at the root, and an object that lacks
  some is refused for the first.

The properties of `display`:

- `CacheIsFresh`: a valid cache is that of the text that is parsed.
- `EveryIndexFinds`: every index below the reported count finds an item, for
  every document, counts that have wrapped included.
- `ShowsAsSpecified`: in a document that fits the counters and is plain, each
  index finds the item that `docs/TXSPEC.md` puts there, with its path.
- `LaterIndexLaterText`: a later index finds a later part of the text.

The properties of `item`:

- `AmountIsExact`: all pages of an amount of digits say that amount and its
  asset: in expert mode as it is, otherwise with the point at its place.
- `ValueIsComplete`: all pages of any other value are that value.
- `EveryPageShown`: what validation accepted by its first page is shown to its
  last one, and all pages agree how many there are.
- `OverrunOnlyAtLimit`: the check of the lengths before the formatting is enough
  for `bufferUI`, but for amounts shown with leading zeros and at the very limit.

The properties of `address`:

- `AddressDecodes`: the address decodes to prefix and hash; with one character
  misread or two exchanged it does not decode.
- `ScreenShowsReply`: the screen shows the address of the reply, at least the first 51 characters
  of it, and the path without a loss.

**Bounds.** `MCDevice` has a path for each outcome of the checks: one that just
passes (index 100), one just above the limit (refused outside expert mode only), one whose
fourth word is wrong but for which keys can be derived, and one for which they
cannot. With capacity 2 and chunks of one and two bytes, chunks fit, fill the
buffer exactly and are refused; the messages include one that parses but shows
nothing, one made of two chunks, and one that is valid in expert mode only.
`MCBuffering` has room for each of: append to RAM, exact fill, spill with and
without RAM contents, append to flash, refusal after a spill and later. The
review instances reach the largest count a `uint8_t` of `Width` values can hold,
where `itemCount` wraps, with all mixtures of one- and many-page items, and every
order of presses. `MCTxDisplay` has messages that are objects with and without
nested values, none, as many as fill the 8-bit counters exactly, one more, and
enough to wrap the field's count, the sum, or both; fees of every type; both kinds of
chain; and messages that are not plain: empty objects, arrays of scalars, arrays
deeper than `MAX_RECURSION_DEPTH` (which has its real value). `MCSigning` has a
message that is blank outside expert mode and has more items than can be counted
in it, and one whose pages are several in either mode; with 4 values the counters wrap at 3
items. `MCTxValidate` has keys that are prefixes of each other, equal, or with a
character before the quote; control characters; empty and nested values; escapes of both kinds; two kinds of bytes behind
the text and none; and one document with more tokens than there is room for.
`MCTxItem` has amounts of fewer, as many and more digits than decimals, all mixtures of
zeros up to four digits, sizes that exactly fit each buffer, and coins of every other shape;
the lengths of values pass every multiple of a line up to the largest count of pages.
`MCAddress` uses the real limits, and a prefix on each side of each of them;
hashes are two, since bits move through `convert_bits` in the same way whatever they are. No counter needs an artificial bound: all state is finite.

**Fairness.** `UserSpec` of `Signing` has weak fairness on `Exchange` and
`Handle`: the loop of `app_main` runs by itself, on one thread, and nothing can
disable it. The rest is not a claim about users but the premise of
`EveryCommandAnswered`: weak fairness on "right" in the review and in the address
flow, and strong fairness on the choice, which an exception of the OS interrupts, but
not for ever. The property itself says that from some point on the user does not
go back. `ReadingSpec` of the review modules has weak fairness on the right
button, the premise of `ReaderGetsThrough`: a user who from some point on only
presses right gets out of the pages. Both are stated for reviews whose count of items plus one fits its
counter (`Countable`); `review_x_all_shown` shows why.

## What is proved

The proofs hold for every value of the constants that satisfies the assumption
of the module: `BufferingAssumption` (sizes are natural numbers, RAM is not
larger than flash, as `tx.c` defines them on every device),
`PagingAssumption` (a width of at least two; items with at least one page, fewer
pages and fewer items than the width), `JsmnAssumption` (texts are sequences of
characters), `ItemAssumption` (a value of a document as `IsDocument` says, lines of at least one
character, no text in the transaction with more pages than a `uint8_t` counts: what fits the flash
buffer has no more on any device; and no digit, space or point among the small letters),
`DisplayAssumption` (documents are what validation lets through, `IsAccepted`: JSON, with a value behind
each key, whose root, at depth 0, is an object with the required fields in alphabetical order), `DeviceAssumption` (chunks are sequences of bytes, paths are five words,
`None` is neither a path nor a prefix) and `SigningAssumption` (both of its parts', and that a
valid message has a layout). Nothing is assumed of the parser's verdicts. `IsDocument` says of the
sequence of values that stands for a text that depth grows by one at most, behind an object or array only, and that keys
are words.

**BufferingProofs**

- `TypeCorrect`, `OneBufferInUse`: from the inductive invariant `BufferInv`,
  which is `TypeOK`, `OneBuffer` and the fact that the contents of a RAM buffer
  in use fit the flash buffer. Without `OneBuffer` the type invariant is not
  inductive: the spill writes the RAM contents at the position of the flash
  buffer, which is in range because that buffer is empty.
- `Refinement`: `Spec => ImplementsLog`. The lemmas on `Written` and `Prefix` say
  that the bytes below the position after a write are those before it followed
  by the data; the spill is two such writes.

**DeviceProofs**

All of its theorems rest on `IInv`, which adds to `TypeOK`:

- `LoopInv`, where loop, transport and screen can be together: a command is in
  the inbox, or being served with a reply ready, or on a screen, or none is out;
  or its error code is held back over a review that is still open, after an
  exception (`SignThrowsControl` has what such an exception leaves behind);
- `MessageInv`: the buffer is what the host will know it to be once the command
  at hand is answered (the reply that is still in `tx` decides that, which is
  why `SignatureCoversSent` is not inductive by itself);
- `AddressInv`: an address that waits in the APDU buffer or in `tx` answers the
  command at hand;
- `SessionInv`: `hdPath` is the path of the session that will be open then.

Each handler is treated in a lemma of its own through `HandlerControl`, which
says what is left to show of a handler: how it ends and what it leaves behind.
From `IInv` follow `TypeCorrect`, `NoCommandIsLost`, `ReviewStaysCurrent`,
`SignaturesCoverSent`, `AddressesAreRequested`, `SessionsKeepPath`, and the two action
properties `DecisionsAreStable` and `ConsentIsNeeded`.

**ReviewSProofs, ReviewXProofs**

- `ReviewSProofs` begins with the lemmas on the paging of `view.c`, which `ReviewXProofs` takes from an
  instance of it: `h_paging_decrease` stays on a page and adds nothing to what must have been read
  (`DecreaseGoesBack`), `h_paging_increase` adds its page alone and reaches the
  end from the last page only (`IncreaseSkipsNothing`), also when the count has
  wrapped to zero.
- `ReviewInv` (Nano S) and `FlowInv` (Nano X) say that while a page is on the
  screen the counters are settled on it and all pages up to it have been
  shown; `FlowInv` adds where the counters are on the other steps, because "Sign" can
  be left to the left. `ReadInOrder` is not inductive without the counts: the
  next press compares with the page count and the item count that the last update
  left. From them follow `TypeCorrect` (on the Nano X also that the flow index
  never leaves the flow), `ReadsInOrder` and `Refinement`, each for every
  transaction, wrapped counts included.

**SigningProofs**

- `ImplementsDevice`: every step of `Signing` is one of `Device` or leaves its variables alone, so what
  is proved of `Device` holds with pages and steps too. The lemmas `SameInit`,
  `SameNext` and `SamePages` say that the instances `Signing` is composed of are those the proofs of the parts are about.
- `ScreensAlwaysAgree`, `SignsWhatWasRead` and `ConfirmsWhatWasRead`, for all messages, layouts, paths and
  widths of the counters. The inductive invariant `SigningInv` is `IInv` of `DeviceProofs`, `ReviewInv` of
  `ReviewSProofs`, and `Agreement` between them: to the three properties it adds what a review
  offers (`Offered`: the choice comes after all pages, or to an expert) and what the steps of the address flow
  have read (`AddressRead`: the address is the one in `G_io_apdu_buffer`, the path that in `hdPath`,
  as they will be when the user confirms). `Device` alone cannot know that pages were read, and
  `ReviewS` alone not which message they are of; the two meet in one step per choice (`ChoiceAgrees`,
  `AcceptAddressAgrees`), in the handlers that open a screen, and at a restart.

**JsonProofs**

- `TokensAlwaysNest` and `TokensTyped`, for every text, malformed ones included, every
  rest of earlier messages and every number of tokens. `TokensNest` says nothing of
  the position, so a new token could lie anywhere: the invariant adds `Reading`, where all tokens
  lie before what the running loop has begun to read. A
  closing bracket closes the last open token (`LastOpen`), and that no token that is
  open lies behind it is what keeps the others nested.
- `ElementsAreInside`: in every document, the loop
  of `array_get_nth_element`, which compares where tokens start and end, finds exactly what is directly inside the
  array, in order. It follows from `Places`, which relates places in the text to the order and the nesting of
  values, and `Forward`, which unfolds a recursive function that goes on to larger numbers only.
- `KeysAreFields`: the same of the keys of an object and their values, if each key has one. The loop goes from a key to
  behind its value, so it takes two elements of the object at a time (`ElementsPair`), and `KeysChain`
  shows that the sequence of keys is the chain of these steps.
- `KeysOfObjects`, for `TxDisplay`: `tx_traverse_find` bounds its walk over an array by the number of keys that
  an object would have there. An array of objects with fields has no fewer such "keys" than elements. `StepsThrough`
  says where a chain of steps by two gets to, `KeyOfElement` names for each element a "key" of its own.

**TxItemProofs**

- `TypeCorrect`, `AcceptedIsShown` and `ReadsWhole`, for every item, mode and size of
  buffers and lines. The invariant is that the review holds the first pages of
  the item in order. Under it lie that nothing an item shows has more pages than
  can be counted (`GotIsText`, through the formatting of amounts), that the count
  therefore does not wrap (`CountExact`), that a page fits its line
  (`PageFits`), and that the pages joined are the text (`PagesJoin`).
- `DropZeros` chooses the character where a loop stops; that there is one
  (`KeptExists`) needs the least element of a set of numbers, which `Least` derives from the
  well-foundedness of finite sets, in place of an induction. The same
  argument unfolds the recursive function in `FlattenSeq` (`PartsJoin`).
- `ReadsExactly` (`AmountIsExact`) and `OverrunsAtLimit` (`OverrunOnlyAtLimit`), for every amount, number of
  decimals and size of buffers and lines. That a text of digits and a point says a number (`IsExact`) is said
  power by power, for all powers: it holds of a short number behind its zeros (`ShortIsExact`), of a long
  one with its point (`LongIsExact`), and is left by the removal of zeros (`DroppedIsExact`). The
  space before the asset is the only one, so the text can be cut there again (`SplitAtBlank`).
- Both need to know that the code looks at the right tokens. From `ElementsAreInside`
  follow that the coin shown is the first one (`CoinIsFirst`) and that the two words taken are those of its
  two fields (`CoinIsShown`).

**TxDisplayProofs**

- `TypeCorrect`: what `tx_indexRootFields` leaves in the cache are tokens, absent or not, and bytes.
- `CacheStaysFresh` and `IndicesFind`, for every document and width of the counters,
  wrapped counts included. `IndicesFind` follows the loop of
  `retrieve_tree_indexes`: after i steps it stands at the item with display
  index i or behind all items (`IsPlace`), by adding up the counts of the fields
  before it (`CountBefore`); that the recursive function of the loop exists at
  all is `LoopExists`. The counts of the cache are lengths of what the query then searches
  (`IndexCounts`), so a place within them is found, because every traversal ends (`ItemsEnd`).
- `ShownInOrder` (`LaterIndexLaterText`), for the same documents and widths. `FindIs` unfolds
  `tx_traverse_find` depth by depth, and `FoundInOrder` is one such step: if what is found below each key or element
  lies in the text in order, inside the value it is found below, so does all of it, since keys and elements lie
  one behind the other (`KeysAreFields`, `ElementsAreInside`) and `FlattenSeq` keeps that order (`FlattenInOrder`).
  Of the fields of the root the cache has the right tokens (`RootIsKey`), and they lie in the order the
  display asks for them (`RootsApart`), so a larger field is a later text; `IsPlace` says that a
  larger index is a larger field or a later item of the same one (`LaterToken`).
- `ShownAsSpecified` (`ShowsAsSpecified`), for every such document that `Fits` the counters and is `Plain`, as it is in
  the property. The search over tokens and the function `Display` over the document are unfolded one level
  at a time (`FindUnfolds`, `DisplayIs`) and compared from the inside out: words (`WordSame`), what is at
  most one level above the text, as the fee (`ShortSame`), a message (`MessageSame`), all messages, where `KeysOfObjects`
  is needed (`MessagesSame`), and with them each field of the root (`RootSame`). If counts fit, none of them has wrapped
  (`LengthsFit`), so the cache counts what is to be displayed (`CountsShown`, `CountIsAll`); and an item
  behind the items of the fields before it is the one with that index in their concatenation
  (`FlattenPlaced`, `SpecifiedPlaced`). The invariant `ResultInv` says that each result
  is that of a query on the index of the document that is parsed, in the mode of the moment (`SameQuery`, `SameCount`).

## Disagreements found

Each is shown by a run of its own that TLC refutes, and quoted with its lines
in `PROJECT.json`.

1. With 255 items the count wraps and the review cannot be finished, although
   validation accepted the transaction (`AllCanBeShown`). The token limit lets a Nano X
   or S Plus have that many items, a Nano S not.
2. `tx_traverse_find` counts the elements of an array as if it were an object,
   so a message that follows an empty object is neither counted nor displayed,
   but is part of what is signed (`EachMessageDisplayed`).
3. Whitespace is accepted behind a number and behind an opening bracket inside
   the document, because the gap before a token begins one byte behind the end of the
   token before it (`NoSpacesIncluded`).

Observations without a run of their own; the properties are stated so that they hold with them:

- A last packet is accepted without a first one and signed with whatever path
  `hdPath` holds (`app/src/common/app_main.c:139`; `docs/APDUSPEC.md:110` asks for a
  first one). A path is stored before it is checked, so one that was refused is what such
  a packet uses.
- The length check of `extractHDPath` (`app_main.c:94`) subtracts unsigned numbers and
  passes for a command that ends inside the prefix.
- On the Nano X the branch that leaves the pages to the left (`view_x.c:123`) tests an
  unsigned number for being negative.
- The last gap that `contains_whitespace` looks at (`tx_validate.c:57`) includes the byte behind the text. The
  buffer is not cleared, so a space that an earlier, longer message left there refuses a valid transaction, which
  `docs/TXSPEC.md:6` says must be accepted: the verdict on a message depends on what was sent before.
  `WhitespaceFound` says that only that byte does it.
- A GET_ADDR between the packets of a message overwrites `hdPath`, and the message is then signed with the path of that
  command, not with that of its first packet. `SessionKeepsPath` ends the session there.
- Keys that are equal, or that hold a character below the quote, compare by what
  follows them; a second root behind the first is accepted, and so is an array as root, whose
  odd elements are then taken for names. `TxDisplay` assumes an object as root.
- Of several coins only the first is shown; an empty array of coins takes the
  token behind it for a coin (`parser.c:71`); a coin that is a scalar shows "Empty"; the
  names of a coin's fields are not looked at.
- The "Worst case" in the comment on `bufferUI` (`parser.c:124`) leaves out leading zeros and the end of
  the string, so an amount of fewer digits than decimals with a very long asset does not fit although it passed the check.
  `OverrunOnlyAtLimit` says that these are the only cases.
- `parser_validate` cuts a value into pages of 39 characters: one of exactly 256 of them, which
  only the buffer of a Nano X or S Plus has room for, is refused, since its count is 0.
- A Nano S shows at most 51 characters of an address. Errors of bech32 are ignored: a
  prefix longer than 51 characters gets an answer without an address, although
  `docs/APDUSPEC.md:78` allows 83. A prefix ends at its first zero byte. A Nano X shows a space
  behind an address of 64 characters.
- `h_paging_decrease` of the Nano S says "jump to last page. update will cap this
  value", but `VIEW_ADDRESS_LAST_PAGE_DEFAULT` is 0 and nothing caps it: going back
  to the previous item shows its first page.
- `docs/TXSPEC.md` adds a level for each array; `tx_traverse_find` adds a level for objects only, so it enters the objects
  in an array at level 1, which the document shows as text. `Plain` leaves such documents out.

## Only model-checked, and not modelled

Liveness (`ReaderGetsThrough`, `EveryCommandAnswered`) is model-checked only: it
depends on fairness, which the proof system does not handle. So is what recursive
definitions compute for every text (`TokensAsDocument`, `WhitespaceFound`,
`KeysInOrder`, `FieldsAtRoot`): that needs
induction over the text, which the provers do not do; where a theorem needs a little induction over numbers,
it goes by the least number for which it would fail, and `Display` and the traversal, which both stop at level 2, are
unfolded level by level. `Address` works with bits and recursive operators, which
the provers do not have.

Not modelled, and why:

- How the verdict of validation depends on the message: `Device` and `Signing` take it as a
  parameter, whichever it is; `TxValidate` and `TxItem` are its two halves.
- Wording: `tx_display_make_friendly` and the substitution tables are parameters or left out.
- Sizes of tokens and `toksuper` in jsmn, which nothing in this build reads.
- `retrieve_tree_indexes` past the last field, where the code would read behind
  its arrays: the model has no field there, and `EveryIndexFinds` shows that no query gets there.
- Keys longer than the buffer they are collected in.
- `EXCEPTION_IO_RESET` and the events that `UX_WAIT` swallows: when they occur is decided in the
  SDK, which is not part of the repository. Callbacks run to their end or to an exception.
- The main menu and the layout of screens,
  which the SDK runs; on the Nano X also the way the SDK splits a long text over
  several screens of one step.
- A command that comes while a decision is on the screen (see `Device`).
- Cryptography: keys and hashes are given, signatures are records of their inputs.
- The segwit functions, `hexutils`, `bignum`, `sigutils` and `utf8`, which the application does not call.
- Tests, fuzzing, build files; `handle_generic_apdu`, which is not called.

## Plan

Done: the modules above with their runs and proofs. What is left, in this order:

1. The layouts of `Signing` from the items of `TxDisplay` and the pages of `TxItem`, in place
   of a parameter, on a few transactions.
2. `ReviewX` in the place of `ReviewS` in `Signing`.
3. The wording of `tx_display_make_friendly` and keys that are cut.
4. Proofs: `FieldsAtRoot` from `KeysAreFields`, once tokens and documents
   are related (`TokensAsDocument`).
