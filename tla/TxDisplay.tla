----------------------------- MODULE TxDisplay ------------------------------
(***************************************************************************)
(* What the application shows of a transaction: tx_display.c over the      *)
(* tokens of its document, with the cache of where the fields of the root  *)
(* are and how many items each has, and the logic of docs/TXSPEC.md that   *)
(* it is to follow.                                                        *)
(***************************************************************************)
EXTENDS TxParser

CONSTANTS
  Width,            \* 2^8, the number of values of a uint8_t
  Docs,             \* a sequence of documents that tx_validate accepts
  DefaultChains     \* the words that begin with DEFAULT_CHAINID_PREFIX

\* The fields that tx_validate requires of the root, in alphabetical order.
Required == <<"account_number", "chain_id", "fee", "memo", "msgs", "sequence">>

\* JSON whose root is an object with these fields, in this order.
IsAccepted(d) ==
  LET fields == Fields(d, 1)
      key(n) == d[fields[n][1]].word
  IN  /\ d # <<>> /\ IsDocument(d) /\ d[1].type = "object" /\ d[1].depth = 0
      /\ \A i \in DOMAIN d : d[i].type = "object" => Len(Inside(d, i)) % 2 = 0
      /\ \A r \in DOMAIN Required : \E n \in DOMAIN fields : key(n) = Required[r]
      /\ \A r, s \in DOMAIN Required : \A m, n \in DOMAIN fields :
           r < s /\ key(m) = Required[r] /\ key(n) = Required[s] => m < n

ASSUME DisplayAssumption ==
  /\ Width \in Nat \ {0, 1}
  /\ Docs \in Seq(Seq([depth : Nat, type : Types, word : STRING]))
  /\ \A n \in DOMAIN Docs : IsAccepted(Docs[n])

VARIABLES
  text,         \* the text that was parsed, by its place in Docs; 0 after an error
  cacheValid,   \* parser_tx_obj.flags.cache_valid
  cache,        \* display_cache
  expert,       \* app_mode_expert()
  result        \* what the last call for this text and mode returned

vars == <<text, cacheValid, cache, expert, result>>

\* get_required_root_item and get_root_max_level; root_item_e counts from 0.
NUM_REQUIRED_ROOT_PAGES == 6
Roots == 0 .. NUM_REQUIRED_ROOT_PAGES - 1

\* Mutant: the sequence comes before the messages.
RequiredRootItemMsgsLast ==
  <<"account_number", "chain_id", "fee", "memo", "sequence", "msgs">>

RequiredRootItem == <<"account_number", "chain_id", "fee", "memo", "msgs", "sequence">>
Name(root) == RequiredRootItem[root + 1]
RootMaxLevel(root) ==
  CASE Name(root) = "fee" -> 1 [] Name(root) = "msgs" -> 2 [] OTHER -> 0

\* A number of items of each field, summed up.
SumOfRoots(count) == count[0] + count[1] + count[2] + count[3] + count[4] + count[5]

ROOT_TOKEN_INDEX == 0
Absent == -1

EmptyCache ==
  [start |-> [r \in Roots |-> Absent], total |-> 0,
   subitems |-> [r \in Roots |-> 0], otherChain |-> FALSE]

None == [call |-> "none"]

\* parser_tx_obj.json for each text.
Parsed == [d \in DOMAIN Docs |-> Tokens(Docs[d])]
json == Parsed[text]
doc == Docs[text]

Init ==
  /\ text = 0 /\ cacheValid = FALSE /\ cache = EmptyCache
  /\ expert \in BOOLEAN /\ result = None

-----------------------------------------------------------------------------
\* The first value of a field of the root.
RootStart(tokens, root) ==
  LET value == ValueNamed(tokens, ROOT_TOKEN_INDEX, Name(root))
  IN  IF value = NoValue THEN Absent ELSE value

\* All items that can be found in a field; an empty memo has none.
RootItems(tokens, root) ==
  LET start == RootStart(tokens, root)
      items == TraverseFind(tokens, start, RootMaxLevel(root))
  IN  IF start = Absent THEN <<>>
      ELSE IF Name(root) = "memo" /\ tokens[items[1].token].word = "" THEN <<>>
      ELSE items

\* Mutant: the counts are wider than the display indices.
IndexWithWideCounts(tokens) ==
  LET subitems == [r \in Roots |-> Len(RootItems(tokens, r))]
  IN  [start |-> [r \in Roots |-> RootStart(tokens, r)],
       subitems |-> subitems,
       total |-> SumOfRoots(subitems),
       otherChain |-> tokens[RootStart(tokens, 1)].word \notin DefaultChains]

\* tx_indexRootFields on a cache that is not valid, which ends with
\* calculate_is_default_chainid.
Index(tokens) ==
  LET subitems == [r \in Roots |-> Len(RootItems(tokens, r)) % Width]
  IN  [start |-> [r \in Roots |-> RootStart(tokens, r)],
       subitems |-> subitems,
       total |-> SumOfRoots(subitems),
       otherChain |-> tokens[RootStart(tokens, 1)].word \notin DefaultChains]

\* The cache that a call works with.
CacheAfter(c) == IF cacheValid THEN c ELSE Index(json)

\* get_subitem_count, with tx_is_expert_mode.
SubitemCount(c, root) ==
  IF c.total = 0 THEN 0
  ELSE IF Name(root) \in {"memo", "msgs"} \/ expert \/ c.otherChain THEN c.subitems[root]
  ELSE 0

\* tx_display_numItems.
NumItems(c) == SumOfRoots([r \in Roots |-> SubitemCount(c, r)]) % Width

\* The next field that is shown, from root on.
NextShown(c, root) ==
  LET shown == {r \in Roots : r >= root /\ SubitemCount(c, r) # 0}
  IN  IF shown = {} THEN Absent ELSE Min(shown)

\* Mutant: the last item of a field is followed by one more.
NextPlaceOnePast(c, place) ==
  LET root == place[1]
      sub == (place[2] + 1) % Width
  IN  IF root = Absent THEN place
      ELSE IF sub > SubitemCount(c, root) THEN <<NextShown(c, root + 1), 0>>
      ELSE <<root, sub>>

\* One turn of the loop: the next item of the field, or the first of the next
\* field.  Past the last field the code would read on behind its arrays; that
\* is Absent here.
NextPlace(c, place) ==
  LET root == place[1]
      sub == (place[2] + 1) % Width
  IN  IF root = Absent THEN place
      ELSE IF sub >= SubitemCount(c, root) THEN <<NextShown(c, root + 1), 0>>
      ELSE <<root, sub>>

\* retrieve_tree_indexes: the field and the item in it, by display index.
RetrieveTreeIndexes(c, index) ==
  LET at[i \in 0 .. index] ==
        IF i = 0 THEN <<NextShown(c, 0), 0>> ELSE NextPlace(c, at[i - 1])
  IN  at[index]

\* What tx_display_query finds: an item, or an error.
Query(c, index) ==
  LET place == RetrieveTreeIndexes(c, index)
      items == TraverseFind(json, c.start[place[1]], RootMaxLevel(place[1]))
  IN  IF index >= NumItems(c) THEN [err |-> "out_of_range"]
      ELSE IF place[1] = Absent \/ c.start[place[1]] = Absent THEN [err |-> "no_data"]
      ELSE IF place[2] + 1 > Len(items) THEN [err |-> "no_results"]
      ELSE [err |-> "ok",
            item |-> [items[place[2] + 1] EXCEPT !.path = <<Name(place[1])>> \o @]]

-----------------------------------------------------------------------------
\* Mutant: a new document leaves the cache of the old one valid.
ReadTxKeepingCache(d) ==
  /\ text' = d
  /\ result' = None
  /\ UNCHANGED <<cacheValid, cache, expert>>

\* parser_parse of a text that jsmn accepts: tx_display_readTx, _readTx.
ReadTx(d) ==
  /\ text' = d
  /\ cacheValid' = FALSE
  /\ result' = None
  /\ UNCHANGED <<cache, expert>>

\* parser_parse of any other text: an empty one is refused by parser_init and
\* leaves everything; otherwise json_parse clears the tokens, and _readTx
\* returns before it resets the flag.
ReadTxFails ==
  /\ text' \in {text, 0}
  /\ result' = None
  /\ UNCHANGED <<cacheValid, cache, expert>>

\* Every call begins with tx_indexRootFields.
UseCache ==
  /\ text # 0
  /\ cache' = CacheAfter(cache)
  /\ cacheValid' = TRUE
  /\ UNCHANGED <<text, expert>>

GetNumItems ==
  /\ UseCache
  /\ result' = [call |-> "numItems", count |-> NumItems(CacheAfter(cache))]

\* parser_getItem up to the item; what it shows of it is its layout.
GetItem(index) ==
  /\ UseCache
  /\ result' = [call |-> "getItem", index |-> index,
                found |-> Query(CacheAfter(cache), index)]

ToggleExpert ==
  /\ expert' = ~expert
  /\ result' = None
  /\ UNCHANGED <<text, cacheValid, cache>>

Next == \/ \E d \in DOMAIN Docs : ReadTx(d)
        \/ ReadTxFails
        \/ GetNumItems
        \/ \E index \in 0 .. Width - 1 : GetItem(index)
        \/ ToggleExpert

Spec == Init /\ [][Next]_vars

-----------------------------------------------------------------------------
(* What docs/TXSPEC.md says is displayed: the fields of the root in order, *)
(* the messages by its function display(json, level), which shows what it  *)
(* finds at level 2 as text.  An empty memo has no page, the fee is shown  *)
(* part by part, and all but memo and messages only in expert mode or for  *)
(* another chain.                                                          *)

FieldValue(d, name) ==
  LET fields == Fields(d, 1)
      first == Min({n \in DOMAIN fields : d[fields[n][1]].word = name})
  IN  fields[first][2]

\* What is displayed of a value, by what is of those inside it.
Displayed(d, display, i, level) ==
  LET fields == Fields(d, i)
      elements == Inside(d, i)
  IN  IF level = 2 \/ IsScalar(d[i].type) THEN <<Item(i - 1, <<>>)>>
      ELSE IF d[i].type = "object"
      THEN FlattenSeq([n \in DOMAIN fields |->
             Under(d[fields[n][1]].word, display[fields[n][2]][level + 1])])
      ELSE FlattenSeq([n \in DOMAIN elements |-> display[elements[n]][level + 1]])

Display(d, value, level) ==
  LET display[i \in DOMAIN d] == [l \in 0 .. 2 |-> Displayed(d, display, i, l)]
  IN  display[value][level]

SpecifiedItems(d, name) ==
  LET value == FieldValue(d, name)
      msgs == Inside(d, value)
  IN  CASE name = "msgs" -> FlattenSeq([n \in DOMAIN msgs |-> Display(d, msgs[n], 0)])
        [] name = "fee" -> Display(d, value, 1)
        [] name = "memo" /\ d[value].word = "" -> <<>>
        [] OTHER -> Display(d, value, 2)

IsShown(d, name) ==
  \/ name \in {"memo", "msgs"} \/ expert
  \/ d[FieldValue(d, "chain_id")].word \notin DefaultChains

Specified(d) ==
  FlattenSeq([n \in DOMAIN RequiredRootItem |->
    LET name == RequiredRootItem[n]
    IN  IF IsShown(d, name) THEN Under(name, SpecifiedItems(d, name)) ELSE <<>>])

\* All the items that the specification has for a document, shown in this
\* mode or not, fit the indices.
Fits(d) ==
  SumOfRoots([r \in Roots |-> Len(SpecifiedItems(d, RequiredRootItem[r + 1]))]) < Width

\* The messages are objects with fields, and no other array that is entered
\* has more than a single scalar: then the two ways to count the elements of
\* an array agree, and so do the levels.
Plain(d) ==
  LET msgs == FieldValue(d, "msgs")
  IN  /\ d[msgs].type = "array"
      /\ \A i \in DOMAIN d : d[i].depth = 2 /\ i \in msgs .. LastInside(d, msgs) =>
           d[i].type = "object" /\ LastInside(d, i) > i
      /\ \A i \in DOMAIN d \ {msgs} : d[i].type = "array" /\ d[i].depth \in {1, 3} =>
           /\ LastInside(d, i) <= i + 1
           /\ LastInside(d, i) = i + 1 => IsScalar(d[i + 1].type)

-----------------------------------------------------------------------------
TypeOK ==
  /\ text \in 0 .. Len(Docs)
  /\ cacheValid \in BOOLEAN /\ expert \in BOOLEAN
  /\ cache.total \in Nat /\ cache.otherChain \in BOOLEAN
  /\ cache.subitems \in [Roots -> 0 .. Width - 1]
  /\ \A r \in Roots : cache.start[r] \in Nat \cup {Absent}
  /\ result.call \in {"none", "numItems", "getItem"}

(* The cache never outlives its document: a review of one transaction does *)
(* not use where the fields of an earlier one were, whatever was parsed,   *)
(* refused or shown in between.                                            *)
CacheIsFresh ==
  cacheValid /\ text # 0 => cache = Index(json)

(* Every index below the count that was reported finds an item, also when  *)
(* counts have wrapped or arrays are counted wrong: parser_validate never  *)
(* fails on the display, and the review never stops halfway.               *)
EveryIndexFinds ==
  result.call = "getItem" =>
    result.found.err = IF result.index < NumItems(cache) THEN "ok" ELSE "out_of_range"

(* What is shown is what docs/TXSPEC.md says: the item at every index, and *)
(* how many there are.                                                     *)
ShowsAsSpecified ==
  text # 0 /\ Fits(doc) /\ Plain(doc) =>
    LET specified == Specified(doc)
    IN  /\ result.call = "numItems" => result.count = Len(specified)
        /\ result.call = "getItem" /\ result.index < Len(specified) =>
             result.found = [err |-> "ok", item |-> specified[result.index + 1]]

(* In the accepted documents, whose keys are in order, a later index shows *)
(* a later part of the text: nothing is shown twice.                       *)
LaterIndexLaterText ==
  [][/\ result.call = "getItem" /\ result'.call = "getItem"
     /\ result.found.err = "ok" /\ result'.found.err = "ok"
     => (result.index < result'.index
           <=> result.found.item.token < result'.found.item.token)]_vars

-----------------------------------------------------------------------------
(* What a document says and the code does not keep. *)

(* docs/TXSPEC.md: the messages are iterated through and each displayed.   *)
EachMessageDisplayed ==
  text # 0 /\ Fits(doc) =>
    LET msgs == FieldValue(doc, "msgs")
        shown == RootItems(json, 4)
    IN  \A i \in DOMAIN doc :
          /\ doc[msgs].type = "array" /\ doc[i].depth = 2 /\ i \in msgs .. LastInside(doc, msgs)
          /\ Display(doc, i, 0) # <<>>
          => \E n \in DOMAIN shown : shown[n].token + 1 \in i .. LastInside(doc, i)
=============================================================================
