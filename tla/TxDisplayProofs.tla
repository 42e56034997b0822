--------------------------- MODULE TxDisplayProofs --------------------------
(***************************************************************************)
(* Proofs about TxDisplay: the cache is that of the document, every        *)
(* display index below the count finds an item, and a later index a later  *)
(* part of the text, for all documents and widths of the counters, counts  *)
(* that have wrapped included.  The search for an index goes by the counts *)
(* of the cache, and these are lengths of what it then searches.  What a   *)
(* traversal finds lies in the order of the text, inside the value it      *)
(* starts from; the fields of the root lie one behind the other.           *)
(*                                                                         *)
(* And what is shown is what docs/TXSPEC.md has displayed, where counts    *)
(* fit their indices and arrays are plain: the traversal of the tokens and *)
(* the function display agree on each field, level by level, and the       *)
(* display indices number the items as the fields follow each other.       *)
(***************************************************************************)
EXTENDS TxDisplay, JsonProofs

\* The items that are shown of the fields before root, and of all.
CountBefore(c, root) ==
  (IF root > 0 THEN SubitemCount(c, 0) ELSE 0) + (IF root > 1 THEN SubitemCount(c, 1) ELSE 0)
  + (IF root > 2 THEN SubitemCount(c, 2) ELSE 0) + (IF root > 3 THEN SubitemCount(c, 3) ELSE 0)
  + (IF root > 4 THEN SubitemCount(c, 4) ELSE 0) + (IF root > 5 THEN SubitemCount(c, 5) ELSE 0)
CountAll(c) == CountBefore(c, NUM_REQUIRED_ROOT_PAGES)

\* The place is that of the item with display index i, or behind all items.
IsPlace(c, i, place) ==
  \/ /\ place[1] \in Roots /\ place[2] \in Nat /\ place[2] < SubitemCount(c, place[1])
     /\ CountBefore(c, place[1]) + place[2] = i
  \/ place[1] = Absent /\ CountAll(c) <= i

\* The counts of a cache are bytes.
IsCounted(c) == \A r \in Roots : SubitemCount(c, r) \in 0 .. Width - 1

\* Display indices belong to a cache that is that of the document.
IInv ==
  /\ text \in DOMAIN Docs \cup {0}
  /\ CacheIsFresh
  /\ EveryIndexFinds

-----------------------------------------------------------------------------
LEMMA RootNumbers == Roots = 0 .. 5 /\ NUM_REQUIRED_ROOT_PAGES = 6 /\ Absent \notin Roots
BY DEF Roots, NUM_REQUIRED_ROOT_PAGES, Absent

\* Fields are stepped over only if nothing is shown of them.
LEMMA NextShownIsNext ==
  ASSUME NEW c, NEW root \in Nat
  PROVE  \/ /\ NextShown(c, root) = Absent
            /\ \A r \in Roots : r >= root => SubitemCount(c, r) = 0
         \/ /\ NextShown(c, root) \in Roots /\ NextShown(c, root) >= root
            /\ SubitemCount(c, NextShown(c, root)) # 0
            /\ \A r \in Roots : r >= root /\ r < NextShown(c, root) => SubitemCount(c, r) = 0
<1> DEFINE shown == {r \in Roots : r >= root /\ SubitemCount(c, r) # 0}
<1>1. CASE shown = {}
  BY <1>1 DEF NextShown
<1>2. CASE shown # {}
  <2>1. shown \subseteq Nat
    BY RootNumbers
  <2>2. \E x \in shown : \A y \in shown : x <= y
    <3> HIDE DEF shown
    <3> QED BY <1>2, <2>1, Least
  <2>3. Min(shown) \in shown /\ \A y \in shown : Min(shown) <= y
    <3> HIDE DEF shown
    <3> QED BY <2>2 DEF Min
  <2>4. NextShown(c, root) = Min(shown)
    BY <1>2 DEF NextShown
  <2> QED BY <2>3, <2>4, RootNumbers
<1> QED BY <1>1, <1>2

LEMMA CountsBefore ==
  ASSUME NEW c, IsCounted(c), NEW root \in 0 .. 6
  PROVE  /\ CountBefore(c, root) \in Nat
         /\ root \in Roots =>
              CountBefore(c, root + 1) = CountBefore(c, root) + SubitemCount(c, root)
<1>1. \A r \in 0 .. 5 : SubitemCount(c, r) \in Nat
  BY RootNumbers DEF IsCounted
<1>2. root \in {0, 1, 2, 3, 4, 5, 6}
  OBVIOUS
<1> QED BY <1>1, <1>2, RootNumbers DEF CountBefore

\* Nothing is counted of the fields that are stepped over.
LEMMA SteppedOver ==
  ASSUME NEW c, IsCounted(c), NEW root \in 0 .. 6, NEW next \in 0 .. 6, next >= root,
         \A r \in Roots : r >= root /\ r < next => SubitemCount(c, r) = 0
  PROVE  CountBefore(c, next) = CountBefore(c, root)
<1>1. \A r \in 0 .. 5 : SubitemCount(c, r) \in Nat
  BY RootNumbers DEF IsCounted
<1>2. \A r \in 0 .. 5 : r >= root /\ r < next => SubitemCount(c, r) = 0
  BY RootNumbers
<1>3. root \in {0, 1, 2, 3, 4, 5, 6} /\ next \in {0, 1, 2, 3, 4, 5, 6}
  OBVIOUS
<1> QED BY <1>1, <1>2, <1>3 DEF CountBefore

\* The first item shown from a field on.
LEMMA FirstFrom ==
  ASSUME NEW c, IsCounted(c), NEW root \in 0 .. 6
  PROVE  IsPlace(c, CountBefore(c, root), <<NextShown(c, root), 0>>)
<1> DEFINE next == NextShown(c, root)
<1>1. CASE next = Absent
  <2>1. \A r \in Roots : r >= root => SubitemCount(c, r) = 0
    BY <1>1, NextShownIsNext, RootNumbers
  <2>2. CountAll(c) = CountBefore(c, root)
    BY <2>1, SteppedOver, RootNumbers DEF CountAll
  <2> QED BY <1>1, <2>2, CountsBefore DEF IsPlace
<1>2. CASE next # Absent
  <2>1. /\ next \in Roots /\ next >= root /\ SubitemCount(c, next) # 0
        /\ \A r \in Roots : r >= root /\ r < next => SubitemCount(c, r) = 0
    BY <1>2, NextShownIsNext
  <2>2. CountBefore(c, next) = CountBefore(c, root) /\ CountBefore(c, root) \in Nat
    BY <2>1, SteppedOver, CountsBefore, RootNumbers
  <2>3. SubitemCount(c, next) > 0
    BY <2>1 DEF IsCounted
  <2> HIDE DEF next
  <2>4. <<next, 0>>[1] = next /\ <<next, 0>>[2] = 0
    OBVIOUS
  <2> QED BY <2>1, <2>2, <2>3, <2>4 DEF IsPlace, next
<1> QED BY <1>1, <1>2

\* One turn of the loop leads to the place of the next index.
LEMMA NextIsPlace ==
  ASSUME NEW c, IsCounted(c), NEW i \in Nat, NEW place, IsPlace(c, i, place)
  PROVE  IsPlace(c, i + 1, NextPlace(c, place))
<1> DEFINE root == place[1]
           sub == place[2]
<1>1. CASE root = Absent
  <2>1. CountAll(c) <= i /\ CountAll(c) \in Nat
    BY <1>1, CountsBefore, RootNumbers DEF IsPlace, CountAll
  <2> QED BY <1>1, <2>1 DEF IsPlace, NextPlace
<1>2. CASE root # Absent
  <2>1. /\ root \in Roots /\ sub \in Nat /\ sub < SubitemCount(c, root)
        /\ CountBefore(c, root) + sub = i
    BY <1>2 DEF IsPlace
  <2>2. SubitemCount(c, root) \in 0 .. Width - 1 /\ Width \in Nat \ {0, 1}
    BY <2>1, DisplayAssumption DEF IsCounted
  <2> HIDE DEF root, sub
  <2>3. (sub + 1) % Width = sub + 1
    BY <2>1, <2>2
  <2>4. CASE sub + 1 >= SubitemCount(c, root)
    <3>1. NextPlace(c, place) = <<NextShown(c, root + 1), 0>>
      BY <1>2, <2>3, <2>4 DEF NextPlace, root, sub
    <3>2. CountBefore(c, root + 1) = i + 1 /\ root + 1 \in 0 .. 6
      BY <2>1, <2>2, <2>4, CountsBefore, RootNumbers
    <3> QED BY <3>1, <3>2, FirstFrom
  <2>5. CASE sub + 1 < SubitemCount(c, root)
    <3>1. NextPlace(c, place) = <<root, sub + 1>>
      <4>1. ~(sub + 1 >= SubitemCount(c, root))
        BY <2>1, <2>2, <2>5
      <4> QED BY <1>2, <2>3, <4>1, Zenon DEF NextPlace, root, sub
    <3>2. CountBefore(c, root) \in Nat
      BY <2>1, CountsBefore, RootNumbers
    <3>3. <<root, sub + 1>>[1] = root /\ <<root, sub + 1>>[2] = sub + 1
      OBVIOUS
    <3> QED BY <2>1, <2>5, <3>1, <3>2, <3>3 DEF IsPlace
  <2> QED BY <2>1, <2>2, <2>4, <2>5
<1> QED BY <1>1, <1>2

\* The loop has a result: the recursive function of retrieve_tree_indexes
\* exists, by the least index up to which it would not.
LEMMA LoopExists ==
  ASSUME NEW c, NEW index \in Nat
  PROVE  \E f : f = [i \in 0 .. index |->
                       IF i = 0 THEN <<NextShown(c, 0), 0>> ELSE NextPlace(c, f[i - 1])]
<1> DEFINE Runs(n, f) == f = [i \in 0 .. n |->
                                IF i = 0 THEN <<NextShown(c, 0), 0>> ELSE NextPlace(c, f[i - 1])]
           Endless == {n \in Nat : ~\E f : Runs(n, f)}
<1>1. CASE Endless = {}
  BY <1>1
<1>2. CASE Endless # {}
  <2>1. PICK n \in Endless : \A m \in Endless : n <= m
    <3>1. Endless \subseteq Nat
      OBVIOUS
    <3> HIDE DEF Endless
    <3> QED BY <1>2, <3>1, Least
  <2>2. CASE n = 0
    <3>1. Runs(0, [i \in 0 .. 0 |-> <<NextShown(c, 0), 0>>])
      OBVIOUS
    <3> QED BY <2>1, <2>2, <3>1
  <2>3. CASE n # 0
    <3>1. n - 1 \in Nat /\ n - 1 \notin Endless
      <4>1. n \in Nat
        BY <2>1
      <4>2. n - 1 \in Nat /\ ~(n <= n - 1)
        BY <2>3, <4>1
      <4> HIDE DEF Endless
      <4> QED BY <2>1, <4>2
    <3>2. PICK f : Runs(n - 1, f)
      BY <3>1
    <3> DEFINE g == [i \in 0 .. n |-> IF i = n THEN NextPlace(c, f[n - 1]) ELSE f[i]]
    <3>3. \A i \in 0 .. n :
            g[i] = IF i = 0 THEN <<NextShown(c, 0), 0>> ELSE NextPlace(c, g[i - 1])
      <4> TAKE i \in 0 .. n
      <4>1. CASE i = n
        <5>1. g[n] = NextPlace(c, f[n - 1]) /\ g[n - 1] = f[n - 1]
          BY <3>1
        <5> QED BY <2>3, <4>1, <5>1
      <4>2. CASE i # n
        <5>1. i \in 0 .. n - 1
          BY <3>1, <4>2
        <5>2. g[i] = f[i] /\ (i # 0 => g[i - 1] = f[i - 1])
          BY <3>1, <4>2
        <5>3. f[i] = IF i = 0 THEN <<NextShown(c, 0), 0>> ELSE NextPlace(c, f[i - 1])
          BY <3>2, <5>1
        <5> QED BY <5>2, <5>3
      <4> QED BY <4>1, <4>2
    <3>4. Runs(n, g)
      <4>1. g = [i \in 0 .. n |-> g[i]]
        OBVIOUS
      <4> HIDE DEF g
      <4> QED BY <3>3, <4>1
    <3> QED BY <2>1, <3>4
  <2> QED BY <2>2, <2>3
<1> QED BY <1>1, <1>2

\* retrieve_tree_indexes finds the place of every index.
LEMMA RetrievedIsPlace ==
  ASSUME NEW c, IsCounted(c), NEW index \in Nat
  PROVE  IsPlace(c, index, RetrieveTreeIndexes(c, index))
<1> DEFINE at == CHOOSE f : f = [i \in 0 .. index |->
                   IF i = 0 THEN <<NextShown(c, 0), 0>> ELSE NextPlace(c, f[i - 1])]
<1>1. at = [i \in 0 .. index |->
              IF i = 0 THEN <<NextShown(c, 0), 0>> ELSE NextPlace(c, at[i - 1])]
  BY LoopExists
<1>2. RetrieveTreeIndexes(c, index) = at[index]
  BY DEF RetrieveTreeIndexes
<1> HIDE DEF at
<1> DEFINE Wrong == {i \in 0 .. index : ~IsPlace(c, i, at[i])}
<1>3. CASE Wrong = {}
  BY <1>2, <1>3
<1>4. CASE Wrong # {}
  <2>1. PICK i \in Wrong : \A j \in Wrong : i <= j
    <3>1. Wrong \subseteq Nat
      OBVIOUS
    <3> HIDE DEF Wrong
    <3> QED BY <1>4, <3>1, Least
  <2>2. CASE i = 0
    <3>1. at[0] = <<NextShown(c, 0), 0>>
      BY <1>1
    <3>2. CountBefore(c, 0) = 0
      BY DEF CountBefore
    <3>3. IsPlace(c, CountBefore(c, 0), <<NextShown(c, 0), 0>>)
      <4>1. 0 \in 0 .. 6
        OBVIOUS
      <4> QED BY <4>1, FirstFrom
    <3> QED BY <2>1, <2>2, <3>1, <3>2, <3>3
  <2>3. CASE i # 0
    <3>1. i - 1 \in Nat /\ i - 1 \in 0 .. index /\ i - 1 \notin Wrong
      BY <2>1, <2>3
    <3>2. IsPlace(c, i - 1, at[i - 1]) /\ at[i] = NextPlace(c, at[i - 1])
      BY <1>1, <2>1, <2>3, <3>1
    <3>3. IsPlace(c, (i - 1) + 1, at[i])
      BY <3>1, <3>2, NextIsPlace
    <3> QED BY <2>1, <3>1, <3>3
  <2> QED BY <2>2, <2>3
<1> QED BY <1>3, <1>4

-----------------------------------------------------------------------------
\* What a document is made of, as IsAccepted and the types of Docs have it.
IsDoc(d) ==
  /\ IsNested(d) /\ IsDocument(d)
  /\ \A i \in 1 .. Len(d) : d[i].word \in STRING /\ d[i].type \in Types
  /\ \A i \in 1 .. Len(d) : d[i].type = "object" => Len(Inside(d, i)) % 2 = 0

Items == [token : Nat, path : Seq(STRING)]

\* Items of tokens in a part of the text, in the order of the text.
InOrder(items, first, last) ==
  /\ items \in Seq(Items)
  /\ \A n \in 1 .. Len(items) : first <= items[n].token /\ items[n].token <= last
  /\ \A m, n \in 1 .. Len(items) : m < n => items[m].token < items[n].token

\* The recursion of FlattenSeq has a result.
Flattens(f, parts, size) ==
  /\ FlattenSeq(parts) = f[size] /\ f[1] = parts[1]
  /\ \A i \in 2 .. size : f[i] = f[i - 1] \o parts[i]

LEMMA FlattenIs ==
  ASSUME NEW size \in Nat, size # 0, NEW parts, Len(parts) = size
  PROVE  \E f : Flattens(f, parts, size)
<1> DEFINE Runs(n, f) == f = [i \in 1 .. n |-> IF i = 1 THEN parts[i] ELSE f[i - 1] \o parts[i]]
           Endless == {n \in Nat : n # 0 /\ ~\E f : Runs(n, f)}
<1>1. ASSUME NEW n \in Endless PROVE \E m \in Endless : ~(n <= m)
  <2>1. CASE n = 1
    <3>1. Runs(1, [i \in 1 .. 1 |-> parts[i]])
      OBVIOUS
    <3> QED BY <2>1, <3>1
  <2>2. CASE n # 1
    <3>1. PICK m \in Nat : m # 0 /\ n = m + 1
      BY <2>2
    <3>2. ASSUME NEW f, Runs(m, f) PROVE FALSE
      <4> DEFINE g == [i \in 1 .. n |-> IF i = n THEN f[m] \o parts[n] ELSE f[i]]
      <4>1. \A i \in 1 .. n : g[i] = IF i = 1 THEN parts[i] ELSE g[i - 1] \o parts[i]
        <5> TAKE i \in 1 .. n
        <5>1. CASE i = n
          <6>1. n \in 1 .. n /\ m \in 1 .. n /\ n - 1 = m /\ m # n /\ n # 1
            BY <2>2, <3>1
          <6>2. g[n] = f[m] \o parts[n] /\ g[n - 1] = f[m]
            BY <6>1
          <6> HIDE DEF g
          <6> QED BY <5>1, <6>1, <6>2
        <5>2. CASE i # n
          <6>1. i \in 1 .. m /\ g[i] = f[i] /\ (i # 1 => g[i - 1] = f[i - 1])
            BY <3>1, <5>2
          <6>2. f[i] = IF i = 1 THEN parts[i] ELSE f[i - 1] \o parts[i]
            BY <3>2, <6>1
          <6> HIDE DEF g
          <6> QED BY <6>1, <6>2
        <5> QED BY <5>1, <5>2
      <4>2. g = [i \in 1 .. n |-> g[i]]
        OBVIOUS
      <4>3. Runs(n, g)
        <5> HIDE DEF g
        <5> QED BY <4>1, <4>2
      <4> HIDE DEF g, Runs
      <4> QED BY <4>3
    <3>3. m \in Endless /\ ~(n <= m)
      <4> HIDE DEF Runs
      <4> QED BY <3>1, <3>2
    <3> QED BY <3>3
  <2> QED BY <2>1, <2>2
<1>2. Endless = {}
  <2>1. Endless \subseteq Nat
    OBVIOUS
  <2> HIDE DEF Endless
  <2> QED BY <1>1, <2>1, Least
<1>3. \E f : Runs(size, f)
  <2> HIDE DEF Runs
  <2> QED BY <1>2
<1> DEFINE f == CHOOSE f : Runs(size, f)
<1>4. Runs(size, f)
  <2> HIDE DEF Runs
  <2> QED BY <1>3
<1>5. FlattenSeq(parts) = f[size]
  BY DEF FlattenSeq
<1> HIDE DEF f
<1>6. f[1] = parts[1] /\ \A i \in 2 .. size : f[i] = f[i - 1] \o parts[i]
  <2>1. \A i \in 1 .. size : f[i] = IF i = 1 THEN parts[i] ELSE f[i - 1] \o parts[i]
    BY <1>4
  <2>2. 1 \in 1 .. size /\ \A i \in 2 .. size : i \in 1 .. size /\ i # 1
    OBVIOUS
  <2> QED BY <2>1, <2>2
<1> QED BY <1>5, <1>6 DEF Flattens

\* Two parts, one behind the other.
LEMMA JoinedInOrder ==
  ASSUME NEW a \in Nat, NEW b \in Nat, NEW c \in Nat, NEW e \in Nat, a <= c, b < c, b <= e,
         NEW s, InOrder(s, a, b), NEW t, InOrder(t, c, e)
  PROVE  InOrder(s \o t, a, e)
<1>1. s \in Seq(Items) /\ t \in Seq(Items) /\ Len(s) \in Nat /\ Len(t) \in Nat
  BY DEF InOrder
<1>2. PICK u \in Seq(Items) : /\ u = s \o t /\ Len(u) = Len(s) + Len(t)
                              /\ \A i \in 1 .. Len(u) :
                                   u[i] = IF i <= Len(s) THEN s[i] ELSE t[i - Len(s)]
  <2>1. /\ s \o t \in Seq(Items) /\ Len(s \o t) = Len(s) + Len(t)
        /\ \A i \in 1 .. Len(s) + Len(t) :
              (s \o t)[i] = IF i <= Len(s) THEN s[i] ELSE t[i - Len(s)]
    BY <1>1, Concatenated
  <2> QED BY <2>1
<1>3. \A i \in 1 .. Len(u) : u[i].token \in Nat
  <2>1. \A item \in Items : item.token \in Nat
    BY DEF Items
  <2> QED BY <1>2, <2>1
<1>4. \A i \in 1 .. Len(u) :
        \/ i \in 1 .. Len(s) /\ u[i] = s[i]
        \/ i > Len(s) /\ i - Len(s) \in 1 .. Len(t) /\ u[i] = t[i - Len(s)]
  BY <1>1, <1>2
<1>5. ASSUME NEW i \in 1 .. Len(u) PROVE a <= u[i].token /\ u[i].token <= e
  <2>0. u[i].token \in Nat
    BY <1>3
  <2>1. CASE i \in 1 .. Len(s) /\ u[i] = s[i]
    <3>1. a <= s[i].token /\ s[i].token <= b
      BY <2>1 DEF InOrder
    <3> QED BY <2>0, <2>1, <3>1
  <2>2. CASE i - Len(s) \in 1 .. Len(t) /\ u[i] = t[i - Len(s)]
    <3>1. PICK k \in 1 .. Len(t) : u[i] = t[k]
      BY <2>2
    <3>2. c <= t[k].token /\ t[k].token <= e
      BY DEF InOrder
    <3> QED BY <2>0, <3>1, <3>2
  <2> QED BY <1>4, <2>1, <2>2
<1>6. ASSUME NEW i \in 1 .. Len(u), NEW j \in 1 .. Len(u), i < j
      PROVE  u[i].token < u[j].token
  <2>1. CASE j \in 1 .. Len(s) /\ u[j] = s[j]
    <3>1. i \in 1 .. Len(s) /\ u[i] = s[i]
      BY <1>1, <1>2, <1>6, <2>1
    <3> QED BY <1>6, <2>1, <3>1 DEF InOrder
  <2>2. CASE j > Len(s) /\ j - Len(s) \in 1 .. Len(t) /\ u[j] = t[j - Len(s)]
    <3>1. CASE i \in 1 .. Len(s) /\ u[i] = s[i]
      <4>1. u[i].token <= b /\ c <= u[j].token
        BY <2>2, <3>1 DEF InOrder
      <4> QED BY <1>3, <4>1
    <3>2. CASE i > Len(s) /\ i - Len(s) \in 1 .. Len(t) /\ u[i] = t[i - Len(s)]
      <4>1. PICK k \in 1 .. Len(t), l \in 1 .. Len(t) : k < l /\ u[i] = t[k] /\ u[j] = t[l]
        <5>1. i \in Nat /\ j \in Nat /\ i - Len(s) < j - Len(s)
          BY <1>1, <1>2, <1>6
        <5> QED BY <2>2, <3>2, <5>1
      <4> QED BY <4>1 DEF InOrder
    <3> QED BY <1>4, <3>1, <3>2
  <2> QED BY <1>4, <2>1, <2>2
<1> QED BY <1>2, <1>5, <1>6 DEF InOrder

\* Parts that each lie behind the one before, put together.
LEMMA FlattenInOrder ==
  ASSUME NEW size \in Nat, size # 0, NEW parts, Len(parts) = size,
         NEW first \in [1 .. size -> Nat], NEW last \in [1 .. size -> Nat],
         \A n \in 1 .. size : first[n] <= last[n] /\ InOrder(parts[n], first[n], last[n]),
         \A n \in 1 .. size : n # size => last[n] < first[n + 1]
  PROVE  InOrder(FlattenSeq(parts), first[1], last[size])
<1>1. PICK f : /\ FlattenSeq(parts) = f[size] /\ f[1] = parts[1]
               /\ \A i \in 2 .. size : f[i] = f[i - 1] \o parts[i]
  <2>1. \E f : Flattens(f, parts, size)
    BY FlattenIs
  <2> QED BY <2>1 DEF Flattens
<1> DEFINE Right(n) == first[1] <= last[n] /\ InOrder(f[n], first[1], last[n])
           Wrong == {n \in 1 .. size : ~Right(n)}
<1>2. ASSUME NEW n \in Wrong PROVE \E m \in Wrong : ~(n <= m)
  <2>1. n \in 1 .. size /\ 1 \in 1 .. size
    OBVIOUS
  <2>2. n # 1
    <3>1. Right(1)
      BY <1>1, <2>1
    <3> HIDE DEF Right
    <3> QED BY <3>1
  <2>3. PICK m \in 1 .. size : m # size /\ n = m + 1 /\ n \in 2 .. size /\ m = n - 1
    BY <2>1, <2>2
  <2>4. ASSUME Right(m) PROVE Right(n)
    <3>1. /\ first[1] \in Nat /\ last[m] \in Nat /\ first[n] \in Nat /\ last[n] \in Nat
          /\ first[1] <= last[m] /\ last[m] < first[n] /\ first[n] <= last[n]
      BY <2>1, <2>3, <2>4
    <3>2. InOrder(f[m] \o parts[n], first[1], last[n])
      <4>1. InOrder(f[m], first[1], last[m]) /\ InOrder(parts[n], first[n], last[n])
        BY <2>4
      <4>2. first[1] <= first[n] /\ last[m] <= last[n]
        BY <3>1
      <4> QED BY <3>1, <4>1, <4>2, JoinedInOrder
    <3>3. f[n] = f[m] \o parts[n]
      BY <1>1, <2>3
    <3>4. first[1] <= last[n]
      BY <3>1
    <3> QED BY <3>2, <3>3, <3>4
  <2>5. ~(n <= m)
    BY <2>3
  <2>6. m \in Wrong
    <3> HIDE DEF Right
    <3> QED BY <2>3, <2>4
  <2> QED BY <2>5, <2>6
<1>3. Wrong = {}
  <2>1. Wrong \subseteq Nat
    OBVIOUS
  <2> HIDE DEF Wrong
  <2> QED BY <1>2, <2>1, Least
<1>4. Right(size)
  <2> HIDE DEF Right
  <2> QED BY <1>3
<1> QED BY <1>1, <1>4

\* What is found at a depth, by what is found one deeper.
FoundAt(tree, deeper, depth) ==
  [t \in Nat |-> [below \in Nat |->
     IF depth = 0 THEN <<Item(t, <<>>)>> ELSE Found(tree, deeper, t, below)]]

\* The recursion of the traversal has a result, as it goes no deeper than
\* MAX_RECURSION_DEPTH.
LEMMA FindIs ==
  ASSUME NEW tree
  PROVE  \E find : /\ \A root, level :
                        TraverseFind(tree, root, level) = find[MAX_RECURSION_DEPTH][root][level]
                   /\ \A depth \in 0 .. MAX_RECURSION_DEPTH :
                        find[depth] = FoundAt(tree, find[depth - 1], depth)
<1> DEFINE Runs(n, f) == f = [depth \in 0 .. n |-> FoundAt(tree, f[depth - 1], depth)]
           Endless == {n \in Nat : ~\E f : Runs(n, f)}
<1>1. ASSUME NEW n \in Endless PROVE \E m \in Endless : ~(n <= m)
  <2>1. CASE n = 0
    <3> DEFINE f == [depth \in 0 .. 0 |-> FoundAt(tree, tree, depth)]
    <3>1. \A x, y : FoundAt(tree, x, 0) = FoundAt(tree, y, 0)
      BY DEF FoundAt
    <3>2. \A depth \in 0 .. 0 : f[depth] = FoundAt(tree, f[depth - 1], depth)
      <4> TAKE depth \in 0 .. 0
      <4>1. depth = 0 /\ f[depth] = FoundAt(tree, tree, 0)
        OBVIOUS
      <4> HIDE DEF f
      <4> QED BY <3>1, <4>1
    <3>3. f = [depth \in 0 .. 0 |-> f[depth]]
      OBVIOUS
    <3>4. Runs(0, f)
      <4> HIDE DEF f
      <4> QED BY <3>2, <3>3
    <3> HIDE DEF f, Runs
    <3> QED BY <2>1, <3>4
  <2>2. CASE n # 0
    <3>1. PICK m \in Nat : n = m + 1
      BY <2>2
    <3>2. ASSUME NEW f, Runs(m, f) PROVE FALSE
      <4> DEFINE g == [i \in 0 .. n |-> IF i = n THEN FoundAt(tree, f[m], n) ELSE f[i]]
      <4>1. \A i \in 0 .. n : g[i] = FoundAt(tree, g[i - 1], i)
        <5> TAKE i \in 0 .. n
        <5>1. CASE i = n
          <6>1. g[n] = FoundAt(tree, f[m], n) /\ g[n - 1] = f[m]
            BY <3>1
          <6> HIDE DEF g
          <6> QED BY <5>1, <6>1
        <5>2. CASE i # n /\ i # 0
          <6>1. i \in 0 .. m /\ g[i] = f[i] /\ g[i - 1] = f[i - 1]
            BY <3>1, <5>2
          <6>2. f[i] = FoundAt(tree, f[i - 1], i)
            BY <3>2, <6>1
          <6> HIDE DEF g
          <6> QED BY <6>1, <6>2
        <5>3. CASE i = 0
          <6>1. \A x, y : FoundAt(tree, x, 0) = FoundAt(tree, y, 0)
            BY DEF FoundAt
          <6>2. 0 \in 0 .. m /\ g[0] = f[0]
            BY <3>1
          <6>3. f[0] = FoundAt(tree, f[0 - 1], 0)
            BY <3>2, <6>2
          <6> HIDE DEF g
          <6> QED BY <5>3, <6>1, <6>2, <6>3
        <5> QED BY <5>1, <5>2, <5>3
      <4>2. g = [i \in 0 .. n |-> g[i]]
        OBVIOUS
      <4>3. Runs(n, g)
        <5> HIDE DEF g
        <5> QED BY <4>1, <4>2
      <4> HIDE DEF g, Runs
      <4> QED BY <4>3
    <3>3. m \in Endless /\ ~(n <= m)
      <4> HIDE DEF Runs
      <4> QED BY <3>1, <3>2
    <3> QED BY <3>3
  <2> QED BY <2>1, <2>2
<1>2. Endless = {}
  <2>1. Endless \subseteq Nat
    OBVIOUS
  <2> HIDE DEF Endless
  <2> QED BY <1>1, <2>1, Least
<1>3. MAX_RECURSION_DEPTH \in Nat
  BY DEF MAX_RECURSION_DEPTH
<1>4. \E f : Runs(MAX_RECURSION_DEPTH, f)
  <2> HIDE DEF Runs
  <2> QED BY <1>2, <1>3
<1> DEFINE find == CHOOSE f : Runs(MAX_RECURSION_DEPTH, f)
<1>5. Runs(MAX_RECURSION_DEPTH, find)
  <2> HIDE DEF Runs
  <2> QED BY <1>4
<1>6. \A root, level : TraverseFind(tree, root, level) = find[MAX_RECURSION_DEPTH][root][level]
  BY DEF TraverseFind, FoundAt
<1> HIDE DEF find
<1>7. \A depth \in 0 .. MAX_RECURSION_DEPTH : find[depth] = FoundAt(tree, find[depth - 1], depth)
  BY <1>5
<1> QED BY <1>6, <1>7

\* The items below a key, and items in a larger part.
LEMMA UnderInOrder ==
  ASSUME NEW items, NEW first, NEW last, InOrder(items, first, last), NEW key \in STRING
  PROVE  InOrder(Under(key, items), first, last)
<1>1. PICK m \in Nat : m = Len(items) /\ DOMAIN items = 1 .. m /\ items \in Seq(Items)
  BY DEF InOrder
<1>2. ASSUME NEW n \in 1 .. m
      PROVE  /\ [items[n] EXCEPT !.path = <<key>> \o @] \in Items
             /\ [items[n] EXCEPT !.path = <<key>> \o @].token = items[n].token
  <2>1. items[n] \in Items
    BY <1>1
  <2>2. items[n].path \in Seq(STRING)
    BY <2>1 DEF Items
  <2>3. <<key>> \o items[n].path \in Seq(STRING)
    BY <2>2
  <2> QED BY <2>1, <2>3 DEF Items
<1>3. PICK under : under = Under(key, items)
  OBVIOUS
<1>4. /\ under \in Seq(Items) /\ Len(under) = m
      /\ \A n \in 1 .. m : under[n].token = items[n].token
  <2>1. under = [n \in 1 .. m |-> [items[n] EXCEPT !.path = <<key>> \o @]]
    BY <1>1, <1>3 DEF Under
  <2>2. PICK below : below = [n \in 1 .. m |-> [items[n] EXCEPT !.path = <<key>> \o @]]
    OBVIOUS
  <2>3. ASSUME NEW n \in 1 .. m
        PROVE  below[n] \in Items /\ below[n].token = items[n].token
    <3>1. below[n] = [items[n] EXCEPT !.path = <<key>> \o @]
      BY <2>2
    <3> QED BY <1>2, <3>1
  <2>4. below = [n \in 1 .. m |-> below[n]]
    BY <2>2
  <2>5. below \in Seq(Items) /\ Len(below) = m
    BY <2>3, <2>4
  <2> QED BY <2>1, <2>2, <2>3, <2>5
<1> QED BY <1>1, <1>3, <1>4 DEF InOrder

LEMMA InLargerPart ==
  ASSUME NEW a \in Nat, NEW b \in Nat, NEW c \in Nat, NEW e \in Nat, c <= a, b <= e,
         NEW items, InOrder(items, a, b)
  PROVE  InOrder(items, c, e)
<1>1. \A item \in Items : item.token \in Nat
  BY DEF Items
<1>2. \A n \in 1 .. Len(items) : items[n].token \in Nat
  BY <1>1 DEF InOrder
<1> QED BY <1>2 DEF InOrder

LEMMA OneItem ==
  ASSUME NEW t \in Nat, NEW last \in Nat, t <= last
  PROVE  InOrder(<<Item(t, <<>>)>>, t, last)
<1>1. Item(t, <<>>) \in Items /\ Item(t, <<>>).token = t
  BY DEF Item, Items
<1>2. PICK item \in Items : item = Item(t, <<>>) /\ item.token = t
  BY <1>1
<1>3. /\ <<item>> \in Seq(Items) /\ Len(<<item>>) = 1 /\ <<item>>[1] = item
  BY <1>2
<1> QED BY <1>2, <1>3 DEF InOrder

\* What the calls one deeper find is in the order of the text.
DeeperInOrder(d, deeper) ==
  \A u \in 0 .. Len(d) - 1 : \A below \in Nat :
    InOrder(deeper[u][below], u, LastInside(d, u + 1) - 1)

\* Parts that are each behind the one before, in a part of the text.
LEMMA PartsInOrder ==
  ASSUME NEW t \in Nat, NEW end \in Nat, t < end, NEW size \in Nat,
         NEW parts, Len(parts) = size, size = 0 => parts = <<>>,
         NEW at \in [1 .. size -> Nat], NEW behind \in [1 .. size -> Nat],
         \A n \in 1 .. size : /\ t <= at[n] /\ at[n] < behind[n] /\ behind[n] <= end
                              /\ InOrder(parts[n], at[n], behind[n] - 1),
         \A n \in 1 .. size : n # size => behind[n] <= at[n + 1]
  PROVE  InOrder(FlattenSeq(parts), t, end - 1)
<1>1. CASE size = 0
  <2>1. FlattenSeq(parts) = <<>>
    BY <1>1 DEF FlattenSeq
  <2> QED BY <2>1 DEF InOrder
<1>2. CASE size # 0
  <2>1. PICK upto \in [1 .. size -> Nat] : \A n \in 1 .. size : upto[n] = behind[n] - 1
    <3>1. \A n \in 1 .. size : behind[n] - 1 \in Nat
      OBVIOUS
    <3>2. [n \in 1 .. size |-> behind[n] - 1] \in [1 .. size -> Nat]
      BY <3>1
    <3> QED BY <3>2
  <2>2. \A n \in 1 .. size : at[n] <= upto[n] /\ InOrder(parts[n], at[n], upto[n])
    BY <2>1
  <2>3. ASSUME NEW n \in 1 .. size, n # size PROVE upto[n] < at[n + 1]
    <3>1. n + 1 \in 1 .. size
      BY <2>3
    <3>2. upto[n] = behind[n] - 1 /\ behind[n] \in Nat /\ at[n + 1] \in Nat /\ behind[n] <= at[n + 1]
      BY <2>1, <2>3, <3>1
    <3>3. \A b, a \in Nat : b <= a => b - 1 < a
      OBVIOUS
    <3> QED BY <3>2, <3>3
  <2>4. InOrder(FlattenSeq(parts), at[1], upto[size])
    BY <1>2, <2>2, <2>3, FlattenInOrder
  <2>5. 1 \in 1 .. size /\ size \in 1 .. size
    BY <1>2
  <2>6. /\ t <= at[1] /\ upto[size] <= end - 1 /\ end - 1 \in Nat
        /\ at[1] \in Nat /\ upto[size] \in Nat
    BY <2>1, <2>5
  <2> QED BY <2>4, <2>6, InLargerPart
<1> QED BY <1>1, <1>2

LEMMA FoundInOrder ==
  ASSUME NEW d, IsDoc(d), NEW deeper, DeeperInOrder(d, deeper),
         NEW t \in 0 .. Len(d) - 1, NEW below \in Nat
  PROVE  InOrder(Found(Tokens(d), deeper, t, below), t, LastInside(d, t + 1) - 1)
<1>1. PICK N \in Nat : N = Len(d) /\ DOMAIN d = 1 .. N
  BY DEF IsDoc, IsNested
<1>2. IsNested(d) /\ IsDocument(d) /\ t \in Nat /\ t \in 0 .. N - 1 /\ t + 1 \in 1 .. N
  BY <1>1 DEF IsDoc
<1>3. PICK end \in t + 1 .. N : end = LastInside(d, t + 1)
  BY <1>1, <1>2, LastInsideIs
<1>4. end \in Nat /\ t < end
  BY <1>2, <1>3
<1>5. ASSUME NEW u \in t .. end - 1
      PROVE  /\ u \in Nat /\ u \in 0 .. Len(d) - 1 /\ LastInside(d, u + 1) \in Nat
             /\ u < LastInside(d, u + 1) /\ LastInside(d, u + 1) <= end
  <2>1. u \in 0 .. N - 1 /\ u + 1 \in t + 1 .. end
    BY <1>2, <1>3
  <2>2. LastInside(d, u + 1) \in u + 1 .. end
    BY <1>1, <1>2, <1>3, <2>1, EndsInside
  <2> QED BY <1>1, <1>2, <1>3, <2>1, <2>2
<1>6. PICK tree : tree = Tokens(d)
  OBVIOUS
<1>7. \A u \in 0 .. Len(d) - 1 : tree[u].word \in STRING /\ tree[u].type = d[u + 1].type
  <2>1. \A u \in 0 .. Len(d) - 1 : u + 1 \in 1 .. Len(d)
    BY <1>1
  <2> QED BY <1>6, <2>1 DEF Tokens, IsDoc
<1> DEFINE keys == ObjectKeys(tree, t)
           elements == ArrayElements(tree, t)
<1>8. CASE below = 0 \/ IsScalar(tree[t].type)
  <2>1. Found(tree, deeper, t, below) = <<Item(t, <<>>)>>
    BY <1>8 DEF Found
  <2>2. t \in Nat /\ end - 1 \in Nat /\ t <= end - 1
    BY <1>2, <1>3
  <2> QED BY <1>3, <1>6, <2>1, <2>2, OneItem
<1>9. CASE ~(below = 0 \/ IsScalar(tree[t].type)) /\ tree[t].type = "object"
  <2> DEFINE parts == [n \in DOMAIN keys |->
                        Under(tree[keys[n]].word, deeper[ValueOf(keys[n])][below - 1])]
  <2>1. Found(tree, deeper, t, below) = FlattenSeq(parts)
    BY <1>9, Zenon DEF Found
  <2>2. AreKeys(keys, d, t)
    <3>1. d[t + 1].type = "object" /\ Len(Inside(d, t + 1)) % 2 = 0
      BY <1>1, <1>2, <1>7, <1>9 DEF IsDoc
    <3>2. PICK e : e = ArrayElements(Tokens(d), t)
      OBVIOUS
    <3>3. \E h \in Nat : ArePairs(e, h, d, t)
      BY <1>2, <3>1, <3>2, ElementsPair
    <3> QED BY <1>2, <1>6, <3>3, KeysChain
  <2> HIDE DEF keys
  <2>3. /\ keys \in Seq(Nat)
        /\ \A n \in 1 .. Len(keys) :
             /\ keys[n] \in t + 1 .. LastInside(d, t + 1) - 2
             /\ n # Len(keys) => keys[n + 1] = LastInside(d, keys[n] + 1 + 1)
    BY <2>2 DEF AreKeys, ValueOf
  <2>4. PICK size \in Nat : Len(keys) = size /\ DOMAIN keys = 1 .. size
    BY <2>3
  <2>5. \A n \in 1 .. size : /\ keys[n] \in Nat /\ keys[n] \in t .. end - 1
                             /\ keys[n] + 1 \in t .. end - 1 /\ t <= keys[n] + 1
                             /\ n # size => keys[n + 1] = LastInside(d, keys[n] + 1 + 1)
    <3>1. \A n \in 1 .. size : keys[n] \in t + 1 .. end - 2
      BY <1>3, <2>3, <2>4
    <3>2. \A k \in t + 1 .. end - 2 : k \in Nat /\ k \in t .. end - 1 /\ k + 1 \in t .. end - 1 /\ t <= k + 1
      BY <1>2, <1>4
    <3> QED BY <2>3, <2>4, <3>1, <3>2
  <2>6. PICK at \in [1 .. size -> Nat] : \A n \in 1 .. size : at[n] = keys[n] + 1
    <3>1. [n \in 1 .. size |-> keys[n] + 1] \in [1 .. size -> Nat]
      BY <2>5
    <3> QED BY <3>1
  <2>7. \A n \in 1 .. size : at[n] \in t .. end - 1 /\ t <= at[n]
    BY <2>5, <2>6
  <2>8. PICK behind \in [1 .. size -> Nat] : \A n \in 1 .. size : behind[n] = LastInside(d, at[n] + 1)
    <3>1. [n \in 1 .. size |-> LastInside(d, at[n] + 1)] \in [1 .. size -> Nat]
      BY <1>5, <2>7
    <3> QED BY <3>1
  <2>9. ASSUME NEW n \in 1 .. size PROVE InOrder(parts[n], at[n], behind[n] - 1)
    <3>1. tree[keys[n]].word \in STRING
      BY <1>5, <1>7, <2>5
    <3>2. below - 1 \in Nat
      BY <1>9
    <3>3. at[n] \in 0 .. Len(d) - 1
      BY <1>5, <2>7
    <3>4. InOrder(deeper[at[n]][below - 1], at[n], behind[n] - 1)
      BY <2>8, <3>2, <3>3 DEF DeeperInOrder
    <3>5. parts[n] = Under(tree[keys[n]].word, deeper[at[n]][below - 1])
      BY <2>4, <2>6 DEF ValueOf
    <3> HIDE DEF parts
    <3> QED BY <3>1, <3>4, <3>5, UnderInOrder
  <2>10. \A n \in 1 .. size : at[n] < behind[n] /\ behind[n] <= end
    BY <1>5, <2>7, <2>8
  <2>11. ASSUME NEW n \in 1 .. size, n # size PROVE behind[n] <= at[n + 1]
    <3>1. n + 1 \in 1 .. size
      BY <2>11
    <3>2. keys[n + 1] = behind[n] /\ at[n + 1] = keys[n + 1] + 1 /\ behind[n] \in Nat
      BY <2>5, <2>6, <2>8, <2>11, <3>1
    <3> QED BY <3>2
  <2>12. Len(parts) = size /\ (size = 0 => parts = <<>>)
    BY <2>4
  <2> HIDE DEF parts
  <2>13. InOrder(FlattenSeq(parts), t, end - 1)
    BY <1>2, <1>4, <2>7, <2>9, <2>10, <2>11, <2>12, PartsInOrder
  <2> QED BY <1>3, <1>6, <2>1, <2>13
<1>10. CASE ~(below = 0 \/ IsScalar(tree[t].type)) /\ tree[t].type # "object"
  <2> DEFINE parts == [n \in 1 .. Min({Len(keys), Len(elements)}) |-> deeper[elements[n]][below]]
  <2>1. Found(tree, deeper, t, below) = FlattenSeq(parts)
    BY <1>10, Zenon DEF Found
  <2>2. AreElements(elements, d, t)
    BY <1>2, <1>6, ElementsChain
  <2>3. Len(keys) \in Nat
    <3>1. keys \in Seq(Nat)
      BY <1>2, <1>6, KeysAreTokens
    <3> HIDE DEF keys
    <3> QED BY <3>1
  <2> HIDE DEF keys, elements
  <2>4. /\ elements \in Seq(Nat)
        /\ \A n \in 1 .. Len(elements) :
             /\ elements[n] \in t + 1 .. LastInside(d, t + 1) - 1
             /\ n # Len(elements) => elements[n + 1] = LastInside(d, elements[n] + 1)
    BY <2>2 DEF AreElements
  <2>5. PICK size \in Nat : size = Min({Len(keys), Len(elements)}) /\ size <= Len(elements)
    <3> DEFINE S == {Len(keys), Len(elements)}
    <3>1. Len(elements) \in Nat
      BY <2>4
    <3>2. \E x \in S : \A y \in S : x <= y
      BY <2>3, <3>1
    <3>3. Min(S) \in S /\ \A y \in S : Min(S) <= y
      <4> HIDE DEF S
      <4> QED BY <3>2 DEF Min
    <3> QED BY <2>3, <3>1, <3>3
  <2>6. \A n \in 1 .. size : /\ elements[n] \in t .. end - 1 /\ t <= elements[n] /\ elements[n] \in Nat
                             /\ n # size => elements[n + 1] = LastInside(d, elements[n] + 1)
    <3>1. \A n \in 1 .. size : n \in 1 .. Len(elements) /\ (n # size => n # Len(elements))
      BY <2>4, <2>5
    <3>2. \A k \in t + 1 .. end - 1 : k \in t .. end - 1 /\ t <= k /\ k \in Nat
      BY <1>2, <1>4
    <3> QED BY <1>3, <2>4, <3>1, <3>2
  <2>7. PICK at \in [1 .. size -> Nat] : \A n \in 1 .. size : at[n] = elements[n]
    <3>1. [n \in 1 .. size |-> elements[n]] \in [1 .. size -> Nat]
      BY <2>6
    <3> QED BY <3>1
  <2>8. \A n \in 1 .. size : at[n] \in t .. end - 1 /\ t <= at[n]
    BY <2>6, <2>7
  <2>9. PICK behind \in [1 .. size -> Nat] : \A n \in 1 .. size : behind[n] = LastInside(d, at[n] + 1)
    <3>1. [n \in 1 .. size |-> LastInside(d, at[n] + 1)] \in [1 .. size -> Nat]
      BY <1>5, <2>8
    <3> QED BY <3>1
  <2>10. ASSUME NEW n \in 1 .. size PROVE InOrder(parts[n], at[n], behind[n] - 1)
    <3>1. at[n] \in 0 .. Len(d) - 1
      BY <1>5, <2>8
    <3>2. InOrder(deeper[at[n]][below], at[n], behind[n] - 1)
      BY <2>9, <3>1 DEF DeeperInOrder
    <3>3. parts[n] = deeper[at[n]][below]
      BY <2>5, <2>7
    <3> HIDE DEF parts
    <3> QED BY <3>2, <3>3
  <2>11. \A n \in 1 .. size : at[n] < behind[n] /\ behind[n] <= end
    BY <1>5, <2>8, <2>9
  <2>12. ASSUME NEW n \in 1 .. size, n # size PROVE behind[n] <= at[n + 1]
    <3>1. n + 1 \in 1 .. size
      BY <2>12
    <3>2. at[n + 1] = behind[n] /\ behind[n] \in Nat
      BY <2>6, <2>7, <2>9, <2>12, <3>1
    <3> QED BY <3>2
  <2>13. Len(parts) = size /\ (size = 0 => parts = <<>>)
    <3>1. parts = [n \in 1 .. size |-> deeper[elements[n]][below]]
      BY <2>5
    <3>2. size = 0 => DOMAIN parts = 1 .. 0
      BY <3>1
    <3> HIDE DEF parts
    <3>3. Len(parts) = size
      BY <3>1
    <3>4. CASE size = 0
      <4>1. parts = [n \in 1 .. 0 |-> parts[n]]
        BY <3>1, <3>4
      <4> QED BY <3>3, <4>1
    <3> QED BY <3>3, <3>4
  <2> HIDE DEF parts
  <2>14. InOrder(FlattenSeq(parts), t, end - 1)
    BY <1>2, <1>4, <2>8, <2>10, <2>11, <2>12, <2>13, PartsInOrder
  <2> QED BY <1>3, <1>6, <2>1, <2>14
<1> QED BY <1>8, <1>9, <1>10

\* What is found at a token lies inside its value, in the order of the text.
LEMMA FindInOrder ==
  ASSUME NEW d, IsDoc(d), NEW t \in 0 .. Len(d) - 1, NEW level \in Nat
  PROVE  InOrder(TraverseFind(Tokens(d), t, level), t, LastInside(d, t + 1) - 1)
<1>1. PICK find : /\ \A root, below : TraverseFind(Tokens(d), root, below)
                                        = find[MAX_RECURSION_DEPTH][root][below]
                  /\ \A depth \in 0 .. MAX_RECURSION_DEPTH :
                       find[depth] = FoundAt(Tokens(d), find[depth - 1], depth)
  BY FindIs
<1>2. PICK N \in Nat : N = Len(d)
  BY DEF IsDoc, IsNested
<1> DEFINE Wrong == {n \in 0 .. MAX_RECURSION_DEPTH : ~DeeperInOrder(d, find[n])}
<1>3. ASSUME NEW n \in Wrong PROVE \E m \in Wrong : ~(n <= m)
  <2>1. n \in 0 .. MAX_RECURSION_DEPTH /\ n \in Nat /\ MAX_RECURSION_DEPTH \in Nat
    BY DEF MAX_RECURSION_DEPTH
  <2>2. find[n] = FoundAt(Tokens(d), find[n - 1], n)
    BY <1>1, <2>1
  <2>3. \A u, below \in Nat :
          find[n][u][below] = IF n = 0 THEN <<Item(u, <<>>)>>
                              ELSE Found(Tokens(d), find[n - 1], u, below)
    BY <2>2 DEF FoundAt
  <2>4. PICK u \in 0 .. Len(d) - 1, below \in Nat :
          ~InOrder(find[n][u][below], u, LastInside(d, u + 1) - 1)
    BY DEF DeeperInOrder
  <2>5. u \in Nat
    BY <1>2
  <2>6. n # 0
    <3>1. u + 1 \in 1 .. Len(d) /\ IsNested(d)
      BY <1>2 DEF IsDoc
    <3>2. LastInside(d, u + 1) \in u + 1 .. Len(d)
      BY <3>1, LastInsideIs
    <3>3. LastInside(d, u + 1) - 1 \in Nat /\ u <= LastInside(d, u + 1) - 1
      BY <1>2, <2>5, <3>2
    <3> QED BY <2>3, <2>4, <2>5, <3>3, OneItem
  <2>7. find[n][u][below] = Found(Tokens(d), find[n - 1], u, below)
    BY <2>3, <2>5, <2>6
  <2>8. ~DeeperInOrder(d, find[n - 1])
    BY <2>4, <2>7, FoundInOrder
  <2>9. n - 1 \in 0 .. MAX_RECURSION_DEPTH /\ ~(n <= n - 1)
    BY <2>1, <2>6
  <2> QED BY <2>8, <2>9
<1>4. Wrong = {}
  <2>1. Wrong \subseteq Nat
    OBVIOUS
  <2> HIDE DEF Wrong
  <2> QED BY <1>3, <2>1, Least
<1>5. DeeperInOrder(d, find[MAX_RECURSION_DEPTH])
  <2>1. MAX_RECURSION_DEPTH \in 0 .. MAX_RECURSION_DEPTH
    BY DEF MAX_RECURSION_DEPTH
  <2> QED BY <1>4, <2>1
<1> QED BY <1>1, <1>5 DEF DeeperInOrder

LEMMA TextIsDoc ==
  ASSUME text \in DOMAIN Docs
  PROVE  /\ json = Tokens(doc) /\ IsDoc(doc) /\ IsAccepted(doc)
         /\ 0 \in 0 .. Len(doc) - 1 /\ DOMAIN json = 0 .. Len(doc) - 1
<1>1. json = Tokens(doc) /\ DOMAIN json = 0 .. Len(doc) - 1
  BY DEF json, doc, Parsed, Tokens
<1>2. IsAccepted(doc) /\ doc \in Seq([depth : Nat, type : Types, word : STRING])
  BY DisplayAssumption DEF doc
<1>3. doc # <<>> /\ IsDocument(doc)
      /\ \A i \in DOMAIN doc : doc[i].type = "object" => Len(Inside(doc, i)) % 2 = 0
  BY <1>2 DEF IsAccepted
<1>4. PICK d \in Seq([depth : Nat, type : Types, word : STRING]) : d = doc
  BY <1>2
<1>5. /\ Len(d) \in Nat /\ DOMAIN d = 1 .. Len(d)
      /\ \A i \in 1 .. Len(d) : d[i].depth \in Nat /\ d[i].word \in STRING /\ d[i].type \in Types
  <2> DEFINE Nodes == [depth : Nat, type : Types, word : STRING]
  <2>1. \A node \in Nodes : node.depth \in Nat /\ node.word \in STRING /\ node.type \in Types
    OBVIOUS
  <2>2. d \in Seq(Nodes)
    OBVIOUS
  <2> HIDE DEF Nodes
  <2>3. Len(d) \in Nat /\ DOMAIN d = 1 .. Len(d) /\ \A i \in 1 .. Len(d) : d[i] \in Nodes
    BY <2>2
  <2> QED BY <2>1, <2>3
<1>6. Len(d) # 0 /\ 0 \in 0 .. Len(d) - 1
  <2>1. Len(d) # 0
    BY <1>3, <1>4
  <2> QED BY <1>5, <2>1
<1>7. IsDoc(d)
  BY <1>3, <1>4, <1>5 DEF IsDoc, IsNested
<1> QED BY <1>1, <1>2, <1>4, <1>6, <1>7

\* The keys of the root.
LEMMA RootKeys ==
  ASSUME text \in DOMAIN Docs, NEW keys, keys = ObjectKeys(json, 0)
  PROVE  /\ AreKeys(keys, doc, 0)
         /\ AreFields(keys, doc, 0)
<1>1. PICK d : d = doc /\ json = Tokens(d) /\ IsDoc(d) /\ IsAccepted(d) /\ 0 \in 0 .. Len(d) - 1
  BY TextIsDoc
<1>2. IsNested(d) /\ IsDocument(d) /\ d[0 + 1].type = "object" /\ Len(Inside(d, 0 + 1)) % 2 = 0
  <2>1. IsNested(d) /\ IsDocument(d) /\ d[1].type = "object" /\ 1 \in 1 .. Len(d)
    BY <1>1 DEF IsDoc, IsAccepted, IsNested
  <2> QED BY <1>1, <2>1 DEF IsDoc
<1>3. PICK e, h : ArePairs(e, h, d, 0)
  <2>1. PICK e : e = ArrayElements(Tokens(d), 0)
    OBVIOUS
  <2>2. \E h \in Nat : ArePairs(e, h, d, 0)
    BY <1>1, <1>2, <2>1, ElementsPair
  <2> QED BY <2>2
<1>4. AreKeys(keys, d, 0)
  BY <1>1, <1>2, <1>3, KeysChain
<1>5. AreFields(keys, d, 0)
  BY <1>1, <1>2, KeysAreFields
<1> QED BY <1>1, <1>4, <1>5

\* A field of the root is found: its value is that of the first key with its
\* name.
IsRootKey(keys, n, r) ==
  /\ n \in 1 .. Len(keys) /\ RootStart(json, r) = keys[n] + 1
  /\ doc[Fields(doc, 1)[n][1]].word = Required[r + 1]
  /\ \A k \in 1 .. Len(keys) :
       doc[Fields(doc, 1)[k][1]].word = Required[r + 1] => keys[n] <= keys[k]

LEMMA RootIsKey ==
  ASSUME text \in DOMAIN Docs, NEW r \in Roots, NEW keys, keys = ObjectKeys(json, 0)
  PROVE  \E n : IsRootKey(keys, n, r)
<1>1. PICK d : d = doc /\ json = Tokens(d) /\ IsDoc(d) /\ IsAccepted(d)
  BY TextIsDoc
<1>2. AreKeys(keys, d, 0) /\ Fields(d, 1) = [n \in DOMAIN keys |-> <<keys[n] + 1, ValueOf(keys[n]) + 1>>]
  <2>1. AreKeys(keys, d, 0) /\ AreFields(keys, d, 0)
    BY <1>1, RootKeys
  <2> QED BY <2>1 DEF AreFields
<1>3. PICK size \in Nat : /\ size = Len(keys) /\ DOMAIN keys = 1 .. size
                          /\ keys \in Seq(Nat)
                          /\ \A n \in 1 .. size : keys[n] \in 1 .. LastInside(d, 1) - 2
  BY <1>2, SMTT(30) DEF AreKeys
<1>4. PICK N \in Nat : N = Len(d) /\ IsNested(d) /\ N # 0
  <2>1. Len(d) \in Nat /\ IsNested(d)
    BY <1>1 DEF IsDoc, IsNested
  <2>2. 0 \in 0 .. Len(d) - 1
    BY <1>1, TextIsDoc
  <2> QED BY <2>1, <2>2
<1>5. \A n \in 1 .. size : keys[n] \in 0 .. N - 1 /\ keys[n] + 1 \in 0 .. N - 1 /\ keys[n] \in Nat
  <2>1. LastInside(d, 1) \in 1 .. N
    BY <1>4, LastInsideIs
  <2> QED BY <1>3, <1>4, <2>1
<1>6. PICK name : name = Name(r) /\ name = Required[r + 1]
  BY RootNumbers DEF Name, RequiredRootItem, Required
<1>7. \A n \in 1 .. size : /\ json[keys[n]].word = d[keys[n] + 1].word
                           /\ Fields(d, 1)[n][1] = keys[n] + 1
  <2> TAKE n \in 1 .. size
  <2>1. PICK t \in 0 .. Len(d) - 1 : t = keys[n]
    BY <1>4, <1>5
  <2>2. json[t].word = d[t + 1].word
    BY <1>1 DEF Tokens
  <2>3. Fields(d, 1)[n] = <<keys[n] + 1, ValueOf(keys[n]) + 1>>
    BY <1>2, <1>3
  <2> QED BY <2>1, <2>2, <2>3
<1> DEFINE named == {t \in DOMAIN json : t \in ToSet(keys) /\ json[t].word = name}
<1>8. named = {t \in {keys[n] : n \in 1 .. size} : json[t].word = name}
  <2>1. ToSet(keys) = {keys[n] : n \in 1 .. size}
    BY <1>3 DEF ToSet
  <2>2. {keys[n] : n \in 1 .. size} \subseteq DOMAIN json
    BY <1>1, <1>4, <1>5, TextIsDoc
  <2> QED BY <2>1, <2>2
<1>9. named # {}
  <2>1. r + 1 \in DOMAIN Required
    BY RootNumbers DEF Required
  <2>2. PICK n \in DOMAIN Fields(d, 1) : d[Fields(d, 1)[n][1]].word = Required[r + 1]
    BY <1>1, <2>1 DEF IsAccepted
  <2>3. n \in 1 .. size /\ json[keys[n]].word = name
    BY <1>2, <1>3, <1>6, <1>7, <2>2
  <2> QED BY <1>8, <2>3
<1>10. Min(named) \in named
  <2>1. named \subseteq Nat
    BY <1>5, <1>8
  <2> HIDE DEF named
  <2>2. PICK x \in named : \A y \in named : x <= y
    BY <1>9, <2>1, Least
  <2> QED BY <2>2 DEF Min
<1>11. PICK n \in 1 .. size : Min(named) = keys[n] /\ json[keys[n]].word = name
  <2> HIDE DEF named
  <2> QED BY <1>8, <1>10
<1>14. \A k \in 1 .. size : json[keys[k]].word = name => keys[n] <= keys[k]
  <2>1. named \subseteq Nat /\ \A k \in 1 .. size : json[keys[k]].word = name => keys[k] \in named
    BY <1>5, <1>8
  <2> HIDE DEF named
  <2>2. \A y \in named : Min(named) <= y
    <3>1. PICK x \in named : \A y \in named : x <= y
      BY <1>9, <2>1, Least
    <3> QED BY <3>1 DEF Min
  <2> QED BY <1>11, <2>1, <2>2
<1>12. ValueNamed(json, ROOT_TOKEN_INDEX, Name(r)) = keys[n] + 1
  <2>1. ValueNamed(json, ROOT_TOKEN_INDEX, Name(r)) = ValueOf(Min(named))
    BY <1>6, <1>9 DEF ValueNamed, ROOT_TOKEN_INDEX
  <2> HIDE DEF named
  <2> QED BY <1>11, <2>1 DEF ValueOf
<1>13. RootStart(json, r) = keys[n] + 1
  <2>1. keys[n] + 1 # NoValue
    BY <1>5 DEF NoValue
  <2> QED BY <1>12, <2>1, Zenon DEF RootStart
<1>15. \A k \in 1 .. Len(keys) :
         doc[Fields(doc, 1)[k][1]].word = Required[r + 1] => keys[n] <= keys[k]
  <2> SUFFICES ASSUME NEW k \in 1 .. size, d[Fields(d, 1)[k][1]].word = Required[r + 1]
               PROVE  keys[n] <= keys[k]
    BY <1>1, <1>3
  <2>1. json[keys[k]].word = name
    BY <1>6, <1>7
  <2> QED BY <1>14, <2>1
<1>16. n \in 1 .. Len(keys) /\ doc[Fields(doc, 1)[n][1]].word = Required[r + 1]
  <2>1. d[Fields(d, 1)[n][1]].word = Required[r + 1]
    BY <1>6, <1>7, <1>11
  <2> QED BY <1>1, <1>3, <2>1
<1>17. IsRootKey(keys, n, r)
  BY <1>13, <1>15, <1>16 DEF IsRootKey
<1> QED BY <1>17

\* The fields of the root lie one behind the other.
LEMMA RootsApart ==
  ASSUME text \in DOMAIN Docs, NEW r \in Roots, NEW s \in Roots
  PROVE  /\ RootStart(json, r) \in 0 .. Len(doc) - 1
         /\ r < s => LastInside(doc, RootStart(json, r) + 1) <= RootStart(json, s)
<1>1. PICK d : d = doc /\ json = Tokens(d) /\ IsDoc(d) /\ IsAccepted(d) /\ 0 \in 0 .. Len(d) - 1
  BY TextIsDoc
<1>2. PICK keys : keys = ObjectKeys(json, 0)
  OBVIOUS
<1>3. AreKeys(keys, d, 0) /\ Fields(d, 1) = [n \in DOMAIN keys |-> <<keys[n] + 1, ValueOf(keys[n]) + 1>>]
  <2>1. AreKeys(keys, d, 0) /\ AreFields(keys, d, 0)
    BY <1>1, <1>2, RootKeys
  <2> QED BY <2>1 DEF AreFields
<1>4. /\ keys \in Seq(Nat) /\ DOMAIN keys = 1 .. Len(keys)
      /\ \A n \in 1 .. Len(keys) : keys[n] \in 1 .. LastInside(d, 1) - 2 /\ keys[n] \in Nat
  <2>1. /\ keys \in Seq(Nat)
        /\ \A n \in 1 .. Len(keys) : keys[n] \in 0 + 1 .. LastInside(d, 0 + 1) - 2
    BY <1>3 DEF AreKeys
  <2> QED BY <2>1
<1>5. PICK N \in Nat : N = Len(d) /\ IsNested(d) /\ N # 0
  <2>1. IsNested(d)
    BY <1>1 DEF IsDoc
  <2>2. Len(d) \in Nat
    BY <2>1 DEF IsNested
  <2> QED BY <1>1, <2>1, <2>2
<1>6. PICK m : IsRootKey(keys, m, r)
  BY <1>2, RootIsKey
<1>7. PICK n : IsRootKey(keys, n, s)
  BY <1>2, RootIsKey
<1>8. RootStart(json, r) \in 0 .. Len(doc) - 1
  <2>1. LastInside(d, 1) \in 1 .. N
    BY <1>5, LastInsideIs
  <2>2. keys[m] + 1 \in 0 .. N - 1
    BY <1>4, <1>5, <1>6, <2>1 DEF IsRootKey
  <2> QED BY <1>1, <1>5, <1>6, <2>2 DEF IsRootKey
<1>9. ASSUME r < s PROVE LastInside(doc, RootStart(json, r) + 1) <= RootStart(json, s)
  <2>1. r + 1 \in DOMAIN Required /\ s + 1 \in DOMAIN Required /\ r + 1 < s + 1
    BY <1>9, RootNumbers DEF Required
  <2>2. m \in DOMAIN Fields(d, 1) /\ n \in DOMAIN Fields(d, 1) /\ m \in 1 .. Len(keys) /\ n \in 1 .. Len(keys)
    BY <1>3, <1>4, <1>6, <1>7 DEF IsRootKey
  <2>3. m < n
    BY <1>1, <1>6, <1>7, <2>1, <2>2 DEF IsAccepted, IsRootKey
  <2>4. LastInside(d, keys[m] + 1 + 1) <= keys[n]
    BY <1>1, <1>3, <1>5, <2>2, <2>3, KeysApart
  <2>5. LastInside(d, keys[m] + 1 + 1) \in Nat
    <3>1. LastInside(d, 1) \in 1 .. N
      BY <1>5, LastInsideIs
    <3>2. keys[m] + 1 + 1 \in 1 .. N
      BY <1>4, <1>5, <2>2, <3>1
    <3>3. LastInside(d, keys[m] + 1 + 1) \in keys[m] + 1 + 1 .. N
      BY <1>5, <3>2, LastInsideIs
    <3> QED BY <1>4, <2>2, <3>3
  <2>6. LastInside(d, keys[m] + 1 + 1) <= keys[n] + 1
    BY <1>4, <2>2, <2>4, <2>5
  <2> QED BY <1>1, <1>6, <1>7, <2>6 DEF IsRootKey
<1> QED BY <1>8, <1>9

\* The items of a field lie in its value, in the order of the text.
LEMMA RootItemsInOrder ==
  ASSUME text \in DOMAIN Docs, NEW r \in Roots
  PROVE  InOrder(RootItems(json, r), RootStart(json, r), LastInside(doc, RootStart(json, r) + 1) - 1)
<1>1. PICK d : d = doc /\ json = Tokens(d) /\ IsDoc(d)
  BY TextIsDoc
<1>2. PICK start : start = RootStart(json, r) /\ start \in 0 .. Len(d) - 1
  BY <1>1, RootsApart
<1>3. RootMaxLevel(r) \in Nat
  BY DEF RootMaxLevel
<1>4. InOrder(TraverseFind(json, start, RootMaxLevel(r)), start, LastInside(d, start + 1) - 1)
  BY <1>1, <1>2, <1>3, FindInOrder
<1>5. RootItems(json, r) \in {<<>>, TraverseFind(json, start, RootMaxLevel(r))}
  BY <1>2 DEF RootItems
<1>6. InOrder(<<>>, start, LastInside(d, start + 1) - 1)
  BY DEF InOrder
<1> QED BY <1>1, <1>2, <1>4, <1>5, <1>6

\* The traversal of every text ends.
LEMMA ItemsEnd ==
  ASSUME text \in DOMAIN Docs, NEW r \in Roots
  PROVE  Len(RootItems(json, r)) \in Nat
BY RootItemsInOrder DEF InOrder

-----------------------------------------------------------------------------
\* The cache of a text, and the items its counts stand for.
LEMMA IndexCounts ==
  ASSUME text \in DOMAIN Docs, NEW r \in Roots
  PROVE  LET items == RootItems(json, r)
         IN  /\ Index(json).subitems[r] = Len(items) % Width /\ Len(items) \in Nat
             /\ Index(json).start[r] = RootStart(json, r)
             /\ SubitemCount(Index(json), r) \in {0, Len(items) % Width}
             /\ Len(items) % Width \in 0 .. Width - 1 /\ Len(items) % Width <= Len(items)
<1>1. Len(RootItems(json, r)) \in Nat
  BY ItemsEnd
<1>2. /\ Index(json).subitems[r] = Len(RootItems(json, r)) % Width
      /\ Index(json).start[r] = RootStart(json, r)
  BY DEF Index
<1>3. SubitemCount(Index(json), r) \in {0, Index(json).subitems[r]}
  BY DEF SubitemCount
<1> DEFINE n == Len(RootItems(json, r))
<1>4. n % Width \in 0 .. Width - 1 /\ n % Width <= n
  <2> HIDE DEF n
  <2>1. Width \in Nat \ {0, 1}
    BY DisplayAssumption
  <2>2. n \in Nat
    BY <1>1 DEF n
  <2> QED BY <2>1, <2>2
<1> QED BY <1>1, <1>2, <1>3, <1>4

\* What the search finds is what was counted.
LEMMA CountedIsFound ==
  ASSUME text \in DOMAIN Docs, NEW r \in Roots, RootItems(json, r) # <<>>
  PROVE  /\ RootStart(json, r) # Absent
         /\ TraverseFind(json, RootStart(json, r), RootMaxLevel(r)) = RootItems(json, r)
BY Zenon DEF RootItems

\* The display index is that of an item of a field, which is found.
ShownAt(index, r, sub) ==
  /\ r \in Roots /\ sub \in Nat /\ sub < SubitemCount(Index(json), r)
  /\ CountBefore(Index(json), r) + sub = index
  /\ sub + 1 <= Len(RootItems(json, r))
  /\ Query(Index(json), index)
       = [err |-> "ok", item |-> [RootItems(json, r)[sub + 1] EXCEPT !.path = <<Name(r)>> \o @]]

LEMMA QueryFinds ==
  ASSUME text \in DOMAIN Docs, NEW index \in 0 .. Width - 1
  PROVE  /\ IsCounted(Index(json))
         /\ IF index < NumItems(Index(json)) THEN \E r, sub : ShownAt(index, r, sub)
            ELSE Query(Index(json), index) = [err |-> "out_of_range"]
<1> DEFINE c == Index(json)
           place == RetrieveTreeIndexes(c, index)
<1>1. Width \in Nat \ {0, 1} /\ index \in Nat
  BY DisplayAssumption
<1>2. IsCounted(c)
  <2>1. \A r \in Roots : SubitemCount(c, r) \in 0 .. Width - 1
    <3> TAKE r \in Roots
    <3>1. 0 \in 0 .. Width - 1
      BY <1>1
    <3> QED BY <3>1, IndexCounts
  <2> QED BY <2>1 DEF IsCounted
<1>3. NumItems(c) = CountAll(c) % Width /\ CountAll(c) \in Nat
  <2>1. CountAll(c) = SubitemCount(c, 0) + SubitemCount(c, 1) + SubitemCount(c, 2)
                      + SubitemCount(c, 3) + SubitemCount(c, 4) + SubitemCount(c, 5)
    BY RootNumbers DEF CountAll, CountBefore
  <2>2. NumItems(c) = (SubitemCount(c, 0) + SubitemCount(c, 1) + SubitemCount(c, 2)
                       + SubitemCount(c, 3) + SubitemCount(c, 4) + SubitemCount(c, 5)) % Width
    BY RootNumbers DEF NumItems, SumOfRoots
  <2>3. CountAll(c) \in Nat
    BY <1>2, CountsBefore, RootNumbers DEF CountAll
  <2> QED BY <2>1, <2>2, <2>3
<1>4. NumItems(c) \in Nat /\ NumItems(c) <= CountAll(c)
  <2> DEFINE all == CountAll(c)
  <2> HIDE DEF all
  <2>1. all \in Nat => all % Width \in Nat /\ all % Width <= all
    BY <1>1
  <2> QED BY <1>3, <2>1 DEF all
<1>5. CASE ~(index < NumItems(c))
  <2>1. index >= NumItems(c)
    BY <1>1, <1>4, <1>5
  <2> QED BY <1>2, <1>5, <2>1 DEF Query
<1>6. CASE index < NumItems(c)
  <2> DEFINE r == place[1]
             sub == place[2]
             items == TraverseFind(json, c.start[r], RootMaxLevel(r))
  <2>1. /\ r \in Roots /\ sub \in Nat /\ sub < SubitemCount(c, r)
        /\ CountBefore(c, r) + sub = index
    <3>1. IsPlace(c, index, place)
      BY <1>1, <1>2, RetrievedIsPlace
    <3> HIDE DEF place, c
    <3>2. ~(CountAll(c) <= index)
      BY <1>1, <1>3, <1>4, <1>6
    <3> QED BY <3>1, <3>2 DEF IsPlace
  <2> HIDE DEF place
  <2>2. /\ SubitemCount(c, r) \in {0, Len(RootItems(json, r)) % Width}
        /\ Len(RootItems(json, r)) \in Nat
        /\ Len(RootItems(json, r)) % Width <= Len(RootItems(json, r))
        /\ Len(RootItems(json, r)) % Width \in Nat
        /\ c.start[r] = RootStart(json, r)
    BY <2>1, IndexCounts, <1>1
  <2>3. sub + 1 <= Len(RootItems(json, r))
    <3> HIDE DEF c, r, sub
    <3> QED BY <2>1, <2>2
  <2>4. RootItems(json, r) # <<>>
    <3> HIDE DEF c, r, sub
    <3> QED BY <2>1, <2>3
  <2>5. c.start[r] # Absent /\ items = RootItems(json, r)
    BY <2>1, <2>2, <2>4, CountedIsFound
  <2>6. r # Absent /\ ~(index >= NumItems(c)) /\ ~(sub + 1 > Len(items))
    BY <1>1, <1>4, <1>6, <2>1, <2>2, <2>3, <2>5, RootNumbers
  <2>7. Query(c, index)
          = [err |-> "ok", item |-> [items[sub + 1] EXCEPT !.path = <<Name(r)>> \o @]]
    BY <2>5, <2>6, Zenon DEF Query, place
  <2>8. ShownAt(index, r, sub)
    <3> HIDE DEF r, sub
    <3> QED BY <2>1, <2>3, <2>5, <2>7 DEF ShownAt
  <2> QED BY <1>2, <1>6, <2>8
<1> QED BY <1>5, <1>6

LEMMA ShownIsToken ==
  ASSUME text \in DOMAIN Docs, NEW index, NEW r, NEW sub, ShownAt(index, r, sub)
  PROVE  /\ sub + 1 \in 1 .. Len(RootItems(json, r))
         /\ Query(Index(json), index).item.token = RootItems(json, r)[sub + 1].token
         /\ Query(Index(json), index).item.token \in Nat
<1>1. PICK items : items = RootItems(json, r)
  OBVIOUS
<1>2. items \in Seq(Items) /\ Len(items) \in Nat
  BY <1>1, RootItemsInOrder DEF InOrder, ShownAt
<1>3. sub + 1 \in 1 .. Len(items)
  BY <1>1, <1>2 DEF ShownAt
<1>4. items[sub + 1] \in Items
  BY <1>2, <1>3
<1>5. \A item \in Items : \A path : /\ item.token \in Nat
                                    /\ [item EXCEPT !.path = path].token = item.token
  BY DEF Items
<1>6. Query(Index(json), index).item = [items[sub + 1] EXCEPT !.path = <<Name(r)>> \o items[sub + 1].path]
  BY <1>1 DEF ShownAt
<1> QED BY <1>1, <1>3, <1>4, <1>5, <1>6

\* A later index is that of an item further behind, and its token is, too.
LEMMA LaterToken ==
  ASSUME text \in DOMAIN Docs, IsCounted(Index(json)),
         NEW i \in Nat, NEW j \in Nat, i < j,
         NEW r, NEW m, ShownAt(i, r, m), NEW s, NEW n, ShownAt(j, s, n)
  PROVE  Query(Index(json), i).item.token < Query(Index(json), j).item.token
<1> DEFINE c == Index(json)
<1>1. /\ r \in 0 .. 5 /\ m \in Nat /\ m < SubitemCount(c, r) /\ CountBefore(c, r) + m = i
      /\ s \in 0 .. 5 /\ n \in Nat /\ n < SubitemCount(c, s) /\ CountBefore(c, s) + n = j
  BY RootNumbers DEF ShownAt
<1>2. \A q \in 0 .. 5 : SubitemCount(c, q) \in Nat
  BY RootNumbers DEF IsCounted
<1>3. r < s \/ (r = s /\ m < n)
  <2>1. CASE s < r
    <3>1. CountBefore(c, r) >= CountBefore(c, s) + SubitemCount(c, s)
      <4> HIDE DEF c
      <4>1. r \in {0, 1, 2, 3, 4, 5} /\ s \in {0, 1, 2, 3, 4, 5}
        BY <1>1
      <4> QED BY <1>2, <2>1, <4>1 DEF CountBefore
    <3>2. CountBefore(c, r) \in Nat /\ CountBefore(c, s) \in Nat
      BY <1>1, CountsBefore
    <3> HIDE DEF c
    <3> QED BY <1>1, <1>2, <3>1, <3>2
  <2>2. CASE s = r
    <3>1. CountBefore(c, r) \in Nat
      BY <1>1, CountsBefore
    <3> HIDE DEF c
    <3> QED BY <1>1, <2>2, <3>1
  <2>3. CASE r < s
    BY <2>3
  <2> QED BY <1>1, <2>1, <2>2, <2>3
<1>4. r \in Roots /\ s \in Roots
  BY DEF ShownAt
<1>5. PICK first : first = RootItems(json, r)
  OBVIOUS
<1>6. PICK second : second = RootItems(json, s)
  OBVIOUS
<1>7. /\ InOrder(first, RootStart(json, r), LastInside(doc, RootStart(json, r) + 1) - 1)
      /\ InOrder(second, RootStart(json, s), LastInside(doc, RootStart(json, s) + 1) - 1)
  BY <1>4, <1>5, <1>6, RootItemsInOrder
<1>8. m + 1 \in 1 .. Len(first) /\ n + 1 \in 1 .. Len(second)
  BY <1>5, <1>6, ShownIsToken
<1>10. /\ Query(c, i).item.token = first[m + 1].token /\ first[m + 1].token \in Nat
       /\ Query(c, j).item.token = second[n + 1].token /\ second[n + 1].token \in Nat
  BY <1>5, <1>6, ShownIsToken
<1>11. first[m + 1].token < second[n + 1].token
  <2>1. CASE r = s
    <3>1. first = second /\ m + 1 < n + 1
      BY <1>1, <1>3, <1>5, <1>6, <2>1
    <3> QED BY <1>7, <1>8, <3>1 DEF InOrder
  <2>2. CASE r < s
    <3>1. PICK behind : behind = LastInside(doc, RootStart(json, r) + 1)
      OBVIOUS
    <3>2. behind <= RootStart(json, s)
      BY <1>4, <2>2, <3>1, RootsApart
    <3>3. first[m + 1].token <= behind - 1 /\ RootStart(json, s) <= second[n + 1].token
      BY <1>7, <1>8, <3>1 DEF InOrder
    <3>4. RootStart(json, s) \in Nat /\ behind \in Nat
      <4>1. RootStart(json, r) \in 0 .. Len(doc) - 1 /\ RootStart(json, s) \in 0 .. Len(doc) - 1
        BY <1>4, RootsApart
      <4>2. PICK N \in Nat : N = Len(doc) /\ IsNested(doc)
        BY TextIsDoc DEF IsDoc, IsNested
      <4>3. RootStart(json, r) + 1 \in 1 .. N
        BY <4>1, <4>2
      <4>4. behind \in RootStart(json, r) + 1 .. N
        BY <3>1, <4>2, <4>3, LastInsideIs
      <4> QED BY <4>1, <4>2, <4>3, <4>4
    <3>5. \A x, y, b, z \in Nat : x <= b - 1 /\ b <= z /\ z <= y => x < y
      OBVIOUS
    <3> QED BY <1>10, <3>2, <3>3, <3>4, <3>5
  <2> QED BY <1>3, <2>1, <2>2
<1> QED BY <1>10, <1>11

-----------------------------------------------------------------------------
LEMMA InitInv == Init => IInv
BY DEF Init, IInv, CacheIsFresh, EveryIndexFinds, None

\* Every call works with the cache of the text, and leaves it.
LEMMA CacheUsed ==
  ASSUME IInv, UseCache
  PROVE  /\ text \in DOMAIN Docs /\ CacheAfter(cache) = Index(json)
         /\ text' \in DOMAIN Docs \cup {0} /\ CacheIsFresh' /\ cache' = Index(json)
<1>1. text \in DOMAIN Docs /\ CacheAfter(cache) = Index(json)
  BY DEF IInv, CacheIsFresh, UseCache, CacheAfter
<1>2. Index(json)' = Index(json)
  BY DEF UseCache, json, Index
<1> QED BY <1>1, <1>2 DEF UseCache, CacheIsFresh

LEMMA StepInv == IInv /\ [Next]_vars => IInv'
<1> SUFFICES ASSUME IInv, [Next]_vars PROVE IInv'
  OBVIOUS
<1>1. ASSUME NEW d \in DOMAIN Docs, ReadTx(d) PROVE IInv'
  BY <1>1 DEF ReadTx, IInv, CacheIsFresh, EveryIndexFinds, None
<1>2. CASE ReadTxFails
  <2>1. text' # 0 => text' = text /\ Index(json)' = Index(json)
    BY <1>2 DEF ReadTxFails, json, Index
  <2>2. CacheIsFresh'
    BY <1>2, <2>1 DEF ReadTxFails, IInv, CacheIsFresh
  <2> QED BY <1>2, <2>2 DEF ReadTxFails, IInv, EveryIndexFinds, None
<1>3. CASE GetNumItems
  <2>1. result'.call = "numItems" /\ UseCache
    BY <1>3 DEF GetNumItems
  <2> QED BY <2>1, CacheUsed DEF IInv, EveryIndexFinds
<1>4. ASSUME NEW index \in 0 .. Width - 1, GetItem(index) PROVE IInv'
  <2>1. /\ text \in DOMAIN Docs /\ CacheAfter(cache) = Index(json)
        /\ text' \in DOMAIN Docs \cup {0} /\ CacheIsFresh' /\ cache' = Index(json)
    BY <1>4, CacheUsed DEF GetItem
  <2>2. result'.index = index /\ result'.found = Query(Index(json), index)
    BY <1>4, <2>1 DEF GetItem
  <2>3. NumItems(cache)' = NumItems(Index(json))
    BY <1>4, <2>1 DEF GetItem, UseCache, NumItems, SubitemCount
  <2>4. EveryIndexFinds'
    <3>1. Query(Index(json), index).err
            = IF index < NumItems(Index(json)) THEN "ok" ELSE "out_of_range"
      <4>1. CASE index < NumItems(Index(json))
        <5>1. PICK r, sub : ShownAt(index, r, sub)
          BY <2>1, <4>1, QueryFinds
        <5> QED BY <4>1, <5>1 DEF ShownAt
      <4>2. CASE ~(index < NumItems(Index(json)))
        <5>1. Query(Index(json), index) = [err |-> "out_of_range"]
          BY <2>1, <4>2, QueryFinds
        <5> QED BY <4>2, <5>1
      <4> QED BY <4>1, <4>2
    <3> QED BY <2>1, <2>2, <2>3, <3>1 DEF EveryIndexFinds
  <2> QED BY <2>1, <2>4 DEF IInv
<1>5. CASE ToggleExpert
  <2>1. Index(json)' = Index(json)
    BY <1>5 DEF ToggleExpert, json, Index
  <2> QED BY <1>5, <2>1 DEF ToggleExpert, IInv, CacheIsFresh, EveryIndexFinds, None
<1>6. CASE UNCHANGED vars
  <2>1. Index(json)' = Index(json) /\ NumItems(cache)' = NumItems(cache)
    BY <1>6 DEF vars, json, Index, NumItems, SubitemCount
  <2> QED BY <1>6, <2>1 DEF vars, IInv, CacheIsFresh, EveryIndexFinds
<1> QED BY <1>1, <1>2, <1>3, <1>4, <1>5, <1>6 DEF Next

(* A valid cache is that of the text that is parsed, whatever was parsed,  *)
(* refused or shown before.                                                *)
THEOREM CacheStaysFresh == Spec => []CacheIsFresh
<1>1. Init => IInv
  BY InitInv
<1>2. IInv /\ [Next]_vars => IInv'
  BY StepInv
<1>3. IInv => CacheIsFresh
  BY DEF IInv
<1> QED BY <1>1, <1>2, <1>3, PTL DEF Spec

(* Every display index below the count that was reported finds an item,    *)
(* and none at or above it does, for all documents with the required       *)
(* fields in order and all widths of the counters.                         *)
THEOREM IndicesFind == Spec => []EveryIndexFinds
<1>1. Init => IInv
  BY InitInv
<1>2. IInv /\ [Next]_vars => IInv'
  BY StepInv
<1>3. IInv => EveryIndexFinds
  BY DEF IInv
<1> QED BY <1>1, <1>2, <1>3, PTL DEF Spec
-----------------------------------------------------------------------------
\* Where the value of a field is found, if it is.
LEMMA RootStartIsToken ==
  ASSUME text \in DOMAIN Docs, NEW r \in Roots
  PROVE  RootStart(json, r) \in Nat \cup {Absent}
<1>1. DOMAIN json \subseteq Nat
  <2>1. Len(doc) \in Nat
    BY DisplayAssumption DEF doc
  <2>2. DOMAIN json = 0 .. Len(doc) - 1
    BY DEF json, doc, Parsed, Tokens
  <2> QED BY <2>1, <2>2
<1> DEFINE keys == ToSet(ObjectKeys(json, ROOT_TOKEN_INDEX))
           named == {t \in DOMAIN json : t \in keys /\ json[t].word = Name(r)}
<1>2. CASE named = {}
  BY <1>2 DEF RootStart, ValueNamed
<1>3. CASE named # {}
  <2>1. named \subseteq Nat
    BY <1>1
  <2>2. Min(named) \in Nat
    <3> HIDE DEF named
    <3>1. PICK x \in named : \A y \in named : x <= y
      BY <1>3, <2>1, Least
    <3> QED BY <2>1, <3>1 DEF Min
  <2>3. ValueNamed(json, ROOT_TOKEN_INDEX, Name(r)) = ValueOf(Min(named))
    BY <1>3 DEF ValueNamed
  <2>4. ValueOf(Min(named)) \in Nat
    <3> HIDE DEF named
    <3> QED BY <2>2 DEF ValueOf
  <2> HIDE DEF named
  <2> QED BY <2>3, <2>4, Zenon DEF RootStart
<1> QED BY <1>2, <1>3

IsCache(c) ==
  /\ c.total \in Nat /\ c.otherChain \in BOOLEAN
  /\ c.subitems \in [Roots -> 0 .. Width - 1]
  /\ \A r \in Roots : c.start[r] \in Nat \cup {Absent}

LEMMA SumOfCounts ==
  ASSUME NEW count \in [Roots -> 0 .. Width - 1]
  PROVE  SumOfRoots(count) \in Nat
<1>1. \A r \in 0 .. 5 : count[r] \in Nat
  BY RootNumbers, DisplayAssumption
<1>2. \A r \in {0, 1, 2, 3, 4, 5} : count[r] \in Nat
  BY <1>1
<1> QED BY <1>2 DEF SumOfRoots

LEMMA IndexIsCache == ASSUME text \in DOMAIN Docs PROVE IsCache(Index(json))
<1> DEFINE count == [r \in Roots |-> Len(RootItems(json, r)) % Width]
<1>1. count \in [Roots -> 0 .. Width - 1]
  BY IndexCounts
<1>2. Index(json).subitems = count /\ Index(json).total = SumOfRoots(count)
  BY DEF Index
<1>3. \A r \in Roots : Index(json).start[r] \in Nat \cup {Absent}
  BY RootStartIsToken, IndexCounts
<1>4. Index(json).otherChain \in BOOLEAN
  BY DEF Index
<1> HIDE DEF count
<1> QED BY <1>1, <1>2, <1>3, <1>4, SumOfCounts DEF IsCache

TypeInv ==
  /\ IInv
  /\ cacheValid \in BOOLEAN /\ expert \in BOOLEAN /\ IsCache(cache)
  /\ result.call \in {"none", "numItems", "getItem"}

(* The types of the display's state: every field of the cache that a call  *)
(* of tx_display.c leaves behind is a token or absent, and every count a   *)
(* byte, for all documents and widths of the counters.                     *)
THEOREM TypeCorrect == Spec => []TypeOK
<1>1. Init => TypeInv
  <2>1. IsCache(EmptyCache)
    <3>1. [r \in Roots |-> 0] \in [Roots -> 0 .. Width - 1]
      BY DisplayAssumption
    <3> QED BY <3>1 DEF IsCache, EmptyCache
  <2> SUFFICES ASSUME Init PROVE TypeInv
    OBVIOUS
  <2>2. cacheValid \in BOOLEAN /\ expert \in BOOLEAN
    BY Zenon DEF Init
  <2>3. result.call \in {"none", "numItems", "getItem"}
    BY DEF Init, None
  <2>4. IsCache(cache)
    BY <2>1, Zenon DEF Init
  <2> QED BY <2>2, <2>3, <2>4, InitInv DEF TypeInv
<1>2. TypeInv /\ [Next]_vars => TypeInv'
  <2> SUFFICES ASSUME TypeInv, [Next]_vars PROVE TypeInv'
    OBVIOUS
  <2>1. IInv'
    BY StepInv DEF TypeInv
  <2>2. ASSUME UseCache
        PROVE cacheValid' \in BOOLEAN /\ expert' \in BOOLEAN /\ IsCache(cache')
    <3>1. text \in DOMAIN Docs /\ cache' = Index(json)
      BY <2>2, CacheUsed DEF TypeInv
    <3> QED BY <2>2, <3>1, IndexIsCache DEF TypeInv, UseCache
  <2>3. ASSUME NEW d \in DOMAIN Docs, ReadTx(d) PROVE TypeInv'
    BY <2>1, <2>3 DEF ReadTx, TypeInv, IsCache, None
  <2>4. CASE ReadTxFails
    BY <2>1, <2>4 DEF ReadTxFails, TypeInv, IsCache, None
  <2>5. CASE GetNumItems
    BY <2>1, <2>2, <2>5 DEF GetNumItems, TypeInv, IsCache
  <2>6. ASSUME NEW index \in 0 .. Width - 1, GetItem(index) PROVE TypeInv'
    BY <2>1, <2>2, <2>6 DEF GetItem, TypeInv, IsCache
  <2>7. CASE ToggleExpert
    BY <2>1, <2>7 DEF ToggleExpert, TypeInv, IsCache, None
  <2>8. CASE UNCHANGED vars
    BY <2>1, <2>8 DEF vars, TypeInv, IsCache
  <2> QED BY <2>3, <2>4, <2>5, <2>6, <2>7, <2>8 DEF Next
<1>3. TypeInv => TypeOK
  <2>1. DOMAIN Docs = 1 .. Len(Docs) /\ Len(Docs) \in Nat
    BY DisplayAssumption
  <2>2. DOMAIN Docs \cup {0} = 0 .. Len(Docs)
    BY <2>1
  <2> QED BY <2>2 DEF TypeInv, IInv, IsCache, TypeOK
<1> QED BY <1>1, <1>2, <1>3, PTL DEF Spec
-----------------------------------------------------------------------------
\* What is specified, and what is found for it, value by value.

\* What is inside a value, and the fields of an object, as tokens.
AreInside(e, d, t) ==
  /\ e \in Seq(Nat) /\ AreElements(e, d, t)
  /\ Inside(d, t + 1) = [n \in 1 .. Len(e) |-> e[n] + 1]
  /\ \A n \in 1 .. Len(e) : e[n] \in 0 .. Len(d) - 1

AreFieldTokens(keys, d, t) ==
  /\ keys \in Seq(Nat)
  /\ Fields(d, t + 1) = [n \in 1 .. Len(keys) |-> <<keys[n] + 1, keys[n] + 2>>]
  /\ \A n \in 1 .. Len(keys) : keys[n] \in 0 .. Len(d) - 1 /\ keys[n] + 1 \in 0 .. Len(d) - 1
  /\ \A n \in 1 .. Len(keys) : d[keys[n] + 2].depth = d[t + 1].depth + 1

LEMMA InsideTokens ==
  ASSUME NEW d, IsDoc(d), NEW t \in 0 .. Len(d) - 1, NEW e, e = ArrayElements(Tokens(d), t)
  PROVE  AreInside(e, d, t)
<1>1. IsNested(d) /\ IsDocument(d)
  BY DEF IsDoc
<1>2. AreElements(e, d, t)
  BY <1>1, ElementsChain
<1>3. e \in Seq(Nat) /\ \A n \in 1 .. Len(e) : e[n] \in t + 1 .. LastInside(d, t + 1) - 1
  BY <1>2 DEF AreElements
<1>4. Inside(d, t + 1) = Shifted(e)
  <2>1. ASSUME NEW i \in 1 .. Len(d) - 1 PROVE d[i + 1].depth <= d[i].depth + 1
    <3>1. PICK N \in Nat : N = Len(d)
      BY <1>1 DEF IsNested
    <3>2. d[i].depth \in Nat /\ d[i + 1].depth \in Nat
      BY <1>1, <3>1 DEF IsNested
    <3>3. d[i + 1].depth <= d[i].depth + IF IsScalar(d[i].type) THEN 0 ELSE 1
      BY <1>1 DEF IsDocument
    <3> QED BY <3>2, <3>3
  <2> QED BY <1>1, <2>1, ElementsAreInside
<1>5. PICK N \in Nat : N = Len(d) /\ LastInside(d, t + 1) \in t + 1 .. N
  <2>1. Len(d) \in Nat
    BY <1>1 DEF IsNested
  <2>2. t + 1 \in 1 .. Len(d)
    BY <2>1
  <2> QED BY <1>1, <2>1, <2>2, LastInsideIs
<1>6. \A n \in 1 .. Len(e) : e[n] \in 0 .. N - 1
  <2>1. t \in Nat
    BY <1>5
  <2> QED BY <1>3, <1>5, <2>1
<1> QED BY <1>2, <1>3, <1>4, <1>5, <1>6 DEF Shifted, AreInside

LEMMA FieldTokens ==
  ASSUME NEW d, IsDoc(d), NEW t \in 0 .. Len(d) - 1, d[t + 1].type = "object",
         NEW keys, keys = ObjectKeys(Tokens(d), t)
  PROVE  AreFieldTokens(keys, d, t)
<1>1. IsNested(d) /\ IsDocument(d) /\ Len(Inside(d, t + 1)) % 2 = 0
  <2>1. t + 1 \in 1 .. Len(d)
    BY DEF IsDoc, IsNested
  <2> QED BY <2>1 DEF IsDoc
<1>2. /\ keys \in Seq(Nat)
      /\ \A n \in 1 .. Len(keys) : /\ keys[n] + 1 \in 0 .. Len(d) - 1
                                   /\ d[keys[n] + 2].depth = d[t + 1].depth + 1
  BY <1>1, ValuesDeeper
<1>3. AreFields(keys, d, t)
  BY <1>1, KeysAreFields
<1>4. DOMAIN keys = 1 .. Len(keys) /\ \A n \in 1 .. Len(keys) : keys[n] \in Nat
  BY <1>2
<1>5. \A n \in 1 .. Len(keys) : ValueOf(keys[n]) + 1 = keys[n] + 2
  BY <1>4 DEF ValueOf
<1>6. Fields(d, t + 1) = [n \in 1 .. Len(keys) |-> <<keys[n] + 1, keys[n] + 2>>]
  BY <1>3, <1>4, <1>5 DEF AreFields
<1>7. \A n \in 1 .. Len(keys) : keys[n] \in 0 .. Len(d) - 1
  <2>1. Len(d) \in Nat
    BY <1>1 DEF IsNested
  <2> QED BY <1>2, <1>4, <2>1
<1> QED BY <1>2, <1>6, <1>7 DEF AreFieldTokens

\* The value that the specification takes for a field is the one in the cache.
LEMMA FieldIsRoot ==
  ASSUME text \in DOMAIN Docs, NEW r \in Roots
  PROVE  /\ FieldValue(doc, Name(r)) = RootStart(json, r) + 1
         /\ RootStart(json, r) \in 0 .. Len(doc) - 1
         /\ doc[RootStart(json, r) + 1].depth = 1
<1>1. PICK d : d = doc /\ json = Tokens(d) /\ IsDoc(d) /\ IsAccepted(d) /\ 0 \in 0 .. Len(d) - 1
  BY TextIsDoc
<1>2. PICK keys : keys = ObjectKeys(json, 0)
  OBVIOUS
<1>3. AreKeys(keys, d, 0) /\ Fields(d, 1) = [n \in DOMAIN keys |-> <<keys[n] + 1, ValueOf(keys[n]) + 1>>]
  <2>1. AreKeys(keys, d, 0) /\ AreFields(keys, d, 0)
    BY <1>1, <1>2, RootKeys
  <2> QED BY <2>1 DEF AreFields
<1>4. IsNested(d) /\ IsDocument(d) /\ d[0 + 1].type = "object" /\ d[1].depth = 0 /\ 0 + 1 = 1
      /\ Len(Inside(d, 0 + 1)) % 2 = 0
  <2>1. IsNested(d) /\ IsDocument(d) /\ d[1].type = "object" /\ d[1].depth = 0 /\ 1 \in 1 .. Len(d)
    BY <1>1 DEF IsDoc, IsAccepted, IsNested
  <2> QED BY <1>1, <2>1 DEF IsDoc
<1>5. PICK K \in Nat : K = Len(keys) /\ keys \in [1 .. K -> Nat]
                       /\ Fields(d, 1) = [n \in 1 .. K |-> <<keys[n] + 1, (keys[n] + 1) + 1>>]
  <2>1. keys \in Seq(Nat)
    BY <1>3 DEF AreKeys
  <2> QED BY <1>3, <2>1 DEF ValueOf
<1>6. PICK n \in 1 .. K :
        /\ RootStart(json, r) = keys[n] + 1
        /\ d[Fields(d, 1)[n][1]].word = Required[r + 1]
        /\ \A k \in 1 .. K : d[Fields(d, 1)[k][1]].word = Required[r + 1] => keys[n] <= keys[k]
  <2>1. PICK n : IsRootKey(keys, n, r)
    BY <1>2, RootIsKey
  <2> QED BY <1>1, <1>5, <2>1 DEF IsRootKey
<1>7. Name(r) = Required[r + 1]
  BY RootNumbers DEF Name, RequiredRootItem, Required
<1>8. ASSUME NEW k \in 1 .. K, d[Fields(d, 1)[k][1]].word = Required[r + 1] PROVE n <= k
  <2>1. keys[n] <= keys[k] /\ keys[n] \in Nat /\ keys[k] \in Nat
    BY <1>5, <1>6, <1>8
  <2>2. ASSUME k < n PROVE FALSE
    <3>1. LastInside(d, keys[k] + 1 + 1) <= keys[n]
      BY <1>1, <1>3, <1>4, <1>5, <2>2, KeysApart
    <3>2. LastInside(d, keys[k] + 1 + 1) \in keys[k] + 1 + 1 .. Len(d)
      <4>1. keys[k] + 1 \in 0 .. Len(d) - 1
        BY <1>1, <1>2, <1>4, <1>5, ValuesDeeper
      <4>2. keys[k] + 1 + 1 \in 1 .. Len(d)
        BY <2>1, <4>1
      <4> QED BY <1>4, <4>2, LastInsideIs
    <3> QED BY <2>1, <3>1, <3>2
  <2> QED BY <2>2
<1> DEFINE S == {m \in DOMAIN Fields(d, 1) : d[Fields(d, 1)[m][1]].word = Name(r)}
<1>9. Min(S) = n
  <2>1. n \in S /\ \A k \in S : n <= k
    BY <1>5, <1>6, <1>7, <1>8
  <2>2. S \subseteq Nat
    BY <1>5
  <2> HIDE DEF S
  <2>3. n \in Nat
    BY <2>1, <2>2
  <2>4. Min(S) \in S /\ \A k \in S : Min(S) <= k
    BY <2>1 DEF Min
  <2>5. PICK m \in Nat : m = Min(S) /\ n <= m /\ m <= n
    BY <2>1, <2>2, <2>4
  <2> QED BY <2>3, <2>5
<1>10. FieldValue(d, Name(r)) = Fields(d, 1)[n][2]
  BY <1>9 DEF FieldValue
<1>11. Fields(d, 1)[n][2] = RootStart(json, r) + 1
  BY <1>5, <1>6
<1>12. keys[n] + 1 \in 0 .. Len(d) - 1 /\ d[keys[n] + 2].depth = d[1].depth + 1
  <2>1. \A k \in 1 .. Len(keys) : /\ keys[k] + 1 \in 0 .. Len(d) - 1
                                  /\ d[keys[k] + 2].depth = d[0 + 1].depth + 1
    <3>1. AreFieldTokens(keys, d, 0)
      BY <1>1, <1>2, <1>4, FieldTokens
    <3> QED BY <3>1 DEF AreFieldTokens
  <2>2. n \in 1 .. Len(keys)
    BY <1>5
  <2>3. d[keys[n] + 2].depth = d[0 + 1].depth + 1 /\ keys[n] + 1 \in 0 .. Len(d) - 1
    BY <2>1, <2>2
  <2> QED BY <1>4, <2>3
<1>13. (keys[n] + 1) + 1 = keys[n] + 2
  BY <1>5
<1> QED BY <1>1, <1>4, <1>6, <1>10, <1>11, <1>12, <1>13

\* What is displayed of a value is decided by what is at the next level.
LEMMA DisplayedBy ==
  ASSUME NEW d, IsDoc(d), NEW i \in 1 .. Len(d), NEW level \in 0 .. 2, NEW f, NEW g,
         level # 2 => \A j \in 1 .. Len(d) : f[j][level + 1] = g[j][level + 1]
  PROVE  Displayed(d, f, i, level) = Displayed(d, g, i, level)
<1>1. PICK N \in Nat : N = Len(d)
  BY DEF IsDoc, IsNested
<1>2. PICK t \in 0 .. Len(d) - 1 : t + 1 = i
  <2>1. i - 1 \in 0 .. Len(d) - 1 /\ (i - 1) + 1 = i
    BY <1>1
  <2> QED BY <2>1
<1>3. CASE level = 2 \/ IsScalar(d[i].type)
  BY <1>3 DEF Displayed
<1>4. CASE level # 2 /\ ~IsScalar(d[i].type) /\ d[i].type = "object"
  <2>1. PICK keys : keys = ObjectKeys(Tokens(d), t)
    OBVIOUS
  <2>2. \A n \in DOMAIN Fields(d, i) : Fields(d, i)[n][2] \in 1 .. N
    <3>1. /\ keys \in Seq(Nat)
          /\ Fields(d, i) = [n \in 1 .. Len(keys) |-> <<keys[n] + 1, keys[n] + 2>>]
          /\ \A n \in 1 .. Len(keys) : keys[n] + 1 \in 0 .. N - 1
      <4>1. d[t + 1].type = "object"
        BY <1>2, <1>4
      <4>2. AreFieldTokens(keys, d, t)
        BY <2>1, <4>1, FieldTokens
      <4> QED BY <1>1, <1>2, <4>2 DEF AreFieldTokens
    <3> TAKE n \in DOMAIN Fields(d, i)
    <3>2. n \in 1 .. Len(keys)
      BY <3>1
    <3>3. Fields(d, i)[n][2] = keys[n] + 2 /\ keys[n] \in Nat /\ keys[n] + 1 \in 0 .. N - 1
      BY <3>1, <3>2
    <3> QED BY <3>3
  <2>3. \A n \in DOMAIN Fields(d, i) : f[Fields(d, i)[n][2]][level + 1] = g[Fields(d, i)[n][2]][level + 1]
    BY <1>1, <1>4, <2>2
  <2>4. [n \in DOMAIN Fields(d, i) |-> Under(d[Fields(d, i)[n][1]].word, f[Fields(d, i)[n][2]][level + 1])]
        = [n \in DOMAIN Fields(d, i) |-> Under(d[Fields(d, i)[n][1]].word, g[Fields(d, i)[n][2]][level + 1])]
    BY <2>3
  <2> QED BY <1>4, <2>4, Zenon DEF Displayed
<1>5. CASE level # 2 /\ ~IsScalar(d[i].type) /\ d[i].type # "object"
  <2>1. PICK e : e = ArrayElements(Tokens(d), t)
    OBVIOUS
  <2>2. \A n \in DOMAIN Inside(d, i) : Inside(d, i)[n] \in 1 .. N
    <3>1. /\ e \in Seq(Nat)
          /\ Inside(d, i) = [n \in 1 .. Len(e) |-> e[n] + 1]
          /\ \A n \in 1 .. Len(e) : e[n] \in 0 .. N - 1
      <4>1. AreInside(e, d, t)
        BY <2>1, InsideTokens
      <4> QED BY <1>1, <1>2, <4>1 DEF AreInside
    <3> QED BY <3>1
  <2>3. \A n \in DOMAIN Inside(d, i) : f[Inside(d, i)[n]][level + 1] = g[Inside(d, i)[n]][level + 1]
    BY <1>1, <1>5, <2>2
  <2>4. [n \in DOMAIN Inside(d, i) |-> f[Inside(d, i)[n]][level + 1]]
        = [n \in DOMAIN Inside(d, i) |-> g[Inside(d, i)[n]][level + 1]]
    BY <2>3
  <2> QED BY <1>5, <2>4, Zenon DEF Displayed
<1> QED BY <1>3, <1>4, <1>5

\* The recursion of the display has a result, since it goes to level 2 only.
LEMMA DisplayIs ==
  ASSUME NEW d, IsDoc(d)
  PROVE  \E f : /\ \A value, level : Display(d, value, level) = f[value][level]
                /\ \A i \in 1 .. Len(d) : \A level \in 0 .. 2 :
                     f[i][level] = Displayed(d, f, i, level)
<1>1. DOMAIN d = 1 .. Len(d)
  BY DEF IsDoc, IsNested
<1> DEFINE IsDisplay(f) == f = [i \in DOMAIN d |-> [l \in 0 .. 2 |-> Displayed(d, f, i, l)]]
           f2 == [i \in DOMAIN d |-> [l \in 0 .. 2 |-> Displayed(d, <<>>, i, 2)]]
           f1 == [i \in DOMAIN d |-> [l \in 0 .. 2 |-> IF l = 2 THEN f2[i][l] ELSE Displayed(d, f2, i, 1)]]
           f0 == [i \in DOMAIN d |-> [l \in 0 .. 2 |-> IF l # 0 THEN f1[i][l] ELSE Displayed(d, f1, i, 0)]]
<1>2. ASSUME NEW i \in DOMAIN d
      PROVE  /\ f0[i][0] = Displayed(d, f1, i, 0)
             /\ f0[i][1] = f1[i][1] /\ f1[i][1] = Displayed(d, f2, i, 1)
             /\ f0[i][2] = f1[i][2] /\ f1[i][2] = f2[i][2] /\ f2[i][2] = Displayed(d, <<>>, i, 2)
  OBVIOUS
<1>3. \A i \in DOMAIN d : DOMAIN f0[i] = 0 .. 2
  OBVIOUS
<1>4. DOMAIN f0 = DOMAIN d /\ \A i \in DOMAIN d : f0[i] = [l \in 0 .. 2 |-> f0[i][l]]
  OBVIOUS
<1>5. f0 = [i \in DOMAIN d |-> f0[i]]
  OBVIOUS
<1> HIDE DEF f2, f1, f0
<1>6. ASSUME NEW i \in DOMAIN d PROVE f0[i][2] = Displayed(d, f0, i, 2)
  <2>1. 2 \in 0 .. 2
    OBVIOUS
  <2>2. Displayed(d, <<>>, i, 2) = Displayed(d, f0, i, 2)
    BY <1>1, <2>1, DisplayedBy
  <2> QED BY <1>2, <2>2
<1>7. ASSUME NEW i \in DOMAIN d PROVE f0[i][1] = Displayed(d, f0, i, 1)
  <2>1. 1 \in 0 .. 2 /\ 1 + 1 = 2 /\ 1 # 2
    OBVIOUS
  <2>2. \A j \in 1 .. Len(d) : f2[j][1 + 1] = f0[j][1 + 1]
    BY <1>1, <1>2, <2>1
  <2>3. Displayed(d, f2, i, 1) = Displayed(d, f0, i, 1)
    BY <1>1, <2>1, <2>2, DisplayedBy
  <2> QED BY <1>2, <2>3
<1>8. ASSUME NEW i \in DOMAIN d PROVE f0[i][0] = Displayed(d, f0, i, 0)
  <2>1. 0 \in 0 .. 2 /\ 0 + 1 = 1 /\ 0 # 2
    OBVIOUS
  <2>2. \A j \in 1 .. Len(d) : f1[j][0 + 1] = f0[j][0 + 1]
    BY <1>1, <1>2, <2>1
  <2>3. Displayed(d, f1, i, 0) = Displayed(d, f0, i, 0)
    BY <1>1, <2>1, <2>2, DisplayedBy
  <2> QED BY <1>2, <2>3
<1>9. \A i \in DOMAIN d : \A l \in 0 .. 2 : f0[i][l] = Displayed(d, f0, i, l)
  <2>1. 0 .. 2 = {0, 1, 2}
    OBVIOUS
  <2> QED BY <1>6, <1>7, <1>8, <2>1
<1>10. IsDisplay(f0)
  BY <1>3, <1>4, <1>5, <1>9
<1> DEFINE display == CHOOSE f : IsDisplay(f)
<1>11. IsDisplay(display)
  BY <1>10
<1>12. \A value, level : Display(d, value, level) = display[value][level]
  BY DEF Display
<1>13. \A i \in 1 .. Len(d) : \A level \in 0 .. 2 : display[i][level] = Displayed(d, display, i, level)
  <2>1. display = [i \in DOMAIN d |-> [l \in 0 .. 2 |-> Displayed(d, display, i, l)]]
    BY <1>11
  <2> HIDE DEF display
  <2> TAKE i \in 1 .. Len(d)
  <2>2. display[i] = [l \in 0 .. 2 |-> Displayed(d, display, i, l)]
    BY <1>1, <2>1, Zenon
  <2> QED BY <2>2, Zenon
<1> HIDE DEF display
<1> QED BY <1>12, <1>13

\* The result of the traversal at each depth, and that of the display.
IsFind(find, tree) ==
  \A depth \in 0 .. MAX_RECURSION_DEPTH : find[depth] = FoundAt(tree, find[depth - 1], depth)

IsDisplay(f, d) ==
  \A i \in 1 .. Len(d) : \A level \in 0 .. 2 : f[i][level] = Displayed(d, f, i, level)

LEMMA EnteredAt ==
  ASSUME NEW tree, NEW deeper, NEW depth, depth # 0, NEW t \in Nat, NEW below \in Nat
  PROVE  FoundAt(tree, deeper, depth)[t][below] = Found(tree, deeper, t, below)
BY DEF FoundAt

LEMMA FindUnfolds ==
  ASSUME NEW tree, NEW find, IsFind(find, tree), NEW depth \in 0 .. MAX_RECURSION_DEPTH,
         NEW t \in Nat, NEW below \in Nat
  PROVE  find[depth][t][below]
           = IF depth = 0 THEN <<Item(t, <<>>)>> ELSE Found(tree, find[depth - 1], t, below)
<1>1. find[depth] = FoundAt(tree, find[depth - 1], depth)
  BY DEF IsFind
<1> QED BY <1>1 DEF FoundAt

\* A value that is not entered is an item, in both.
LEMMA WordFound ==
  ASSUME NEW d, IsDoc(d), NEW find, IsFind(find, Tokens(d)), NEW depth \in 0 .. MAX_RECURSION_DEPTH,
         NEW t \in 0 .. Len(d) - 1, NEW below \in Nat, below = 0 \/ IsScalar(d[t + 1].type)
  PROVE  find[depth][t][below] = <<Item(t, <<>>)>>
<1>1. t \in Nat /\ Tokens(d)[t].type = d[t + 1].type
  BY DEF IsDoc, IsNested, Tokens
<1>2. Found(Tokens(d), find[depth - 1], t, below) = <<Item(t, <<>>)>>
  BY <1>1 DEF Found
<1> QED BY <1>1, <1>2, FindUnfolds

LEMMA TextDisplayed ==
  ASSUME NEW d, IsDoc(d), NEW f, IsDisplay(f, d)
  PROVE  \A t \in 0 .. Len(d) - 1 : \A i : i = t + 1 => f[i][2] = <<Item(t, <<>>)>>
<1> SUFFICES ASSUME NEW t \in 0 .. Len(d) - 1 PROVE f[t + 1][2] = <<Item(t, <<>>)>>
  OBVIOUS
<1>1. t + 1 \in 1 .. Len(d) /\ (t + 1) - 1 = t
  <2>1. Len(d) \in Nat
    BY DEF IsDoc, IsNested
  <2> QED BY <2>1
<1>2. 2 \in 0 .. 2
  OBVIOUS
<1>3. Displayed(d, f, t + 1, 2) = <<Item(t, <<>>)>>
  BY <1>1 DEF Displayed
<1> QED BY <1>1, <1>2, <1>3 DEF IsDisplay

LEMMA WordDisplayed ==
  ASSUME NEW d, IsDoc(d), NEW f, IsDisplay(f, d),
         NEW t \in 0 .. Len(d) - 1, NEW i, i = t + 1,
         NEW level \in 0 .. 2, level = 2 \/ IsScalar(d[i].type)
  PROVE  f[i][level] = <<Item(t, <<>>)>>
<1>1. t + 1 \in 1 .. Len(d) /\ (t + 1) - 1 = t
  <2>1. Len(d) \in Nat
    BY DEF IsDoc, IsNested
  <2> QED BY <2>1
<1>2. Displayed(d, f, t + 1, level) = <<Item(t, <<>>)>>
  BY <1>1 DEF Displayed
<1> QED BY <1>1, <1>2 DEF IsDisplay

\* The values of the keys are the same in both.
AreSame(keys, deeper, below, f, level) ==
  \A n \in 1 .. Len(keys) : deeper[keys[n] + 1][below - 1] = f[keys[n] + 2][level + 1]

\* An object, when its values are the same in both.
LEMMA ObjectSame ==
  ASSUME NEW d, IsDoc(d), NEW t \in 0 .. Len(d) - 1, d[t + 1].type = "object",
         NEW keys, keys = ObjectKeys(Tokens(d), t),
         NEW below, below # 0, NEW level, level # 2, NEW deeper, NEW f,
         AreSame(keys, deeper, below, f, level), NEW i, i = t + 1
  PROVE  Found(Tokens(d), deeper, t, below) = Displayed(d, f, i, level)
<1>1. PICK tree : tree = Tokens(d)
  OBVIOUS
<1>2. AreFieldTokens(keys, d, t)
  BY FieldTokens
<1>3. PICK size \in Nat : size = Len(keys) /\ DOMAIN keys = 1 .. size
  BY <1>2 DEF AreFieldTokens
<1>4. Fields(d, t + 1) = [n \in 1 .. size |-> <<keys[n] + 1, keys[n] + 2>>]
  BY <1>2, <1>3 DEF AreFieldTokens
<1>5. \A n \in 1 .. size : keys[n] \in 0 .. Len(d) - 1
  BY <1>2, <1>3 DEF AreFieldTokens
<1>6. \A u \in 0 .. Len(d) - 1 : tree[u].word = d[u + 1].word /\ tree[u].type = d[u + 1].type
  BY <1>1 DEF Tokens
<1>7. /\ DOMAIN Fields(d, t + 1) = 1 .. size
      /\ \A n \in 1 .. size : Fields(d, t + 1)[n][1] = keys[n] + 1 /\ Fields(d, t + 1)[n][2] = keys[n] + 2
  BY <1>4
<1>8. [n \in DOMAIN keys |-> Under(tree[keys[n]].word, deeper[ValueOf(keys[n])][below - 1])]
      = [n \in DOMAIN Fields(d, t + 1) |->
           Under(d[Fields(d, t + 1)[n][1]].word, f[Fields(d, t + 1)[n][2]][level + 1])]
  <2>1. ASSUME NEW n \in 1 .. size
        PROVE  Under(tree[keys[n]].word, deeper[ValueOf(keys[n])][below - 1])
               = Under(d[Fields(d, t + 1)[n][1]].word, f[Fields(d, t + 1)[n][2]][level + 1])
    <3>1. tree[keys[n]].word = d[Fields(d, t + 1)[n][1]].word
      BY <1>5, <1>6, <1>7
    <3>2. deeper[ValueOf(keys[n])][below - 1] = f[Fields(d, t + 1)[n][2]][level + 1]
      BY <1>3, <1>7 DEF ValueOf, AreSame
    <3> QED BY <3>1, <3>2
  <2> QED BY <1>3, <1>7, <2>1
<1>9. ~IsScalar("object")
  BY DEF IsScalar
<1>10. tree[t].type = "object"
  BY <1>6
<1>11. Found(tree, deeper, t, below)
       = FlattenSeq([n \in DOMAIN keys |-> Under(tree[keys[n]].word, deeper[ValueOf(keys[n])][below - 1])])
  BY <1>1, <1>9, <1>10, Zenon DEF Found
<1>12. Displayed(d, f, t + 1, level)
       = FlattenSeq([n \in DOMAIN Fields(d, t + 1) |->
           Under(d[Fields(d, t + 1)[n][1]].word, f[Fields(d, t + 1)[n][2]][level + 1])])
  BY <1>9, Zenon DEF Displayed
<1> QED BY <1>1, <1>8, <1>11, <1>12

LEMMA LeastOfTwo ==
  ASSUME NEW a \in Nat, NEW b \in Nat, b <= a
  PROVE  Min({a, b}) = b
<1>1. Min({a, b}) \in {a, b} /\ \A y \in {a, b} : Min({a, b}) <= y
  <2>1. b \in {a, b} /\ \A y \in {a, b} : b <= y
    OBVIOUS
  <2> QED BY <2>1 DEF Min
<1>2. PICK m \in Nat : m = Min({a, b}) /\ m <= b /\ (m = a \/ m = b)
  BY <1>1
<1> QED BY <1>2

\* A function on what is inside a value, with what is found of its elements.
AreFound(parts, d, t, e, deeper, below) ==
  /\ parts = [n \in DOMAIN Inside(d, t + 1) |-> parts[n]]
  /\ \A n \in 1 .. Len(e) : deeper[e[n]][below] = parts[n]

\* The keys that the traversal counts are enough for the elements.
AreCounted(e, d, t) ==
  Len(ObjectKeys(Tokens(d), t)) \in Nat /\ Len(e) <= Len(ObjectKeys(Tokens(d), t))

\* An array, when its elements are, and they are not more than the keys.
LEMMA ArraySame ==
  ASSUME NEW d, IsDoc(d), NEW t \in 0 .. Len(d) - 1, d[t + 1].type = "array",
         NEW e, e = ArrayElements(Tokens(d), t),
         AreCounted(e, d, t),
         NEW below, below # 0, NEW deeper,
         NEW parts, AreFound(parts, d, t, e, deeper, below)
  PROVE  Found(Tokens(d), deeper, t, below) = FlattenSeq(parts)
<1>1. PICK tree : tree = Tokens(d)
  OBVIOUS
<1>2. AreInside(e, d, t)
  BY InsideTokens
<1>3. PICK size \in Nat : size = Len(e)
  BY <1>2 DEF AreInside
<1>4. /\ DOMAIN Inside(d, t + 1) = 1 .. size
      /\ \A n \in 1 .. size : Inside(d, t + 1)[n] = e[n] + 1
  BY <1>2, <1>3 DEF AreInside
<1>5. Min({Len(ObjectKeys(tree, t)), Len(e)}) = size
  BY <1>1, <1>3, LeastOfTwo DEF AreCounted
<1>6. [n \in 1 .. Min({Len(ObjectKeys(tree, t)), Len(e)}) |-> deeper[e[n]][below]]
      = parts
  BY <1>3, <1>4, <1>5 DEF AreFound
<1>7. ~IsScalar("array") /\ "array" # "object"
  BY DEF IsScalar
<1>8. tree[t].type = "array"
  BY <1>1 DEF Tokens
<1>9. Found(tree, deeper, t, below)
      = FlattenSeq([n \in 1 .. Min({Len(ObjectKeys(tree, t)), Len(e)}) |-> deeper[e[n]][below]])
  BY <1>1, <1>7, <1>8, Zenon DEF Found
<1> QED BY <1>1, <1>6, <1>9

\* A value below which nothing is entered: an array has no more than a word.
IsShort(d, i) ==
  d[i].type = "array" =>
    LastInside(d, i) <= i + 1 /\ (LastInside(d, i) = i + 1 => IsScalar(d[i + 1].type))

LEMMA ShortSame ==
  ASSUME NEW d, IsDoc(d), NEW find, IsFind(find, Tokens(d)), NEW f, IsDisplay(f, d),
         NEW depth \in 1 .. MAX_RECURSION_DEPTH, NEW t \in 0 .. Len(d) - 1, IsShort(d, t + 1)
  PROVE  find[depth][t][1] = f[t + 1][1]
<1>1. PICK deeper : deeper = find[depth - 1]
  OBVIOUS
<1>2. depth \in 0 .. MAX_RECURSION_DEPTH /\ depth - 1 \in 0 .. MAX_RECURSION_DEPTH /\ depth # 0
  BY DEF MAX_RECURSION_DEPTH
<1>3. PICK N \in Nat : N = Len(d) /\ t \in Nat /\ t < N
  <2>1. Len(d) \in Nat
    BY DEF IsDoc, IsNested
  <2> QED BY <2>1
<1>4. find[depth][t][1] = Found(Tokens(d), deeper, t, 1)
  <2>1. find[depth] = FoundAt(Tokens(d), deeper, depth)
    BY <1>1, <1>2 DEF IsFind
  <2>2. 1 \in Nat
    OBVIOUS
  <2>3. FoundAt(Tokens(d), deeper, depth)[t][1] = Found(Tokens(d), deeper, t, 1)
    <3>1. depth # 0 /\ t \in Nat
      BY <1>2, <1>3
    <3> QED BY <2>2, <3>1, EnteredAt
  <2> QED BY <2>1, <2>3, Zenon
<1>5. f[t + 1][1] = Displayed(d, f, t + 1, 1)
  BY <1>3 DEF IsDisplay
<1>6. d[t + 1].type \in Types
  BY <1>3 DEF IsDoc
<1>7. CASE IsScalar(d[t + 1].type)
  <2>1. 1 \in Nat /\ 1 \in 0 .. 2
    OBVIOUS
  <2>2. find[depth][t][1] = <<Item(t, <<>>)>>
    BY <1>2, <1>7, <2>1, WordFound
  <2>3. f[t + 1][1] = <<Item(t, <<>>)>>
    <3>1. PICK one \in 0 .. 2 : one = 1
      OBVIOUS
    <3>2. f[t + 1][one] = <<Item(t, <<>>)>>
      BY <1>7, WordDisplayed
    <3> QED BY <3>1, <3>2
  <2> QED BY <2>2, <2>3
<1>8. CASE d[t + 1].type = "object"
  <2>1. PICK keys : keys = ObjectKeys(Tokens(d), t)
    OBVIOUS
  <2>2. 1 \in Nat /\ 1 # 0 /\ 1 \in 0 .. 1 /\ 1 - 1 = 0 /\ 1 + 1 = 2 /\ 0 \in Nat /\ 2 \in 0 .. 2
    OBVIOUS
  <2>3. ASSUME NEW n \in 1 .. Len(keys) PROVE deeper[keys[n] + 1][1 - 1] = f[keys[n] + 2][1 + 1]
    <3>1. AreFieldTokens(keys, d, t)
      BY <1>8, <2>1, FieldTokens
    <3>2. PICK u \in 0 .. Len(d) - 1 : u = keys[n] + 1 /\ u + 1 = keys[n] + 2
      <4>1. keys[n] + 1 \in 0 .. Len(d) - 1 /\ keys[n] \in Nat
        BY <3>1 DEF AreFieldTokens
      <4> QED BY <4>1
    <3>3. deeper[u][0] = <<Item(u, <<>>)>>
      <4>1. PICK less \in 0 .. MAX_RECURSION_DEPTH : less = depth - 1
        BY <1>2
      <4>2. PICK below \in Nat : below = 0
        OBVIOUS
      <4>3. find[less][u][below] = <<Item(u, <<>>)>>
        BY <3>2, <4>1, <4>2, WordFound, SMTT(30)
      <4> QED BY <1>1, <4>1, <4>2, <4>3
    <3>4. f[u + 1][2] = <<Item(u, <<>>)>>
      BY <3>2, TextDisplayed
    <3> QED BY <2>2, <3>2, <3>3, <3>4
  <2>4. Found(Tokens(d), deeper, t, 1) = Displayed(d, f, t + 1, 1)
    <3>1. AreSame(keys, deeper, 1, f, 1)
      BY <2>3 DEF AreSame
    <3>2. 1 # 0 /\ 1 # 2
      OBVIOUS
    <3> QED BY <1>8, <2>1, <3>1, <3>2, ObjectSame
  <2> QED BY <1>4, <1>5, <2>4
<1>9. CASE d[t + 1].type = "array"
  <2>1. PICK e : e = ArrayElements(Tokens(d), t)
    OBVIOUS
  <2>2. PICK last \in Nat :
          /\ last = LastInside(d, t + 1) /\ t + 1 <= last /\ last <= t + 2
          /\ last = t + 2 => IsScalar(d[t + 2].type)
    <3>1. t + 1 \in 1 .. Len(d) /\ (t + 1) + 1 = t + 2
      BY <1>3
    <3>2. LastInside(d, t + 1) \in t + 1 .. Len(d)
      BY <3>1, LastInsideIs DEF IsDoc
    <3> QED BY <1>3, <1>9, <3>1, <3>2 DEF IsShort
  <2>3. AreInside(e, d, t)
    BY <2>1, InsideTokens
  <2>4. PICK size \in Nat : size = Len(e)
    BY <2>3 DEF AreInside
  <2>5. \A n \in 1 .. size : n = 1 /\ e[n] = t + 1 /\ last = t + 2
    <3>1. /\ e # <<>> => e[1] = t + 1
          /\ \A n \in 1 .. size : e[n] \in t + 1 .. last - 1 /\ (n # size => e[n + 1] = LastInside(d, e[n] + 1))
      BY <2>2, <2>3, <2>4 DEF AreInside, AreElements
    <3>2. \A n \in 1 .. size : e[n] = t + 1 /\ last = t + 2
      BY <1>3, <2>2, <3>1
    <3>3. ASSUME 2 \in 1 .. size PROVE FALSE
      <4>1. 1 \in 1 .. size /\ 1 # size /\ 1 + 1 = 2
        BY <3>3
      <4>2. e[2] = LastInside(d, t + 2) /\ e[2] = t + 1
        <5>1. (t + 1) + 1 = t + 2
          BY <1>3
        <5> QED BY <3>1, <3>2, <3>3, <4>1, <5>1
      <4>3. t + 2 \in 1 .. Len(d)
        <5>1. last \in t + 1 .. Len(d)
          <6>1. t + 1 \in 1 .. Len(d)
            BY <1>3
          <6> QED BY <2>2, <6>1, LastInsideIs DEF IsDoc
        <5> QED BY <1>3, <3>2, <4>1, <5>1
      <4>4. LastInside(d, t + 2) \in t + 2 .. Len(d)
        BY <4>3, LastInsideIs DEF IsDoc
      <4> QED BY <1>3, <4>2, <4>4
    <3>4. \A n \in 1 .. size : n = 1
      BY <2>4, <3>3
    <3> QED BY <3>2, <3>4
  <2>6. AreCounted(e, d, t)
    <3>1. CASE size = 0
      <4>1. ObjectKeys(Tokens(d), t) \in Seq(Nat)
        BY KeysAreTokens DEF IsDoc
      <4>2. Len(ObjectKeys(Tokens(d), t)) \in Nat
        BY <4>1
      <4> QED BY <2>4, <3>1, <4>2 DEF AreCounted
    <3>2. CASE size # 0
      <4>1. 1 \in 1 .. size /\ size \in 1 .. size
        BY <3>2
      <4>2. size = 1 /\ last > t + 1
        BY <1>3, <2>5, <4>1
      <4>3. Len(ObjectKeys(Tokens(d), t)) \in Nat /\ Len(ObjectKeys(Tokens(d), t)) >= 1
        BY <2>2, <4>2, KeyOfElement DEF IsDoc
      <4> QED BY <2>4, <4>2, <4>3 DEF AreCounted
    <3> QED BY <3>1, <3>2
  <2> DEFINE parts == [n \in DOMAIN Inside(d, t + 1) |-> f[Inside(d, t + 1)[n]][2]]
  <2>7. ASSUME NEW n \in 1 .. Len(e) PROVE deeper[e[n]][1] = parts[n]
    <3>1. e[n] = t + 1 /\ last = t + 2 /\ n \in 1 .. size
      BY <2>4, <2>5
    <3>2. PICK u \in 0 .. Len(d) - 1 : u = e[n] /\ IsScalar(d[u + 1].type)
      <4>1. e[n] \in 0 .. Len(d) - 1
        BY <2>3 DEF AreInside
      <4>2. (t + 1) + 1 = t + 2
        BY <1>3
      <4> QED BY <2>2, <3>1, <4>1, <4>2
    <3>3. deeper[u][1] = <<Item(u, <<>>)>>
      <4>1. 1 \in Nat
        OBVIOUS
      <4> QED BY <1>1, <1>2, <3>2, <4>1, WordFound
    <3>4. f[u + 1][2] = <<Item(u, <<>>)>>
      BY <3>2, TextDisplayed
    <3>5. parts[n] = f[u + 1][2]
      BY <2>3, <3>2 DEF AreInside
    <3> QED BY <3>2, <3>3, <3>4, <3>5
  <2>8. parts = [n \in DOMAIN Inside(d, t + 1) |-> parts[n]]
    OBVIOUS
  <2>9. Found(Tokens(d), deeper, t, 1) = FlattenSeq(parts)
    <3> HIDE DEF parts
    <3>1. 1 \in Nat /\ 1 # 0
      OBVIOUS
    <3>2. AreFound(parts, d, t, e, deeper, 1)
      BY <2>7, <2>8 DEF AreFound
    <3> QED BY <1>9, <2>1, <2>6, <3>1, <3>2, ArraySame
  <2>10. Displayed(d, f, t + 1, 1) = FlattenSeq(parts)
    <3>1. ~IsScalar("array") /\ "array" # "object" /\ 1 # 2 /\ 1 + 1 = 2
      BY DEF IsScalar
    <3> QED BY <1>9, <3>1, Zenon DEF Displayed
  <2> QED BY <1>4, <1>5, <2>9, <2>10
<1> QED BY <1>6, <1>7, <1>8, <1>9 DEF Types, IsScalar

\* Every value of a depth is short.
AllShort(d, depth) == \A i \in 1 .. Len(d) : d[i].depth = depth => IsShort(d, i)

\* A message: its values are displayed one level deeper, where all are short.
LEMMA MessageSame ==
  ASSUME NEW d, IsDoc(d), NEW find, IsFind(find, Tokens(d)), NEW f, IsDisplay(f, d),
         NEW depth \in 2 .. MAX_RECURSION_DEPTH, NEW t \in 0 .. Len(d) - 1,
         d[t + 1].type = "object", AllShort(d, d[t + 1].depth + 1)
  PROVE  find[depth][t][2] = f[t + 1][0]
<1>1. PICK deeper : deeper = find[depth - 1]
  OBVIOUS
<1>2. /\ depth \in 0 .. MAX_RECURSION_DEPTH /\ depth - 1 \in 1 .. MAX_RECURSION_DEPTH /\ depth # 0
  BY DEF MAX_RECURSION_DEPTH
<1>3. PICK N \in Nat : N = Len(d) /\ t \in Nat /\ t < N
  <2>1. Len(d) \in Nat
    BY DEF IsDoc, IsNested
  <2> QED BY <2>1
<1>4. find[depth][t][2] = Found(Tokens(d), deeper, t, 2)
  <2>1. find[depth] = FoundAt(Tokens(d), deeper, depth)
    BY <1>1, <1>2 DEF IsFind
  <2>2. 2 \in Nat
    OBVIOUS
  <2>3. FoundAt(Tokens(d), deeper, depth)[t][2] = Found(Tokens(d), deeper, t, 2)
    <3>1. depth # 0 /\ t \in Nat
      BY <1>2, <1>3
    <3> QED BY <2>2, <3>1, EnteredAt
  <2> QED BY <2>1, <2>3, Zenon
<1>5. f[t + 1][0] = Displayed(d, f, t + 1, 0)
  <2>1. 0 \in 0 .. 2
    OBVIOUS
  <2> QED BY <1>3, <2>1 DEF IsDisplay
<1>6. PICK keys : keys = ObjectKeys(Tokens(d), t)
  OBVIOUS
<1>7. AreFieldTokens(keys, d, t)
  BY <1>6, FieldTokens
<1>8. ASSUME NEW n \in 1 .. Len(keys) PROVE deeper[keys[n] + 1][1] = f[keys[n] + 2][1]
  <2>1. PICK u \in 0 .. Len(d) - 1 : u = keys[n] + 1 /\ u + 1 = keys[n] + 2
    <3>1. keys[n] + 1 \in 0 .. Len(d) - 1 /\ keys[n] \in Nat
      BY <1>7 DEF AreFieldTokens
    <3> QED BY <3>1
  <2>2. d[u + 1].depth = d[t + 1].depth + 1
    BY <1>7, <2>1 DEF AreFieldTokens
  <2>3. IsShort(d, u + 1)
    <3>1. u + 1 \in 1 .. Len(d)
      BY <1>3
    <3> QED BY <2>2, <3>1 DEF AllShort
  <2>4. PICK less \in 1 .. MAX_RECURSION_DEPTH : less = depth - 1
    BY <1>2
  <2>5. find[less][u][1] = f[u + 1][1]
    BY <2>3, ShortSame
  <2> QED BY <1>1, <2>1, <2>4, <2>5
<1>9. AreSame(keys, deeper, 2, f, 0)
  <2>1. 2 - 1 = 1 /\ 0 + 1 = 1
    OBVIOUS
  <2> QED BY <1>8, <2>1 DEF AreSame
<1>10. Found(Tokens(d), deeper, t, 2) = Displayed(d, f, t + 1, 0)
  <2>1. 2 # 0 /\ 0 # 2
    OBVIOUS
  <2> QED BY <1>6, <1>9, <2>1, ObjectSame
<1> QED BY <1>4, <1>5, <1>10

\* The elements of an array: objects with fields.
AreObjects(d, t) ==
  \A i \in t + 1 .. LastInside(d, t + 1) :
    d[i].depth = d[t + 1].depth + 1 => d[i].type = "object" /\ LastInside(d, i) > i

\* All the messages.
LEMMA MessagesSame ==
  ASSUME NEW d, IsDoc(d), NEW find, IsFind(find, Tokens(d)), NEW f, IsDisplay(f, d),
         NEW depth \in 3 .. MAX_RECURSION_DEPTH, NEW t \in 0 .. Len(d) - 1,
         d[t + 1].type = "array", AreObjects(d, t), AllShort(d, d[t + 1].depth + 2)
  PROVE  find[depth][t][2] = FlattenSeq([n \in DOMAIN Inside(d, t + 1) |-> f[Inside(d, t + 1)[n]][0]])
<1>1. PICK deeper : deeper = find[depth - 1]
  OBVIOUS
<1>2. depth \in 0 .. MAX_RECURSION_DEPTH /\ depth - 1 \in 2 .. MAX_RECURSION_DEPTH /\ depth # 0
  BY DEF MAX_RECURSION_DEPTH
<1>3. PICK N \in Nat : N = Len(d) /\ t \in Nat /\ t < N /\ d[t + 1].depth \in Nat
  <2>1. Len(d) \in Nat
    BY DEF IsDoc, IsNested
  <2>2. \A i \in 1 .. Len(d) : d[i].depth \in Nat
    BY DEF IsDoc, IsNested
  <2> QED BY <2>1, <2>2
<1>4. find[depth][t][2] = Found(Tokens(d), deeper, t, 2)
  <2>1. find[depth] = FoundAt(Tokens(d), deeper, depth)
    BY <1>1, <1>2 DEF IsFind
  <2>2. 2 \in Nat
    OBVIOUS
  <2>3. FoundAt(Tokens(d), deeper, depth)[t][2] = Found(Tokens(d), deeper, t, 2)
    <3>1. depth # 0 /\ t \in Nat
      BY <1>2, <1>3
    <3> QED BY <2>2, <3>1, EnteredAt
  <2> QED BY <2>1, <2>3, Zenon
<1>5. PICK e : e = ArrayElements(Tokens(d), t)
  OBVIOUS
<1>6. AreInside(e, d, t)
  BY <1>5, InsideTokens
<1>7. IsNested(d) /\ IsDocument(d)
  BY DEF IsDoc
<1>8. ASSUME NEW n \in 1 .. Len(e)
      PROVE  /\ e[n] \in 0 .. Len(d) - 1 /\ e[n] + 1 \in t + 1 .. LastInside(d, t + 1)
             /\ d[e[n] + 1].depth = d[t + 1].depth + 1
             /\ d[e[n] + 1].type = "object" /\ LastInside(d, e[n] + 1) > e[n] + 1
  <2>1. d[e[n] + 1].depth = d[t + 1].depth + 1
    <3>1. AreElements(e, d, t)
      BY <1>6 DEF AreInside
    <3> QED BY <1>7, <3>1, OneDeeper
  <2>2. e[n] \in 0 .. Len(d) - 1 /\ e[n] \in t + 1 .. LastInside(d, t + 1) - 1
    BY <1>6 DEF AreInside, AreElements
  <2>3. LastInside(d, t + 1) \in Nat
    <3>1. t + 1 \in 1 .. Len(d)
      BY <1>3
    <3>2. LastInside(d, t + 1) \in t + 1 .. Len(d)
      BY <1>7, <3>1, LastInsideIs
    <3> QED BY <1>3, <3>2
  <2>4. e[n] + 1 \in t + 1 .. LastInside(d, t + 1)
    BY <1>3, <2>2, <2>3, SMTT(30)
  <2> QED BY <2>1, <2>2, <2>4 DEF AreObjects
<1>9. AreCounted(e, d, t)
  <2>1. HaveFields(d, e)
    <3>1. ASSUME NEW n \in 1 .. Len(e)
          PROVE  LastInside(d, e[n] + 1) >= e[n] + 3 /\ LastInside(d, e[n] + 2) = e[n] + 2
      <4>1. PICK b \in 0 .. Len(d) - 1 : b = e[n]
        BY <1>8
      <4>2. d[b + 1].type = "object" /\ LastInside(d, b + 1) > b + 1
        BY <1>8, <4>1
      <4>3. b + 1 \in 1 .. Len(d)
        BY <1>3
      <4>4. Len(Inside(d, b + 1)) % 2 = 0
        BY <4>2, <4>3 DEF IsDoc
      <4>5. LastInside(d, b + 1) >= b + 3 /\ LastInside(d, b + 2) = b + 2
        BY <1>7, <4>2, <4>4, HasField
      <4> QED BY <4>1, <4>5
    <3> QED BY <3>1 DEF HaveFields
  <2>2. Len(e) <= Len(ObjectKeys(Tokens(d), t))
    BY <1>5, <1>7, <2>1, KeysOfObjects
  <2>3. ObjectKeys(Tokens(d), t) \in Seq(Nat)
    BY <1>7, KeysAreTokens
  <2>4. Len(ObjectKeys(Tokens(d), t)) \in Nat
    BY <2>3
  <2> QED BY <2>2, <2>4 DEF AreCounted
<1> DEFINE parts == [n \in DOMAIN Inside(d, t + 1) |-> f[Inside(d, t + 1)[n]][0]]
<1>10. ASSUME NEW n \in 1 .. Len(e) PROVE deeper[e[n]][2] = parts[n]
  <2>1. PICK u \in 0 .. Len(d) - 1 : u = e[n]
    BY <1>8
  <2>2. d[u + 1].type = "object" /\ d[u + 1].depth + 1 = d[t + 1].depth + 2
    BY <1>3, <1>8, <2>1
  <2>3. PICK less \in 2 .. MAX_RECURSION_DEPTH : less = depth - 1
    BY <1>2
  <2>4. find[less][u][2] = f[u + 1][0]
    <3>1. AllShort(d, d[u + 1].depth + 1)
      BY <2>2
    <3> QED BY <2>2, <3>1, MessageSame
  <2>5. parts[n] = f[u + 1][0]
    BY <1>6, <2>1 DEF AreInside
  <2> QED BY <1>1, <2>1, <2>3, <2>4, <2>5
<1>11. AreFound(parts, d, t, e, deeper, 2)
  <2>1. parts = [n \in DOMAIN Inside(d, t + 1) |-> parts[n]]
    OBVIOUS
  <2> HIDE DEF parts
  <2> QED BY <1>10, <2>1 DEF AreFound
<1>12. Found(Tokens(d), deeper, t, 2) = FlattenSeq(parts)
  <2> HIDE DEF parts
  <2>1. 2 # 0
    OBVIOUS
  <2> QED BY <1>5, <1>9, <1>11, <2>1, ArraySame
<1> QED BY <1>4, <1>12

\* A field that is not entered: one item in both.
LEMMA WordSame ==
  ASSUME NEW d, IsDoc(d), NEW find, IsFind(find, Tokens(d)), NEW f, IsDisplay(f, d),
         NEW t \in 0 .. Len(d) - 1
  PROVE  /\ find[MAX_RECURSION_DEPTH][t][0] = <<Item(t, <<>>)>>
         /\ f[t + 1][2] = <<Item(t, <<>>)>>
<1>1. PICK depth \in 0 .. MAX_RECURSION_DEPTH : depth = MAX_RECURSION_DEPTH
  BY DEF MAX_RECURSION_DEPTH
<1>2. find[depth][t][0] = <<Item(t, <<>>)>>
  <2>1. PICK below \in Nat : below = 0
    OBVIOUS
  <2>2. find[depth][t][below] = <<Item(t, <<>>)>>
    BY <2>1, WordFound
  <2> QED BY <2>1, <2>2
<1>3. f[t + 1][2] = <<Item(t, <<>>)>>
  BY TextDisplayed
<1> QED BY <1>1, <1>2, <1>3

\* The items of a field are those that are specified for it.
LEMMA RootSame ==
  ASSUME text \in DOMAIN Docs, Plain(doc), NEW r \in Roots
  PROVE  RootItems(json, r) = SpecifiedItems(doc, Name(r))
<1>1. PICK d : d = doc /\ json = Tokens(d) /\ IsDoc(d)
  BY TextIsDoc
<1>2. PICK find : /\ \A root, level : TraverseFind(json, root, level) = find[MAX_RECURSION_DEPTH][root][level]
                  /\ IsFind(find, Tokens(d))
  <2>1. PICK find : /\ \A root, level :
                         TraverseFind(json, root, level) = find[MAX_RECURSION_DEPTH][root][level]
                    /\ \A depth \in 0 .. MAX_RECURSION_DEPTH :
                         find[depth] = FoundAt(json, find[depth - 1], depth)
    BY FindIs
  <2>2. IsFind(find, json)
    BY <2>1 DEF IsFind
  <2> QED BY <1>1, <2>1, <2>2
<1>3. PICK f : /\ \A value, level : Display(d, value, level) = f[value][level]
               /\ IsDisplay(f, d)
  <2>1. PICK f : /\ \A value, level : Display(d, value, level) = f[value][level]
                 /\ \A i \in 1 .. Len(d) : \A level \in 0 .. 2 : f[i][level] = Displayed(d, f, i, level)
    BY <1>1, DisplayIs
  <2>2. IsDisplay(f, d)
    BY <2>1 DEF IsDisplay
  <2> QED BY <2>1, <2>2
<1>4. PICK t \in 0 .. Len(d) - 1 :
        t = RootStart(json, r) /\ FieldValue(d, Name(r)) = t + 1 /\ d[t + 1].depth = 1
  BY <1>1, FieldIsRoot
<1>5. t # Absent
  <2>1. PICK N \in Nat : N = Len(d)
    BY <1>1 DEF IsDoc, IsNested
  <2>2. t \in Nat
    BY <2>1
  <2> QED BY <2>2 DEF Absent
<1>6. PICK items : items = find[MAX_RECURSION_DEPTH][t][RootMaxLevel(r)]
  OBVIOUS
<1>7. RootItems(json, r) = IF Name(r) = "memo" /\ json[items[1].token].word = "" THEN <<>> ELSE items
  BY <1>2, <1>4, <1>5, <1>6, Zenon DEF RootItems
<1>8. MAX_RECURSION_DEPTH \in 1 .. MAX_RECURSION_DEPTH /\ MAX_RECURSION_DEPTH \in 3 .. MAX_RECURSION_DEPTH
  BY DEF MAX_RECURSION_DEPTH
<1>9. PICK N \in Nat : N = Len(d) /\ DOMAIN d = 1 .. N /\ t + 1 \in 1 .. N
  <2>1. PICK N \in Nat : N = Len(d) /\ DOMAIN d = 1 .. N
    BY <1>1 DEF IsDoc, IsNested
  <2>2. t + 1 \in 1 .. N
    BY <2>1
  <2> QED BY <2>1, <2>2
<1>10. CASE Name(r) = "msgs"
  <2>1. RootMaxLevel(r) = 2
    BY <1>10 DEF RootMaxLevel
  <2>2. /\ d[t + 1].type = "array"
        /\ \A i \in DOMAIN d : d[i].depth = 2 /\ i \in t + 1 .. LastInside(d, t + 1) =>
             d[i].type = "object" /\ LastInside(d, i) > i
        /\ \A i \in DOMAIN d \ {t + 1} : d[i].type = "array" /\ d[i].depth \in {1, 3} =>
             /\ LastInside(d, i) <= i + 1
             /\ LastInside(d, i) = i + 1 => IsScalar(d[i + 1].type)
    BY <1>1, <1>4, <1>10 DEF Plain
  <2>3. AreObjects(d, t)
    <3>1. LastInside(d, t + 1) \in t + 1 .. N
      BY <1>1, <1>9, LastInsideIs DEF IsDoc
    <3>2. ASSUME NEW i \in t + 1 .. LastInside(d, t + 1) PROVE i \in DOMAIN d
      BY <1>9, <3>1
    <3>3. d[t + 1].depth + 1 = 2
      BY <1>4
    <3> QED BY <2>2, <3>2, <3>3 DEF AreObjects
  <2>4. AllShort(d, d[t + 1].depth + 2)
    <3>1. d[t + 1].depth + 2 = 3 /\ d[t + 1].depth # 3
      BY <1>4
    <3>2. ASSUME NEW i \in 1 .. Len(d), d[i].depth = 3 PROVE IsShort(d, i)
      <4>1. i \in DOMAIN d \ {t + 1}
        BY <1>9, <3>1, <3>2
      <4> QED BY <2>2, <3>2, <4>1 DEF IsShort
    <3> QED BY <3>1, <3>2 DEF AllShort
  <2>5. items = FlattenSeq([n \in DOMAIN Inside(d, t + 1) |-> f[Inside(d, t + 1)[n]][0]])
    <3>1. PICK depth \in 3 .. MAX_RECURSION_DEPTH : depth = MAX_RECURSION_DEPTH
      BY <1>8
    <3>2. find[depth][t][2] = FlattenSeq([n \in DOMAIN Inside(d, t + 1) |-> f[Inside(d, t + 1)[n]][0]])
      <4>1. d[t + 1].type = "array"
        BY <2>2
      <4> QED BY <1>1, <1>2, <1>3, <2>3, <2>4, <4>1, MessagesSame
    <3> QED BY <1>6, <2>1, <3>1, <3>2
  <2>6. SpecifiedItems(d, Name(r)) = FlattenSeq([n \in DOMAIN Inside(d, t + 1) |-> Display(d, Inside(d, t + 1)[n], 0)])
    BY <1>4, <1>10, Zenon DEF SpecifiedItems
  <2>7. [n \in DOMAIN Inside(d, t + 1) |-> Display(d, Inside(d, t + 1)[n], 0)]
        = [n \in DOMAIN Inside(d, t + 1) |-> f[Inside(d, t + 1)[n]][0]]
    BY <1>3
  <2>8. RootItems(json, r) = items
    BY <1>7, <1>10
  <2> QED BY <1>1, <2>5, <2>6, <2>7, <2>8
<1>11. CASE Name(r) = "fee"
  <2>1. RootMaxLevel(r) = 1 /\ r = 2
    BY <1>11, RootNumbers DEF RootMaxLevel, Name, RequiredRootItem
  <2>2. IsShort(d, t + 1)
    <3>1. PICK m \in 0 .. Len(d) - 1 : m = RootStart(json, 4) /\ FieldValue(d, "msgs") = m + 1
      <4>1. 4 \in Roots /\ Name(4) = "msgs"
        BY RootNumbers DEF Name, RequiredRootItem
      <4> QED BY <1>1, <4>1, FieldIsRoot
    <3>2. LastInside(d, t + 1) <= m
      <4>1. 2 \in Roots /\ 4 \in Roots /\ 2 < 4
        BY RootNumbers
      <4>2. LastInside(doc, RootStart(json, 2) + 1) <= RootStart(json, 4)
        BY <4>1, RootsApart
      <4> QED BY <1>1, <1>4, <2>1, <3>1, <4>2
    <3>3. LastInside(d, t + 1) \in t + 1 .. Len(d)
      BY <1>1, <1>9, LastInsideIs DEF IsDoc
    <3>4. t + 1 # m + 1
      BY <1>9, <3>1, <3>2, <3>3
    <3>5. d[t + 1].type = "array" /\ d[t + 1].depth \in {1, 3} =>
             /\ LastInside(d, t + 1) <= (t + 1) + 1
             /\ LastInside(d, t + 1) = (t + 1) + 1 => IsScalar(d[(t + 1) + 1].type)
      BY <1>1, <1>9, <3>1, <3>4 DEF Plain
    <3> QED BY <1>4, <3>5 DEF IsShort
  <2>3. items = f[t + 1][1]
    <3>1. PICK depth \in 1 .. MAX_RECURSION_DEPTH : depth = MAX_RECURSION_DEPTH
      BY <1>8
    <3>2. find[depth][t][1] = f[t + 1][1]
      BY <1>1, <1>2, <1>3, <2>2, ShortSame
    <3> QED BY <1>6, <2>1, <3>1, <3>2
  <2>4. SpecifiedItems(d, Name(r)) = f[t + 1][1]
    <3>1. SpecifiedItems(d, Name(r)) = Display(d, t + 1, 1)
      BY <1>4, <1>11 DEF SpecifiedItems
    <3> QED BY <1>3, <3>1
  <2> QED BY <1>1, <1>7, <1>11, <2>3, <2>4
<1>12. CASE Name(r) # "msgs" /\ Name(r) # "fee"
  <2>1. RootMaxLevel(r) = 0
    BY <1>12 DEF RootMaxLevel
  <2>2. items = <<Item(t, <<>>)>> /\ f[t + 1][2] = <<Item(t, <<>>)>>
    BY <1>1, <1>2, <1>3, <1>6, <2>1, WordSame
  <2>3. json[items[1].token].word = d[t + 1].word
    <3>1. items[1].token = t
      BY <2>2 DEF Item
    <3> QED BY <1>1, <3>1 DEF Tokens
  <2>4. SpecifiedItems(d, Name(r)) = IF Name(r) = "memo" /\ d[t + 1].word = "" THEN <<>> ELSE Display(d, t + 1, 2)
    BY <1>4, <1>12 DEF SpecifiedItems
  <2>5. Display(d, t + 1, 2) = items
    BY <1>3, <2>2
  <2> QED BY <1>1, <1>7, <2>3, <2>4, <2>5
<1> QED BY <1>10, <1>11, <1>12

\* A flattened sequence has the items of each part behind those of the ones
\* before it.
ArePlaced(items, parts, before, size) ==
  /\ items \in Seq(Items) /\ Len(items) = before[size + 1]
  /\ \A n \in 1 .. size : \A k \in 1 .. Len(parts[n]) :
       before[n] + k \in 1 .. before[size + 1] /\ items[before[n] + k] = parts[n][k]

\* Where the parts begin.
ArePlaces(parts, before, size) ==
  /\ before \in [1 .. size + 1 -> Nat] /\ before[1] = 0
  /\ \A n \in 1 .. size : /\ parts[n] \in Seq(Items)
                          /\ before[n + 1] = before[n] + Len(parts[n])

LEMMA OnePlaced ==
  ASSUME NEW parts, NEW before, NEW size \in Nat, size # 0, ArePlaces(parts, before, size)
  PROVE  ArePlaced(parts[1], parts, before, 1)
<1>1. 1 \in 1 .. size /\ 1 + 1 = 2 /\ 2 \in 1 .. size + 1
  OBVIOUS
<1>2. parts[1] \in Seq(Items) /\ before[2] = Len(parts[1]) /\ before[1] = 0
  <2>1. parts[1] \in Seq(Items) /\ before[2] = before[1] + Len(parts[1]) /\ before[1] = 0
    BY <1>1 DEF ArePlaces
  <2>2. Len(parts[1]) \in Nat
    BY <2>1
  <2> QED BY <2>1, <2>2
<1>3. \A n \in 1 .. 1 : n = 1
  OBVIOUS
<1>4. ASSUME NEW k \in 1 .. Len(parts[1])
      PROVE  before[1] + k \in 1 .. before[2] /\ parts[1][before[1] + k] = parts[1][k]
  <2>1. before[1] + k = k
    BY <1>2
  <2> QED BY <1>2, <2>1
<1> QED BY <1>1, <1>2, <1>3, <1>4 DEF ArePlaced

LEMMA MorePlaced ==
  ASSUME NEW parts, NEW before, NEW size \in Nat, ArePlaces(parts, before, size),
         NEW m \in Nat, m # 0, NEW n \in 1 .. size, n = m + 1,
         NEW items, ArePlaced(items, parts, before, m)
  PROVE  ArePlaced(items \o parts[n], parts, before, n)
<1>1. /\ items \in Seq(Items) /\ Len(items) = before[n]
      /\ \A i \in 1 .. m : \A k \in 1 .. Len(parts[i]) :
           before[i] + k \in 1 .. before[n] /\ items[before[i] + k] = parts[i][k]
  BY DEF ArePlaced
<1>2. parts[n] \in Seq(Items) /\ before[n + 1] = before[n] + Len(parts[n])
  BY DEF ArePlaces
<1>3. PICK s \in Seq(Items) :
        /\ s = items \o parts[n] /\ Len(s) = Len(items) + Len(parts[n])
        /\ \A i \in 1 .. Len(items) + Len(parts[n]) :
             s[i] = IF i <= Len(items) THEN items[i] ELSE parts[n][i - Len(items)]
  <2>1. /\ items \o parts[n] \in Seq(Items) /\ Len(items \o parts[n]) = Len(items) + Len(parts[n])
        /\ \A i \in 1 .. Len(items) + Len(parts[n]) :
              (items \o parts[n])[i] = IF i <= Len(items) THEN items[i] ELSE parts[n][i - Len(items)]
    BY <1>1, <1>2, Concatenated
  <2> QED BY <2>1
<1>4. PICK a \in Nat : a = Len(items) /\ a = before[n]
  BY <1>1
<1>5. PICK b \in Nat : b = Len(parts[n]) /\ before[n + 1] = a + b
  BY <1>2, <1>4
<1>6. \A i \in 1 .. a + b : s[i] = IF i <= a THEN items[i] ELSE parts[n][i - a]
  BY <1>3, <1>4, <1>5
<1>7. ASSUME NEW i \in 1 .. n, NEW k \in 1 .. Len(parts[i])
      PROVE  before[i] + k \in 1 .. before[n + 1] /\ s[before[i] + k] = parts[i][k]
  <2>1. CASE i = n
    <3>1. k \in 1 .. b
      BY <1>5, <2>1
    <3>2. PICK j \in 1 .. a + b : j = a + k /\ ~(j <= a) /\ j - a = k
      BY <3>1
    <3> QED BY <1>4, <1>5, <1>6, <2>1, <3>2
  <2>2. CASE i # n
    <3>1. i \in 1 .. m
      BY <2>2
    <3>2. PICK j \in 1 .. a : j = before[i] + k /\ items[j] = parts[i][k]
      BY <1>1, <1>4, <3>1
    <3>3. j \in 1 .. a + b /\ j <= a
      OBVIOUS
    <3> QED BY <1>5, <1>6, <3>2, <3>3
  <2> QED BY <2>1, <2>2
<1>8. Len(s) = before[n + 1]
  BY <1>3, <1>4, <1>5
<1> QED BY <1>3, <1>7, <1>8 DEF ArePlaced

LEMMA FlattenPlaced ==
  ASSUME NEW parts, NEW before, NEW size \in Nat, size # 0, Len(parts) = size,
         ArePlaces(parts, before, size)
  PROVE  ArePlaced(FlattenSeq(parts), parts, before, size)
<1>1. PICK f : /\ FlattenSeq(parts) = f[size] /\ f[1] = parts[1]
               /\ \A i \in 2 .. size : f[i] = f[i - 1] \o parts[i]
  <2>1. \E f : Flattens(f, parts, size)
    BY FlattenIs
  <2> QED BY <2>1 DEF Flattens
<1> DEFINE Right(n) == ArePlaced(f[n], parts, before, n)
           Wrong == {n \in 1 .. size : ~Right(n)}
<1>2. ASSUME NEW n \in Wrong PROVE \E m \in Wrong : ~(n <= m)
  <2>1. n \in 1 .. size /\ 1 \in 1 .. size
    OBVIOUS
  <2>2. n # 1
    <3>1. Right(1)
      BY <1>1, OnePlaced
    <3> HIDE DEF Right
    <3> QED BY <3>1
  <2>3. PICK m \in 1 .. size : m # size /\ n = m + 1 /\ n \in 2 .. size /\ m = n - 1 /\ m \in Nat /\ m # 0
    BY <2>1, <2>2
  <2>4. ASSUME Right(m) PROVE Right(n)
    <3>1. ArePlaced(f[m] \o parts[n], parts, before, n)
      BY <2>1, <2>3, <2>4, MorePlaced
    <3>2. f[n] = f[m] \o parts[n]
      BY <1>1, <2>3
    <3> QED BY <3>1, <3>2
  <2>5. ~(n <= m)
    BY <2>3
  <2>6. m \in Wrong
    <3> HIDE DEF Right
    <3> QED BY <2>3, <2>4
  <2> QED BY <2>5, <2>6
<1>3. Wrong = {}
  <2>1. Wrong \subseteq Nat
    OBVIOUS
  <2> HIDE DEF Wrong
  <2> QED BY <1>2, <2>1, Least
<1>4. Right(size)
  <2> HIDE DEF Right
  <2> QED BY <1>3
<1> QED BY <1>1, <1>4

LEMMA SmallRemainder ==
  ASSUME NEW x \in Nat, NEW w \in Nat, x < w
  PROVE  x % w = x
OBVIOUS

\* The numbers of items that are found, which fit the counters.
AreLengths(size) ==
  /\ size \in [Roots -> Nat]
  /\ \A r \in Roots : size[r] = Len(RootItems(json, r))
  /\ size[0] + size[1] + size[2] + size[3] + size[4] + size[5] < Width

LEMMA LengthsFit ==
  ASSUME text \in DOMAIN Docs, Plain(doc), Fits(doc)
  PROVE  \E size : AreLengths(size)
<1> DEFINE size == [r \in Roots |-> Len(RootItems(json, r))]
<1>1. size = [r \in Roots |-> Len(SpecifiedItems(doc, RequiredRootItem[r + 1]))]
  <2>1. \A r \in Roots : RootItems(json, r) = SpecifiedItems(doc, RequiredRootItem[r + 1])
    BY RootSame DEF Name
  <2> QED BY <2>1
<1>2. SumOfRoots(size) < Width
  <2> HIDE DEF size
  <2> QED BY <1>1 DEF Fits
<1>3. size \in [Roots -> Nat]
  BY ItemsEnd
<1>4. \A r \in Roots : size[r] = Len(RootItems(json, r))
  OBVIOUS
<1> HIDE DEF size
<1> QED BY <1>2, <1>3, <1>4 DEF AreLengths, SumOfRoots

\* What is shown of a field is what is found of it, if it is shown.
LEMMA CountsShown ==
  ASSUME text \in DOMAIN Docs, Plain(doc), Fits(doc), NEW size, AreLengths(size), NEW r \in Roots
  PROVE  SubitemCount(Index(json), r) = IF IsShown(doc, Name(r)) THEN size[r] ELSE 0
<1>1. PICK c : c = Index(json)
  OBVIOUS
<1>2. Width \in Nat
  BY DisplayAssumption
<1>3. ASSUME NEW s \in Roots PROVE c.subitems[s] = size[s] /\ size[s] \in Nat
  <2>1. size[s] \in Nat /\ size[s] < Width
    <3>1. /\ size[0] \in Nat /\ size[1] \in Nat /\ size[2] \in Nat
          /\ size[3] \in Nat /\ size[4] \in Nat /\ size[5] \in Nat
          /\ size[0] + size[1] + size[2] + size[3] + size[4] + size[5] < Width
      BY RootNumbers DEF AreLengths
    <3>2. s \in {0, 1, 2, 3, 4, 5}
      BY RootNumbers
    <3> QED BY <1>2, <3>1, <3>2
  <2>2. c.subitems[s] = size[s] % Width
    BY <1>1, IndexCounts DEF AreLengths
  <2> QED BY <1>2, <2>1, <2>2, SmallRemainder
<1>4. c.total = size[0] + size[1] + size[2] + size[3] + size[4] + size[5]
  <2>1. c.total = SumOfRoots(c.subitems)
    BY <1>1 DEF Index
  <2>2. /\ c.subitems[0] = size[0] /\ c.subitems[1] = size[1] /\ c.subitems[2] = size[2]
        /\ c.subitems[3] = size[3] /\ c.subitems[4] = size[4] /\ c.subitems[5] = size[5]
    BY <1>3, RootNumbers
  <2> QED BY <2>1, <2>2 DEF SumOfRoots
<1>5. c.total = 0 => size[r] = 0
  <2>1. /\ size[0] \in Nat /\ size[1] \in Nat /\ size[2] \in Nat
        /\ size[3] \in Nat /\ size[4] \in Nat /\ size[5] \in Nat
    BY <1>3, RootNumbers
  <2>2. r = 0 \/ r = 1 \/ r = 2 \/ r = 3 \/ r = 4 \/ r = 5
    BY RootNumbers
  <2>3. ASSUME c.total = 0
        PROVE  /\ size[0] = 0 /\ size[1] = 0 /\ size[2] = 0
               /\ size[3] = 0 /\ size[4] = 0 /\ size[5] = 0
    <3>1. PICK e0 \in Nat, e1 \in Nat, e2 \in Nat, e3 \in Nat, e4 \in Nat, e5 \in Nat :
            /\ e0 = size[0] /\ e1 = size[1] /\ e2 = size[2]
            /\ e3 = size[3] /\ e4 = size[4] /\ e5 = size[5]
      BY <2>1
    <3>2. e0 + e1 + e2 + e3 + e4 + e5 = 0
      BY <1>4, <2>3, <3>1
    <3>3. e0 = 0 /\ e1 = 0 /\ e2 = 0 /\ e3 = 0 /\ e4 = 0 /\ e5 = 0
      BY <3>2
    <3> QED BY <3>1, <3>3
  <2> QED BY <2>2, <2>3
<1>6. c.otherChain <=> doc[FieldValue(doc, "chain_id")].word \notin DefaultChains
  <2>1. PICK d : d = doc /\ json = Tokens(d)
    BY TextIsDoc
  <2>2. 1 \in Roots /\ Name(1) = "chain_id"
    BY RootNumbers DEF Name, RequiredRootItem
  <2>3. PICK t \in 0 .. Len(d) - 1 : t = RootStart(json, 1) /\ FieldValue(d, "chain_id") = t + 1
    BY <2>1, <2>2, FieldIsRoot
  <2>4. json[t].word = d[t + 1].word
    BY <2>1, <2>3 DEF Tokens
  <2>5. c.otherChain <=> json[RootStart(json, 1)].word \notin DefaultChains
    BY <1>1 DEF Index
  <2> QED BY <2>1, <2>3, <2>4, <2>5
<1>7. IsShown(doc, Name(r)) <=> (Name(r) \in {"memo", "msgs"} \/ expert \/ c.otherChain)
  BY <1>6, Zenon DEF IsShown
<1>8. SubitemCount(c, r) = IF c.total = 0 THEN 0
                           ELSE IF Name(r) \in {"memo", "msgs"} \/ expert \/ c.otherChain
                                THEN c.subitems[r] ELSE 0
  BY DEF SubitemCount
<1>9. SubitemCount(c, r) = IF c.total = 0 THEN 0 ELSE IF IsShown(doc, Name(r)) THEN size[r] ELSE 0
  <2>1. c.subitems[r] = size[r]
    BY <1>3
  <2> QED BY <1>7, <1>8, <2>1, Zenon
<1> QED BY <1>1, <1>5, <1>9

\* The count has not wrapped.
LEMMA CountIsAll ==
  ASSUME text \in DOMAIN Docs, Plain(doc), Fits(doc)
  PROVE  NumItems(Index(json)) = CountAll(Index(json)) /\ CountAll(Index(json)) \in Nat
<1>1. PICK c : c = Index(json)
  OBVIOUS
<1>2. PICK size : AreLengths(size)
  BY LengthsFit
<1>3. Width \in Nat
  BY DisplayAssumption
<1>4. ASSUME NEW r \in Roots
      PROVE  SubitemCount(c, r) \in Nat /\ SubitemCount(c, r) <= size[r] /\ size[r] \in Nat
  <2>1. size[r] \in Nat
    BY <1>2 DEF AreLengths
  <2>2. SubitemCount(c, r) = size[r] \/ SubitemCount(c, r) = 0
    BY <1>1, <1>2, CountsShown
  <2> QED BY <2>1, <2>2
<1>5. CountAll(c) = SubitemCount(c, 0) + SubitemCount(c, 1) + SubitemCount(c, 2)
                    + SubitemCount(c, 3) + SubitemCount(c, 4) + SubitemCount(c, 5)
  BY RootNumbers DEF CountAll, CountBefore
<1>6. NumItems(c) = (SubitemCount(c, 0) + SubitemCount(c, 1) + SubitemCount(c, 2)
                     + SubitemCount(c, 3) + SubitemCount(c, 4) + SubitemCount(c, 5)) % Width
  BY RootNumbers DEF NumItems, SumOfRoots
<1>7. PICK all \in Nat : all = CountAll(c) /\ all < Width
  <2>1. size[0] + size[1] + size[2] + size[3] + size[4] + size[5] < Width
    BY <1>2 DEF AreLengths
  <2>2. 0 \in Roots /\ 1 \in Roots /\ 2 \in Roots /\ 3 \in Roots /\ 4 \in Roots /\ 5 \in Roots
    BY RootNumbers
  <2> QED BY <1>3, <1>4, <1>5, <2>1, <2>2
<1> QED BY <1>1, <1>3, <1>5, <1>6, <1>7, SmallRemainder

\* What is specified, field by field, and where each field begins.
PartOf(r) == IF IsShown(doc, Name(r)) THEN Under(Name(r), RootItems(json, r)) ELSE <<>>

LEMMA PartIs ==
  ASSUME text \in DOMAIN Docs, Plain(doc), Fits(doc), NEW r \in Roots
  PROVE  /\ PartOf(r) \in Seq(Items) /\ Len(PartOf(r)) = SubitemCount(Index(json), r)
         /\ \A k \in 1 .. Len(PartOf(r)) :
              PartOf(r)[k] = [RootItems(json, r)[k] EXCEPT !.path = <<Name(r)>> \o @]
<1>1. PICK items : items = RootItems(json, r)
  OBVIOUS
<1>2. PICK first, last : InOrder(items, first, last)
  BY <1>1, RootItemsInOrder
<1>3. items \in Seq(Items) /\ Under(Name(r), items) \in Seq(Items)
  <2>1. Name(r) \in STRING
    <3>1. PICK d : d = doc /\ json = Tokens(d) /\ IsDoc(d) /\ 0 \in 0 .. Len(d) - 1 /\ d[0 + 1].type = "object"
      <4>1. doc[1].type = "object" /\ 0 + 1 = 1
        BY TextIsDoc DEF IsAccepted
      <4> QED BY <4>1, TextIsDoc
    <3>2. PICK keys : keys = ObjectKeys(Tokens(d), 0)
      OBVIOUS
    <3>3. PICK n : IsRootKey(keys, n, r)
      BY <3>1, <3>2, RootIsKey
    <3>4. AreFieldTokens(keys, d, 0)
      BY <3>1, <3>2, FieldTokens
    <3>5. /\ n \in 1 .. Len(keys) /\ d[Fields(d, 1)[n][1]].word = Required[r + 1]
          /\ Fields(d, 1)[n][1] = keys[n] + 1 /\ keys[n] \in 0 .. Len(d) - 1
      <4>1. n \in 1 .. Len(keys) /\ d[Fields(d, 1)[n][1]].word = Required[r + 1]
        BY <3>1, <3>3 DEF IsRootKey
      <4>2. 0 + 1 = 1
        OBVIOUS
      <4> QED BY <3>4, <4>1, <4>2 DEF AreFieldTokens
    <3>6. keys[n] + 1 \in 1 .. Len(d)
      <4>1. Len(d) \in Nat
        BY <3>1 DEF IsDoc, IsNested
      <4> QED BY <3>5, <4>1
    <3>7. Required[r + 1] \in STRING
      BY <3>1, <3>5, <3>6 DEF IsDoc
    <3> QED BY <3>7 DEF Name, RequiredRootItem, Required
  <2>2. InOrder(Under(Name(r), items), first, last)
    BY <1>2, <2>1, UnderInOrder
  <2> QED BY <1>2, <2>2 DEF InOrder
<1>4. PICK size : AreLengths(size)
  BY LengthsFit
<1>5. SubitemCount(Index(json), r) = IF IsShown(doc, Name(r)) THEN size[r] ELSE 0
  BY <1>4, CountsShown
<1>6. size[r] = Len(items)
  BY <1>1, <1>4 DEF AreLengths
<1>7. DOMAIN items = 1 .. Len(items) /\ Len(items) \in Nat
  BY <1>3
<1>8. CASE IsShown(doc, Name(r))
  <2>1. PartOf(r) = Under(Name(r), items)
    BY <1>1, <1>8 DEF PartOf
  <2>2. Len(Under(Name(r), items)) = Len(items)
    BY <1>7 DEF Under
  <2>3. ASSUME NEW k \in 1 .. Len(items)
        PROVE  Under(Name(r), items)[k] = [items[k] EXCEPT !.path = <<Name(r)>> \o @]
    BY <1>7 DEF Under
  <2> QED BY <1>1, <1>3, <1>5, <1>6, <1>8, <2>1, <2>2, <2>3
<1>9. CASE ~IsShown(doc, Name(r))
  <2>1. PartOf(r) = <<>>
    BY <1>9 DEF PartOf
  <2>2. <<>> \in Seq(Items) /\ Len(<<>>) = 0 /\ 1 .. 0 = {}
    OBVIOUS
  <2> QED BY <1>5, <1>9, <2>1, <2>2
<1> QED BY <1>8, <1>9

\* What is found for an index is what is specified there.
LEMMA SpecifiedPlaced ==
  ASSUME text \in DOMAIN Docs, Plain(doc), Fits(doc)
  PROVE  /\ Len(Specified(doc)) = NumItems(Index(json))
         /\ \A index, r, sub : ShownAt(index, r, sub) =>
              Query(Index(json), index) = [err |-> "ok", item |-> Specified(doc)[index + 1]]
<1>1. PICK c : c = Index(json)
  OBVIOUS
<1> DEFINE parts == [n \in 1 .. 6 |-> PartOf(n - 1)]
           before == [n \in 1 .. 7 |-> CountBefore(c, n - 1)]
<1>2. IsCounted(c)
  <2>1. Width \in Nat \ {0, 1}
    BY DisplayAssumption
  <2>2. ASSUME NEW r \in Roots PROVE SubitemCount(c, r) \in 0 .. Width - 1
    <3>1. 0 \in 0 .. Width - 1
      BY <2>1
    <3> QED BY <1>1, <3>1, IndexCounts
  <2> QED BY <2>2 DEF IsCounted
<1>3. Specified(doc) = FlattenSeq(parts)
  <2>1. DOMAIN RequiredRootItem = 1 .. 6
    BY DEF RequiredRootItem
  <2>2. ASSUME NEW n \in 1 .. 6
        PROVE  (IF IsShown(doc, RequiredRootItem[n])
                THEN Under(RequiredRootItem[n], SpecifiedItems(doc, RequiredRootItem[n])) ELSE <<>>)
               = PartOf(n - 1)
    <3>1. PICK r \in Roots : r = n - 1 /\ r + 1 = n
      BY RootNumbers
    <3>2. Name(r) = RequiredRootItem[n] /\ RootItems(json, r) = SpecifiedItems(doc, RequiredRootItem[n])
      BY <3>1, RootSame DEF Name
    <3> QED BY <3>1, <3>2 DEF PartOf
  <2>3. [n \in DOMAIN RequiredRootItem |->
           IF IsShown(doc, RequiredRootItem[n])
           THEN Under(RequiredRootItem[n], SpecifiedItems(doc, RequiredRootItem[n])) ELSE <<>>]
        = parts
    BY <2>1, <2>2
  <2> HIDE DEF parts
  <2> QED BY <2>3, Zenon DEF Specified
<1>4. ASSUME NEW n \in 1 .. 6
      PROVE  /\ parts[n] \in Seq(Items) /\ before[n] \in Nat
             /\ before[n + 1] = before[n] + Len(parts[n])
  <2>1. PICK r \in Roots : r = n - 1 /\ r + 1 = n /\ n \in 1 .. 7 /\ n + 1 \in 1 .. 7 /\ (n + 1) - 1 = r + 1
    BY RootNumbers
  <2>2. parts[n] = PartOf(r) /\ before[n] = CountBefore(c, r) /\ before[n + 1] = CountBefore(c, r + 1)
    BY <2>1
  <2>3. r \in 0 .. 6
    BY RootNumbers
  <2>4. CountBefore(c, r) \in Nat /\ CountBefore(c, r + 1) = CountBefore(c, r) + SubitemCount(c, r)
    BY <1>2, <2>3, CountsBefore
  <2>5. PartOf(r) \in Seq(Items) /\ Len(PartOf(r)) = SubitemCount(c, r)
    BY <1>1, PartIs
  <2> QED BY <2>2, <2>4, <2>5
<1>5. before[1] = 0 /\ before[7] = CountAll(c)
  <2>1. before[1] = CountBefore(c, 0) /\ before[7] = CountBefore(c, 6)
    OBVIOUS
  <2>2. CountBefore(c, 0) = 0
    BY DEF CountBefore
  <2> QED BY <2>1, <2>2, RootNumbers DEF CountAll
<1>6. before[7] \in Nat
  BY <1>1, <1>5, CountIsAll
<1>7. Len(parts) = 6
  OBVIOUS
<1>8. DOMAIN before = 1 .. 7 /\ before = [n \in 1 .. 7 |-> before[n]]
  OBVIOUS
<1>9. ArePlaced(FlattenSeq(parts), parts, before, 6)
  <2> HIDE DEF parts, before
  <2>1. \A n \in 1 .. 7 : before[n] \in Nat
    <3>1. \A n \in 1 .. 7 : n \in 1 .. 6 \/ n = 7
      OBVIOUS
    <3> QED BY <1>4, <1>6, <3>1
  <2>2. 6 + 1 = 7 /\ 6 \in Nat /\ 6 # 0
    OBVIOUS
  <2>3. before \in [1 .. 6 + 1 -> Nat]
    BY <1>8, <2>1, <2>2
  <2>4. ArePlaces(parts, before, 6)
    BY <1>4, <1>5, <2>3 DEF ArePlaces
  <2> QED BY <1>7, <2>2, <2>4, FlattenPlaced
<1>10. Len(Specified(doc)) = NumItems(c)
  <2> HIDE DEF parts, before
  <2>1. Len(FlattenSeq(parts)) = before[7]
    <3>1. 6 + 1 = 7
      OBVIOUS
    <3> QED BY <1>9, <3>1 DEF ArePlaced
  <2> QED BY <1>1, <1>3, <1>5, <2>1, CountIsAll
<1>11. ASSUME NEW index, NEW r, NEW sub, ShownAt(index, r, sub)
       PROVE  Query(Index(json), index) = [err |-> "ok", item |-> Specified(doc)[index + 1]]
  <2>1. r \in Roots /\ sub \in Nat /\ sub < SubitemCount(c, r) /\ CountBefore(c, r) + sub = index
    BY <1>1, <1>11 DEF ShownAt
  <2>2. PICK n \in 1 .. 6 : n = r + 1 /\ n - 1 = r /\ n \in 1 .. 7
    BY <2>1, RootNumbers
  <2>3. parts[n] = PartOf(r) /\ before[n] = CountBefore(c, r)
    BY <2>2
  <2> HIDE DEF parts, before
  <2>4. sub + 1 \in 1 .. Len(PartOf(r))
    <3>1. SubitemCount(c, r) \in 0 .. Width - 1 /\ Width \in Nat
      BY <1>2, <2>1, DisplayAssumption DEF IsCounted
    <3>2. Len(PartOf(r)) = SubitemCount(c, r)
      BY <1>1, <2>1, PartIs
    <3> QED BY <2>1, <3>1, <3>2
  <2>5. FlattenSeq(parts)[before[n] + (sub + 1)] = parts[n][sub + 1]
    <3>1. sub + 1 \in 1 .. Len(parts[n])
      BY <2>3, <2>4
    <3> QED BY <1>9, <3>1 DEF ArePlaced
  <2>6. before[n] + (sub + 1) = index + 1
    <3>1. before[n] \in Nat
      BY <1>4
    <3> QED BY <2>1, <2>3, <3>1
  <2>7. PartOf(r)[sub + 1] = [RootItems(json, r)[sub + 1] EXCEPT !.path = <<Name(r)>> \o @]
    BY <2>1, <2>4, PartIs
  <2>8. Specified(doc)[index + 1] = [RootItems(json, r)[sub + 1] EXCEPT !.path = <<Name(r)>> \o @]
    BY <1>3, <2>3, <2>5, <2>6, <2>7
  <2> QED BY <1>11, <2>8 DEF ShownAt
<1> QED BY <1>1, <1>10, <1>11

-----------------------------------------------------------------------------
\* What was last found is what is found for the text and the mode.
ResultInv ==
  /\ IInv
  /\ result.call = "numItems" =>
       text \in DOMAIN Docs /\ result.count = NumItems(Index(json))
  /\ result.call = "getItem" =>
       /\ text \in DOMAIN Docs /\ result.index \in 0 .. Width - 1
       /\ result.found = Query(Index(json), result.index)

LEMMA SameCount ==
  ASSUME UNCHANGED <<text, expert>>
  PROVE  /\ \A c, root : SubitemCount(c, root)' = SubitemCount(c, root)
         /\ \A c : NumItems(c)' = NumItems(c)
         /\ NumItems(Index(json))' = NumItems(Index(json))
<1>1. json' = json
  BY DEF json
<1>2. \A c, root : SubitemCount(c, root)' = SubitemCount(c, root)
  BY DEF SubitemCount
<1>3. \A c : NumItems(c)' = NumItems(c)
  BY <1>2 DEF NumItems
<1>4. NumItems(Index(json))' = NumItems(Index(json))
  BY <1>1, <1>2 DEF NumItems
<1> QED BY <1>2, <1>3, <1>4

LEMMA SameQuery ==
  ASSUME UNCHANGED <<text, expert>>, NEW CONSTANT index
  PROVE  (Query(Index(json), index))' = Query(Index(json), index)
<1>1. json' = json
  BY DEF json
<1>2. ASSUME NEW CONSTANT c, NEW CONSTANT root
      PROVE  SubitemCount(c, root)' = SubitemCount(c, root)
  BY SameCount
<1>3. ASSUME NEW CONSTANT c, NEW CONSTANT root
      PROVE  NextShown(c, root)' = NextShown(c, root)
  BY <1>2 DEF NextShown
<1>4. ASSUME NEW CONSTANT c, NEW CONSTANT place
      PROVE  NextPlace(c, place)' = NextPlace(c, place)
  BY <1>2, <1>3 DEF NextPlace
<1>5. ASSUME NEW CONSTANT c PROVE RetrieveTreeIndexes(c, index)' = RetrieveTreeIndexes(c, index)
  BY <1>3, <1>4 DEF RetrieveTreeIndexes
<1>6. ASSUME NEW CONSTANT c PROVE NumItems(c)' = NumItems(c)
  BY SameCount
<1>7. ASSUME NEW CONSTANT c PROVE Query(c, index)' = Query(c, index)
  <2>1. PICK place : place = RetrieveTreeIndexes(c, index)
    OBVIOUS
  <2>2. PICK items : items = TraverseFind(json, c.start[place[1]], RootMaxLevel(place[1]))
    OBVIOUS
  <2>3. TraverseFind(json', c.start[place[1]], RootMaxLevel(place[1])) = items
    BY <1>1, <2>2
  <2>4. RetrieveTreeIndexes(c, index)' = place /\ NumItems(c)' = NumItems(c)
    BY <1>5, <1>6, <2>1
  <2> QED BY <2>1, <2>2, <2>3, <2>4, Zenon DEF Query
<1> QED BY <1>1, <1>7

LEMMA ResultStep == ResultInv /\ [Next]_vars => ResultInv'
<1> SUFFICES ASSUME ResultInv, [Next]_vars PROVE ResultInv'
  OBVIOUS
<1>1. IInv'
  BY StepInv DEF ResultInv
<1>2. ASSUME NEW d \in DOMAIN Docs, ReadTx(d) PROVE ResultInv'
  BY <1>1, <1>2 DEF ReadTx, ResultInv, None
<1>3. CASE ReadTxFails
  BY <1>1, <1>3 DEF ReadTxFails, ResultInv, None
<1>4. CASE GetNumItems
  <2>1. text \in DOMAIN Docs /\ CacheAfter(cache) = Index(json)
    BY <1>4, CacheUsed DEF GetNumItems, ResultInv
  <2>2. UNCHANGED <<text, expert>>
    BY <1>4 DEF GetNumItems, UseCache
  <2>3. result'.call = "numItems" /\ result'.count = NumItems(Index(json))
    BY <1>4, <2>1 DEF GetNumItems
  <2>4. NumItems(Index(json))' = NumItems(Index(json))
    BY <2>2, SameCount
  <2> QED BY <1>1, <2>1, <2>2, <2>3, <2>4 DEF ResultInv
<1>5. ASSUME NEW index \in 0 .. Width - 1, GetItem(index) PROVE ResultInv'
  <2>1. text \in DOMAIN Docs /\ CacheAfter(cache) = Index(json)
    BY <1>5, CacheUsed DEF GetItem, ResultInv
  <2>2. UNCHANGED <<text, expert>>
    BY <1>5 DEF GetItem, UseCache
  <2>3. /\ result'.call = "getItem" /\ result'.index = index
        /\ result'.found = Query(Index(json), index)
    BY <1>5, <2>1 DEF GetItem
  <2>4. (Query(Index(json), index))' = Query(Index(json), index)
    BY <2>2, SameQuery
  <2> QED BY <1>1, <2>1, <2>2, <2>3, <2>4 DEF ResultInv
<1>6. CASE ToggleExpert
  BY <1>1, <1>6 DEF ToggleExpert, ResultInv, None
<1>7. CASE UNCHANGED vars
  <2>1. UNCHANGED <<text, expert>> /\ result' = result
    BY <1>7 DEF vars
  <2>2. \A index : (Query(Index(json), index))' = Query(Index(json), index)
    BY <2>1, SameQuery
  <2>3. NumItems(Index(json))' = NumItems(Index(json))
    BY <2>1, SameCount
  <2> QED BY <1>1, <2>1, <2>2, <2>3 DEF ResultInv
<1> QED BY <1>2, <1>3, <1>4, <1>5, <1>6, <1>7 DEF Next

(* A later index shows a later part of the text, for all documents with    *)
(* the required fields in order and all widths of the counters, in each    *)
(* mode and whether counts have wrapped or not.                            *)
THEOREM ShownInOrder == Spec => LaterIndexLaterText
<1> DEFINE IsFound(call) == call.call = "getItem" /\ call.found.err = "ok"
           Later == (IsFound(result) /\ IsFound(result')) =>
                      (result.index < result'.index
                         <=> result.found.item.token < result'.found.item.token)
<1>1. Init => ResultInv
  BY InitInv DEF Init, ResultInv, None
<1>2. ResultInv /\ [Next]_vars => ResultInv'
  BY ResultStep
<1>3. ResultInv /\ [Next]_vars => [Later]_vars
  <2> SUFFICES ASSUME ResultInv, Next, IsFound(result), IsFound(result')
               PROVE  result.index < result'.index
                        <=> result.found.item.token < result'.found.item.token
    OBVIOUS
  <2>1. PICK j \in 0 .. Width - 1 : GetItem(j)
    BY DEF Next, ReadTx, ReadTxFails, GetNumItems, ToggleExpert, None
  <2>2. text \in DOMAIN Docs /\ CacheAfter(cache) = Index(json)
    BY <2>1, CacheUsed DEF GetItem, ResultInv
  <2>3. result'.index = j /\ result'.found = Query(Index(json), j)
    BY <2>1, <2>2 DEF GetItem
  <2>4. PICK i \in 0 .. Width - 1 : i = result.index /\ result.found = Query(Index(json), i)
    BY DEF ResultInv
  <2>5. i \in Nat /\ j \in Nat
    BY DisplayAssumption
  <2>6. \A k \in 0 .. Width - 1 : /\ IsCounted(Index(json))
                                  /\ Query(Index(json), k).err = "ok" => \E r, sub : ShownAt(k, r, sub)
    BY <2>2, QueryFinds
  <2>7. PICK r, m : ShownAt(i, r, m)
    BY <2>4, <2>6
  <2>8. PICK s, n : ShownAt(j, s, n)
    BY <2>3, <2>6
  <2>9. i < j => Query(Index(json), i).item.token < Query(Index(json), j).item.token
    BY <2>2, <2>5, <2>6, <2>7, <2>8, LaterToken
  <2>10. j < i => Query(Index(json), j).item.token < Query(Index(json), i).item.token
    BY <2>2, <2>5, <2>6, <2>7, <2>8, LaterToken
  <2>11. \A k \in 0 .. Width - 1 : \A q, sub : ShownAt(k, q, sub) => Query(Index(json), k).item.token \in Nat
    BY <2>2, ShownIsToken
  <2> QED BY <2>3, <2>4, <2>5, <2>7, <2>8, <2>9, <2>10, <2>11
<1> QED BY <1>1, <1>2, <1>3, PTL DEF Spec, LaterIndexLaterText

(* What is shown is what docs/TXSPEC.md says, the item at every index and  *)
(* how many there are, for every document whose messages are objects with  *)
(* fields and whose other arrays that are entered hold at most one scalar, *)
(* while the counts fit the indices.                                       *)
THEOREM ShownAsSpecified == Spec => []ShowsAsSpecified
<1>1. Init => ResultInv
  BY InitInv DEF Init, ResultInv, None
<1>2. ResultInv /\ [Next]_vars => ResultInv'
  BY ResultStep
<1>3. ResultInv => ShowsAsSpecified
  <2> SUFFICES ASSUME ResultInv, text # 0, Fits(doc), Plain(doc)
               PROVE  /\ result.call = "numItems" => result.count = Len(Specified(doc))
                      /\ result.call = "getItem" /\ result.index < Len(Specified(doc)) =>
                           result.found = [err |-> "ok", item |-> Specified(doc)[result.index + 1]]
    BY Zenon DEF ShowsAsSpecified
  <2>1. text \in DOMAIN Docs
    BY DEF ResultInv, IInv
  <2>2. PICK count : count = NumItems(Index(json)) /\ Len(Specified(doc)) = count
    BY <2>1, SpecifiedPlaced
  <2>3. result.call = "numItems" => result.count = Len(Specified(doc))
    BY <2>2 DEF ResultInv
  <2>4. ASSUME result.call = "getItem", result.index < Len(Specified(doc))
        PROVE  result.found = [err |-> "ok", item |-> Specified(doc)[result.index + 1]]
    <3>1. PICK index \in 0 .. Width - 1 :
            index = result.index /\ result.found = Query(Index(json), index)
      BY <2>4 DEF ResultInv
    <3>2. index < NumItems(Index(json))
      BY <2>2, <2>4, <3>1
    <3>3. PICK r, sub : ShownAt(index, r, sub)
      BY <2>1, <3>2, QueryFinds
    <3>4. Query(Index(json), index) = [err |-> "ok", item |-> Specified(doc)[index + 1]]
      BY <2>1, <3>3, SpecifiedPlaced
    <3> QED BY <3>1, <3>4
  <2> QED BY <2>3, <2>4
<1> QED BY <1>1, <1>2, <1>3, PTL DEF Spec
=============================================================================
