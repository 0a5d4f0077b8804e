--------------------------- MODULE SkipListProofs ---------------------------
(***************************************************************************)
(* Proofs about SkipList, for any number of keys and levels: its lists are *)
(* in order at every moment, and readers without a lock see what SortedSet *)
(* promises.                                                               *)
(***************************************************************************)
EXTENDS SkipList, TLAPS

Reached == linked \cup {Head}

Ordered == \A x \in From, i \in Level : x < next[x][i]

\* A link leads to a node that is in the list of level 0.
Backed == \A x \in From, i \in Level : next[x][i] \in linked \cup {Null}

\* No key that is linked lies between a node and the next.
Complete == \A x \in Reached, k \in linked : x < k => next[x][0] <= k

Nested ==
  \A i \in Level \ {0}, x \in From :
    next[x][i] # Null => next[x][i] \in Targets(i - 1)

\* What the comment in Insert says of a new level: readers see NULL there.
Unused == \A x \in From, i \in Level : maxHeight <= i => next[x][i] = Null

\* A node without a link to it has no links, but for the one to be published.
Fresh ==
  \A x \in Key \ linked, i \in Level :
    \/ next[x][i] = Null
    \/ x = writer.key /\ i = 0 /\ writer.pc = "publish"

\* prev[i] is the node that the new one goes behind.
Placed(i) ==
  /\ writer.prev[i] \in Reached
  /\ writer.prev[i] < writer.key
  /\ writer.key < next[writer.prev[i]][i]

Finding ==
  writer.pc = "find" =>
    /\ writer.key \in Key \ linked
    /\ writer.x \in Reached /\ writer.x < writer.key
    /\ writer.level < maxHeight
    /\ \A i \in Level : writer.level < i /\ i < maxHeight => Placed(i)

Found ==
  writer.pc = "height" =>
    /\ writer.key \in Key \ linked
    /\ \A i \in Level : i < maxHeight => Placed(i)

Linking ==
  writer.pc \in {"own", "publish"} =>
    /\ writer.key \in Key
    /\ writer.key \in linked <=> writer.level > 0
    /\ writer.level < writer.height /\ writer.height <= maxHeight
    /\ \A i \in Level : writer.level <= i /\ i < writer.height => Placed(i)
    /\ \A i \in Level : writer.level < i => next[writer.key][i] = Null
    /\ \A i \in Level : i < writer.level => writer.key \in Targets(i)
    /\ next[writer.key][writer.level] =
         IF writer.pc = "own" THEN Null
         ELSE next[writer.prev[writer.level]][writer.level]

WriterInv == Finding /\ Found /\ Linking

ReaderInv ==
  /\ reader.node \in linked \cup {Null}
  /\ IF Resting THEN reader.key = Null
     ELSE reader.x \in Reached /\ reader.x < reader.key

ListInv == Ordered /\ Backed /\ Complete /\ Nested /\ Unused /\ Fresh

IInv == TypeOK /\ ListInv /\ WriterInv /\ ReaderInv

-----------------------------------------------------------------------------
LEMMA Sets ==
  /\ MaxKey \in Nat /\ MaxHeight \in Nat \ {0}
  /\ Key = 1..MaxKey /\ Head = 0 /\ Null = MaxKey + 1
  /\ Level = 0..(MaxHeight - 1) /\ From = Key \cup {Head}
  /\ Link = Key \cup {Null}
BY SkipListAssumption DEF Key, Head, Null, Level, From, Link

LEMMA InitHolds == Init => IInv
<1> SUFFICES ASSUME Init PROVE IInv
  OBVIOUS
<1> USE Sets DEF Init
<1>1. TypeOK
  <2>1. writer \in [pc : {"idle", "find", "height", "own", "publish"},
                    key : Link, x : From, level : Level,
                    prev : [Level -> Link \cup {Head}], height : 0..MaxHeight]
    BY DEF NoPrev
  <2>2. reader \in [kind : {"none", "ge", "lt"}, key : Link, x : From,
                    level : Level, node : Link]
    BY DEF Rest
  <2> QED BY <2>1, <2>2 DEF TypeOK
<1>2. ListInv
  BY DEF ListInv, Ordered, Backed, Complete, Nested, Unused, Fresh, Reached
<1>3. WriterInv /\ ReaderInv
  BY DEF WriterInv, Finding, Found, Linking, ReaderInv, Resting, Rest
<1> QED BY <1>1, <1>2, <1>3 DEF IInv

-----------------------------------------------------------------------------
(* The reader                                                              *)

\* What the reader does leaves the list and the writer alone.
LEMMA ListStays ==
  ASSUME IInv, UNCHANGED <<next, maxHeight, writer, linked>>
  PROVE  ListInv' /\ WriterInv'
<1>1. ListInv'
  BY DEF IInv, ListInv, Ordered, Backed, Complete, Nested, Unused, Fresh,
         Reached, Targets
<1>2. \A i \in Level : Placed(i)' <=> Placed(i)
  BY DEF Placed, Reached
<1>3. Finding'
  BY <1>2 DEF IInv, WriterInv, Finding, Reached
<1>4. Found'
  BY <1>2 DEF IInv, WriterInv, Found
<1>5. Linking'
  BY <1>2 DEF IInv, WriterInv, Linking, Targets
<1> QED BY <1>1, <1>3, <1>4, <1>5 DEF WriterInv

LEMMA RestKeeps ==
  ASSUME IInv, UNCHANGED <<next, maxHeight, writer, linked>>,
         NEW n \in linked \cup {Null}, reader' = Rest(n)
  PROVE  IInv'
<1>1. ReaderInv'
  BY DEF ReaderInv, Rest, Resting
<1>2. TypeOK'
  BY Sets DEF IInv, TypeOK, Rest
<1> QED BY <1>1, <1>2, ListStays DEF IInv

LEMMA SearchKeeps ==
  ASSUME IInv, NEW kind \in {"ge", "lt"}, NEW k \in Link, Search(kind, k)
  PROVE  IInv'
<1> USE Sets DEF Search
<1>1. TypeOK' /\ ReaderInv'
  BY DEF IInv, TypeOK, ReaderInv, Resting, Reached
<1> QED BY <1>1, ListStays DEF IInv

\* The node a search has come to is the last before the key, the next of it
\* the first behind.
LEMMA LastTurnFinds ==
  ASSUME IInv, ~Resting, LastTurn(reader)
  PROVE  /\ reader.x \in Reached /\ reader.x < reader.key
         /\ next[reader.x][0] \in linked \cup {Null}
         /\ reader.key <= next[reader.x][0]
         /\ \A j \in linked : reader.x < j => next[reader.x][0] <= j
BY Sets DEF IInv, TypeOK, ReaderInv, LastTurn, KeyIsAfterNode, ListInv, Backed,
            Complete, Reached

LEMMA SearchTurnKeeps == ASSUME IInv, SearchTurn PROVE IInv'
<1>1. CASE LastTurn(reader)
  <2> DEFINE n == IF reader.kind = "ge" THEN next[reader.x][0]
                  ELSE IF reader.x = Head THEN Null ELSE reader.x
  <2>1. n \in linked \cup {Null}
    BY <1>1, LastTurnFinds DEF SearchTurn, Reached
  <2>2. reader' = Rest(n)
    BY <1>1 DEF SearchTurn
  <2> HIDE DEF n
  <2> QED BY <2>1, <2>2, RestKeeps DEF SearchTurn
<1>2. CASE ~LastTurn(reader)
  <2> DEFINE n == next[reader.x][reader.level]
  <2>1. /\ n \in linked \cup {Null} /\ linked \subseteq Key
        /\ reader.node \in linked \cup {Null} /\ reader.key \in Link
        /\ reader.x \in Reached /\ reader.x < reader.key
        /\ reader.level \in Level
    BY Sets DEF IInv, TypeOK, ListInv, Backed, ReaderInv, SearchTurn, Reached
  <2>2. UNCHANGED <<next, maxHeight, writer, linked>>
    BY DEF SearchTurn
  <2>3. \/ n < reader.key /\ reader' = [reader EXCEPT !.x = n]
        \/ reader.level # 0
             /\ reader' = [reader EXCEPT !.level = reader.level - 1]
    BY <1>2 DEF SearchTurn, Turn, LastTurn, KeyIsAfterNode
  <2>4. n < reader.key => n \in linked
    BY <2>1, Sets
  <2> HIDE DEF n
  <2> DEFINE Kinds == {"none", "ge", "lt"}
  <2>5. TypeOK'
    <3>1. reader \in [kind : Kinds, key : Link, x : From, level : Level, node : Link]
      BY DEF IInv, TypeOK
    <3> HIDE DEF Kinds
    <3>2. n < reader.key => n \in From
      BY <2>1, <2>4, Sets
    <3>3. reader.level # 0 => reader.level - 1 \in Level
      BY <2>1, Sets
    <3>4. reader' \in [kind : Kinds, key : Link, x : From, level : Level, node : Link]
      BY <2>3, <3>1, <3>2, <3>3
    <3> QED BY <2>2, <3>4 DEF IInv, TypeOK, Kinds
  <2>6. ReaderInv'
    <3>1. reader'.x \in Reached /\ reader'.x < reader'.key
      BY <2>1, <2>3, <2>4 DEF Reached, IInv, TypeOK
    <3>2. reader'.node = reader.node /\ reader'.kind # "none"
      BY <2>3 DEF SearchTurn, Resting, IInv, TypeOK
    <3> QED BY <2>1, <2>2, <3>1, <3>2 DEF ReaderInv, Resting, Reached
  <2> QED BY <2>2, <2>5, <2>6, ListStays DEF SearchTurn, IInv
<1> QED BY <1>1, <1>2

LEMMA StepKeeps ==
  ASSUME IInv, NEW x \in Reached, StepFrom(x)
  PROVE  IInv'
<1>1. next[x][0] \in linked \cup {Null}
  BY Sets DEF IInv, TypeOK, ListInv, Backed, Reached
<1> QED BY <1>1, RestKeeps DEF StepFrom

LEMMA ReaderKeeps == ASSUME IInv, Reader PROVE IInv'
<1>1. CASE NewIterator
  BY <1>1, RestKeeps DEF NewIterator
<1>2. ASSUME NEW k \in Key, Seek(k) PROVE IInv'
  BY <1>2, Sets, SearchKeeps DEF Seek
<1>3. CASE SeekToLast
  BY <1>3, Sets, SearchKeeps DEF SeekToLast
<1>4. CASE Prev
  BY <1>4, Sets, SearchKeeps DEF Prev, IInv, TypeOK
<1>5. CASE SearchTurn
  BY <1>5, SearchTurnKeeps
<1>6. CASE SeekToFirst
  BY <1>6, StepKeeps DEF SeekToFirst, Reached
<1>7. CASE NextNode
  BY <1>7, StepKeeps DEF NextNode, IInv, ReaderInv, Reached
<1> QED BY <1>1, <1>2, <1>3, <1>4, <1>5, <1>6, <1>7 DEF Reader

-----------------------------------------------------------------------------
(* The writer                                                              *)

LEMMA ReaderStays ==
  ASSUME IInv, UNCHANGED reader, linked \subseteq linked'
  PROVE  ReaderInv'
BY DEF IInv, ReaderInv, Resting, Reached

LEMMA WriterType ==
  ASSUME TypeOK
  PROVE  /\ writer.key \in Link /\ writer.x \in From /\ writer.level \in Level
         /\ writer.prev \in [Level -> Link \cup {Head}]
         /\ writer.height \in 0..MaxHeight
         /\ maxHeight \in 1..MaxHeight /\ linked \subseteq Key
         /\ next \in [From -> [Level -> Link]]
BY DEF TypeOK

\* The lists are as they are while the writer searches.
LEMMA SearchingKeeps ==
  ASSUME IInv, UNCHANGED <<next, maxHeight, linked>>, writer.pc # "publish"
  PROVE  ListInv'
BY DEF IInv, ListInv, Ordered, Backed, Complete, Nested, Unused, Fresh,
       Reached, Targets

LEMMA InsertKeeps == ASSUME IInv, NEW k \in Key, Insert(k) PROVE IInv'
<1> USE Sets
<1>1. writer' = [pc |-> "find", key |-> k, x |-> Head, level |-> maxHeight - 1,
                 prev |-> NoPrev, height |-> 0]
  BY DEF Insert
<1>2. TypeOK'
  BY <1>1 DEF Insert, IInv, TypeOK, NoPrev
<1>3. Finding' /\ Found' /\ Linking'
  BY <1>1, WriterType
  DEF IInv, Insert, Finding, Found, Linking, Reached
<1>4. ListInv' /\ ReaderInv'
  BY SearchingKeeps, ReaderStays DEF Insert
<1> QED BY <1>2, <1>3, <1>4 DEF IInv, WriterInv

LEMMA FindPrevKeeps == ASSUME IInv, FindPrev PROVE IInv'
<1> USE Sets
<1> DEFINE l == writer.level
           n == next[writer.x][l]
           w == [writer EXCEPT !.prev[writer.level] = writer.x]
<1>1. /\ writer.key \in Key \ linked /\ l \in Level /\ l < maxHeight
      /\ writer.x \in Reached /\ writer.x < writer.key /\ writer.x \in From
      /\ n \in linked \cup {Null} /\ n \in Link
      /\ \A i \in Level : l < i /\ i < maxHeight => Placed(i)
      /\ TypeOK /\ linked \subseteq Key /\ maxHeight \in 1..MaxHeight
  BY DEF IInv, FindPrev, WriterInv, Finding, TypeOK, ListInv, Backed, Reached
<1>2. UNCHANGED <<next, maxHeight, reader, linked>>
  BY DEF FindPrev
<1>3. CASE n < writer.key
  <2>1. n \in linked
    BY <1>1, <1>3
  <2>2. writer' = [writer EXCEPT !.x = n]
    BY <1>3 DEF FindPrev, LastTurn, Turn, KeyIsAfterNode
  <2> HIDE DEF n
  <2>3. TypeOK'
    BY <1>1, <1>2, <2>1, <2>2 DEF TypeOK
  <2>4. \A i \in Level : Placed(i)' <=> Placed(i)
    BY <1>2, <2>2, WriterType, <1>1 DEF Placed, Reached, TypeOK
  <2>5. Finding' /\ Found' /\ Linking'
    BY <1>1, <1>2, <1>3, <2>1, <2>2, <2>4 DEF Finding, Found, Linking, Reached, FindPrev, TypeOK
  <2> QED
    BY <1>2, <2>3, <2>5, SearchingKeeps, ReaderStays
    DEF IInv, WriterInv, FindPrev
<1>4. CASE ~(n < writer.key)
  <2>1. /\ w.prev[l] = writer.x /\ w.key = writer.key
        /\ \A i \in Level \ {l} : w.prev[i] = writer.prev[i]
        /\ w.prev \in [Level -> Link \cup {Head}]
    BY <1>1 DEF TypeOK
  <2>2. writer.key < n
    BY <1>1, <1>4
  <2> HIDE DEF n
  <2>3. CASE l = 0
    <3>1. writer' = [w EXCEPT !.pc = "height"]
      BY <1>4, <2>3 DEF FindPrev, LastTurn, KeyIsAfterNode, n
    <3>2. TypeOK'
      BY <1>1, <1>2, <2>1, <3>1 DEF TypeOK
    <3>3. /\ writer'.pc = "height" /\ writer'.key = writer.key
          /\ writer'.prev = w.prev
      BY <3>1, <1>1 DEF TypeOK
    <3>4. ASSUME NEW i \in Level, i < maxHeight PROVE Placed(i)'
      BY <1>1, <1>2, <2>1, <2>2, <2>3, <3>3, <3>4 DEF Placed, Reached, n
    <3>5. Finding' /\ Found' /\ Linking'
      BY <1>1, <1>2, <3>3, <3>4 DEF Finding, Found, Linking
    <3> QED
      BY <1>2, <3>2, <3>5, SearchingKeeps, ReaderStays
      DEF IInv, WriterInv, FindPrev
  <2>4. CASE l # 0
    <3>1. writer' = [w EXCEPT !.level = l - 1]
      BY <1>1, <1>4, <2>4 DEF FindPrev, LastTurn, Turn, KeyIsAfterNode, n, TypeOK
    <3>2. /\ writer'.pc = "find" /\ writer'.key = writer.key
          /\ writer'.prev = w.prev /\ writer'.x = writer.x
          /\ writer'.level = l - 1
      BY <3>1, <1>1 DEF TypeOK, FindPrev
    <3>3. TypeOK'
      <4>1. l - 1 \in Level
        BY <1>1, <2>4
      <4>2. w \in [pc : {"find"}, key : Link, x : From, level : Level,
                   prev : [Level -> Link \cup {Head}], height : 0..MaxHeight]
        BY <1>1, <2>1 DEF TypeOK, FindPrev
      <4> HIDE DEF l, w
      <4> QED BY <1>1, <1>2, <3>1, <4>1, <4>2 DEF TypeOK
    <3>4. ASSUME NEW i \in Level, l - 1 < i, i < maxHeight PROVE Placed(i)'
      BY <1>1, <1>2, <2>1, <2>2, <3>2, <3>4 DEF Placed, Reached, n
    <3>5. Finding' /\ Found' /\ Linking'
      BY <1>1, <1>2, <3>2, <3>4 DEF Finding, Found, Linking, Reached
    <3> QED
      BY <1>2, <3>3, <3>5, SearchingKeeps, ReaderStays
      DEF IInv, WriterInv, FindPrev
  <2> QED BY <2>3, <2>4
<1> QED BY <1>3, <1>4

LEMMA SetHeightKeeps == ASSUME IInv, SetHeight PROVE IInv'
<1> USE Sets
<1>1. PICK h \in 1..MaxHeight :
        /\ writer' = [writer EXCEPT !.pc = "own", !.height = h, !.level = 0,
                        !.prev = [i \in Level |->
                          IF maxHeight <= i /\ i < h THEN Head ELSE @[i]]]
        /\ maxHeight' = IF h > maxHeight THEN h ELSE maxHeight
  BY DEF SetHeight, RandomHeight
<1> DEFINE p == [i \in Level |-> IF maxHeight <= i /\ i < h THEN Head
                                 ELSE writer.prev[i]]
<1>2. /\ UNCHANGED <<next, reader, linked>>
      /\ writer.pc = "height" /\ writer.key \in Key \ linked
      /\ \A i \in Level : i < maxHeight => Placed(i)
      /\ TypeOK /\ ListInv
  BY DEF SetHeight, IInv, WriterInv, Found
<1>3. p \in [Level -> Link \cup {Head}]
  BY <1>2, WriterType
<1>4. writer' = [writer EXCEPT !.pc = "own", !.height = h, !.level = 0,
                   !.prev = p]
  BY <1>1
<1>5. /\ writer'.pc = "own" /\ writer'.height = h /\ writer'.level = 0
      /\ writer'.prev = p /\ writer'.key = writer.key
  BY <1>2, <1>4 DEF TypeOK
<1>6. TypeOK'
  <2> HIDE DEF p
  <2>1. maxHeight' \in 1..MaxHeight
    BY <1>1, <1>2, WriterType
  <2>2. writer' \in [pc : {"own"}, key : Link, x : From, level : Level,
                     prev : [Level -> Link \cup {Head}], height : 0..MaxHeight]
    <3>1. 0 \in Level /\ h \in 0..MaxHeight
      OBVIOUS
    <3>2. writer.key \in Link /\ writer.x \in From
      BY <1>2, WriterType
    <3> QED BY <1>2, <1>3, <1>4, <3>1, <3>2 DEF TypeOK
  <2> QED BY <1>2, <2>1, <2>2 DEF TypeOK
<1>7. ListInv'
  BY <1>1, <1>2, <1>5, WriterType
  DEF ListInv, Ordered, Backed, Complete, Nested, Unused, Fresh, Reached, Targets
<1>8. ASSUME NEW i \in Level, i < h PROVE Placed(i)'
  <2>1. CASE i < maxHeight
    <3>1. p[i] = writer.prev[i]
      BY <2>1, <1>2, WriterType
    <3> HIDE DEF p
    <3> QED BY <2>1, <3>1, <1>2, <1>5 DEF Placed, Reached
  <2>2. CASE maxHeight <= i
    <3>1. p[i] = Head /\ next[Head][i] = Null
      BY <1>8, <2>2, <1>2 DEF ListInv, Unused
    <3> HIDE DEF p
    <3> QED BY <3>1, <1>2, <1>5 DEF Placed, Reached
  <2> QED BY <2>1, <2>2, <1>2, WriterType
<1>9. Finding' /\ Found' /\ Linking'
  <2>1. \A i \in Level : next[writer.key][i] = Null
    BY <1>2 DEF ListInv, Fresh
  <2>2. h <= maxHeight'
    BY <1>1, <1>2, WriterType
  <2> HIDE DEF p
  <2> QED BY <1>2, <1>5, <1>8, <2>1, <2>2 DEF Finding, Found, Linking
<1> QED BY <1>2, <1>6, <1>7, <1>9, ReaderStays DEF IInv, WriterInv

\* What is known in the loop that links the new node.
LEMMA LinkingFacts ==
  ASSUME IInv, writer.pc \in {"own", "publish"}
  PROVE  /\ writer.key \in Key /\ writer.key \in From
         /\ writer.level \in Level /\ writer.prev[writer.level] \in From
         /\ writer.prev[writer.level] \in Reached
         /\ writer.prev[writer.level] < writer.key
         /\ writer.key < next[writer.prev[writer.level]][writer.level]
         /\ next[writer.prev[writer.level]][writer.level] \in linked \cup {Null}
         /\ writer.key \in linked <=> writer.level > 0
         /\ writer.level < writer.height /\ writer.height <= maxHeight
         /\ \A i \in Level : writer.level <= i /\ i < writer.height => Placed(i)
         /\ \A i \in Level : writer.level < i => next[writer.key][i] = Null
         /\ \A i \in Level : i < writer.level => writer.key \in Targets(i)
         /\ next[writer.key][writer.level] =
              IF writer.pc = "own" THEN Null
              ELSE next[writer.prev[writer.level]][writer.level]
<1> USE Sets
<1>1. Linking /\ Backed
  BY WriterType DEF IInv, WriterInv, ListInv
<1>2. Placed(writer.level)
  BY <1>1, WriterType DEF Linking, IInv
<1> QED BY <1>1, <1>2, WriterType DEF Linking, Placed, Reached, Backed, IInv

LEMMA SetOwnLinkKeeps == ASSUME IInv, SetOwnLink PROVE IInv'
<1> USE Sets
<1> DEFINE k == writer.key
           l == writer.level
           p == writer.prev[l]
           t == next[p][l]
<1>1. /\ writer.pc = "own" /\ UNCHANGED <<maxHeight, reader, linked>>
      /\ next' = [next EXCEPT ![k][l] = t]
      /\ writer' = [writer EXCEPT !.pc = "publish"]
      /\ TypeOK /\ ListInv
  BY DEF SetOwnLink, IInv
<1>2. /\ k \in Key /\ k \in From /\ l \in Level /\ p \in From /\ p \in Reached
      /\ p < k /\ k < t /\ t \in linked \cup {Null} /\ t \in Link
      /\ k \in linked <=> l > 0
      /\ l < writer.height /\ writer.height <= maxHeight
      /\ \A i \in Level : l <= i /\ i < writer.height => Placed(i)
      /\ \A i \in Level : l < i => next[k][i] = Null
      /\ \A i \in Level : i < l => k \in Targets(i)
      /\ next[k][l] = Null
  BY <1>1, LinkingFacts, WriterType
<1>3. /\ writer'.pc = "publish" /\ writer'.key = k /\ writer'.level = l
      /\ writer'.prev = writer.prev /\ writer'.height = writer.height
  BY <1>1 DEF TypeOK
<1>4. /\ \A x \in From, i \in Level :
           next'[x][i] = IF x = k /\ i = l THEN t ELSE next[x][i]
      /\ next' \in [From -> [Level -> Link]]
  BY <1>1, <1>2, WriterType
<1>5. TypeOK'
  BY <1>1, <1>4 DEF TypeOK
<1> HIDE DEF k, l, p, t
<1>6. ASSUME NEW i \in Level, NEW v \in Targets(i), v # Null
      PROVE  v \in Targets(i)'
  <2>1. PICK y \in From : next[y][i] = v
    BY DEF Targets
  <2>2. next'[y][i] = v
    BY <1>2, <1>4, <1>6, <2>1
  <2> QED BY <2>2 DEF Targets
<1>7. ListInv'
  <2>1. Ordered' /\ Backed' /\ Unused'
    BY <1>1, <1>2, <1>4, WriterType DEF ListInv, Ordered, Backed, Unused
  <2>2. Complete'
    BY <1>1, <1>2, <1>4 DEF ListInv, Complete, Reached
  <2>3. Nested'
    <3> SUFFICES ASSUME NEW i \in Level \ {0}, NEW x \in From, next'[x][i] # Null
                 PROVE  next'[x][i] \in Targets(i - 1)'
      BY DEF Nested
    <3>1. CASE x = k /\ i = l
      <4>1. next'[x][i] = t /\ i \in Level
        BY <1>4, <3>1
      <4>2. next[p][i] \in Targets(i - 1)
        BY <1>1, <1>2, <3>1, <4>1 DEF ListInv, Nested, t
      <4> QED BY <1>6, <3>1, <4>1, <4>2 DEF t
    <3>2. CASE ~(x = k /\ i = l)
      <4>1. next'[x][i] = next[x][i]
        BY <1>4, <3>2
      <4> QED BY <1>1, <1>6, <4>1 DEF ListInv, Nested
    <3> QED BY <3>1, <3>2
  <2>4. Fresh'
    BY <1>1, <1>2, <1>3, <1>4 DEF ListInv, Fresh
  <2> QED BY <2>1, <2>2, <2>3, <2>4 DEF ListInv
<1>8. \A i \in Level : l <= i /\ i < writer.height => Placed(i)'
  <2> SUFFICES ASSUME NEW i \in Level, l <= i, i < writer.height PROVE Placed(i)'
    OBVIOUS
  <2>1. Placed(i) /\ writer.prev[i] # k /\ writer.prev[i] \in From
    BY <1>2, WriterType, <1>1 DEF Placed, Reached, k
  <2> QED BY <1>1, <1>3, <1>4, <2>1 DEF Placed, Reached, k
<1>9. Linking'
  <2>1. next'[k][l] = t /\ next'[p][l] = t
    BY <1>2, <1>4 DEF t
  <2>2. \A i \in Level : i < l => k \in Targets(i)'
    BY <1>2, <1>6
  <2>3. \A i \in Level : l < i => next'[k][i] = Null
    BY <1>2, <1>4
  <2>4. writer'.prev[writer'.level] = p
    BY <1>3 DEF p
  <2> QED BY <1>1, <1>2, <1>3, <1>8, <2>1, <2>2, <2>3, <2>4 DEF Linking
<1>10. Finding' /\ Found'
  BY <1>3 DEF Finding, Found
<1> QED BY <1>1, <1>5, <1>7, <1>9, <1>10, ReaderStays DEF IInv, WriterInv

LEMMA PublishKeeps == ASSUME IInv, Publish PROVE IInv'
<1> USE Sets
<1> DEFINE k == writer.key
           l == writer.level
           p == writer.prev[l]
           t == next[p][l]
<1>1. /\ writer.pc = "publish" /\ UNCHANGED <<maxHeight, reader>>
      /\ next' = [next EXCEPT ![p][l] = k]
      /\ linked' = linked \cup {k}
      /\ writer' = IF l + 1 = writer.height THEN [writer EXCEPT !.pc = "idle"]
                   ELSE [writer EXCEPT !.pc = "own", !.level = l + 1]
      /\ TypeOK /\ ListInv
  BY DEF Publish, IInv
<1>2. /\ k \in Key /\ k \in From /\ k \in Link /\ l \in Level /\ p \in From
      /\ p \in Reached /\ p < k /\ k < t /\ t \in linked \cup {Null}
      /\ k \in linked <=> l > 0
      /\ l < writer.height /\ writer.height <= maxHeight
      /\ \A i \in Level : l <= i /\ i < writer.height => Placed(i)
      /\ \A i \in Level : l < i => next[k][i] = Null
      /\ \A i \in Level : i < l => k \in Targets(i)
      /\ next[k][l] = t
  BY <1>1, LinkingFacts
<1>3. /\ \A x \in From, i \in Level :
           next'[x][i] = IF x = p /\ i = l THEN k ELSE next[x][i]
      /\ next' \in [From -> [Level -> Link]]
  BY <1>1, <1>2, WriterType
<1>4. writer.height \in 0..MaxHeight /\ maxHeight \in 1..MaxHeight
  BY <1>1, WriterType
<1>5. TypeOK'
  <2>1. l + 1 # writer.height => l + 1 \in Level
    BY <1>2, <1>4
  <2>2. linked' \subseteq Key
    BY <1>1, <1>2, WriterType
  <2> HIDE DEF l
  <2> QED BY <1>1, <1>3, <2>1, <2>2 DEF TypeOK
<1>6. /\ writer'.key = k /\ writer'.prev = writer.prev
      /\ writer'.height = writer.height
      /\ \/ writer'.pc = "idle"
         \/ writer'.pc = "own" /\ writer'.level = l + 1 /\ l + 1 # writer.height
  BY <1>1 DEF TypeOK
<1> HIDE DEF k, l, p, t
<1>7. ASSUME NEW i \in Level, NEW v \in Targets(i), v # Null
      PROVE  v \in Targets(i)'
  <2>1. PICK y \in From : next[y][i] = v
    BY DEF Targets
  <2>2. CASE y = p /\ i = l
    <3>1. next'[k][i] = v
      BY <1>2, <1>3, <2>1, <2>2 DEF t
    <3> QED BY <1>2, <3>1 DEF Targets
  <2>3. CASE ~(y = p /\ i = l)
    BY <1>3, <2>1, <2>3 DEF Targets
  <2> QED BY <2>2, <2>3
<1>8. ASSUME NEW i \in Level, i = l PROVE k \in Targets(i)'
  <2>1. next'[p][i] = k /\ p \in From
    BY <1>2, <1>3, <1>8
  <2> QED BY <2>1 DEF Targets
<1>9. ListInv'
  <2>1. Ordered' /\ Backed' /\ Unused'
    BY <1>1, <1>2, <1>3, <1>4 DEF ListInv, Ordered, Backed, Unused
  <2>2. Complete'
    <3> SUFFICES ASSUME NEW x \in Reached', NEW j \in linked', x < j
                 PROVE  next'[x][0] <= j
      BY DEF Complete
    <3>1. linked \subseteq Key /\ Reached \subseteq From
      BY <1>1, WriterType DEF Reached
    <3>2. CASE l > 0
      BY <1>1, <1>2, <1>3, <3>1, <3>2 DEF ListInv, Complete, Reached
    <3>3. CASE l = 0
      <4>1. k \notin linked /\ t = next[p][0] /\ next[k][0] = t
        BY <1>2, <3>3 DEF t
      <4>2. \A m \in linked : p < m => t <= m
        BY <1>1, <1>2, <4>1 DEF ListInv, Complete
      <4>3. CASE x = p
        BY <1>1, <1>2, <1>3, <3>1, <3>3, <4>2, <4>3
      <4>4. CASE x = k
        BY <1>1, <1>2, <1>3, <3>1, <3>3, <4>1, <4>2, <4>4
      <4>5. CASE x \in Reached \ {p, k}
        <5>1. next'[x][0] = next[x][0]
          BY <1>3, <3>1, <4>5
        <5>2. CASE j \in linked
          BY <1>1, <4>5, <5>1, <5>2 DEF ListInv, Complete
        <5>3. CASE j = k
          <6>1. x < p
            BY <1>2, <3>1, <4>2, <4>5, <5>3 DEF Reached
          <6>2. p \in linked
            BY <1>2, <3>1, <4>5, <6>1 DEF Reached
          <6>3. next[x][0] <= p
            BY <1>1, <4>5, <6>1, <6>2 DEF ListInv, Complete
          <6>4. next[x][0] \in Link
            BY <1>1, <3>1, <4>5, WriterType
          <6> QED BY <1>2, <5>1, <5>3, <6>3, <6>4
        <5> QED BY <1>1, <5>2, <5>3
      <4> QED BY <1>1, <4>3, <4>4, <4>5 DEF Reached
    <3> QED BY <1>2, <3>2, <3>3
  <2>3. Nested'
    <3> SUFFICES ASSUME NEW i \in Level \ {0}, NEW x \in From, next'[x][i] # Null
                 PROVE  next'[x][i] \in Targets(i - 1)'
      BY DEF Nested
    <3>1. CASE x = p /\ i = l
      <4>1. next'[x][i] = k /\ i - 1 \in Level /\ i - 1 < l
        BY <1>3, <3>1
      <4> QED BY <1>2, <1>7, <4>1
    <3>2. CASE ~(x = p /\ i = l)
      <4>1. next'[x][i] = next[x][i]
        BY <1>3, <3>2
      <4>2. i - 1 \in Level
        OBVIOUS
      <4> QED BY <1>1, <1>7, <4>1, <4>2 DEF ListInv, Nested
    <3> QED BY <3>1, <3>2
  <2>4. Fresh'
    BY <1>1, <1>2, <1>3 DEF ListInv, Fresh, Reached, k
  <2> QED BY <2>1, <2>2, <2>3, <2>4 DEF ListInv
<1>10. Linking'
  <2> SUFFICES ASSUME writer'.pc \in {"own", "publish"} PROVE Linking'
    BY DEF Linking
  <2>1. /\ writer'.pc = "own" /\ writer'.level = l + 1 /\ l + 1 \in Level
        /\ l + 1 < writer.height
    BY <1>2, <1>4, <1>6
  <2>2. ASSUME NEW i \in Level, l + 1 <= i, i < writer.height PROVE Placed(i)'
    <3>1. Placed(i) /\ writer.prev[i] \in From /\ i # l
      BY <1>1, <1>2, <2>2, WriterType DEF Placed, Reached
    <3> QED BY <1>1, <1>3, <1>6, <3>1 DEF Placed, Reached, k
  <2>3. ASSUME NEW i \in Level, l < i PROVE next'[k][i] = Null
    <3>1. k \in From /\ i # l /\ next[k][i] = Null
      BY <1>2, <2>3
    <3> QED BY <1>3, <3>1
  <2>4. ASSUME NEW i \in Level, i < l + 1 PROVE k \in Targets(i)'
    <3>1. i = l \/ i < l
      BY <1>2, <2>4
    <3>2. CASE i < l
      <4>1. k \in Targets(i) /\ k # Null
        BY <1>2, <3>2
      <4> QED BY <1>7, <4>1
    <3> QED BY <1>8, <3>1, <3>2
  <2> QED BY <1>1, <1>2, <1>6, <2>1, <2>2, <2>3, <2>4 DEF Linking
<1>11. Finding' /\ Found'
  BY <1>6 DEF Finding, Found
<1> QED BY <1>1, <1>5, <1>9, <1>10, <1>11, ReaderStays DEF IInv, WriterInv

-----------------------------------------------------------------------------
LEMMA NextKeeps == ASSUME IInv, [Next]_vars PROVE IInv'
<1>1. ASSUME NEW k \in Key, Insert(k) PROVE IInv'
  BY <1>1, InsertKeeps
<1>2. CASE FindPrev
  BY <1>2, FindPrevKeeps
<1>3. CASE SetHeight
  BY <1>3, SetHeightKeeps
<1>4. CASE SetOwnLink
  BY <1>4, SetOwnLinkKeeps
<1>5. CASE Publish
  BY <1>5, PublishKeeps
<1>6. CASE Reader
  BY <1>6, ReaderKeeps
<1>7. CASE UNCHANGED vars
  <2>1. ListInv' /\ WriterInv'
    BY <1>7, ListStays DEF vars
  <2>2. TypeOK' /\ ReaderInv'
    BY <1>7 DEF vars, IInv, TypeOK, ReaderInv, Resting, Reached
  <2> QED BY <2>1, <2>2 DEF IInv
<1> QED BY <1>1, <1>2, <1>3, <1>4, <1>5, <1>6, <1>7 DEF Next, Writer

LEMMA Invariance == Spec => []IInv
<1>1. Init => IInv
  BY InitHolds
<1>2. IInv /\ [Next]_vars => IInv'
  BY NextKeeps
<1> QED BY <1>1, <1>2, PTL DEF Spec

\* No step leaves the lists, the writer or the reader out of their types: links
\* lead to nodes or to NULL, searches stay at levels there are (SkipList).
THEOREM ListTyped == Spec => []TypeOK
<1>1. IInv => TypeOK
  BY DEF IInv
<1> QED BY <1>1, Invariance, PTL

\* Between any two stores of an Insert the lists of all levels are in order,
\* and each is part of the one below.
THEOREM InOrder == Spec => []ListsInOrder
<1>1. IInv => ListsInOrder
  <2> SUFFICES ASSUME IInv, NEW i \in Level \ {0}, NEW v \in Targets(i)
               PROVE  v \in Targets(i - 1)
    BY DEF IInv, ListInv, Ordered, ListsInOrder
  <2>1. CASE v # Null
    BY <2>1 DEF IInv, ListInv, Nested, Targets
  <2>2. CASE v = Null
    <3>1. PICK x \in From : \A y \in From : y <= x
      <4>1. CASE MaxKey = 0
        BY <4>1, Sets
      <4>2. CASE MaxKey # 0
        <5>1. MaxKey \in From /\ \A y \in From : y <= MaxKey
          BY <4>2, Sets
        <5> QED BY <5>1
      <4> QED BY <4>1, <4>2
    <3>2. i - 1 \in Level
      BY Sets
    <3>3. next[x][i - 1] \in Link /\ x < next[x][i - 1]
      BY <3>2 DEF IInv, TypeOK, ListInv, Ordered
    <3>4. next[x][i - 1] = Null
      BY <3>1, <3>3, Sets
    <3> QED BY <2>2, <3>4 DEF Targets
  <2> QED BY <2>1, <2>2
<1> QED BY <1>1, Invariance, PTL

-----------------------------------------------------------------------------
(* SortedSet is implemented                                                *)

LEMMA InitMaps == Init => Sorted!SetInit
BY DEF Init, Rest, Sorted!SetInit, Sorted!NoAsk

\* What the iterator finds, in the words of SortedSet.
LEMMA FirstFound ==
  ASSUME IInv, NEW x \in Reached, NEW k \in Int, x < k, k <= next[x][0],
         NEW n, n = next[x][0]
  PROVE  Sorted!IsFirst(n, k)
<1>1. n \in linked \cup {Null} /\ linked \subseteq Key
  BY Sets DEF IInv, TypeOK, ListInv, Backed, Reached
<1>2. \A j \in linked : x < j => n <= j
  BY Sets DEF IInv, ListInv, Complete
<1>3. x \in Int
  BY <1>1, Sets DEF Reached
<1> QED BY <1>1, <1>2, <1>3, Sets DEF Sorted!IsFirst

LEMMA WriterMaps ==
  ASSUME IInv, Writer
  PROVE  Sorted!SetNext \/ UNCHANGED Sorted!setVars
<1>1. CASE UNCHANGED <<linked, reader>>
  BY <1>1 DEF Sorted!setVars
<1>2. CASE Publish
  <2>1. /\ writer.key \in Key /\ linked' = linked \cup {writer.key}
        /\ UNCHANGED reader
    BY <1>2, LinkingFacts DEF Publish
  <2>2. CASE writer.key \in linked
    BY <1>1, <2>1, <2>2
  <2>3. CASE writer.key \notin linked
    BY <2>1, <2>3 DEF Sorted!SetNext, Sorted!Add
  <2> QED BY <2>2, <2>3
<1> QED
  BY <1>1, <1>2 DEF Writer, Insert, FindPrev, SetHeight, SetOwnLink

LEMMA SearchMaps ==
  ASSUME IInv, NEW kind \in {"ge", "lt"}, NEW k \in Link, Search(kind, k)
  PROVE  Sorted!SetNext
<1>1. /\ reader.kind = "none" /\ reader.key = Null
      /\ reader'.kind = kind /\ reader'.key = k /\ reader'.node = reader.node
      /\ linked' = linked
  BY DEF Search, Resting, IInv, ReaderInv
<1>2. [kind |-> kind, key |-> k] \in Sorted!Asks
  BY DEF Sorted!Asks, Link
<1> QED BY <1>1, <1>2 DEF Sorted!SetNext, Sorted!Ask, Sorted!NoAsk

LEMMA StepMaps ==
  ASSUME IInv, NEW x \in {Head} \cup ({reader.node} \ {Null}), StepFrom(x)
  PROVE  Sorted!SetNext
<1>1. x \in Reached /\ x \in From /\ x \in Int
  BY Sets DEF IInv, ReaderInv, Reached, TypeOK
<1>2. /\ reader.kind = "none" /\ reader.key = Null /\ linked' = linked
      /\ reader'.kind = "none" /\ reader'.key = Null
      /\ reader'.node = next[x][0]
  BY DEF StepFrom, Resting, Rest, IInv, ReaderInv
<1>3. x < next[x][0] /\ next[x][0] \in Int
  BY <1>1, Sets DEF IInv, ListInv, Ordered, TypeOK
<1>4. Sorted!IsFirst(next[x][0], x + 1)
  BY <1>1, <1>3, FirstFound
<1> QED BY <1>2, <1>4 DEF Sorted!SetNext, Sorted!Step, Sorted!NoAsk

LEMMA LastTurnMaps ==
  ASSUME IInv, SearchTurn, LastTurn(reader)
  PROVE  Sorted!SetNext
<1> DEFINE n == next[reader.x][0]
<1>1. /\ reader.x \in Reached /\ reader.x < reader.key /\ reader.key <= n
      /\ \A j \in linked : reader.x < j => n <= j
      /\ reader.key \in Int /\ reader.kind \in {"ge", "lt"}
      /\ n \in Int /\ linked \subseteq Key
  <2>1. ~Resting /\ reader.kind \in {"ge", "lt"} /\ linked \subseteq Key
        /\ reader.key \in Link
    BY DEF SearchTurn, Resting, IInv, TypeOK
  <2>2. n \in linked \cup {Null}
    BY <2>1, LastTurnFinds
  <2>3. reader.key \in Int /\ n \in Int
    <3> HIDE DEF n
    <3> QED BY <2>1, <2>2, Sets
  <2> QED BY <2>1, <2>3, LastTurnFinds
<1>2. /\ reader'.kind = "none" /\ reader'.key = Null /\ linked' = linked
      /\ reader'.node = IF reader.kind = "ge" THEN n
                        ELSE IF reader.x = Head THEN Null ELSE reader.x
  BY DEF SearchTurn, Rest
<1> HIDE DEF n
<1>3. CASE reader.kind = "ge"
  <2>1. Sorted!IsFirst(n, reader.key)
    BY <1>1, FirstFound DEF n
  <2> QED BY <1>2, <1>3, <2>1 DEF Sorted!SetNext, Sorted!Answer, Sorted!NoAsk
<1>4. CASE reader.kind = "lt"
  <2>1. Sorted!IsFinal(reader.x, reader.key)
    <3>1. ASSUME NEW j \in linked, j < reader.key PROVE j <= reader.x
      <4>1. j \in Int /\ reader.x \in Int
        <5>1. j \in Key /\ reader.x \in Key \cup {Head}
          BY <1>1 DEF Reached
        <5> QED BY <5>1, Sets
      <4>2. CASE reader.x < j
        <5>1. n <= j
          BY <1>1, <4>2
        <5>2. j < reader.key /\ reader.key <= n /\ n \in Int /\ reader.key \in Int
          BY <1>1, <3>1
        <5> QED BY <4>1, <5>1, <5>2
      <4> QED BY <4>1, <4>2
    <3> QED BY <1>1, <3>1 DEF Sorted!IsFinal, Reached
  <2>2. reader.x \in linked \cup {Head}
    BY <1>1 DEF Reached
  <2> QED
    BY <1>2, <1>4, <2>1, <2>2 DEF Sorted!SetNext, Sorted!Answer, Sorted!NoAsk
<1> QED BY <1>1, <1>3, <1>4

LEMMA ReaderMaps ==
  ASSUME IInv, Reader
  PROVE  Sorted!SetNext \/ UNCHANGED Sorted!setVars
<1> USE Sets
<1>1. CASE NewIterator
  <2>1. /\ reader.kind = "none" /\ reader.key = Null /\ linked' = linked
        /\ reader'.kind = "none" /\ reader'.key = Null /\ reader'.node = Null
    BY <1>1 DEF NewIterator, Resting, Rest, IInv, ReaderInv
  <2> QED BY <2>1 DEF Sorted!SetNext, Sorted!Reset, Sorted!NoAsk
<1>2. ASSUME NEW k \in Key, Seek(k) PROVE Sorted!SetNext
  BY <1>2, SearchMaps DEF Seek
<1>3. CASE SeekToLast
  BY <1>3, SearchMaps DEF SeekToLast
<1>4. CASE Prev
  BY <1>4, SearchMaps DEF Prev, IInv, TypeOK
<1>5. CASE SearchTurn
  <2>1. CASE ~LastTurn(reader)
    <3>1. /\ reader'.kind = reader.kind /\ reader'.key = reader.key
          /\ reader'.node = reader.node /\ linked' = linked
      BY <1>5, <2>1 DEF SearchTurn, Turn, IInv, TypeOK
    <3> QED BY <3>1 DEF Sorted!setVars
  <2> QED BY <1>5, <2>1, LastTurnMaps
<1>6. CASE SeekToFirst
  BY <1>6, StepMaps DEF SeekToFirst
<1>7. CASE NextNode
  BY <1>7, StepMaps DEF NextNode
<1> QED BY <1>1, <1>2, <1>3, <1>4, <1>5, <1>6, <1>7 DEF Reader

\* Every move of an iterator without a lock takes effect at one moment of a set
\* that only grows, for any number of keys and levels.
THEOREM MovesTakeEffectAtOnce == Spec => MovesAtOnce
<1>1. Init => Sorted!SetInit
  BY InitMaps
<1>2. IInv /\ [Next]_vars => [Sorted!SetNext]_(Sorted!setVars)
  <2> SUFFICES ASSUME IInv, [Next]_vars
               PROVE  Sorted!SetNext \/ UNCHANGED Sorted!setVars
    OBVIOUS
  <2>1. CASE UNCHANGED vars
    BY <2>1 DEF vars, Sorted!setVars
  <2> QED BY <2>1, WriterMaps, ReaderMaps DEF Next
<1> QED
  BY <1>1, <1>2, Invariance, PTL DEF Spec, MovesAtOnce, Sorted!SetSpec
=============================================================================
