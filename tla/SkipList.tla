------------------------------ MODULE SkipList ------------------------------
(***************************************************************************)
(* The list of a memtable: one writer inserts while readers search it      *)
(* without a lock.  That there is one writer only is the promise of        *)
(* WriteQueue (HeadAlone).  Readers write nothing that anybody reads, so   *)
(* one reader stands for any number.                                       *)
(*                                                                         *)
(* A node is its key.  A step is one load or store of a link.  The links   *)
(* are published by release stores and read by acquire loads, so a reader  *)
(* sees the writer's stores in their order, perhaps late; a late reader is *)
(* one that takes its step earlier.  The height alone is read without a    *)
(* barrier: too old, or too new for the links that can be seen.            *)
(***************************************************************************)
EXTENDS Integers

CONSTANTS MaxKey,      \* bound: the keys are 1..MaxKey
          MaxHeight    \* kMaxHeight

ASSUME SkipListAssumption == MaxKey \in Nat /\ MaxHeight \in Nat \ {0}

Key == 1..MaxKey
Head == 0
Null == MaxKey + 1     \* NULL sorts after all keys
Level == 0..(MaxHeight - 1)
From == Key \cup {Head}
Link == Key \cup {Null}

VARIABLES
  next,       \* next[x][i]: the link of node x at level i
  maxHeight,  \* max_height_
  writer,     \* the Insert that runs
  reader,     \* the iterator and its search
  linked      \* observer: the keys with a link to them at level 0

vars == <<next, maxHeight, writer, reader, linked>>

-----------------------------------------------------------------------------
(* The search                                                              *)

\* KeyIsAfterNode: NULL is considered infinite.
KeyIsAfterNode(key, n) == n < key

\* Fault: at a level with nothing ahead the search waits for a node.
TurnWaiting(s) ==
  LET n == next[s.x][s.level]
  IN  IF KeyIsAfterNode(s.key, n) THEN [s EXCEPT !.x = n]
      ELSE IF n = Null THEN s ELSE [s EXCEPT !.level = s.level - 1]

\* FindGreaterOrEqual, FindLessThan and, with NULL for the key, FindLast go
\* the same way: one turn of their loop.
Turn(s) ==
  LET n == next[s.x][s.level]
  IN  IF KeyIsAfterNode(s.key, n) THEN [s EXCEPT !.x = n]
      ELSE [s EXCEPT !.level = s.level - 1]

\* The turn that ends the search.
LastTurn(s) == s.level = 0 /\ ~KeyIsAfterNode(s.key, next[s.x][0])

-----------------------------------------------------------------------------
(* Insert, by the writer                                                   *)

\* prev, of which nothing is filled in.
NoPrev == [i \in Level |-> Null]

Insert(k) ==
  /\ writer.pc = "idle" /\ k \notin linked
  /\ writer' = [pc |-> "find", key |-> k, x |-> Head, level |-> maxHeight - 1,
                prev |-> NoPrev, height |-> 0]
  /\ UNCHANGED <<next, maxHeight, reader, linked>>

\* Fault: prev is filled in where the search enters a level.
FindPrevEarly ==
  /\ writer.pc = "find"
  /\ LET w == [writer EXCEPT !.prev[writer.level] =
                IF @ = Null THEN writer.x ELSE @]
     IN  writer' = IF LastTurn(writer) THEN [w EXCEPT !.pc = "height"]
                   ELSE Turn(w)
  /\ UNCHANGED <<next, maxHeight, reader, linked>>

\* FindGreaterOrEqual with prev.
FindPrev ==
  /\ writer.pc = "find"
  /\ LET w == IF KeyIsAfterNode(writer.key, next[writer.x][writer.level])
              THEN writer
              ELSE [writer EXCEPT !.prev[writer.level] = writer.x]
     IN  writer' = IF LastTurn(writer) THEN [w EXCEPT !.pc = "height"]
                   ELSE Turn(w)
  /\ UNCHANGED <<next, maxHeight, reader, linked>>

\* Fault: one more than kMaxHeight.
HeightsAndOne == 1..(MaxHeight + 1)

RandomHeight == 1..MaxHeight

\* The head precedes the node at the levels that are new.
SetHeight ==
  /\ writer.pc = "height"
  /\ \E h \in RandomHeight :
       /\ writer' = [writer EXCEPT !.pc = "own", !.height = h, !.level = 0,
                       !.prev = [i \in Level |->
                         IF maxHeight <= i /\ i < h THEN Head ELSE @[i]]]
       /\ maxHeight' = IF h > maxHeight THEN h ELSE maxHeight
  /\ UNCHANGED <<next, reader, linked>>

\* Fault: the new node is last in its list.
SetOwnLinkLast ==
  /\ writer.pc = "own"
  /\ writer' = [writer EXCEPT !.pc = "publish"]
  /\ UNCHANGED <<next, maxHeight, reader, linked>>

\* x->NoBarrier_SetNext(i, prev[i]->NoBarrier_Next(i))
SetOwnLink ==
  /\ writer.pc = "own"
  /\ next' = [next EXCEPT ![writer.key][writer.level] =
                next[writer.prev[writer.level]][writer.level]]
  /\ writer' = [writer EXCEPT !.pc = "publish"]
  /\ UNCHANGED <<maxHeight, reader, linked>>

\* prev[i]->SetNext(i, x)
Publish ==
  /\ writer.pc = "publish"
  /\ next' = [next EXCEPT ![writer.prev[writer.level]][writer.level] =
                writer.key]
  /\ linked' = linked \cup {writer.key}
  /\ writer' = IF writer.level + 1 = writer.height
               THEN [writer EXCEPT !.pc = "idle"]
               ELSE [writer EXCEPT !.pc = "own", !.level = @ + 1]
  /\ UNCHANGED <<maxHeight, reader>>

-----------------------------------------------------------------------------
(* SkipList::Iterator                                                      *)

Resting == reader.kind = "none"
Rest(n) == [kind |-> "none", key |-> Null, x |-> Head, level |-> 0, node |-> n]

NewIterator ==
  /\ Resting
  /\ reader' = Rest(Null)
  /\ UNCHANGED <<next, maxHeight, writer, linked>>

Search(kind, k) ==
  /\ Resting
  /\ \E h \in 1..MaxHeight :
       reader' = [kind |-> kind, key |-> k, x |-> Head, level |-> h - 1,
                  node |-> reader.node]
  /\ UNCHANGED <<next, maxHeight, writer, linked>>

Seek(k) == Search("ge", k)
SeekToLast == Search("lt", Null)
Prev == reader.node # Null /\ Search("lt", reader.node)

\* A search goes on, or comes to its end.
SearchTurn ==
  /\ ~Resting
  /\ IF LastTurn(reader)
     THEN reader' = Rest(IF reader.kind = "ge" THEN next[reader.x][0]
                         ELSE IF reader.x = Head THEN Null ELSE reader.x)
     ELSE reader' = Turn(reader)
  /\ UNCHANGED <<next, maxHeight, writer, linked>>

\* Next and SeekToFirst load one link.
StepFrom(x) ==
  /\ Resting
  /\ reader' = Rest(next[x][0])
  /\ UNCHANGED <<next, maxHeight, writer, linked>>

SeekToFirst == StepFrom(Head)
NextNode == reader.node # Null /\ StepFrom(reader.node)

-----------------------------------------------------------------------------
Init ==
  /\ next = [x \in From |-> [i \in Level |-> Null]]
  /\ maxHeight = 1
  /\ writer = [pc |-> "idle", key |-> Null, x |-> Head, level |-> 0,
               prev |-> NoPrev, height |-> 0]
  /\ reader = Rest(Null)
  /\ linked = {}

Writer == (\E k \in Key : Insert(k)) \/ FindPrev \/ SetHeight \/ SetOwnLink
            \/ Publish

Reader == NewIterator \/ (\E k \in Key : Seek(k)) \/ SeekToLast \/ Prev
            \/ SearchTurn \/ SeekToFirst \/ NextNode

Next == Writer \/ Reader

\* The thread of the reader runs; the writer may stop anywhere.
Spec == Init /\ [][Next]_vars /\ WF_vars(SearchTurn)

-----------------------------------------------------------------------------
(* Properties                                                              *)

Targets(i) == {next[x][i] : x \in From}

\* Every variable has its type; a search is before its key, at a level there
\* is.
TypeOK ==
  /\ next \in [From -> [Level -> Link]]
  /\ maxHeight \in 1..MaxHeight
  /\ writer \in [pc : {"idle", "find", "height", "own", "publish"},
                 key : Link, x : From, level : Level,
                 prev : [Level -> Link \cup {Head}], height : 0..MaxHeight]
  /\ reader \in [kind : {"none", "ge", "lt"}, key : Link, x : From,
                 level : Level, node : Link]
  /\ linked \subseteq Key

\* The lists of all levels are in order, and who is in the list of one level is
\* in that of the level below, though a reader may look between any two stores
\* of an Insert (SkipList::Insert).
ListsInOrder ==
  /\ \A x \in From, i \in Level : x < next[x][i]
  /\ \A i \in Level \ {0} : Targets(i) \subseteq Targets(i - 1)

Sorted == INSTANCE SortedSet WITH
  keys <- linked,
  node <- reader.node,
  ask <- [kind |-> reader.kind, key |-> reader.key]

\* Every move of an iterator, made up of many loads, takes effect at one moment
\* (SortedSet).  So it skips no key that was there when it began, whatever is
\* inserted meanwhile; skiplist_test.cc, "we should never miss any values that
\* were present at iterator construction time".
MovesAtOnce == Sorted!SetSpec

\* A search ends without the writer's help, and however the writer goes on.
SearchEnds == (reader.kind # "none") ~> (reader.kind = "none")

=============================================================================
