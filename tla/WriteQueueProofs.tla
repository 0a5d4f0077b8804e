-------------------------- MODULE WriteQueueProofs --------------------------
(***************************************************************************)
(* The threads of leveldb, for any callers, any calls, any limits and any  *)
(* of the failures: the head is alone and work is scheduled; the log, the  *)
(* memtables and the answers agree; and so the threads implement           *)
(* WriteOrder.                                                             *)
(***************************************************************************)
EXTENDS WriteQueue, SequenceTheorems, FiniteSetTheorems, TLAPS

Places == {"idle", "queued", "room", "delayed", "stalled", "logging",
           "logged", "unsynced", "finish", "written", "flushing"}

\* Where a caller is that is carrying out the batches of the head.
Busy == {"room", "delayed", "stalled", "logging", "logged", "unsynced",
         "finish"}

\* Where the end of the group is known.
Grouped == {"logging", "logged", "unsynced", "finish"}

\* A writer in the queue that was not carried out, found at some place.
Waits(t) == done[t] \/ \E i \in 1..Len(queue) : queue[i] = t

\* What makes the head stay alone: who is busy is at the head; the group ends
\* with a writer of the queue, so that Finish takes away a front part; and
\* who is not told that its batch was carried out is still there.
QueueInv ==
  /\ queue \in Seq(Thread)
  /\ pc \in [Thread -> Places]
  /\ \A t \in Thread : pc[t] \in Busy => queue # <<>> /\ Head(queue) = t
  /\ \A t \in Thread :
       pc[t] \in Grouped => \E i \in 1..Len(queue) : queue[i] = lastWriter
  /\ \A t \in Thread : pc[t] = "queued" => Waits(t)

-----------------------------------------------------------------------------
LEMMA IntervalFinite ==
  \A n \in Nat : IsFiniteSet(1..n) /\ Cardinality(1..n) = n
<1> SUFFICES ASSUME NEW n \in Nat PROVE IsFiniteSet(1..n) /\ Cardinality(1..n) = n
  OBVIOUS
<1>1. 1 \in Int /\ n \in Int
  OBVIOUS
<1> QED
  BY <1>1, FS_Interval

\* Nth counts through a set of places: every number leads to a place, and
\* every place has a number.
LEMMA NthCounts ==
  ASSUME NEW n \in Nat, NEW S \in SUBSET (1..n)
  PROVE  /\ Cardinality(S) \in Nat
         /\ \A k \in 1..Cardinality(S) :
              Nth(S, k) \in S /\ Cardinality({j \in S : j <= Nth(S, k)}) = k
         /\ \A i \in S :
              LET k == Cardinality({j \in S : j <= i})
              IN  k \in 1..Cardinality(S) /\ Nth(S, k) = i
<1> DEFINE Below(i) == {j \in S : j <= i}
           rank == [i \in S |-> Cardinality(Below(i))]
           N == Cardinality(S)
<1>1. IsFiniteSet(S) /\ N \in Nat
  BY IntervalFinite, FS_Subset, FS_CardinalityType
<1>2. \A i \in S : IsFiniteSet(Below(i)) /\ Cardinality(Below(i)) \in Nat /\ Cardinality(Below(i)) <= N
  <2> SUFFICES ASSUME NEW i \in S
               PROVE  IsFiniteSet(Below(i)) /\ Cardinality(Below(i)) \in Nat /\ Cardinality(Below(i)) <= N
    OBVIOUS
  <2>1. Below(i) \in SUBSET S
    OBVIOUS
  <2> QED
    BY <1>1, <2>1, FS_Subset, FS_CardinalityType
<1>3. ASSUME NEW i \in S PROVE Cardinality(Below(i)) # 0
  <2>1. i \in Below(i)
    OBVIOUS
  <2> QED
    BY <2>1, <1>2, FS_EmptySet
<1>4. rank \in [S -> 1..N]
  <2>1. ASSUME NEW i \in S PROVE Cardinality(Below(i)) \in 1..N
    BY <1>1, <1>2, <1>3
  <2> QED
    BY <2>1
<1>5. ASSUME NEW i \in S, NEW j \in S, i < j PROVE rank[i] # rank[j]
  <2>1. \A x \in S : x <= i => x <= j
    BY <1>5
  <2>2. j <= j /\ ~ (j <= i)
    BY <1>5
  <2>3. Below(i) \in SUBSET Below(j)
    BY <2>1, Zenon
  <2>4. j \in Below(j) /\ j \notin Below(i)
    BY <2>2, Zenon
  <2>5. Cardinality(Below(i)) # Cardinality(Below(j))
    BY <1>2, <2>3, <2>4, FS_Subset
  <2> QED
    BY <2>5
<1>6. \A i, j \in S : rank[i] = rank[j] => i = j
  <2>1. \A i, j \in S : i = j \/ i < j \/ j < i
    OBVIOUS
  <2> QED
    BY <1>5, <2>1
<1>7. rank \in Injection(S, 1..N)
  BY <1>4, <1>6 DEF Injection, IsInjective
<1>8. IsFiniteSet(1..N) /\ Cardinality(1..N) = Cardinality(S)
  BY <1>1, IntervalFinite
<1>9. rank \in Surjection(S, 1..N)
  BY <1>7, <1>8, FS_Injection
<1>10. \A k \in 1..N : \E i \in S : rank[i] = k
  BY <1>9 DEF Surjection
<1>11. \A k \in 1..N : Nth(S, k) \in S /\ rank[Nth(S, k)] = k
  BY <1>10 DEF Nth
<1>12. \A i \in S : rank[i] = Cardinality({j \in S : j <= i})
  OBVIOUS
<1> HIDE DEF rank
<1>13. ASSUME NEW i \in S PROVE rank[i] \in 1..N /\ Nth(S, rank[i]) = i
  <2>1. rank[i] \in 1..N
    BY <1>4
  <2>2. Nth(S, rank[i]) \in S /\ rank[Nth(S, rank[i])] = rank[i]
    BY <1>11, <2>1
  <2> QED
    BY <1>6, <2>1, <2>2
<1> QED
  BY <1>1, <1>11, <1>12, <1>13

\* Among some places there is a first one.
LEMMA FirstPlace ==
  ASSUME NEW n \in Nat, NEW S \in SUBSET (1..n), S # {}
  PROVE  \E i \in S : \A j \in S : i <= j
<1> DEFINE rank(i) == Cardinality({j \in S : j <= i})
<1>1. Cardinality(S) \in Nat /\ 1 \in 1..Cardinality(S)
  <2>1. \A i \in S : rank(i) \in 1..Cardinality(S)
    BY NthCounts
  <2>2. Cardinality(S) \in Nat
    BY NthCounts
  <2> HIDE DEF rank
  <2>3. PICK i \in S : rank(i) \in 1..Cardinality(S)
    BY <2>1
  <2> QED BY <2>2, <2>3
<1>2. PICK first \in S : first = Nth(S, 1) /\ rank(first) = 1
  BY <1>1, NthCounts
<1>3. ASSUME NEW j \in S, ~(first <= j)
      PROVE  FALSE
  <2>1. {i \in S : i <= j} \subseteq {i \in S : i <= first}
    <3>1. first \in Nat /\ j \in Nat /\ j <= first
      BY <1>3
    <3>2. \A i \in S : i \in Nat
      OBVIOUS
    <3>3. \A i \in S : i <= j => i <= first
      BY <3>1, <3>2
    <3> QED BY <3>3, Zenon
  <2>2. IsFiniteSet({i \in S : i <= first})
    <3>1. {i \in S : i <= first} \subseteq 1..n
      OBVIOUS
    <3> QED BY <3>1, IntervalFinite, FS_Subset
  <2>3. rank(j) <= rank(first)
    BY <2>1, <2>2, FS_Subset
  <2>4. rank(j) \in 1..Cardinality(S) /\ Nth(S, rank(j)) = j
    BY NthCounts
  <2> HIDE DEF rank
  <2>5. rank(j) = 1
    BY <1>1, <1>2, <2>3, <2>4
  <2> QED BY <1>2, <1>3, <2>4, <2>5
<1> QED BY <1>2, <1>3

\* The queue grows behind, and the head stays.
LEMMA Behind ==
  ASSUME NEW q \in Seq(Thread), NEW t \in Thread
  PROVE  /\ Append(q, t) \in Seq(Thread) /\ Append(q, t) # <<>>
         /\ Len(Append(q, t)) = Len(q) + 1
         /\ \A i \in 1..Len(q) : Append(q, t)[i] = q[i]
         /\ q # <<>> => Head(Append(q, t)) = Head(q)
         /\ q = <<>> => Head(Append(q, t)) = t
<1>1. /\ Append(q, t) \in Seq(Thread) /\ Len(Append(q, t)) = Len(q) + 1
      /\ \A i \in 1..Len(q) : Append(q, t)[i] = q[i]
      /\ Append(q, t)[Len(q) + 1] = t
  OBVIOUS
<1>2. Append(q, t) # <<>> /\ Head(Append(q, t)) = Append(q, t)[1]
  BY <1>1
<1>3. q # <<>> => Len(q) > 0 /\ Head(q) = q[1]
  OBVIOUS
<1>4. q = <<>> => Len(q) = 0
  OBVIOUS
<1> QED BY <1>1, <1>2, <1>3, <1>4

\* BuildBatchGroup always finds where the group ends.
LEMMA GroupEnds ==
  ASSUME queue \in Seq(Thread), queue # <<>>
  PROVE  /\ GroupSize \in 1..Len(queue)
         /\ \A i \in 2..GroupSize :
              call[queue[i]] \in SyncCalls => call[queue[1]] \in SyncCalls
<1> DEFINE joins(i) ==
      /\ call[queue[i]] \in SyncCalls => call[queue[1]] \in SyncCalls
      /\ call[queue[i]] \in BatchCalls =>
           Len(Batches(SubSeq(queue, 1, i))) <= GroupLimit
    P(n) == /\ \A i \in 2..n : joins(i)
            /\ n = Len(queue) \/ ~joins(n + 1)
    Stops == {i \in 2..Len(queue) : ~joins(i)}
<1>1. Len(queue) \in Nat /\ Len(queue) >= 1
  OBVIOUS
<1> HIDE DEF joins
<1>2. \E n \in 1..Len(queue) : P(n)
  <2>1. CASE Stops = {}
    <3>1. P(Len(queue))
      BY <1>1, <2>1
    <3> QED BY <1>1, <3>1
  <2>2. CASE Stops # {}
    <3>1. PICK i \in Stops : \A j \in Stops : i <= j
      <4> HIDE DEF Stops
      <4>1. Stops \subseteq 1..Len(queue)
        BY <1>1 DEF Stops
      <4> QED BY <1>1, <2>2, <4>1, FirstPlace
    <3>2. i \in 2..Len(queue) /\ ~joins(i)
      OBVIOUS
    <3>3. \A j \in 2..(i - 1) : joins(j)
      <4> SUFFICES ASSUME NEW j \in 2..(i - 1), ~joins(j) PROVE FALSE
        OBVIOUS
      <4>1. j \in Stops
        BY <1>1, <3>2
      <4> QED BY <3>1, <3>2, <4>1
    <3>4. i - 1 \in 1..Len(queue) /\ (i - 1) + 1 = i
      BY <1>1, <3>2
    <3>5. P(i - 1)
      BY <3>2, <3>3, <3>4
    <3> QED BY <3>4, <3>5
  <2> QED BY <2>1, <2>2
<1>3. GroupSize = CHOOSE n \in 1..Len(queue) : P(n)
  BY DEF GroupSize, joins
<1>4. GroupSize \in 1..Len(queue) /\ P(GroupSize)
  <2> HIDE DEF P
  <2> QED BY <1>2, <1>3
<1> QED BY <1>4 DEF joins

-----------------------------------------------------------------------------
\* Steps that leave the queue and the end of the group alone, and bring a
\* caller on only if it was at the head already.
LEMMA Stays ==
  ASSUME QueueInv, NEW t \in Thread, NEW p \in Places,
         queue' = queue, lastWriter' = lastWriter, done' = done,
         pc' = [pc EXCEPT ![t] = p], p # "queued",
         p \in Busy => queue # <<>> /\ Head(queue) = t,
         p \in Grouped => pc[t] \in Grouped
  PROVE  QueueInv'
<1>1. pc' \in [Thread -> Places] /\ queue' \in Seq(Thread)
  BY DEF QueueInv
<1>2. ASSUME NEW u \in Thread
      PROVE  pc'[u] = IF u = t THEN p ELSE pc[u]
  BY DEF QueueInv
<1>3. \A u \in Thread : Waits(u)' = Waits(u)
  BY DEF Waits
<1> QED BY <1>1, <1>2, <1>3 DEF QueueInv

\* The group of the head is known: it ends with a writer of the queue.
LEMMA GroupKnown ==
  ASSUME QueueInv, NEW t \in Thread, pc[t] \in Busy, NEW p \in Busy,
         queue' = queue, done' = done, pc' = [pc EXCEPT ![t] = p],
         NEW i \in 1..Len(queue), lastWriter' = queue[i]
  PROVE  QueueInv'
<1>1. pc' \in [Thread -> Places] /\ queue' \in Seq(Thread)
  BY DEF QueueInv, Places, Busy
<1>2. ASSUME NEW u \in Thread
      PROVE  pc'[u] = IF u = t THEN p ELSE pc[u]
  BY DEF QueueInv
<1>3. ASSUME NEW u \in Thread, pc'[u] \in Busy
      PROVE  queue' # <<>> /\ Head(queue') = u
  BY <1>2, <1>3 DEF QueueInv
<1>4. ASSUME NEW u \in Thread, pc'[u] = "queued" PROVE Waits(u)'
  BY <1>2, <1>4 DEF QueueInv, Waits, Busy
<1>5. \E j \in 1..Len(queue') : queue'[j] = lastWriter'
  OBVIOUS
<1> QED BY <1>1, <1>3, <1>4, <1>5 DEF QueueInv

LEMMA HeadIsFirst ==
  ASSUME QueueInv, queue # <<>>
  PROVE  1 \in 1..Len(queue) /\ queue[1] = Head(queue)
BY DEF QueueInv

-----------------------------------------------------------------------------
(* One lemma for each action that changes the queue or the group           *)

LEMMA WriteHolds ==
  ASSUME QueueInv, NEW t \in Thread, Write(t)
  PROVE  QueueInv'
<1> DEFINE p == IF NobodyAhead THEN "room" ELSE "queued"
<1>1. /\ queue' = Append(queue, t) /\ pc' = [pc EXCEPT ![t] = p]
      /\ lastWriter' = lastWriter
  BY DEF Write
<1>2. /\ queue' \in Seq(Thread) /\ queue' # <<>>
      /\ Len(queue') = Len(queue) + 1
      /\ \A i \in 1..Len(queue) : queue'[i] = queue[i]
      /\ queue # <<>> => Head(queue') = Head(queue)
      /\ queue = <<>> => Head(queue') = t
  BY <1>1, Behind DEF QueueInv
<1>3. /\ pc' \in [Thread -> Places]
      /\ \A u \in Thread : pc'[u] = IF u = t THEN p ELSE pc[u]
  BY <1>1 DEF QueueInv, Places
<1>4. ASSUME NEW u \in Thread, pc'[u] \in Busy
      PROVE  queue' # <<>> /\ Head(queue') = u
  BY <1>2, <1>3, <1>4 DEF QueueInv, Busy, NobodyAhead
<1>5. ASSUME NEW u \in Thread, pc'[u] \in Grouped
      PROVE  \E i \in 1..Len(queue') : queue'[i] = lastWriter'
  <2>1. pc[u] \in Grouped
    BY <1>3, <1>5 DEF Grouped
  <2>2. PICK i \in 1..Len(queue) : queue[i] = lastWriter
    BY <2>1 DEF QueueInv
  <2>3. Len(queue) \in Nat
    BY DEF QueueInv
  <2> QED BY <1>1, <1>2, <2>2, <2>3
<1>6. ASSUME NEW u \in Thread, pc'[u] = "queued"
      PROVE  Waits(u)'
  <2>1. Len(queue) \in Nat /\ queue'[Len(queue) + 1] = t
    BY <1>1 DEF QueueInv
  <2>2. CASE u = t
    BY <1>2, <2>1, <2>2 DEF Waits
  <2>3. CASE u # t
    <3>1. Waits(u) /\ done'[u] = done[u]
      BY <1>3, <1>6, <2>3 DEF QueueInv, Write
    <3> QED BY <1>2, <2>1, <3>1 DEF Waits
  <2> QED BY <2>2, <2>3
<1> QED BY <1>2, <1>3, <1>4, <1>5, <1>6 DEF QueueInv

LEMMA ReturnIdles ==
  ASSUME NEW t \in Thread, NEW status, Return({t}, status), QueueInv
  PROVE  \E p \in {"idle", "written"} : pc' = [pc EXCEPT ![t] = p]
<1> DEFINE p == IF call[t] \in BatchCalls \/ status = "error" THEN "idle"
                ELSE "written"
<1>1. pc' = [u \in Thread |-> IF u = t THEN p ELSE pc[u]]
  BY DEF Return
<1> QED BY <1>1 DEF QueueInv

LEMMA WakeHolds ==
  ASSUME QueueInv, NEW t \in Thread, Wake(t)
  PROVE  QueueInv'
<1>1. /\ queue' = queue /\ lastWriter' = lastWriter /\ done' = done
      /\ pc[t] = "queued"
  BY DEF Wake
<1>2. CASE done[t]
  <2>1. PICK p \in {"idle", "written"} : pc' = [pc EXCEPT ![t] = p]
    BY <1>2, ReturnIdles DEF Wake
  <2> QED BY <1>1, <2>1, Stays DEF Places, Busy, Grouped
<1>3. CASE ~done[t]
  <2>1. pc' = [pc EXCEPT ![t] = "room"] /\ Head(queue) = t
    BY <1>3 DEF Wake
  <2>2. queue # <<>>
    <3>1. \E i \in 1..Len(queue) : queue[i] = t
      BY <1>1, <1>3 DEF QueueInv, Waits
    <3> QED BY <3>1
  <2> QED BY <1>1, <2>1, <2>2, Stays DEF Places, Busy, Grouped
<1> QED BY <1>2, <1>3

LEMMA GroupStarts ==
  ASSUME QueueInv, NEW t \in Thread, BuildBatchGroup(t)
  PROVE  QueueInv'
<1>1. /\ pc[t] \in Busy /\ queue # <<>> /\ Head(queue) = t
      /\ queue' = queue /\ done' = done
  BY DEF BuildBatchGroup, InRoom, QueueInv, Busy
<1>2. CASE call[t] \in BatchCalls
  <2>1. GroupSize \in 1..Len(queue)
    BY <1>1, GroupEnds DEF QueueInv
  <2>2. lastWriter' = queue[GroupSize] /\ pc' = [pc EXCEPT ![t] = "logging"]
    BY <1>2 DEF BuildBatchGroup
  <2> QED BY <1>1, <2>1, <2>2, GroupKnown DEF Busy
<1>3. CASE call[t] \notin BatchCalls
  <2>1. lastWriter' = queue[1] /\ pc' = [pc EXCEPT ![t] = "finish"]
    BY <1>1, <1>3, HeadIsFirst DEF BuildBatchGroup
  <2> QED BY <1>1, <2>1, HeadIsFirst, GroupKnown DEF Busy
<1> QED BY <1>2, <1>3

LEMMA RoomFailsHolds ==
  ASSUME QueueInv, NEW t \in Thread, RoomFails(t) \/ NewLogFails(t)
  PROVE  QueueInv'
<1>1. /\ pc[t] \in Busy /\ queue # <<>> /\ Head(queue) = t
      /\ queue' = queue /\ done' = done
      /\ pc' = [pc EXCEPT ![t] = "finish"]
  BY DEF RoomFails, NewLogFails, InRoom, QueueInv, Busy
<1>2. lastWriter' = queue[1]
  BY <1>1, HeadIsFirst DEF RoomFails, NewLogFails
<1> QED BY <1>1, <1>2, HeadIsFirst, GroupKnown DEF Busy

LEMMA FinishHolds ==
  ASSUME QueueInv, NEW t \in Thread, Finish(t)
  PROVE  QueueInv'
<1> DEFINE n == CHOOSE i \in DOMAIN queue : queue[i] = lastWriter
           rest == SubSeq(queue, n + 1, Len(queue))
           followers == {queue[i] : i \in 2..n}
<1>1. /\ pc[t] \in Busy \cap Grouped /\ queue # <<>> /\ Head(queue) = t
      /\ queue \in Seq(Thread)
  BY DEF Finish, QueueInv, Busy, Grouped
<1>2. n \in 1..Len(queue)
  <2>1. \E i \in DOMAIN queue : queue[i] = lastWriter
    BY <1>1 DEF QueueInv
  <2>2. n \in DOMAIN queue
    BY <2>1
  <2> HIDE DEF n
  <2> QED BY <1>1, <2>2
<1>3. /\ queue' = rest
      /\ done' = [u \in Thread |-> u \in followers \/ done[u]]
  BY DEF Finish
<1>4. PICK p \in {"idle", "written"} : pc' = [pc EXCEPT ![t] = p]
  <2>1. PICK status : Return({t}, status)
    BY DEF Finish
  <2> QED BY <2>1, ReturnIdles
<1> HIDE DEF n
<1>5. /\ rest \in Seq(Thread) /\ Len(rest) = Len(queue) - n
      /\ \A i \in 1..Len(rest) : rest[i] = queue[i + n]
  BY <1>1, <1>2
<1>6. /\ pc' \in [Thread -> Places]
      /\ \A u \in Thread : pc'[u] = IF u = t THEN p ELSE pc[u]
  BY <1>4 DEF QueueInv, Places
<1>7. ASSUME NEW u \in Thread PROVE pc'[u] \notin Busy \cup Grouped
  BY <1>1, <1>6 DEF QueueInv, Busy, Grouped
<1>8. ASSUME NEW u \in Thread, pc'[u] = "queued" PROVE Waits(u)'
  <2>1. u # t /\ Waits(u)
    BY <1>6, <1>8 DEF QueueInv
  <2>2. CASE done[u]
    BY <1>3, <2>2 DEF Waits
  <2>3. CASE ~done[u]
    <3>1. PICK i \in 1..Len(queue) : queue[i] = u
      BY <2>1, <2>3 DEF Waits
    <3>2. i # 1
      BY <1>1, <2>1, <3>1, HeadIsFirst
    <3>3. CASE i <= n
      <4>1. u \in followers
        BY <1>2, <3>1, <3>2, <3>3
      <4> QED BY <1>3, <4>1 DEF Waits
    <3>4. CASE i > n
      <4>1. i - n \in 1..Len(rest) /\ rest[i - n] = u
        BY <1>1, <1>2, <1>5, <3>1, <3>4
      <4> HIDE DEF rest
      <4> QED BY <1>3, <4>1 DEF Waits
    <3> QED BY <1>1, <1>2, <3>3, <3>4
  <2> QED BY <2>2, <2>3
<1> QED BY <1>3, <1>5, <1>6, <1>7, <1>8 DEF QueueInv

-----------------------------------------------------------------------------
LEMMA CallerHolds ==
  ASSUME QueueInv, NEW t \in Thread, Caller(t)
  PROVE  QueueInv'
<1>1. CASE SlowDown(t) \/ EndDelay(t) \/ Stall(t) \/ EndStall(t)
  BY <1>1, Stays
  DEF SlowDown, EndDelay, Stall, EndStall, InRoom, QueueInv, Places, Busy,
      Grouped
<1>2. CASE LogGroup(t) \/ AddRecordFails(t) \/ SyncFails(t) \/ Relock(t)
  BY <1>2, Stays
  DEF LogGroup, AddRecordFails, SyncFails, Relock, QueueInv, Places, Busy,
      Grouped
<1>3. CASE SwitchMemTable(t)
  BY <1>3 DEF SwitchMemTable, QueueInv, Waits
<1>4. CASE CompactMemTableWaits(t)
  BY <1>4, Stays DEF CompactMemTableWaits, Places, Busy, Grouped
<1> QED
  BY <1>1, <1>2, <1>3, <1>4, WakeHolds, RoomFailsHolds, GroupStarts,
     FinishHolds
  DEF Caller

LEMMA BackgroundHolds ==
  ASSUME QueueInv, BackgroundThread
  PROVE  QueueInv'
<1>1. UNCHANGED queueVars
  BY DEF BackgroundThread, BackgroundCall, CompactMemTable,
         CompactMemTableFirst, CompactionEnds, BackgroundDone
<1> QED BY <1>1 DEF queueVars, QueueInv, Waits

LEMMA QueueHolds == ASSUME QueueInv, [Next]_vars PROVE QueueInv'
<1>1. CASE UNCHANGED vars
  BY <1>1 DEF vars, queueVars, QueueInv, Waits
<1> QED BY <1>1, WriteHolds, CallerHolds, BackgroundHolds DEF Next

LEMMA QueueStarts == Init => QueueInv
BY DEF Init, QueueInv, Places, Busy, Grouped

\* Only the head of the queue writes to the log and to the memtable while the
\* mutex is let go of (DBImpl::Write).
THEOREM HeadIsAlone == Spec => []HeadAlone
<1>1. QueueInv => HeadAlone
  BY DEF QueueInv, HeadAlone, Busy, Places
<1> QED BY <1>1, QueueStarts, QueueHolds, PTL DEF Spec

-----------------------------------------------------------------------------
(* Work is scheduled while somebody waits for it                           *)

\* The background thread has been scheduled while it works.
WorkInv ==
  /\ level0 \in Nat
  /\ bg \in {"none", "flush", "compact", "finish"}
  /\ bg # "none" => scheduled
  /\ WorkIsScheduled

LEMMA CallerSchedules ==
  ASSUME WorkInv, NEW t \in Thread, Write(t) \/ Caller(t)
  PROVE  WorkInv'
<1>1. CASE SwitchMemTable(t)
  BY <1>1, QueueAssumption
  DEF SwitchMemTable, WorkInv, WorkIsScheduled, MaybeSchedule, NeedsCompaction
<1>2. CASE Relock(t)
  BY <1>2 DEF Relock, WorkInv, WorkIsScheduled, memVars
<1>3. CASE LogGroup(t)
  BY <1>3 DEF LogGroup, WorkInv, WorkIsScheduled, bgVars
<1>4. CASE ~(SwitchMemTable(t) \/ Relock(t) \/ LogGroup(t))
  <2>1. UNCHANGED <<memVars, bgVars>>
    BY <1>4
    DEF Caller, Write, Wake, RoomFails, SlowDown, EndDelay, Stall, EndStall,
        NewLogFails, BuildBatchGroup, AddRecordFails, SyncFails, Finish,
        CompactMemTableWaits
  <2> QED BY <2>1 DEF WorkInv, WorkIsScheduled, memVars, bgVars
<1> QED BY <1>1, <1>2, <1>3, <1>4

LEMMA BackgroundSchedules ==
  ASSUME WorkInv, BackgroundThread
  PROVE  WorkInv'
<1> USE DEF WorkInv, WorkIsScheduled
<1>1. CASE BackgroundCall
  BY <1>1 DEF BackgroundCall, memVars
<1>2. CASE CompactMemTable
  BY <1>2 DEF CompactMemTable, Flushed, memVars
<1>3. CASE CompactMemTableFirst
  BY <1>3 DEF CompactMemTableFirst, Flushed, memVars
<1>4. CASE CompactionEnds
  BY <1>4 DEF CompactionEnds, memVars
<1>5. CASE BackgroundDone
  BY <1>5, QueueAssumption
  DEF BackgroundDone, MaybeSchedule, NeedsCompaction, memVars
<1> QED BY <1>1, <1>2, <1>3, <1>4, <1>5 DEF BackgroundThread

\* No caller waits for work that is not on its way (MaybeScheduleCompaction):
\* with this a signal of BackgroundCall is still to come.
THEOREM WorkComes == Spec => []WorkIsScheduled
<1>1. Init => WorkInv
  BY QueueAssumption DEF Init, WorkInv, WorkIsScheduled
<1>2. WorkInv /\ [Next]_vars => WorkInv'
  <2> SUFFICES ASSUME WorkInv, [Next]_vars PROVE WorkInv'
    OBVIOUS
  <2>1. CASE UNCHANGED vars
    BY <2>1 DEF vars, memVars, bgVars, WorkInv, WorkIsScheduled
  <2> QED BY <2>1, CallerSchedules, BackgroundSchedules DEF Next
<1>3. WorkInv => WorkIsScheduled
  BY DEF WorkInv
<1> QED BY <1>1, <1>2, <1>3, PTL DEF Spec

-----------------------------------------------------------------------------
(* The batches of a part of the queue                                      *)

\* Where those are that have a batch, and their calls, for the calls f.
PlacesBy(f, ts) == {i \in DOMAIN ts : f[ts[i]] \in BatchCalls}

BatchesBy(f, ts) ==
  [k \in 1..Cardinality(PlacesBy(f, ts)) |-> f[ts[Nth(PlacesBy(f, ts), k)]]]

LEMMA BatchesAre == \A ts : Batches(ts) = BatchesBy(call, ts)
BY DEF Batches, BatchesBy, PlacesBy

LEMMA BatchesAreNext == \A ts : Batches(ts)' = BatchesBy(call', ts')
BY DEF Batches, BatchesBy, PlacesBy

\* They are the calls with a batch, each at its place.
LEMMA BatchesOf ==
  ASSUME NEW f, NEW ts \in Seq(Thread)
  PROVE  /\ PlacesBy(f, ts) \in SUBSET (1..Len(ts))
         /\ IsFiniteSet(PlacesBy(f, ts))
         /\ Cardinality(PlacesBy(f, ts)) \in Nat
         /\ BatchesBy(f, ts) \in Seq(BatchCalls)
         /\ Len(BatchesBy(f, ts)) = Cardinality(PlacesBy(f, ts))
         /\ \A c : c \in Range(BatchesBy(f, ts)) <=>
              c \in BatchCalls /\ \E i \in 1..Len(ts) : f[ts[i]] = c
<1> DEFINE P == PlacesBy(f, ts)
           N == Cardinality(P)
<1>1. Len(ts) \in Nat /\ DOMAIN ts = 1..Len(ts)
  OBVIOUS
<1>2. P \in SUBSET (1..Len(ts)) /\ \A i \in P : f[ts[i]] \in BatchCalls
  BY <1>1 DEF PlacesBy
<1>3. /\ IsFiniteSet(P) /\ N \in Nat
      /\ \A k \in 1..N : Nth(P, k) \in P
      /\ \A i \in P : \E k \in 1..N : Nth(P, k) = i
  <2> HIDE DEF P, N
  <2>1. IsFiniteSet(P)
    BY <1>1, <1>2, IntervalFinite, FS_Subset
  <2>2. N \in Nat /\ \A k \in 1..N : Nth(P, k) \in P
    BY <1>1, <1>2, NthCounts DEF N
  <2>3. ASSUME NEW i \in P PROVE \E k \in 1..N : Nth(P, k) = i
    BY <1>1, <1>2, NthCounts DEF N
  <2> QED BY <2>1, <2>2, <2>3
<1>4. BatchesBy(f, ts) = [k \in 1..N |-> f[ts[Nth(P, k)]]]
  BY DEF BatchesBy
<1>5. \A i \in 1..Len(ts) : f[ts[i]] \in BatchCalls => i \in P
  BY <1>1 DEF PlacesBy
<1> HIDE DEF P, N
<1>6. ASSUME NEW k \in 1..N PROVE f[ts[Nth(P, k)]] \in BatchCalls
  BY <1>2, <1>3
<1>7. BatchesBy(f, ts) \in Seq(BatchCalls)
  <2>1. BatchesBy(f, ts) \in [1..N -> BatchCalls]
    BY <1>4, <1>6
  <2> QED BY <1>3, <2>1, SeqDef
<1>8. DOMAIN BatchesBy(f, ts) = 1..N
  BY <1>4
<1>9. Len(BatchesBy(f, ts)) = N
  BY <1>3, <1>7, <1>8
<1>10. ASSUME NEW c \in Range(BatchesBy(f, ts))
       PROVE  c \in BatchCalls /\ \E i \in 1..Len(ts) : f[ts[i]] = c
  <2>1. PICK k \in 1..N : c = f[ts[Nth(P, k)]]
    BY <1>4, <1>8 DEF Range
  <2> QED BY <1>2, <1>3, <2>1
<1>11. ASSUME NEW i \in 1..Len(ts), f[ts[i]] \in BatchCalls
       PROVE  f[ts[i]] \in Range(BatchesBy(f, ts))
  <2>1. PICK k \in 1..N : Nth(P, k) = i
    BY <1>3, <1>5, <1>11
  <2>2. BatchesBy(f, ts)[k] = f[ts[i]]
    BY <1>4, <2>1
  <2> QED BY <1>8, <2>2 DEF Range
<1> QED BY <1>2, <1>3, <1>7, <1>9, <1>10, <1>11 DEF P, N

\* Only the calls of those in it matter.
LEMMA BatchesSame ==
  ASSUME NEW f, NEW g, NEW ts \in Seq(Thread),
         \A i \in 1..Len(ts) : f[ts[i]] = g[ts[i]]
  PROVE  BatchesBy(f, ts) = BatchesBy(g, ts)
<1> DEFINE P == PlacesBy(f, ts)
           N == Cardinality(P)
<1>1. PlacesBy(g, ts) = P
  BY DEF PlacesBy
<1>2. P \in SUBSET (1..Len(ts)) /\ Len(ts) \in Nat
  BY BatchesOf
<1> HIDE DEF P
<1>3. \A k \in 1..N : Nth(P, k) \in 1..Len(ts)
  BY <1>2, NthCounts
<1>4. \A k \in 1..N : f[ts[Nth(P, k)]] = g[ts[Nth(P, k)]]
  BY <1>3
<1>5. /\ BatchesBy(f, ts) = [k \in 1..N |-> f[ts[Nth(P, k)]]]
      /\ BatchesBy(g, ts) = [k \in 1..N |-> g[ts[Nth(P, k)]]]
  BY <1>1 DEF BatchesBy, P
<1> QED BY <1>4, <1>5

\* Moved by m places, a set has as many elements.
LEMMA ShiftCounts ==
  ASSUME NEW m \in Nat, NEW n \in Nat, NEW S \in SUBSET (1..n)
  PROVE  /\ IsFiniteSet({m + j : j \in S})
         /\ Cardinality({m + j : j \in S}) = Cardinality(S)
<1> DEFINE T == {m + j : j \in S}
           shift == [j \in S |-> m + j]
<1>1. IsFiniteSet(S)
  BY IntervalFinite, FS_Subset
<1>2. \A i, j \in S : m + i = m + j => i = j
  <2>1. \A i \in S : i \in Nat
    OBVIOUS
  <2> QED BY <2>1
<1>3. shift \in [S -> T] /\ \A x \in T : \E j \in S : shift[j] = x
  OBVIOUS
<1>4. \A i, j \in S : shift[i] = shift[j] => i = j
  BY <1>2
<1> HIDE DEF shift, T
<1>5. shift \in Bijection(S, T)
  BY <1>3, <1>4 DEF Bijection, Injection, Surjection, IsInjective
<1>6. ExistsBijection(S, T)
  BY <1>5 DEF ExistsBijection
<1> QED BY <1>1, <1>6, FS_Bijection DEF T

LEMMA PlacesConcat ==
  ASSUME NEW f, NEW a \in Seq(Thread), NEW b \in Seq(Thread)
  PROVE  PlacesBy(f, a \o b) =
           PlacesBy(f, a) \cup {Len(a) + j : j \in PlacesBy(f, b)}
<1> DEFINE m == Len(a)
           c == a \o b
<1>1. /\ m \in Nat /\ Len(b) \in Nat
      /\ DOMAIN a = 1..m /\ DOMAIN b = 1..Len(b)
      /\ DOMAIN c = 1..(m + Len(b))
  BY ConcatProperties
<1>2. \A i \in 1..(m + Len(b)) : c[i] = IF i <= m THEN a[i] ELSE b[i - m]
  BY ConcatProperties
<1> HIDE DEF m, c
<1>3. \A i \in 1..m : i \in 1..(m + Len(b)) /\ c[i] = a[i]
  BY <1>1, <1>2
<1>4. \A j \in 1..Len(b) : m + j \in 1..(m + Len(b)) /\ c[m + j] = b[j]
  <2> SUFFICES ASSUME NEW j \in 1..Len(b)
               PROVE  m + j \in 1..(m + Len(b)) /\ c[m + j] = b[j]
    OBVIOUS
  <2>1. /\ m + j \in 1..(m + Len(b)) /\ ~(m + j <= m)
        /\ (m + j) - m = j
    BY <1>1
  <2> QED BY <1>2, <2>1
<1>5. \A i \in 1..(m + Len(b)) :
        i \in 1..m \/ \E j \in 1..Len(b) : i = m + j
  <2> SUFFICES ASSUME NEW i \in 1..(m + Len(b)), i \notin 1..m
               PROVE  \E j \in 1..Len(b) : i = m + j
    OBVIOUS
  <2>1. i - m \in 1..Len(b) /\ i = m + (i - m)
    BY <1>1
  <2> QED BY <2>1
<1>6. ASSUME NEW i \in PlacesBy(f, c)
      PROVE  i \in PlacesBy(f, a) \cup {m + j : j \in PlacesBy(f, b)}
  <2>1. i \in 1..(m + Len(b)) /\ f[c[i]] \in BatchCalls
    BY <1>1 DEF PlacesBy
  <2>2. CASE i \in 1..m
    BY <1>1, <1>3, <2>1, <2>2 DEF PlacesBy
  <2>3. CASE i \notin 1..m
    <3>1. PICK j \in 1..Len(b) : i = m + j
      BY <1>5, <2>1, <2>3
    <3>2. j \in PlacesBy(f, b)
      BY <1>1, <1>4, <2>1, <3>1 DEF PlacesBy
    <3> QED BY <3>1, <3>2
  <2> QED BY <2>2, <2>3
<1>7. ASSUME NEW i \in PlacesBy(f, a) PROVE i \in PlacesBy(f, c)
  BY <1>1, <1>3 DEF PlacesBy
<1>8. ASSUME NEW j \in PlacesBy(f, b) PROVE m + j \in PlacesBy(f, c)
  BY <1>1, <1>4 DEF PlacesBy
<1> QED BY <1>6, <1>7, <1>8 DEF m, c

\* The batches of two parts are those of the first and then those of the
\* second.
LEMMA BatchesConcat ==
  ASSUME NEW f, NEW a \in Seq(Thread), NEW b \in Seq(Thread)
  PROVE  BatchesBy(f, a \o b) = BatchesBy(f, a) \o BatchesBy(f, b)
<1> DEFINE m == Len(a)
           c == a \o b
           P == PlacesBy(f, a)
           Q == PlacesBy(f, b)
           R == PlacesBy(f, c)
           rank(S, i) == Cardinality({j \in S : j <= i})
           shift(S) == {m + j : j \in S}
<1>1. /\ m \in Nat /\ Len(b) \in Nat /\ c \in Seq(Thread)
      /\ Len(c) = m + Len(b)
      /\ \A i \in 1..(m + Len(b)) : c[i] = IF i <= m THEN a[i] ELSE b[i - m]
  BY ConcatProperties
<1>2. /\ P \in SUBSET (1..m) /\ IsFiniteSet(P) /\ Cardinality(P) \in Nat
      /\ Q \in SUBSET (1..Len(b)) /\ IsFiniteSet(Q) /\ Cardinality(Q) \in Nat
      /\ R \in SUBSET (1..(m + Len(b)))
  BY <1>1, BatchesOf
<1>3. R = P \cup shift(Q)
  BY PlacesConcat
<1>4. /\ BatchesBy(f, a) \in Seq(BatchCalls) /\ Len(BatchesBy(f, a)) = Cardinality(P)
      /\ BatchesBy(f, b) \in Seq(BatchCalls) /\ Len(BatchesBy(f, b)) = Cardinality(Q)
      /\ BatchesBy(f, c) \in Seq(BatchCalls) /\ Len(BatchesBy(f, c)) = Cardinality(R)
  BY <1>1, BatchesOf
<1>5. /\ \A k \in 1..Cardinality(P) : BatchesBy(f, a)[k] = f[a[Nth(P, k)]]
      /\ \A k \in 1..Cardinality(Q) : BatchesBy(f, b)[k] = f[b[Nth(Q, k)]]
      /\ \A k \in 1..Cardinality(R) : BatchesBy(f, c)[k] = f[c[Nth(R, k)]]
  BY DEF BatchesBy
<1> HIDE DEF m, c, P, Q, R
<1>6. \A j \in Q : j \in Nat /\ j >= 1 /\ m + j \in Nat /\ m + j > m
  BY <1>1, <1>2
<1>7. \A i \in P : i \in Nat /\ i <= m
  BY <1>1, <1>2
<1>8. \A S \in SUBSET Q :
        /\ IsFiniteSet(P \cup shift(S))
        /\ Cardinality(P \cup shift(S)) = Cardinality(P) + Cardinality(S)
  <2> SUFFICES ASSUME NEW S \in SUBSET Q
               PROVE  /\ IsFiniteSet(P \cup shift(S))
                      /\ Cardinality(P \cup shift(S)) = Cardinality(P) + Cardinality(S)
    OBVIOUS
  <2>1. IsFiniteSet(shift(S)) /\ Cardinality(shift(S)) = Cardinality(S)
    <3>1. S \in SUBSET (1..Len(b))
      BY <1>2
    <3> QED BY <1>1, <3>1, ShiftCounts
  <2>2. P \cap shift(S) = {}
    <3>1. \A i \in P, j \in Q : i # m + j
      BY <1>1, <1>6, <1>7
    <3> QED BY <3>1
  <2>3. Cardinality(P \cap shift(S)) = 0
    BY <2>2, FS_EmptySet
  <2>4. Cardinality(S) \in Nat
    BY <1>2, FS_Subset, FS_CardinalityType
  <2> DEFINE T == shift(S)
  <2>5. IsFiniteSet(T) /\ Cardinality(T) = Cardinality(S) /\ Cardinality(P \cap T) = 0
    BY <2>1, <2>3
  <2> HIDE DEF T
  <2>6. /\ IsFiniteSet(P \cup T)
        /\ Cardinality(P \cup T) = Cardinality(P) + Cardinality(S)
    <3>1. /\ IsFiniteSet(P \cup T)
          /\ Cardinality(P \cup T) =
               Cardinality(P) + Cardinality(T) - Cardinality(P \cap T)
      BY <1>2, <2>5, FS_Union
    <3> QED BY <1>2, <2>4, <2>5, <3>1
  <2> QED BY <2>6 DEF T
<1>9. Cardinality(R) = Cardinality(P) + Cardinality(Q)
  BY <1>3, <1>8
<1>10. ASSUME NEW k \in 1..Cardinality(P)
       PROVE  Nth(P, k) \in 1..m /\ Nth(R, k) = Nth(P, k)
  <2>1. PICK i \in P : i = Nth(P, k) /\ rank(P, i) = k
    BY <1>1, <1>2, NthCounts
  <2>2. \A j \in R : j <= i => j \in P
    <3>1. \A q \in Q : ~(m + q <= i)
      BY <1>1, <1>6, <1>7
    <3> QED BY <1>3, <3>1
  <2>3. {j \in R : j <= i} = {j \in P : j <= i}
    BY <1>3, <2>2
  <2>4. i \in R /\ rank(R, i) = k
    BY <1>3, <2>1, <2>3
  <2>5. Nth(R, rank(R, i)) = i
    <3>1. m + Len(b) \in Nat
      BY <1>1
    <3> QED BY <1>2, <2>4, <3>1, NthCounts
  <2> QED BY <1>2, <2>1, <2>4, <2>5
<1>11. ASSUME NEW k \in 1..Cardinality(Q)
       PROVE  /\ Nth(Q, k) \in 1..Len(b)
              /\ Nth(R, Cardinality(P) + k) = m + Nth(Q, k)
  <2>1. PICK i \in Q : i = Nth(Q, k) /\ rank(Q, i) = k
    BY <1>1, <1>2, NthCounts
  <2> DEFINE S == {j \in Q : j <= i}
  <2>2. \A j \in P : j <= m + i
    BY <1>1, <1>6, <1>7
  <2>3. \A j \in Q : m + j <= m + i <=> j <= i
    BY <1>1, <1>6
  <2>4. {j \in R : j <= m + i} = P \cup shift(S)
    BY <1>3, <2>2, <2>3
  <2>5. m + i \in R /\ rank(R, m + i) = Cardinality(P) + k
    <3>1. Cardinality(P \cup shift(S)) = Cardinality(P) + Cardinality(S)
      BY <1>8
    <3> QED BY <1>3, <2>1, <2>4, <3>1
  <2>6. Nth(R, rank(R, m + i)) = m + i
    <3>1. m + Len(b) \in Nat
      BY <1>1
    <3>2. PICK e \in R : e = m + i
      BY <2>5
    <3>3. Nth(R, rank(R, e)) = e
      BY <1>2, <3>1, NthCounts
    <3> QED BY <3>2, <3>3
  <2> QED BY <1>2, <2>1, <2>5, <2>6
<1> DEFINE x == BatchesBy(f, a)
           y == BatchesBy(f, b)
           z == BatchesBy(f, c)
<1>12. /\ x \o y \in Seq(BatchCalls) /\ Len(x \o y) = Len(z)
       /\ \A k \in 1..Len(z) :
            (x \o y)[k] = IF k <= Cardinality(P) THEN x[k] ELSE y[k - Cardinality(P)]
  <2> HIDE DEF x, y, z
  <2>1. x \in Seq(BatchCalls) /\ y \in Seq(BatchCalls)
    BY <1>4 DEF x, y
  <2>2. Len(x) = Cardinality(P) /\ Len(y) = Cardinality(Q) /\ Len(z) = Len(x) + Len(y)
    BY <1>4, <1>9 DEF x, y, z
  <2> QED BY <2>1, <2>2, ConcatProperties
<1>13. ASSUME NEW k \in 1..Cardinality(P)
       PROVE  z[k] = x[k]
  <2>1. /\ Nth(P, k) \in 1..m /\ Nth(R, k) = Nth(P, k)
        /\ k \in 1..Cardinality(R)
    BY <1>2, <1>9, <1>10
  <2>2. c[Nth(P, k)] = a[Nth(P, k)]
    <3>1. PICK i \in 1..m : i = Nth(P, k)
      BY <2>1
    <3>2. i \in 1..(m + Len(b)) /\ i <= m
      BY <1>1
    <3> QED BY <1>1, <3>1, <3>2
  <2> QED BY <1>5, <2>1, <2>2
<1>14. ASSUME NEW k \in 1..Cardinality(Q)
       PROVE  z[Cardinality(P) + k] = y[k]
  <2>1. /\ Nth(Q, k) \in 1..Len(b)
        /\ Nth(R, Cardinality(P) + k) = m + Nth(Q, k)
        /\ Cardinality(P) + k \in 1..Cardinality(R)
    BY <1>2, <1>9, <1>11
  <2>2. c[m + Nth(Q, k)] = b[Nth(Q, k)]
    <3>1. PICK i \in 1..Len(b) : i = Nth(Q, k)
      BY <2>1
    <3>2. m + i \in 1..(m + Len(b)) /\ ~(m + i <= m) /\ (m + i) - m = i
      BY <1>1
    <3>3. c[m + i] = b[i]
      BY <1>1, <3>2
    <3> QED BY <3>1, <3>3
  <2> QED BY <1>5, <2>1, <2>2
<1>15. \A k \in 1..Len(z) : z[k] = (x \o y)[k]
  <2> SUFFICES ASSUME NEW k \in 1..Len(z)
               PROVE  z[k] = (x \o y)[k]
    OBVIOUS
  <2>1. Len(z) = Cardinality(P) + Cardinality(Q)
    BY <1>4, <1>9
  <2> HIDE DEF x, y, z
  <2>2. CASE k <= Cardinality(P)
    BY <1>2, <1>12, <1>13, <2>1, <2>2
  <2>3. CASE ~(k <= Cardinality(P))
    <3>1. /\ k - Cardinality(P) \in 1..Cardinality(Q)
          /\ Cardinality(P) + (k - Cardinality(P)) = k
      BY <1>2, <2>1, <2>3
    <3>2. z[k] = y[k - Cardinality(P)]
      BY <1>14, <3>1
    <3> QED BY <1>12, <2>3, <3>2
  <2> QED BY <2>2, <2>3
<1>16. z \in Seq(BatchCalls)
  BY <1>4
<1> HIDE DEF x, y, z
<1>17. z = x \o y
  BY <1>12, <1>15, <1>16, SeqEqual
<1> QED BY <1>17 DEF x, y, z, c

-----------------------------------------------------------------------------
(* What the threads, the log and the memtables have to do with each other  *)

\* Where the group ends that the head carries out.
End == CHOOSE i \in DOMAIN queue : queue[i] = lastWriter

\* A call that needs nothing more: its batch, if it has one, is in the log, on
\* the medium if it asked for that, and in what is read.
Kept(c) ==
  c \in BatchCalls =>
    /\ c \in Range(log)
    /\ c \in SyncCalls => c \in Range(SubSeq(log, 1, durable))
    /\ c \in Range(Applied)

\* Calls are told apart: who is in a call has one of its own, not answered
\* yet, and no call to come was answered or logged.  Who is in the queue has
\* not been carried out.
CallsInv ==
  /\ \A i \in 1..Len(queue) :
       pc[queue[i]] \in Busy \cup {"queued"} /\ ~done[queue[i]]
  /\ \A t \in Thread : pc[t] # "idle" =>
       call[t] \in 1..calls /\ answer[call[t]] = "none"
  /\ \A t, u \in Thread :
       t # u /\ pc[t] # "idle" /\ pc[u] # "idle" => call[t] # call[u]
  /\ \A c \in Call : c > calls => answer[c] = "none"
  /\ \A i \in 1..Len(log) : log[i] <= calls
  /\ \A t \in Thread :
       /\ pc[t] \in {"logging", "logged", "unsynced"} => call[t] \in BatchCalls
       /\ pc[t] \in {"written", "flushing"} => call[t] \notin BatchCalls

\* The group is what the front of the queue wants written, with a sync if one
\* of them wants it; and who is about to be told "ok" has nothing to fear.
Prepared(t) ==
  /\ pc[t] = "logging" =>
       /\ group = Batches(SubSeq(queue, 1, End))
       /\ \A i \in 1..End : call[queue[i]] \in SyncCalls => call[t] \in SyncCalls
  /\ pc[t] = "unsynced" => failed[t]
  /\ pc[t] \in {"logged", "finish"} /\ ~failed[t] =>
       \A i \in 1..End : Kept(call[queue[i]])
  /\ pc[t] = "queued" /\ done[t] /\ ~failed[t] => Kept(call[t])

GroupInv == \A t \in Thread : Prepared(t)

WriteInv == TypeOK /\ QueueInv /\ CallsInv /\ GroupInv /\ MemoryFollowsLog

-----------------------------------------------------------------------------
(* Types *)

\* Who is in the queue behind the head waits.
LEMMA FollowersWait ==
  ASSUME WriteInv, NEW i \in 2..Len(queue)
  PROVE  /\ queue[i] \in Thread /\ queue[i] # Head(queue)
         /\ pc[queue[i]] = "queued"
<1>1. /\ queue \in Seq(Thread) /\ Len(queue) \in Nat /\ IsInjective(queue)
      /\ i \in 1..Len(queue) /\ 1 \in 1..Len(queue) /\ i # 1
  BY DEF WriteInv, TypeOK
<1>2. queue[i] # queue[1] /\ Head(queue) = queue[1]
  BY <1>1 DEF IsInjective
<1>3. pc[queue[i]] \in Busy \cup {"queued"}
  BY <1>1 DEF WriteInv, CallsInv
<1> QED BY <1>1, <1>2, <1>3 DEF WriteInv, QueueInv

\* The front part of the queue that Finish takes away.
LEMMA GroupTaken ==
  ASSUME WriteInv, NEW t \in Thread, pc[t] \in Grouped
  PROVE  /\ queue \in Seq(Thread) /\ queue # <<>> /\ queue[1] = t
         /\ End \in 1..Len(queue) /\ queue[End] = lastWriter
<1>1. queue \in Seq(Thread) /\ queue # <<>> /\ Head(queue) = t
  BY DEF WriteInv, QueueInv, Busy, Grouped
<1>2. \E i \in DOMAIN queue : queue[i] = lastWriter
  BY <1>1 DEF WriteInv, QueueInv
<1>3. End \in DOMAIN queue /\ queue[End] = lastWriter
  BY <1>2 DEF End
<1> QED BY <1>1, <1>3

LEMMA EndIs ==
  ASSUME NEW q \in Seq(Thread), IsInjective(q), NEW i \in 1..Len(q)
  PROVE  (CHOOSE j \in DOMAIN q : q[j] = q[i]) = i
BY DEF IsInjective

LEMMA InjectiveParts ==
  ASSUME NEW q \in Seq(Thread), IsInjective(q)
  PROVE  /\ \A t \in Thread : (\A i \in 1..Len(q) : q[i] # t)
              => IsInjective(Append(q, t))
         /\ \A n \in 0..Len(q) : IsInjective(SubSeq(q, n + 1, Len(q)))
<1>1. Len(q) \in Nat /\ \A i, j \in 1..Len(q) : q[i] = q[j] => i = j
  BY DEF IsInjective
<1>2. ASSUME NEW t \in Thread, \A i \in 1..Len(q) : q[i] # t
      PROVE  IsInjective(Append(q, t))
  <2> DEFINE a == Append(q, t)
  <2>1. /\ DOMAIN a = 1..(Len(q) + 1) /\ a[Len(q) + 1] = t
        /\ \A i \in 1..Len(q) : a[i] = q[i]
    OBVIOUS
  <2> HIDE DEF a
  <2>2. \A i \in DOMAIN a : i \in 1..Len(q) \/ i = Len(q) + 1
    BY <1>1, <2>1
  <2>3. \A i, j \in DOMAIN a : a[i] = a[j] => i = j
    BY <1>1, <1>2, <2>1, <2>2
  <2> QED BY <2>3 DEF IsInjective, a
<1>3. ASSUME NEW n \in 0..Len(q)
      PROVE  IsInjective(SubSeq(q, n + 1, Len(q)))
  <2> DEFINE r == SubSeq(q, n + 1, Len(q))
  <2>1. /\ DOMAIN r = 1..(Len(q) - n)
        /\ \A i \in 1..(Len(q) - n) : r[i] = q[i + n]
    BY <1>1
  <2> HIDE DEF r
  <2>2. \A i \in DOMAIN r : i \in Nat /\ i + n \in 1..Len(q)
    BY <1>1, <2>1
  <2>3. \A i, j \in DOMAIN r : r[i] = r[j] => i + n = j + n
    BY <1>1, <2>1, <2>2
  <2>4. \A i, j \in DOMAIN r : r[i] = r[j] => i = j
    BY <2>2, <2>3
  <2> QED BY <2>4 DEF IsInjective, r
<1> QED BY <1>2, <1>3

-----------------------------------------------------------------------------
(* The types *)

LEMMA CallerTypes ==
  ASSUME WriteInv, NEW t \in Thread,
         \/ SlowDown(t) \/ EndDelay(t) \/ Stall(t) \/ EndStall(t)
         \/ RoomFails(t) \/ NewLogFails(t) \/ SwitchMemTable(t) \/ Relock(t)
         \/ LogGroup(t) \/ AddRecordFails(t) \/ SyncFails(t)
         \/ CompactMemTableWaits(t)
  PROVE  TypeOK'
<1> USE DEF WriteInv, TypeOK, InRoom, logVars, memVars, bgVars, clientVars
<1>1. SlowDown(t) => TypeOK'
  BY DEF SlowDown
<1>2. EndDelay(t) => TypeOK'
  BY DEF EndDelay
<1>3. Stall(t) => TypeOK'
  BY DEF Stall
<1>4. EndStall(t) => TypeOK'
  BY DEF EndStall
<1>5. RoomFails(t) => TypeOK'
  BY DEF RoomFails
<1>6. NewLogFails(t) => TypeOK'
  BY DEF NewLogFails
<1>7. SwitchMemTable(t) => TypeOK'
  BY DEF SwitchMemTable, MaybeSchedule, NeedsCompaction
<1>8. Relock(t) => TypeOK'
  BY DEF Relock, BgWaiters
<1>9. LogGroup(t) => TypeOK'
  BY DEF LogGroup
<1>10. AddRecordFails(t) => TypeOK'
  <2> DEFINE both == log \o group
  <2>1. both \in Seq(BatchCalls) /\ durable \in 0..Len(both)
    OBVIOUS
  <2> HIDE DEF both
  <2>2. AddRecordFails(t) => log' \in {log, both}
    BY DEF AddRecordFails, both
  <2>3. AddRecordFails(t) => log' \in Seq(BatchCalls) /\ durable' \in 0..Len(log')
    BY <2>1, <2>2 DEF AddRecordFails
  <2> QED BY <2>3 DEF AddRecordFails
<1>11. SyncFails(t) => TypeOK'
  BY DEF SyncFails
<1>12. CompactMemTableWaits(t) => TypeOK'
  BY DEF CompactMemTableWaits
<1> QED
  BY <1>1, <1>2, <1>3, <1>4, <1>5, <1>6, <1>7, <1>8, <1>9, <1>10, <1>11, <1>12

LEMMA WriteTypes ==
  ASSUME WriteInv, NEW t \in Thread, Write(t)
  PROVE  TypeOK'
<1>1. IsInjective(queue') /\ queue' \in Seq(Thread)
  <2>1. \A i \in 1..Len(queue) : queue[i] # t
    BY DEF Write, WriteInv, CallsInv, Busy
  <2> QED BY <2>1, InjectiveParts DEF Write, WriteInv, TypeOK
<1>2. calls + 1 \in Call
  BY QueueAssumption DEF Write, WriteInv, TypeOK, Call
<1>3. /\ call' \in [Thread -> Call \cup {0}] /\ calls' \in 0..MaxCalls
      /\ {force', mayDelay', done'} \subseteq [Thread -> BOOLEAN]
  BY <1>2 DEF Write, WriteInv, TypeOK, Call
<1>4. /\ holder' \in Thread \cup {Free}
      /\ holder' # Free => pc'[holder'] \in {"room", "finish"}
      /\ pc' \in [Thread -> Places]
      /\ \A u \in Thread : u # t => pc'[u] = pc[u]
  BY DEF Write, WriteInv, QueueInv, Places
<1>5. signalled' \subseteq
        {u \in Thread : pc'[u] \in {"queued", "stalled", "flushing"}}
  BY <1>4 DEF Write, WriteInv, TypeOK
<1>6. UNCHANGED <<group, lastWriter, failed, logVars, memVars, bgVars, answer>>
  BY DEF Write
<1> QED
  BY <1>1, <1>3, <1>4, <1>5, <1>6
  DEF WriteInv, TypeOK, logVars, memVars, bgVars, Places

LEMMA GroupTypes ==
  ASSUME WriteInv, NEW t \in Thread, BuildBatchGroup(t)
  PROVE  TypeOK'
<1>1. GroupSize \in 1..Len(queue) /\ queue \in Seq(Thread)
  <2>1. queue \in Seq(Thread) /\ queue # <<>>
    BY DEF BuildBatchGroup, InRoom, WriteInv, QueueInv, Busy
  <2> QED BY <2>1, GroupEnds
<1>2. Batches(SubSeq(queue, 1, GroupSize)) \in Seq(BatchCalls)
  <2>1. PICK n \in 1..Len(queue) : n = GroupSize
    BY <1>1
  <2>2. SubSeq(queue, 1, n) \in Seq(Thread)
    BY <1>1
  <2> QED BY <2>1, <2>2, BatchesAre, BatchesOf
<1>3. queue[GroupSize] \in Thread
  BY <1>1
<1>4. group' \in Seq(BatchCalls) /\ lastWriter' \in Thread \cup {Free}
  <2>1. CASE call[t] \in BatchCalls
    BY <1>2, <1>3, <2>1 DEF BuildBatchGroup
  <2>2. CASE call[t] \notin BatchCalls
    BY <2>2 DEF BuildBatchGroup
  <2> QED BY <2>1, <2>2
<1>5. /\ pc[t] = "room" /\ holder = t
      /\ holder' \in Thread \cup {Free}
      /\ holder' # Free => pc'[holder'] \in {"room", "finish"}
      /\ pc' \in [Thread -> Places]
      /\ \A u \in Thread : u # t => pc'[u] = pc[u]
  BY DEF BuildBatchGroup, InRoom, WriteInv, QueueInv, Places
<1>6. failed' \in [Thread -> BOOLEAN]
  BY DEF BuildBatchGroup, WriteInv, TypeOK
<1>7. UNCHANGED <<queue, call, force, mayDelay, done, signalled, logVars,
                  memVars, bgVars, clientVars>>
  BY DEF BuildBatchGroup
<1>8. signalled' \subseteq
        {u \in Thread : pc'[u] \in {"queued", "stalled", "flushing"}}
  BY <1>5, <1>7 DEF WriteInv, TypeOK
<1> QED
  BY <1>4, <1>5, <1>6, <1>7, <1>8
  DEF WriteInv, TypeOK, logVars, memVars, bgVars, clientVars, Places

LEMMA ReturnTypes ==
  ASSUME WriteInv, NEW t \in Thread, NEW status \in {"ok", "error"},
         Return({t}, status)
  PROVE  /\ answer' \in [Call -> {"none", "ok", "error"}]
         /\ \E p \in {"idle", "written"} : pc' = [pc EXCEPT ![t] = p]
<1>1. answer' \in [Call -> {"none", "ok", "error"}]
  BY DEF Return, WriteInv, TypeOK
<1> QED BY <1>1, ReturnIdles DEF WriteInv

LEMMA WakeTypes ==
  ASSUME WriteInv, NEW t \in Thread, Wake(t)
  PROVE  TypeOK'
<1> USE DEF WriteInv, TypeOK, logVars, memVars, bgVars
<1>1. CASE done[t]
  <2>1. PICK p \in {"idle", "written"} : pc' = [pc EXCEPT ![t] = p]
    BY <1>1, ReturnTypes DEF Wake
  <2>2. answer' \in [Call -> {"none", "ok", "error"}] /\ holder' = holder
    BY <1>1, ReturnTypes DEF Wake
  <2> QED BY <2>1, <2>2 DEF Wake
<1>2. CASE ~done[t]
  BY <1>2 DEF Wake
<1> QED BY <1>1, <1>2

LEMMA FinishTypes ==
  ASSUME WriteInv, NEW t \in Thread, Finish(t)
  PROVE  TypeOK'
<1> DEFINE followers == {queue[i] : i \in 2..End}
           rest == SubSeq(queue, End + 1, Len(queue))
<1>1. /\ queue \in Seq(Thread) /\ queue # <<>> /\ queue[1] = t
      /\ End \in 1..Len(queue)
  BY GroupTaken DEF Finish, Grouped
<1>2. /\ queue' = rest /\ signalled' = signalled \cup followers \cup Successor(rest)
      /\ holder' = Free /\ group' = <<>> /\ lastWriter' = Free
      /\ done' = [u \in Thread |-> u \in followers \/ done[u]]
      /\ failed' = [u \in Thread |-> IF u \in followers THEN failed[t] ELSE failed[u]]
  BY DEF Finish, End
<1>3. rest \in Seq(Thread) /\ IsInjective(rest)
  BY <1>1, InjectiveParts DEF WriteInv, TypeOK
<1>4. Successor(rest) \subseteq {queue[i] : i \in 2..Len(queue)}
  <2>1. Len(rest) = Len(queue) - End /\ \A i \in 1..Len(rest) : rest[i] = queue[i + End]
    BY <1>1
  <2>2. CASE rest = <<>>
    BY <2>2 DEF Successor
  <2>3. CASE rest # <<>>
    <3>1. 1 \in 1..Len(rest) /\ Head(rest) = rest[1]
      BY <1>3, <2>3
    <3>2. Head(rest) = queue[1 + End] /\ 1 + End \in 2..Len(queue)
      BY <1>1, <2>1, <3>1
    <3> HIDE DEF rest
    <3> QED BY <2>3, <3>2 DEF Successor
  <2> QED BY <2>2, <2>3
<1>5. followers \subseteq {queue[i] : i \in 2..Len(queue)}
  BY <1>1
<1>6. \A i \in 2..Len(queue) : queue[i] \in Thread /\ queue[i] # t /\ pc[queue[i]] = "queued"
  BY <1>1, FollowersWait
<1>7. /\ answer' \in [Call -> {"none", "ok", "error"}]
      /\ \E p \in {"idle", "written"} : pc' = [pc EXCEPT ![t] = p]
  BY ReturnTypes DEF Finish
<1> HIDE DEF followers, rest
<1>8. signalled' \subseteq
        {u \in Thread : pc'[u] \in {"queued", "stalled", "flushing"}}
  <2>1. \A u \in signalled : u \in Thread /\ pc[u] \in {"queued", "stalled", "flushing"}
    BY DEF WriteInv, TypeOK
  <2>2. pc[t] = "finish"
    BY DEF Finish
  <2>3. \A u \in followers \cup Successor(rest) :
          u \in Thread /\ u # t /\ pc[u] = "queued"
    BY <1>4, <1>5, <1>6
  <2>4. pc \in [Thread -> Places]
    BY DEF WriteInv, QueueInv
  <2> QED BY <1>2, <1>7, <2>1, <2>2, <2>3, <2>4
<1>9. /\ done' \in [Thread -> BOOLEAN] /\ failed' \in [Thread -> BOOLEAN]
  BY <1>2 DEF WriteInv, TypeOK
<1>10. UNCHANGED <<call, force, mayDelay, logVars, memVars, bgVars, calls>>
  BY DEF Finish
<1> QED
  BY <1>2, <1>3, <1>7, <1>8, <1>9, <1>10
  DEF WriteInv, TypeOK, logVars, memVars, bgVars

LEMMA BackgroundTypes ==
  ASSUME WriteInv, BackgroundThread
  PROVE  TypeOK'
<1> DEFINE Work ==
      /\ mem' \in Seq(BatchCalls) /\ imm' \in Seq(BatchCalls)
      /\ flushed' \in Seq(BatchCalls) /\ level0' \in Nat
      /\ bg' \in {"none", "flush", "compact", "finish"}
      /\ scheduled' \in BOOLEAN /\ bgError' \in BOOLEAN
<1>1. Work
  <2> DEFINE both == flushed \o imm
  <2>1. /\ mem \in Seq(BatchCalls) /\ imm \in Seq(BatchCalls)
        /\ flushed \in Seq(BatchCalls) /\ both \in Seq(BatchCalls)
        /\ level0 \in Nat /\ bg \in {"none", "flush", "compact", "finish"}
        /\ scheduled \in BOOLEAN /\ bgError \in BOOLEAN
    BY DEF WriteInv, TypeOK
  <2>2. Flushed => /\ flushed' = both /\ imm' = <<>> /\ mem' = mem
                   /\ level0' \in Nat
    BY <2>1 DEF Flushed
  <2>3. <<>> \in Seq(BatchCalls)
    OBVIOUS
  <2> HIDE DEF both
  <2>4. CASE BackgroundCall
    BY <2>1, <2>4 DEF BackgroundCall, memVars
  <2>5. CASE CompactMemTable
    <3>1. bg' = "finish" /\ scheduled' = scheduled /\ bgError' \in {bgError, TRUE}
      BY <2>5 DEF CompactMemTable
    <3>2. Flushed \/ UNCHANGED memVars
      BY <2>5 DEF CompactMemTable
    <3> QED BY <2>1, <2>2, <2>3, <3>1, <3>2 DEF memVars
  <2>6. CASE CompactMemTableFirst
    <3>1. bg' = bg /\ scheduled' = scheduled /\ bgError' \in {bgError, TRUE}
      BY <2>6 DEF CompactMemTableFirst
    <3>2. Flushed \/ UNCHANGED memVars
      BY <2>6 DEF CompactMemTableFirst
    <3> QED BY <2>1, <2>2, <2>3, <3>1, <3>2 DEF memVars
  <2>7. CASE CompactionEnds
    <3>1. bg' = "finish" /\ scheduled' = scheduled /\ bgError' \in {bgError, TRUE}
      BY <2>7 DEF CompactionEnds, memVars
    <3>2. mem' = mem /\ imm' = imm /\ flushed' = flushed
      BY <2>7 DEF CompactionEnds, memVars
    <3>3. level0' \in Nat
      BY <2>1, <2>7 DEF CompactionEnds, memVars
    <3> QED BY <2>1, <3>1, <3>2, <3>3
  <2>8. CASE BackgroundDone
    BY <2>1, <2>8 DEF BackgroundDone, MaybeSchedule, NeedsCompaction, memVars
  <2> QED BY <2>4, <2>5, <2>6, <2>7, <2>8 DEF BackgroundThread
<1>2. /\ UNCHANGED <<holder, queueVars, logVars, clientVars>>
      /\ signalled' \in {signalled, signalled \cup BgWaiters}
  BY DEF BackgroundThread, BackgroundCall, CompactMemTable,
         CompactMemTableFirst, CompactionEnds, BackgroundDone
<1>3. signalled' \subseteq
        {u \in Thread : pc'[u] \in {"queued", "stalled", "flushing"}}
  BY <1>2 DEF WriteInv, TypeOK, queueVars, BgWaiters
<1> QED
  BY <1>1, <1>2, <1>3 DEF WriteInv, TypeOK, queueVars, logVars, clientVars

LEMMA TypesHold == ASSUME WriteInv, [Next]_vars PROVE TypeOK'
<1>1. CASE UNCHANGED vars
  BY <1>1
  DEF WriteInv, TypeOK, vars, queueVars, logVars, memVars, bgVars, clientVars
<1>2. ASSUME NEW t \in Thread, Caller(t) PROVE TypeOK'
  BY <1>2, CallerTypes, WakeTypes, GroupTypes, FinishTypes DEF Caller
<1> QED BY <1>1, <1>2, WriteTypes, BackgroundTypes DEF Next

-----------------------------------------------------------------------------
(* Calls are told apart *)

\* A caller that goes on in Write, while nothing but the log may grow.
LEMMA CallsGoOn ==
  ASSUME WriteInv, NEW t \in Thread, NEW p \in Busy, pc[t] # "idle",
         pc' = [pc EXCEPT ![t] = p],
         p \in {"logging", "logged", "unsynced"} => call[t] \in BatchCalls,
         UNCHANGED <<queue, call, done, calls, answer>>,
         \A i \in 1..Len(log') : log'[i] <= calls
  PROVE  CallsInv'
<1>1. /\ pc \in [Thread -> Places]
      /\ \A u \in Thread : pc'[u] = IF u = t THEN p ELSE pc[u]
  BY DEF WriteInv, QueueInv
<1>2. \A i \in 1..Len(queue) : queue[i] \in Thread
  BY DEF WriteInv, QueueInv
<1>3. p \notin {"idle", "queued", "written", "flushing"}
  BY DEF Busy
<1> QED BY <1>1, <1>2, <1>3 DEF WriteInv, CallsInv

\* A caller that comes to the end of Write, or waits on for the memtable.
LEMMA CallsEnd ==
  ASSUME WriteInv, NEW t \in Thread, pc[t] # "idle",
         NEW p \in {"idle", "written", "flushing"},
         pc' = [pc EXCEPT ![t] = p],
         p # "idle" => call[t] \notin BatchCalls /\ answer' = answer,
         \A c \in Call : c # call[t] => answer'[c] = answer[c],
         UNCHANGED <<call, calls, log>>,
         \A i \in 1..Len(queue') :
           /\ queue'[i] \in Thread \ {t} /\ ~done'[queue'[i]]
           /\ pc[queue'[i]] \in Busy \cup {"queued"}
  PROVE  CallsInv'
<1>1. /\ pc \in [Thread -> Places]
      /\ \A u \in Thread : pc'[u] = IF u = t THEN p ELSE pc[u]
  BY DEF WriteInv, QueueInv
<1>2. \A u \in Thread : pc[u] # "idle" => call[u] \in 1..calls /\ call[u] \in Call
  BY DEF WriteInv, CallsInv, TypeOK, Call
<1>3. \A u \in Thread : u # t /\ pc[u] # "idle" => call[u] # call[t]
  BY DEF WriteInv, CallsInv
<1>4. \A c \in Call : c > calls => c # call[t]
  BY <1>2 DEF WriteInv, TypeOK, Call
<1>5. \A c \in Call : c > calls => answer'[c] = "none"
  BY <1>4 DEF WriteInv, CallsInv
<1>6. ASSUME NEW u \in Thread, pc'[u] # "idle"
      PROVE  call'[u] \in 1..calls' /\ answer'[call'[u]] = "none"
  <2>1. pc[u] # "idle" /\ (u = t => p # "idle")
    BY <1>1, <1>6
  <2>2. call[u] \in Call /\ answer[call[u]] = "none" /\ call[u] \in 1..calls
    BY <1>2, <2>1 DEF WriteInv, CallsInv
  <2> QED BY <1>3, <2>1, <2>2
<1>7. \A u, v \in Thread :
        u # v /\ pc'[u] # "idle" /\ pc'[v] # "idle" => call'[u] # call'[v]
  BY <1>1 DEF WriteInv, CallsInv
<1>8. \A u \in Thread :
        /\ pc'[u] \in {"logging", "logged", "unsynced"} => call'[u] \in BatchCalls
        /\ pc'[u] \in {"written", "flushing"} => call'[u] \notin BatchCalls
  BY <1>1 DEF WriteInv, CallsInv
<1>9. \A i \in 1..Len(queue') :
        pc'[queue'[i]] \in Busy \cup {"queued"} /\ ~done'[queue'[i]]
  BY <1>1
<1>10. \A i \in 1..Len(log') : log'[i] <= calls'
  BY DEF WriteInv, CallsInv
<1> QED BY <1>5, <1>6, <1>7, <1>8, <1>9, <1>10 DEF CallsInv

LEMMA WriteCalls ==
  ASSUME WriteInv, NEW t \in Thread, Write(t)
  PROVE  CallsInv'
<1>1. /\ queue' = Append(queue, t) /\ queue \in Seq(Thread)
      /\ call' = [call EXCEPT ![t] = calls + 1] /\ calls' = calls + 1
      /\ done' = [done EXCEPT ![t] = FALSE]
      /\ answer' = answer /\ log' = log /\ pc[t] = "idle"
      /\ calls \in Nat
  BY DEF Write, WriteInv, TypeOK, logVars
<1>2. /\ \A u \in Thread : u # t => /\ pc'[u] = pc[u] /\ call'[u] = call[u]
                                    /\ done'[u] = done[u]
      /\ pc'[t] \in {"room", "queued"} /\ call'[t] = calls + 1 /\ ~done'[t]
  BY DEF Write, WriteInv, TypeOK
<1>3. \A i \in 1..Len(queue') :
        \/ queue'[i] = t
        \/ i \in 1..Len(queue) /\ queue'[i] = queue[i] /\ queue[i] \in Thread
  <2>1. /\ Len(queue) \in Nat /\ Len(queue') = Len(queue) + 1
        /\ queue'[Len(queue) + 1] = t
        /\ \A i \in 1..Len(queue) : queue'[i] = queue[i] /\ queue[i] \in Thread
    BY <1>1
  <2>2. \A i \in 1..Len(queue') : i \in 1..Len(queue) \/ i = Len(queue) + 1
    BY <2>1
  <2> QED BY <2>1, <2>2
<1>4. \A i \in 1..Len(queue') :
        pc'[queue'[i]] \in Busy \cup {"queued"} /\ ~done'[queue'[i]]
  BY <1>2, <1>3 DEF WriteInv, CallsInv, Busy
<1>5. \A u \in Thread : pc[u] # "idle" =>
        call[u] \in 1..calls /\ answer[call[u]] = "none"
  BY DEF WriteInv, CallsInv
<1>6. calls + 1 \in Call /\ answer[calls + 1] = "none"
  BY <1>1, QueueAssumption DEF Write, Call, WriteInv, CallsInv
<1>7. \A u \in Thread : pc'[u] # "idle" =>
        call'[u] \in 1..calls' /\ answer'[call'[u]] = "none"
  BY <1>1, <1>2, <1>5, <1>6
<1>8. \A u, v \in Thread :
        u # v /\ pc'[u] # "idle" /\ pc'[v] # "idle" => call'[u] # call'[v]
  <2>1. \A u \in Thread : u # t /\ pc[u] # "idle" => call[u] # calls + 1
    BY <1>1, <1>5
  <2> QED BY <1>2, <2>1 DEF WriteInv, CallsInv
<1>9. \A c \in Call : c > calls' => answer'[c] = "none"
  BY <1>1 DEF WriteInv, CallsInv, Call
<1>10. \A i \in 1..Len(log') : log'[i] <= calls'
  <2>1. \A i \in 1..Len(log) : log[i] \in BatchCalls /\ log[i] <= calls
    BY DEF WriteInv, CallsInv, TypeOK
  <2>2. \A c \in BatchCalls : c \in Nat
    BY QueueAssumption
  <2>3. \A c \in BatchCalls : c <= calls => c <= calls + 1
    BY <1>1, <2>2
  <2> QED BY <1>1, <2>1, <2>3
<1>11. \A u \in Thread :
        /\ pc'[u] \in {"logging", "logged", "unsynced"} => call'[u] \in BatchCalls
        /\ pc'[u] \in {"written", "flushing"} => call'[u] \notin BatchCalls
  BY <1>2 DEF WriteInv, CallsInv
<1> QED BY <1>4, <1>7, <1>8, <1>9, <1>10, <1>11 DEF CallsInv

\* What the head writes is wanted by those in front of the queue.
LEMMA GroupWanted ==
  ASSUME WriteInv, NEW t \in Thread, pc[t] = "logging"
  PROVE  \A c : c \in Range(group) <=>
           c \in BatchCalls /\ \E i \in 1..End : call[queue[i]] = c
<1>1. queue \in Seq(Thread) /\ End \in 1..Len(queue)
  BY GroupTaken DEF Grouped
<1>2. PICK n \in 1..Len(queue) : n = End
  BY <1>1
<1>3. group = Batches(SubSeq(queue, 1, n))
  BY <1>2 DEF WriteInv, GroupInv, Prepared
<1> DEFINE front == SubSeq(queue, 1, n)
<1>4. /\ front \in Seq(Thread) /\ Len(front) = n
      /\ \A i \in 1..n : front[i] = queue[i]
  BY <1>1
<1> HIDE DEF front
<1>5. \A c : c \in Range(BatchesBy(call, front)) <=>
        c \in BatchCalls /\ \E i \in 1..n : call[front[i]] = c
  BY <1>4, BatchesOf
<1>6. group = BatchesBy(call, front)
  BY <1>3, BatchesAre DEF front
<1> QED BY <1>2, <1>4, <1>5, <1>6

LEMMA LoggedBefore ==
  ASSUME WriteInv, NEW t \in Thread, pc[t] = "logging", log' \in {log, log \o group}
  PROVE  \A i \in 1..Len(log') : log'[i] <= calls
<1>1. log \in Seq(BatchCalls) /\ group \in Seq(BatchCalls)
  BY DEF WriteInv, TypeOK
<1>2. /\ \A i \in 1..Len(log) : log[i] <= calls
  BY DEF WriteInv, CallsInv
<1>3. \A i \in 1..Len(group) : group[i] <= calls
  <2>1. queue \in Seq(Thread) /\ End \in 1..Len(queue)
    BY GroupTaken DEF Grouped
  <2>2. \A i \in 1..End : queue[i] \in Thread /\ call[queue[i]] <= calls
    <3> SUFFICES ASSUME NEW i \in 1..End
                 PROVE  queue[i] \in Thread /\ call[queue[i]] <= calls
      OBVIOUS
    <3>1. i \in 1..Len(queue) /\ queue[i] \in Thread
      BY <2>1
    <3>2. pc[queue[i]] # "idle"
      BY <3>1 DEF WriteInv, CallsInv, Busy
    <3>3. call[queue[i]] \in 1..calls
      BY <3>1, <3>2 DEF WriteInv, CallsInv
    <3> QED BY <3>1, <3>3 DEF WriteInv, TypeOK
  <2>3. \A i \in 1..Len(group) : group[i] \in Range(group)
    BY <1>1 DEF Range
  <2> QED BY <2>2, <2>3, GroupWanted
<1> DEFINE both == log \o group
<1>4. \A i \in 1..Len(both) : both[i] <= calls
  <2>1. /\ Len(both) = Len(log) + Len(group) /\ Len(log) \in Nat /\ Len(group) \in Nat
        /\ \A i \in 1..(Len(log) + Len(group)) :
             both[i] = IF i <= Len(log) THEN log[i] ELSE group[i - Len(log)]
    BY <1>1, ConcatProperties
  <2> HIDE DEF both
  <2> SUFFICES ASSUME NEW i \in 1..Len(both)
               PROVE  both[i] <= calls
    OBVIOUS
  <2>2. CASE i <= Len(log)
    BY <1>2, <2>1, <2>2
  <2>3. CASE ~(i <= Len(log))
    <3>1. i - Len(log) \in 1..Len(group) /\ both[i] = group[i - Len(log)]
      BY <2>1, <2>3
    <3> QED BY <1>3, <3>1
  <2> QED BY <2>2, <2>3
<1> QED BY <1>2, <1>4

\* What Finish does to the queue and to those in it.
LEMMA FinishTakes ==
  ASSUME WriteInv, NEW t \in Thread, Finish(t)
  PROVE  /\ queue \in Seq(Thread) /\ Len(queue) \in Nat /\ queue[1] = t
         /\ End \in 1..Len(queue) /\ End \in Nat
         /\ queue' = SubSeq(queue, End + 1, Len(queue))
         /\ Len(queue') = Len(queue) - End
         /\ \A i \in 1..Len(queue') :
              /\ i + End \in 2..Len(queue) /\ i + End > End
              /\ queue'[i] = queue[i + End]
         /\ \A u \in Thread :
              /\ done'[u] <=> done[u] \/ \E i \in 2..End : queue[i] = u
              /\ failed'[u] = IF \E i \in 2..End : queue[i] = u
                              THEN failed[t] ELSE failed[u]
         /\ pc[t] = "finish" /\ UNCHANGED <<call, logVars, memVars, calls>>
         /\ Return({t}, IF failed[t] THEN "error" ELSE "ok")
<1>1. /\ queue \in Seq(Thread) /\ queue[1] = t /\ End \in 1..Len(queue)
  BY GroupTaken DEF Finish, Grouped
<1>2. /\ queue' = SubSeq(queue, End + 1, Len(queue))
      /\ done' = [u \in Thread |-> u \in {queue[i] : i \in 2..End} \/ done[u]]
      /\ failed' = [u \in Thread |-> IF u \in {queue[i] : i \in 2..End}
                                     THEN failed[t] ELSE failed[u]]
  BY DEF Finish, End
<1>3. Len(queue) \in Nat /\ End \in Nat
  BY <1>1
<1>4. /\ Len(queue') = Len(queue) - End
      /\ \A i \in 1..Len(queue') : queue'[i] = queue[i + End]
  BY <1>1, <1>2
<1>5. \A i \in 1..Len(queue') : i + End \in 2..Len(queue) /\ i + End > End
  BY <1>1, <1>3, <1>4
<1>6. /\ pc[t] = "finish" /\ UNCHANGED <<call, logVars, memVars, calls>>
      /\ Return({t}, IF failed[t] THEN "error" ELSE "ok")
  BY DEF Finish
<1>7. ASSUME NEW u \in Thread
      PROVE  /\ done'[u] <=> done[u] \/ \E i \in 2..End : queue[i] = u
             /\ failed'[u] = IF \E i \in 2..End : queue[i] = u
                             THEN failed[t] ELSE failed[u]
  BY <1>2
<1> QED BY <1>1, <1>2, <1>3, <1>4, <1>5, <1>6, <1>7

\* Who returns is answered, and nobody else.
LEMMA ReturnAnswers ==
  ASSUME WriteInv, NEW t \in Thread,
         Return({t}, IF failed[t] THEN "error" ELSE "ok")
  PROVE  \E p \in {"idle", "written"} :
           /\ pc' = [pc EXCEPT ![t] = p]
           /\ p = "idle" <=> call[t] \in BatchCalls \/ failed[t]
           /\ answer' = [c \in Call |->
                IF p = "idle" /\ c = call[t]
                THEN IF failed[t] THEN "error" ELSE "ok" ELSE answer[c]]
<1>1. PICK status : status = IF failed[t] THEN "error" ELSE "ok"
  OBVIOUS
<1>2. Return({t}, status) /\ (status = "error" <=> failed[t])
  BY <1>1
<1> DEFINE p == IF call[t] \in BatchCalls \/ failed[t] THEN "idle"
                ELSE "written"
<1>3. pc' = [u \in Thread |-> IF u = t THEN p ELSE pc[u]]
  BY <1>2 DEF Return
<1>4. pc' = [pc EXCEPT ![t] = p]
  BY <1>3 DEF WriteInv, TypeOK
<1>5. answer' = [c \in Call |-> IF p = "idle" /\ c = call[t]
                                THEN status ELSE answer[c]]
  BY <1>2 DEF Return
<1> QED BY <1>1, <1>4, <1>5

LEMMA FinishCalls ==
  ASSUME WriteInv, NEW t \in Thread, Finish(t)
  PROVE  CallsInv'
<1>1. PICK p \in {"idle", "written"} :
        /\ pc' = [pc EXCEPT ![t] = p]
        /\ p = "idle" <=> call[t] \in BatchCalls \/ failed[t]
        /\ answer' = [c \in Call |-> IF p = "idle" /\ c = call[t]
                        THEN IF failed[t] THEN "error" ELSE "ok" ELSE answer[c]]
  BY FinishTakes, ReturnAnswers
<1>2. p # "idle" => call[t] \notin BatchCalls /\ answer' = answer
  BY <1>1 DEF WriteInv, TypeOK
<1>3. \A i \in 1..Len(queue') :
        /\ queue'[i] \in Thread \ {t} /\ ~done'[queue'[i]]
        /\ pc[queue'[i]] \in Busy \cup {"queued"}
  <2> SUFFICES ASSUME NEW i \in 1..Len(queue')
               PROVE  /\ queue'[i] \in Thread \ {t} /\ ~done'[queue'[i]]
                      /\ pc[queue'[i]] \in Busy \cup {"queued"}
    OBVIOUS
  <2>1. PICK k \in 2..Len(queue) : k > End /\ queue'[i] = queue[k]
    BY FinishTakes
  <2>2. /\ queue[k] \in Thread /\ queue[k] # t /\ pc[queue[k]] = "queued"
    BY FollowersWait, FinishTakes, <2>1
  <2>3. ~done[queue[k]] /\ \A j \in 2..End : queue[j] # queue[k]
    <3>1. Len(queue) \in Nat /\ End \in 1..Len(queue) /\ queue \in Seq(Thread)
      BY FinishTakes
    <3>2. k \in 1..Len(queue) /\ \A j \in 2..End : j \in 1..Len(queue) /\ j # k
      BY <2>1, <3>1
    <3>3. \A a, b \in 1..Len(queue) : queue[a] = queue[b] => a = b
      BY <3>1 DEF IsInjective, WriteInv, TypeOK
    <3>4. ~done[queue[k]]
      BY <3>2 DEF WriteInv, CallsInv
    <3> QED BY <3>2, <3>3, <3>4
  <2> QED BY <2>1, <2>2, <2>3, FinishTakes
<1>4. /\ pc[t] # "idle" /\ p \in {"idle", "written", "flushing"}
      /\ UNCHANGED <<call, calls, log>>
  BY <1>1, FinishTakes DEF logVars
<1>5. \A c \in Call : c # call[t] => answer'[c] = answer[c]
  BY <1>1
<1> QED BY <1>1, <1>2, <1>3, <1>4, <1>5, CallsEnd

LEMMA WakeCalls ==
  ASSUME WriteInv, NEW t \in Thread, Wake(t)
  PROVE  CallsInv'
<1>1. /\ pc[t] = "queued"
      /\ UNCHANGED <<queue, done, call, calls, log>>
  BY DEF Wake, logVars
<1>2. CASE done[t]
  <2>1. Return({t}, IF failed[t] THEN "error" ELSE "ok")
    BY <1>2 DEF Wake
  <2>2. PICK p \in {"idle", "written"} :
          /\ pc' = [pc EXCEPT ![t] = p]
          /\ p = "idle" <=> call[t] \in BatchCalls \/ failed[t]
          /\ answer' = [c \in Call |-> IF p = "idle" /\ c = call[t]
                          THEN IF failed[t] THEN "error" ELSE "ok" ELSE answer[c]]
    BY <2>1, ReturnAnswers
  <2>3. p # "idle" => call[t] \notin BatchCalls /\ answer' = answer
    BY <2>2 DEF WriteInv, TypeOK
  <2>4. \A i \in 1..Len(queue') :
          /\ queue'[i] \in Thread \ {t} /\ ~done'[queue'[i]]
          /\ pc[queue'[i]] \in Busy \cup {"queued"}
    BY <1>1, <1>2 DEF WriteInv, CallsInv, TypeOK
  <2>5. \A c \in Call : c # call[t] => answer'[c] = answer[c]
    BY <2>2
  <2> QED BY <1>1, <2>2, <2>3, <2>4, <2>5, CallsEnd
<1>3. CASE ~done[t]
  <2>1. pc' = [pc EXCEPT ![t] = "room"] /\ answer' = answer
    BY <1>3 DEF Wake
  <2>2. \A i \in 1..Len(log') : log'[i] <= calls
    BY <1>1 DEF WriteInv, CallsInv
  <2> QED BY <1>1, <2>1, <2>2, CallsGoOn DEF Busy
<1> QED BY <1>2, <1>3

LEMMA CompactCalls ==
  ASSUME WriteInv, NEW t \in Thread, CompactMemTableWaits(t)
  PROVE  CallsInv'
<1>1. /\ pc[t] \in {"written", "flushing"}
      /\ UNCHANGED <<queue, done, call, calls, log>>
  BY DEF CompactMemTableWaits, logVars
<1>2. call[t] \notin BatchCalls
  BY <1>1 DEF WriteInv, CallsInv
<1>3. PICK p \in {"idle", "flushing"} :
        /\ pc' = [pc EXCEPT ![t] = p]
        /\ p # "idle" => answer' = answer
  BY DEF CompactMemTableWaits
<1>4. \A c \in Call : c # call[t] => answer'[c] = answer[c]
  BY DEF CompactMemTableWaits, WriteInv, TypeOK
<1>5. \A i \in 1..Len(queue') :
        /\ queue'[i] \in Thread \ {t} /\ ~done'[queue'[i]]
        /\ pc[queue'[i]] \in Busy \cup {"queued"}
  <2>1. /\ queue \in Seq(Thread) /\ queue' = queue /\ done' = done
        /\ \A i \in 1..Len(queue) : queue[i] \in Thread
    BY <1>1 DEF WriteInv, TypeOK
  <2>2. \A i \in 1..Len(queue) :
          pc[queue[i]] \in Busy \cup {"queued"} /\ ~done[queue[i]]
    BY DEF WriteInv, CallsInv
  <2>3. pc[t] \notin Busy \cup {"queued"}
    BY <1>1 DEF Busy
  <2> QED BY <2>1, <2>2, <2>3
<1> QED BY <1>1, <1>2, <1>3, <1>4, <1>5, CallsEnd

LEMMA CallsHold == ASSUME WriteInv, [Next]_vars PROVE CallsInv'
<1>1. CASE UNCHANGED vars
  BY <1>1 DEF WriteInv, CallsInv, vars, queueVars, logVars, clientVars
<1>2. ASSUME NEW t \in Thread,
             \/ RoomFails(t) \/ SlowDown(t) \/ EndDelay(t) \/ Stall(t) \/ EndStall(t)
             \/ NewLogFails(t) \/ BuildBatchGroup(t) \/ Relock(t)
      PROVE  CallsInv'
  <2>1. \A i \in 1..Len(log) : log[i] <= calls
    BY DEF WriteInv, CallsInv
  <2>2. PICK p \in Busy : /\ pc' = [pc EXCEPT ![t] = p]
                          /\ p \in {"logging", "logged", "unsynced"} => call[t] \in BatchCalls
    BY <1>2 DEF RoomFails, SlowDown, EndDelay, Stall, EndStall, NewLogFails,
                BuildBatchGroup, Relock, Busy
  <2>3. pc[t] # "idle" /\ UNCHANGED <<queue, call, done, calls, answer, log>>
    BY <1>2 DEF RoomFails, SlowDown, EndDelay, Stall, EndStall, NewLogFails,
                BuildBatchGroup, Relock, InRoom, clientVars, logVars
  <2> QED BY <2>1, <2>2, <2>3, CallsGoOn
<1>3. ASSUME NEW t \in Thread, LogGroup(t) \/ AddRecordFails(t) \/ SyncFails(t)
      PROVE  CallsInv'
  <2>1. /\ pc[t] = "logging" /\ log' \in {log, log \o group}
        /\ UNCHANGED <<queue, call, done, calls, answer>>
    BY <1>3 DEF LogGroup, AddRecordFails, SyncFails, clientVars
  <2>2. PICK p \in {"logged", "unsynced"} : pc' = [pc EXCEPT ![t] = p]
    BY <1>3 DEF LogGroup, AddRecordFails, SyncFails
  <2>3. call[t] \in BatchCalls
    BY <2>1 DEF WriteInv, CallsInv
  <2>4. \A i \in 1..Len(log') : log'[i] <= calls
    BY <2>1, LoggedBefore
  <2> QED BY <2>1, <2>2, <2>3, <2>4, CallsGoOn DEF Busy
<1>4. ASSUME NEW t \in Thread, SwitchMemTable(t)
      PROVE  CallsInv'
  BY <1>4 DEF SwitchMemTable, WriteInv, CallsInv, logVars, clientVars
<1>5. ASSUME BackgroundThread
      PROVE  CallsInv'
  <2>1. UNCHANGED <<queueVars, logVars, clientVars>>
    BY <1>5 DEF BackgroundThread, BackgroundCall, CompactMemTable,
                CompactMemTableFirst, CompactionEnds, BackgroundDone
  <2> QED BY <2>1 DEF WriteInv, CallsInv, queueVars, logVars, clientVars
<1> QED
  BY <1>1, <1>2, <1>3, <1>4, <1>5, WriteCalls, FinishCalls, WakeCalls,
     CompactCalls
  DEF Next, Caller

-----------------------------------------------------------------------------
(* The group and what is kept *)

\* The elements of a sequence.
LEMMA Elements ==
  ASSUME NEW S, NEW s \in Seq(S)
  PROVE  /\ Len(s) \in Nat /\ DOMAIN s = 1..Len(s)
         /\ \A x : x \in Range(s) <=> \E i \in 1..Len(s) : s[i] = x
         /\ IsInjective(s) <=>
              \A i, j \in 1..Len(s) : s[i] = s[j] => i = j
BY DEF Range, IsInjective

\* Whatever grows keeps what it had.
LEMMA KeptGrows ==
  ASSUME TypeOK, log' \in {log, log \o group}, durable' \in durable..Len(log'),
         Range(Applied) \subseteq Range(Applied')
  PROVE  \A c : Kept(c) => Kept(c)'
<1>1. log \in Seq(BatchCalls) /\ group \in Seq(BatchCalls) /\ durable \in 0..Len(log)
  BY DEF TypeOK
<1>2. /\ log' \in Seq(BatchCalls) /\ Len(log') \in Nat /\ Len(log) \in Nat
      /\ Len(log) <= Len(log') /\ \A i \in 1..Len(log) : log'[i] = log[i]
  <2>1. CASE log' = log
    BY <1>1, <2>1
  <2>2. CASE log' = log \o group
    BY <1>1, <2>2
  <2> QED BY <2>1, <2>2
<1>3. Range(log) \subseteq Range(log')
  <2>1. \A c : c \in Range(log) <=> \E i \in 1..Len(log) : log[i] = c
    BY <1>1, Elements
  <2>2. \A c : c \in Range(log') <=> \E i \in 1..Len(log') : log'[i] = c
    BY <1>2, Elements
  <2> QED BY <1>2, <2>1, <2>2
<1> DEFINE old == SubSeq(log, 1, durable)
           new == SubSeq(log', 1, durable')
<1>4. /\ old \in Seq(BatchCalls) /\ Len(old) = durable
      /\ \A i \in 1..durable : old[i] = log[i]
  BY <1>1
<1>5. /\ new \in Seq(BatchCalls) /\ Len(new) = durable'
      /\ \A i \in 1..durable' : new[i] = log'[i]
  <2>1. PICK l \in Seq(BatchCalls) : l = log'
    BY <1>2
  <2>2. PICK d \in 0..Len(l) : d = durable'
    BY <1>1, <1>2, <2>1
  <2>3. /\ SubSeq(l, 1, d) \in Seq(BatchCalls) /\ Len(SubSeq(l, 1, d)) = d
        /\ \A i \in 1..d : SubSeq(l, 1, d)[i] = l[i]
    <3>1. Len(l) \in Nat /\ d \in Int /\ 1 \in Int /\ 0 <= d
      BY <2>1, <2>2
    <3>2. \A i \in 1..d : l[i] \in BatchCalls
      BY <2>1, <2>2
    <3>3. /\ SubSeq(l, 1, d) \in Seq(BatchCalls)
          /\ Len(SubSeq(l, 1, d)) = IF 1 <= d THEN d - 1 + 1 ELSE 0
          /\ \A i \in 1..(d - 1 + 1) : SubSeq(l, 1, d)[i] = l[1 + i - 1]
      BY <3>1, <3>2, SubSeqProperties
    <3>4. d - 1 + 1 = d /\ \A i \in 1..d : 1 + i - 1 = i
      BY <3>1
    <3> QED BY <3>1, <3>3, <3>4
  <2> QED BY <2>1, <2>2, <2>3
<1> HIDE DEF old, new
<1>6. Range(old) \subseteq Range(new)
  <2>1. \A c : c \in Range(old) <=> \E i \in 1..Len(old) : old[i] = c
    BY <1>4, Elements
  <2>2. \A c : c \in Range(new) <=> \E i \in 1..Len(new) : new[i] = c
    BY <1>5, Elements
  <2>3. \A i \in 1..durable : i \in 1..durable' /\ i \in 1..Len(log)
    BY <1>1, <1>2
  <2> QED BY <1>2, <1>4, <1>5, <2>1, <2>2, <2>3
<1> QED BY <1>3, <1>6 DEF Kept, old, new

\* What is read stays the same when memtables become tables.
LEMMA AppliedStays ==
  ASSUME TypeOK
  PROVE  /\ Flushed => Applied' = Applied
         /\ \A t \in Thread : SwitchMemTable(t) => Applied' = Applied
<1>1. /\ mem \in Seq(BatchCalls) /\ imm \in Seq(BatchCalls)
      /\ flushed \in Seq(BatchCalls)
  BY DEF TypeOK
<1>2. ASSUME Flushed PROVE Applied' = Applied
  <2>1. flushed \o imm \in Seq(BatchCalls)
    BY <1>1
  <2>2. (flushed \o imm) \o <<>> = flushed \o imm
    BY <2>1, ConcatEmptySeq
  <2> QED BY <1>2, <2>2 DEF Flushed, Applied
<1>3. ASSUME NEW t \in Thread, SwitchMemTable(t) PROVE Applied' = Applied
  <2>1. imm = <<>> /\ imm' = mem /\ mem' = <<>> /\ flushed' = flushed
    BY <1>3 DEF SwitchMemTable, MustStall
  <2>2. flushed \o <<>> = flushed
    BY <1>1, ConcatEmptySeq
  <2>3. flushed \o mem \in Seq(BatchCalls)
    BY <1>1
  <2>4. (flushed \o mem) \o <<>> = flushed \o mem
    BY <2>3, ConcatEmptySeq
  <2> QED BY <2>1, <2>2, <2>4 DEF Applied
<1> QED BY <1>2, <1>3

LEMMA AppliedGrows ==
  ASSUME TypeOK, NEW t \in Thread, LogGroup(t)
  PROVE  /\ Applied \in Seq(BatchCalls) /\ Applied' = Applied \o group
         /\ Range(Applied') = Range(Applied) \cup Range(group)
<1>1. /\ mem \in Seq(BatchCalls) /\ imm \in Seq(BatchCalls)
      /\ flushed \in Seq(BatchCalls) /\ group \in Seq(BatchCalls)
  BY DEF TypeOK
<1> DEFINE before == flushed \o imm
<1>2. before \in Seq(BatchCalls) /\ Applied = before \o mem
  BY <1>1 DEF Applied
<1>3. Applied' = before \o (mem \o group)
  BY DEF LogGroup, Applied
<1> HIDE DEF before
<1>4. (before \o mem) \o group = before \o (mem \o group)
  BY <1>1, <1>2, ConcatAssociative
<1>5. Applied \in Seq(BatchCalls) /\ Applied' = Applied \o group
  BY <1>1, <1>2, <1>3, <1>4
<1> QED BY <1>1, <1>5, RangeConcatenation

\* All but the head of the queue, when nothing was taken from them.
LEMMA OthersPrepared ==
  ASSUME WriteInv, QueueInv', NEW t \in Thread, pc'[t] \in Busy,
         \A c : Kept(c) => Kept(c)',
         \A u \in Thread \ {t} :
           /\ pc'[u] = pc[u] /\ call'[u] = call[u]
           /\ done'[u] = done[u] /\ failed'[u] = failed[u]
  PROVE  \A u \in Thread \ {t} : Prepared(u)'
<1> SUFFICES ASSUME NEW u \in Thread \ {t}
             PROVE  Prepared(u)'
  OBVIOUS
<1>1. pc'[u] \notin Busy
  BY DEF QueueInv
<1>2. pc[u] = "queued" /\ done[u] /\ ~failed[u] => Kept(call[u])
  BY DEF WriteInv, GroupInv, Prepared
<1>3. pc'[u] = "queued" /\ done'[u] /\ ~failed'[u] => Kept(call[u])'
  BY <1>2 DEF Kept
<1> QED BY <1>1, <1>3 DEF Prepared, Busy

\* Nothing that has to do with u was touched.
LEMMA StaysPrepared ==
  ASSUME WriteInv, NEW u \in Thread,
         \A c : Kept(c) => Kept(c)',
         UNCHANGED <<queue, group, lastWriter, call>>,
         pc'[u] = pc[u], done'[u] = done[u], failed'[u] = failed[u]
  PROVE  Prepared(u)'
<1>1. End' = End
  BY DEF End
<1>2. Batches(SubSeq(queue, 1, End))' = Batches(SubSeq(queue, 1, End))
  BY <1>1 DEF Batches
<1>3. Prepared(u)
  BY DEF WriteInv, GroupInv
<1> QED BY <1>1, <1>2, <1>3 DEF Prepared

\* Steps of the head that leave the log, the memtables and what was decided
\* before alone.
LEMMA HeadPrepares ==
  ASSUME WriteInv, QueueInv', NEW t \in Thread, NEW p \in Busy,
         pc' = [pc EXCEPT ![t] = p],
         p \in {"logging", "logged"} => Prepared(t)',
         p = "unsynced" => failed'[t],
         p = "finish" /\ ~failed'[t] => Prepared(t)',
         UNCHANGED <<call, done>>,
         \A c : Kept(c) => Kept(c)',
         \A u \in Thread \ {t} : failed'[u] = failed[u]
  PROVE  GroupInv'
<1>1. \A u \in Thread : pc'[u] = IF u = t THEN p ELSE pc[u]
  BY DEF WriteInv, TypeOK
<1>2. \A u \in Thread \ {t} : Prepared(u)'
  BY <1>1, OthersPrepared
<1>3. Prepared(t)'
  <2>1. CASE p \in {"logging", "logged"}
    BY <2>1
  <2>2. CASE p = "finish" /\ ~failed'[t]
    BY <2>2
  <2>3. CASE p \notin {"logging", "logged"} /\ ~(p = "finish" /\ ~failed'[t])
    BY <1>1, <2>3 DEF Prepared, Busy
  <2> QED BY <2>1, <2>2, <2>3
<1> QED BY <1>2, <1>3 DEF GroupInv

LEMMA KeptSame ==
  ASSUME log' = log, durable' = durable, Applied' = Applied
  PROVE  \A c : Kept(c) => Kept(c)'
BY DEF Kept

\* The head goes on in MakeRoomForWrite.
LEMMA RoomPrepares ==
  ASSUME WriteInv, QueueInv', NEW t \in Thread,
         \/ RoomFails(t) \/ NewLogFails(t) \/ SlowDown(t) \/ EndDelay(t)
         \/ Stall(t) \/ EndStall(t)
  PROVE  GroupInv'
<1>1. \E p \in {"room", "delayed", "stalled", "finish"} :
        pc' = [pc EXCEPT ![t] = p] /\ (p = "finish" => failed'[t])
  <2>1. failed \in [Thread -> BOOLEAN]
    BY DEF WriteInv, TypeOK
  <2> QED BY <2>1 DEF RoomFails, NewLogFails, SlowDown, EndDelay, Stall, EndStall
<1>2. /\ UNCHANGED <<call, done>> /\ UNCHANGED <<logVars, memVars>>
  BY DEF RoomFails, NewLogFails, SlowDown, EndDelay, Stall, EndStall
<1>3. \A u \in Thread \ {t} : failed'[u] = failed[u]
  <2>1. failed \in [Thread -> BOOLEAN]
    BY DEF WriteInv, TypeOK
  <2> QED BY <2>1 DEF RoomFails, NewLogFails, SlowDown, EndDelay, Stall, EndStall
<1>4. \A c : Kept(c) => Kept(c)'
  BY <1>2, KeptSame DEF logVars, memVars, Applied
<1> QED BY <1>1, <1>2, <1>3, <1>4, HeadPrepares DEF Busy

LEMMA SwitchPrepares ==
  ASSUME WriteInv, NEW t \in Thread, SwitchMemTable(t)
  PROVE  GroupInv'
<1>1. /\ UNCHANGED <<queue, group, lastWriter, call>>
      /\ UNCHANGED <<pc, done, failed>> /\ UNCHANGED <<log, durable>>
  BY DEF SwitchMemTable, logVars
<1>2. \A c : Kept(c) => Kept(c)'
  BY <1>1, AppliedStays, KeptSame DEF WriteInv
<1> QED BY <1>1, <1>2, StaysPrepared DEF GroupInv

\* The head finds its group.
LEMMA BuildPrepares ==
  ASSUME WriteInv, QueueInv', NEW t \in Thread, BuildBatchGroup(t)
  PROVE  GroupInv'
<1>1. /\ queue \in Seq(Thread) /\ queue # <<>> /\ queue[1] = t
      /\ IsInjective(queue) /\ pc[t] = "room" /\ 1 \in 1..Len(queue)
  <2>1. queue \in Seq(Thread) /\ queue # <<>> /\ Head(queue) = t /\ pc[t] = "room"
    BY DEF BuildBatchGroup, InRoom, WriteInv, QueueInv, Busy
  <2> QED BY <2>1 DEF WriteInv, TypeOK
<1>2. /\ queue' = queue /\ call' = call /\ done' = done
      /\ UNCHANGED <<logVars, memVars>>
      /\ failed' = [failed EXCEPT ![t] = FALSE]
  BY DEF BuildBatchGroup
<1>3. \A u \in Thread \ {t} : failed'[u] = failed[u]
  BY <1>2 DEF WriteInv, TypeOK
<1>4. \A c : Kept(c) => Kept(c)'
  BY <1>2, KeptSame DEF logVars, memVars, Applied
<1>5. CASE call[t] \in BatchCalls
  <2>1. PICK n \in 1..Len(queue) : n = GroupSize
    BY <1>1, GroupEnds
  <2>2. /\ group' = Batches(SubSeq(queue, 1, n)) /\ lastWriter' = queue[n]
        /\ pc' = [pc EXCEPT ![t] = "logging"]
    BY <1>5, <2>1 DEF BuildBatchGroup
  <2>3. End' = n
    BY <1>1, <1>2, <2>2, EndIs DEF End
  <2>4. Batches(SubSeq(queue, 1, End))' = Batches(SubSeq(queue, 1, n))
    BY <1>2, <2>3 DEF Batches
  <2>5. \A i \in 1..n : call[queue[i]] \in SyncCalls => call[t] \in SyncCalls
    <3>1. \A i \in 2..n : call[queue[i]] \in SyncCalls => call[queue[1]] \in SyncCalls
      BY <1>1, <2>1, GroupEnds
    <3>2. \A i \in 1..n : i = 1 \/ i \in 2..n
      BY <2>1
    <3> QED BY <1>1, <3>1, <3>2
  <2>6. pc'[t] = "logging"
    BY <2>2 DEF WriteInv, TypeOK
  <2>7. Prepared(t)'
    BY <1>2, <2>2, <2>3, <2>4, <2>5, <2>6 DEF Prepared
  <2> QED BY <1>2, <1>3, <1>4, <2>2, <2>7, HeadPrepares DEF Busy
<1>6. CASE call[t] \notin BatchCalls
  <2>1. lastWriter' = queue[1] /\ pc' = [pc EXCEPT ![t] = "finish"]
    BY <1>1, <1>6 DEF BuildBatchGroup
  <2>2. End' = 1
    BY <1>1, <1>2, <2>1, EndIs DEF End
  <2>3. pc'[t] = "finish"
    BY <2>1 DEF WriteInv, TypeOK
  <2>4. \A i \in 1..1 : i = 1
    OBVIOUS
  <2>5. Prepared(t)'
    BY <1>1, <1>2, <1>6, <2>2, <2>3, <2>4 DEF Prepared, Kept
  <2> QED BY <1>2, <1>3, <1>4, <2>1, <2>5, HeadPrepares DEF Busy
<1> QED BY <1>5, <1>6

\* What the head wrote is kept, for all of its group.
LEMMA LogPrepares ==
  ASSUME WriteInv, QueueInv', NEW t \in Thread, LogGroup(t)
  PROVE  GroupInv'
<1>1. /\ pc[t] = "logging" /\ log' = log \o group
      /\ durable' = IF call[t] \in SyncCalls THEN Len(log') ELSE durable
      /\ pc' = [pc EXCEPT ![t] = "logged"]
      /\ UNCHANGED <<queue, call, done, failed, lastWriter, group>>
  BY DEF LogGroup
<1>2. log \in Seq(BatchCalls) /\ group \in Seq(BatchCalls) /\ durable \in 0..Len(log)
  BY DEF WriteInv, TypeOK
<1>3. /\ log' \in Seq(BatchCalls) /\ Range(log') = Range(log) \cup Range(group)
      /\ Len(log') = Len(log) + Len(group)
  BY <1>1, <1>2, ConcatProperties, RangeConcatenation
<1>4. durable' \in durable..Len(log')
  BY <1>1, <1>2, <1>3
<1>5. /\ Range(Applied') = Range(Applied) \cup Range(group)
  BY AppliedGrows DEF WriteInv
<1>6. \A c : Kept(c) => Kept(c)'
  BY <1>1, <1>4, <1>5, KeptGrows DEF WriteInv
<1>7. call[t] \in SyncCalls => SubSeq(log', 1, durable') = log'
  <2>1. PICK l \in Seq(BatchCalls) : l = log'
    BY <1>3
  <2> QED BY <1>1, <2>1, SubSeqFull
<1>8. End' = End
  BY <1>1 DEF End
<1>9. \A i \in 1..End : Kept(call[queue[i]])'
  <2> SUFFICES ASSUME NEW i \in 1..End
               PROVE  Kept(call[queue[i]])'
    OBVIOUS
  <2>1. call[queue[i]] \in BatchCalls => call[queue[i]] \in Range(group)
    BY <1>1, GroupWanted
  <2>2. call[queue[i]] \in SyncCalls => call[t] \in SyncCalls
    BY <1>1 DEF WriteInv, GroupInv, Prepared
  <2> QED BY <1>1, <1>3, <1>5, <1>7, <2>1, <2>2 DEF Kept
<1>10. pc'[t] = "logged"
  BY <1>1 DEF WriteInv, TypeOK
<1>11. Prepared(t)'
  BY <1>1, <1>8, <1>9, <1>10 DEF Prepared, Kept
<1> QED BY <1>1, <1>6, <1>11, HeadPrepares DEF Busy

LEMMA LogFailsPrepares ==
  ASSUME WriteInv, QueueInv', NEW t \in Thread, AddRecordFails(t) \/ SyncFails(t)
  PROVE  GroupInv'
<1>1. /\ log' \in {log, log \o group} /\ durable' = durable
      /\ UNCHANGED memVars /\ UNCHANGED <<call, done>>
      /\ failed' = [failed EXCEPT ![t] = TRUE]
  BY DEF AddRecordFails, SyncFails
<1>2. PICK p \in {"logged", "unsynced"} : pc' = [pc EXCEPT ![t] = p]
  BY DEF AddRecordFails, SyncFails
<1>3. failed'[t] /\ \A u \in Thread \ {t} : failed'[u] = failed[u]
  BY <1>1 DEF WriteInv, TypeOK
<1>4. durable' \in durable..Len(log')
  <2>1. /\ log \in Seq(BatchCalls) /\ group \in Seq(BatchCalls)
        /\ durable \in 0..Len(log)
    BY DEF WriteInv, TypeOK
  <2>2. Len(log \o group) = Len(log) + Len(group)
    BY <2>1, ConcatProperties
  <2>3. Len(log') \in Nat /\ Len(log) <= Len(log')
    BY <1>1, <2>1, <2>2
  <2> QED BY <1>1, <2>1, <2>3
<1>5. \A c : Kept(c) => Kept(c)'
  BY <1>1, <1>4, KeptGrows DEF WriteInv, memVars, Applied
<1>6. pc'[t] \in {"logged", "unsynced"}
  BY <1>2 DEF WriteInv, TypeOK
<1>7. Prepared(t)'
  BY <1>3, <1>6 DEF Prepared
<1> QED BY <1>1, <1>2, <1>3, <1>5, <1>7, HeadPrepares DEF Busy

LEMMA RelockPrepares ==
  ASSUME WriteInv, QueueInv', NEW t \in Thread, Relock(t)
  PROVE  GroupInv'
<1>1. /\ pc[t] \in {"logged", "unsynced"} /\ pc' = [pc EXCEPT ![t] = "finish"]
      /\ UNCHANGED <<queue, call, done, failed, lastWriter>>
      /\ UNCHANGED <<logVars, memVars>>
  BY DEF Relock
<1>2. \A c : Kept(c) => Kept(c)'
  BY <1>1, KeptSame DEF logVars, memVars, Applied
<1>3. End' = End
  BY <1>1 DEF End
<1>4. ASSUME ~failed'[t] PROVE Prepared(t)'
  <2>1. pc[t] = "logged" /\ \A i \in 1..End : Kept(call[queue[i]])
    BY <1>1, <1>4 DEF WriteInv, GroupInv, Prepared
  <2>2. \A i \in 1..End : Kept(call[queue[i]])'
    BY <1>1, <2>1 DEF Kept, logVars, memVars, Applied
  <2>3. pc'[t] = "finish"
    BY <1>1 DEF WriteInv, TypeOK
  <2> QED BY <1>1, <1>3, <2>2, <2>3 DEF Prepared, Kept
<1> QED BY <1>1, <1>2, <1>4, HeadPrepares DEF Busy

\* Who comes to the queue leaves the end of the group where it is.
LEMMA EndStays ==
  ASSUME WriteInv, NEW t \in Thread, Write(t), NEW u \in Thread, pc[u] \in Grouped
  PROVE  End' = End
<1>1. queue \in Seq(Thread) /\ queue' = Append(queue, t) /\ lastWriter' = lastWriter
  BY DEF Write, WriteInv, TypeOK
<1>2. PICK n \in 1..Len(queue) : n = End /\ queue[n] = lastWriter
  BY GroupTaken
<1>3. /\ queue' \in Seq(Thread) /\ Len(queue') = Len(queue) + 1
      /\ \A i \in 1..Len(queue) : queue'[i] = queue[i]
  BY <1>1
<1>4. IsInjective(queue')
  <2>1. \A i \in 1..Len(queue) : queue[i] # t
    BY DEF Write, WriteInv, CallsInv, Busy
  <2> QED BY <1>1, <2>1, InjectiveParts DEF WriteInv, TypeOK
<1>5. PICK q \in Seq(Thread) : q = queue'
  BY <1>3
<1>6. IsInjective(q) /\ n \in 1..Len(q) /\ q[n] = lastWriter'
  BY <1>1, <1>2, <1>3, <1>4, <1>5
<1>7. (CHOOSE j \in DOMAIN q : q[j] = q[n]) = n
  BY <1>6, EndIs
<1> QED BY <1>2, <1>5, <1>6, <1>7 DEF End

\* A new call at the end of the queue changes nothing for the group in front.
LEMMA WritePrepares ==
  ASSUME WriteInv, NEW t \in Thread, Write(t)
  PROVE  GroupInv'
<1>1. /\ queue \in Seq(Thread) /\ queue' = Append(queue, t)
      /\ call' = [call EXCEPT ![t] = calls + 1]
      /\ done' = [done EXCEPT ![t] = FALSE]
      /\ UNCHANGED <<group, lastWriter, failed>> /\ UNCHANGED <<logVars, memVars>>
  BY DEF Write, WriteInv, TypeOK
<1>2. /\ \A u \in Thread : u # t => /\ pc'[u] = pc[u] /\ call'[u] = call[u]
                                    /\ done'[u] = done[u]
      /\ pc'[t] \in {"room", "queued"} /\ ~done'[t]
  BY DEF Write, WriteInv, TypeOK
<1>3. \A c : Kept(c) => Kept(c)'
  BY <1>1, KeptSame DEF logVars, memVars, Applied
<1>4. Prepared(t)'
  BY <1>2 DEF Prepared
<1>5. ASSUME NEW u \in Thread \ {t} PROVE Prepared(u)'
  <2>1. CASE pc[u] \in Grouped
    <3>1. End \in 1..Len(queue) /\ queue[End] = lastWriter
      BY <2>1, GroupTaken
    <3>2. PICK n \in 1..Len(queue) : n = End /\ queue[n] = lastWriter
      BY <3>1
    <3>3. /\ queue' \in Seq(Thread) /\ Len(queue') = Len(queue) + 1
          /\ \A i \in 1..Len(queue) : queue'[i] = queue[i]
      BY <1>1
    <3>5. End' = n
      BY <2>1, <3>2, EndStays
    <3>6. \A i \in 1..n : /\ queue'[i] = queue[i] /\ queue[i] \in Thread
                          /\ call'[queue[i]] = call[queue[i]]
      <4>1. \A i \in 1..n : i \in 1..Len(queue)
        BY <3>2
      <4>2. \A i \in 1..Len(queue) : queue[i] \in Thread /\ queue[i] # t
        <5>1. \A i \in 1..Len(queue) : queue[i] # t
          BY DEF Write, WriteInv, CallsInv, Busy
        <5> QED BY <1>1, <5>1
      <4> QED BY <1>2, <3>3, <4>1, <4>2
    <3>7. Batches(SubSeq(queue, 1, End))' = Batches(SubSeq(queue, 1, End))
      <4> DEFINE front == SubSeq(queue, 1, n)
      <4>1. /\ front \in Seq(Thread) /\ Len(front) = n
            /\ \A i \in 1..n : front[i] = queue[i]
        BY <1>1
      <4>2. SubSeq(queue', 1, n) = front
        <5>1. n \in 1..Len(queue) /\ t \in Thread
          OBVIOUS
        <5> QED BY <1>1, <5>1
      <4> HIDE DEF front
      <4>3. BatchesBy(call', front) = BatchesBy(call, front)
        BY <3>6, <4>1, BatchesSame
      <4>4. Batches(SubSeq(queue, 1, End))' = BatchesBy(call', SubSeq(queue', 1, n))
        BY <3>5 DEF Batches, BatchesBy, PlacesBy
      <4>5. Batches(SubSeq(queue, 1, End)) = BatchesBy(call, front)
        BY <3>2, BatchesAre DEF front
      <4> QED BY <4>2, <4>3, <4>4, <4>5
    <3>8. Prepared(u) /\ u # t
      BY DEF WriteInv, GroupInv
    <3>9. pc[u] \in {"logged", "finish"} /\ ~failed[u] =>
            \A i \in 1..n : Kept(call[queue[i]])'
      BY <1>3, <3>2, <3>6, <3>8 DEF Prepared, Kept
    <3>10. pc[u] = "logging" =>
             \A i \in 1..n : call[queue[i]] \in SyncCalls => call[u] \in SyncCalls
      BY <3>2, <3>8 DEF Prepared
    <3> QED BY <1>1, <1>2, <2>1, <3>2, <3>5, <3>6, <3>7, <3>8, <3>9, <3>10
            DEF Prepared, Kept, Grouped
  <2>2. CASE pc[u] \notin Grouped
    <3>1. pc[u] = "queued" /\ done[u] /\ ~failed[u] => Kept(call[u])
      BY DEF WriteInv, GroupInv, Prepared
    <3>2. pc[u] = "queued" /\ done[u] /\ ~failed[u] => Kept(call[u])'
      BY <1>2, <1>3, <3>1 DEF Kept
    <3> QED BY <1>1, <1>2, <2>2, <3>2 DEF Prepared, Grouped
  <2> QED BY <2>1, <2>2
<1> QED BY <1>4, <1>5 DEF GroupInv

LEMMA WakePrepares ==
  ASSUME WriteInv, QueueInv', NEW t \in Thread, Wake(t)
  PROVE  GroupInv'
<1>1. /\ UNCHANGED <<queue, call, done, failed, group, lastWriter>>
      /\ UNCHANGED <<logVars, memVars>>
  BY DEF Wake
<1>2. \A c : Kept(c) => Kept(c)'
  BY <1>1, KeptSame DEF logVars, memVars, Applied
<1>3. CASE done[t]
  <2>1. PICK p \in {"idle", "written"} : pc' = [pc EXCEPT ![t] = p]
    BY <1>3, ReturnAnswers DEF Wake
  <2>2. \A u \in Thread : pc'[u] = IF u = t THEN p ELSE pc[u]
    BY <2>1 DEF WriteInv, TypeOK
  <2>3. \A u \in Thread \ {t} : Prepared(u)'
    BY <1>1, <1>2, <2>2, StaysPrepared
  <2>4. Prepared(t)'
    BY <2>2 DEF Prepared
  <2> QED BY <2>3, <2>4 DEF GroupInv
<1>4. CASE ~done[t]
  <2>1. pc' = [pc EXCEPT ![t] = "room"]
    BY <1>4 DEF Wake
  <2> QED BY <1>1, <1>2, <2>1, HeadPrepares DEF Busy
<1> QED BY <1>3, <1>4

LEMMA CompactPrepares ==
  ASSUME WriteInv, NEW t \in Thread, CompactMemTableWaits(t)
  PROVE  GroupInv'
<1>1. /\ UNCHANGED <<queue, call, done, failed, group, lastWriter>>
      /\ UNCHANGED <<logVars, memVars>>
  BY DEF CompactMemTableWaits
<1>2. \A c : Kept(c) => Kept(c)'
  BY <1>1, KeptSame DEF logVars, memVars, Applied
<1>3. PICK p \in {"idle", "flushing"} : pc' = [pc EXCEPT ![t] = p]
  BY DEF CompactMemTableWaits
<1>4. \A u \in Thread : pc'[u] = IF u = t THEN p ELSE pc[u]
  BY <1>3 DEF WriteInv, TypeOK
<1>5. \A u \in Thread \ {t} : Prepared(u)'
  BY <1>1, <1>2, <1>4, StaysPrepared
<1>6. Prepared(t)'
  BY <1>4 DEF Prepared
<1> QED BY <1>5, <1>6 DEF GroupInv

\* The followers go with what became of the head.
LEMMA FinishPrepares ==
  ASSUME WriteInv, QueueInv', NEW t \in Thread, Finish(t)
  PROVE  GroupInv'
<1>1. PICK p \in {"idle", "written"} : pc' = [pc EXCEPT ![t] = p]
  BY FinishTakes, ReturnAnswers
<1>2. \A u \in Thread : pc'[u] = IF u = t THEN p ELSE pc[u]
  BY <1>1 DEF WriteInv, TypeOK
<1>3. /\ call' = call /\ pc[t] = "finish" /\ End \in Nat
      /\ UNCHANGED <<logVars, memVars>>
  BY FinishTakes
<1>4. \A c : Kept(c) => Kept(c)'
  BY <1>3, KeptSame DEF logVars, memVars, Applied
<1>5. Prepared(t)'
  BY <1>2 DEF Prepared
<1>6. ASSUME NEW u \in Thread \ {t} PROVE Prepared(u)'
  <2>1. pc[u] \notin Busy /\ pc'[u] = pc[u]
    BY <1>2, <1>3 DEF WriteInv, QueueInv, Busy
  <2>2. ASSUME pc'[u] = "queued", done'[u], ~failed'[u] PROVE Kept(call[u])
    <3>1. CASE \E i \in 2..End : queue[i] = u
      <4>1. PICK i \in 2..End : queue[i] = u
        BY <3>1
      <4>2. ~failed[t]
        <5>1. failed'[u] = IF \E j \in 2..End : queue[j] = u
                           THEN failed[t] ELSE failed[u]
          BY FinishTakes
        <5> QED BY <2>2, <3>1, <5>1
      <4>3. i \in 1..End /\ Kept(call[queue[i]])
        BY <1>3, <4>2 DEF WriteInv, GroupInv, Prepared
      <4> QED BY <4>1, <4>3
    <3>2. CASE ~\E i \in 2..End : queue[i] = u
      <4>1. pc[u] = "queued" /\ done[u] /\ ~failed[u]
        BY <2>1, <2>2, <3>2, FinishTakes
      <4> QED BY <4>1 DEF WriteInv, GroupInv, Prepared
    <3> QED BY <3>1, <3>2
  <2>3. pc'[u] = "queued" /\ done'[u] /\ ~failed'[u] => Kept(call[u])'
    BY <1>3, <2>2 DEF Kept, logVars, memVars, Applied
  <2> QED BY <2>1, <2>3 DEF Prepared, Busy
<1> QED BY <1>5, <1>6 DEF GroupInv

\* What the background thread leaves alone.
LEMMA BackgroundLeaves ==
  ASSUME WriteInv, BackgroundThread
  PROVE  UNCHANGED <<queueVars, logVars, clientVars>> /\ Applied' = Applied
<1>1. /\ UNCHANGED <<queueVars, logVars, clientVars>>
      /\ Flushed \/ (mem' = mem /\ imm' = imm /\ flushed' = flushed)
  BY DEF BackgroundThread, BackgroundCall, CompactMemTable,
         CompactMemTableFirst, CompactionEnds, BackgroundDone, memVars
<1> QED BY <1>1, AppliedStays DEF WriteInv, Applied

LEMMA BackgroundPrepares ==
  ASSUME WriteInv, BackgroundThread
  PROVE  GroupInv'
<1>1. UNCHANGED <<queueVars, logVars>> /\ Applied' = Applied
  BY BackgroundLeaves
<1>2. \A c : Kept(c) => Kept(c)'
  BY <1>1, KeptSame DEF logVars
<1> QED BY <1>1, <1>2, StaysPrepared DEF GroupInv, queueVars

LEMMA GroupHolds == ASSUME WriteInv, [Next]_vars PROVE GroupInv'
<1>1. CASE UNCHANGED vars
  <2>1. UNCHANGED <<queueVars, logVars, memVars>>
    BY <1>1 DEF vars
  <2>2. \A c : Kept(c) => Kept(c)'
    BY <2>1, KeptSame DEF logVars, memVars, Applied
  <2> QED BY <2>1, <2>2, StaysPrepared DEF GroupInv, queueVars
<1>2. QueueInv'
  BY QueueHolds DEF WriteInv
<1>3. ASSUME NEW t \in Thread, Caller(t) PROVE GroupInv'
  BY <1>2, <1>3, WakePrepares, RoomPrepares, SwitchPrepares, BuildPrepares,
     LogPrepares, LogFailsPrepares, RelockPrepares, FinishPrepares,
     CompactPrepares
  DEF Caller
<1> QED BY <1>1, <1>3, WritePrepares, BackgroundPrepares DEF Next

-----------------------------------------------------------------------------
(* The memtables and the log *)

\* More may come to the end of what is followed, alone or with the same at the
\* end of what follows.
LEMMA FollowsLonger ==
  ASSUME NEW s \in Seq(BatchCalls), NEW l \in Seq(BatchCalls),
         NEW g \in Seq(BatchCalls), Follows(s, l)
  PROVE  Follows(s, l \o g) /\ Follows(s \o g, l \o g)
<1> DEFINE lg == l \o g
           sg == s \o g
           m == Len(s)
           n == Len(l)
           d == Len(g)
<1>1. /\ m \in Nat /\ n \in Nat /\ d \in Nat
      /\ DOMAIN s = 1..m /\ DOMAIN l = 1..n
  OBVIOUS
<1>2. /\ DOMAIN lg = 1..(n + d)
      /\ \A i \in 1..(n + d) : lg[i] = IF i <= n THEN l[i] ELSE g[i - n]
  BY ConcatProperties
<1>3. /\ DOMAIN sg = 1..(m + d)
      /\ \A i \in 1..(m + d) : sg[i] = IF i <= m THEN s[i] ELSE g[i - m]
  BY ConcatProperties
<1>4. PICK at \in [1..m -> 1..n] :
        /\ \A i \in 1..m : s[i] = l[at[i]]
        /\ \A i, j \in 1..m : i < j => at[i] < at[j]
  BY <1>1 DEF Follows
<1> HIDE DEF lg, sg, m, n, d
<1>5. \A i \in 1..m : at[i] \in 1..(n + d) /\ lg[at[i]] = s[i]
  <2> SUFFICES ASSUME NEW i \in 1..m
               PROVE  at[i] \in 1..(n + d) /\ lg[at[i]] = s[i]
    OBVIOUS
  <2>1. at[i] \in 1..n /\ at[i] \in 1..(n + d) /\ at[i] <= n
    BY <1>1, <1>4
  <2> QED BY <1>2, <1>4, <2>1
<1>6. Follows(s, lg)
  <2>1. at \in [1..m -> 1..(n + d)]
    BY <1>4, <1>5
  <2>2. DOMAIN s = 1..m
    BY <1>1 DEF m
  <2> QED BY <1>2, <1>4, <1>5, <2>1, <2>2 DEF Follows
<1> DEFINE to == [i \in 1..(m + d) |-> IF i <= m THEN at[i] ELSE n + (i - m)]
<1>7. ASSUME NEW i \in 1..(m + d)
      PROVE  /\ to[i] \in 1..(n + d) /\ sg[i] = lg[to[i]]
             /\ i <= m => to[i] = at[i] /\ i \in 1..m /\ to[i] <= n
             /\ ~(i <= m) => to[i] = n + (i - m) /\ to[i] > n
  <2>1. CASE i <= m
    <3>1. i \in 1..m /\ at[i] \in 1..n /\ to[i] = at[i]
      BY <1>1, <1>4, <2>1
    <3>2. sg[i] = s[i]
      BY <1>3, <2>1
    <3> QED BY <1>1, <1>5, <2>1, <3>1, <3>2
  <2>2. CASE ~(i <= m)
    <3>1. to[i] = n + (i - m) /\ to[i] \in 1..(n + d) /\ ~(to[i] <= n) /\ to[i] > n
      BY <1>1, <2>2
    <3>2. to[i] - n = i - m
      BY <1>1, <3>1
    <3>3. lg[to[i]] = g[to[i] - n] /\ sg[i] = g[i - m]
      BY <1>2, <1>3, <2>2, <3>1
    <3> QED BY <2>2, <3>1, <3>2, <3>3
  <2> QED BY <2>1, <2>2
<1>8. to \in [1..(m + d) -> 1..(n + d)]
  BY <1>7
<1> HIDE DEF to
<1>9. ASSUME NEW i \in 1..(m + d), NEW j \in 1..(m + d), i < j
      PROVE  to[i] < to[j]
  <2>1. CASE j <= m
    <3>1. i <= m
      BY <1>1, <1>9, <2>1
    <3> QED BY <1>4, <1>7, <1>9, <2>1, <3>1
  <2>2. CASE i <= m /\ ~(j <= m)
    <3>1. to[i] <= n /\ to[j] > n /\ to[i] \in Nat /\ to[j] \in Nat
      BY <1>1, <1>7, <2>2
    <3> QED BY <1>1, <3>1
  <2>3. CASE ~(i <= m) /\ ~(j <= m)
    <3>1. to[i] = n + (i - m) /\ to[j] = n + (j - m)
      BY <1>7, <2>3
    <3> QED BY <1>1, <1>9, <3>1
  <2> QED BY <2>1, <2>2, <2>3
<1>10. Follows(sg, lg)
  <2>1. \A i \in 1..(m + d) : sg[i] = lg[to[i]]
    BY <1>7
  <2> QED BY <1>2, <1>3, <1>8, <1>9, <2>1 DEF Follows
<1> QED BY <1>6, <1>10 DEF sg, lg

\* Steps after which the log goes on from what it was, and nobody else was
\* answered.
LEMMA MemoryGrows ==
  ASSUME WriteInv, answer' = answer,
         \/ log' = log /\ Applied' = Applied
         \/ log' = log \o group /\ Applied' = Applied
         \/ log' = log \o group /\ Applied' = Applied \o group
  PROVE  MemoryFollowsLog'
<1>1. log \in Seq(BatchCalls) /\ group \in Seq(BatchCalls) /\ Applied \in Seq(BatchCalls)
  BY DEF WriteInv, TypeOK, Applied
<1>2. Follows(Applied, log) /\ \A c \in BatchCalls : answer[c] = "ok" => c \in Range(Applied)
  BY DEF WriteInv, MemoryFollowsLog
<1>3. Range(Applied \o group) = Range(Applied) \cup Range(group)
  BY <1>1, RangeConcatenation
<1>4. Follows(Applied, log)'
  <2>1. /\ Follows(Applied, log \o group)
        /\ Follows(Applied \o group, log \o group)
    BY <1>1, <1>2, FollowsLonger
  <2>2. PICK a, l : a = Applied' /\ l = log'
    OBVIOUS
  <2>3. \/ a = Applied /\ l = log
        \/ a = Applied /\ l = log \o group
        \/ a = Applied \o group /\ l = log \o group
    BY <2>2
  <2>4. Follows(a, l)
    BY <1>2, <2>1, <2>3
  <2> QED BY <2>2, <2>4 DEF Follows
<1>5. \A c \in BatchCalls : answer'[c] = "ok" => c \in Range(Applied')
  BY <1>2, <1>3
<1> QED BY <1>4, <1>5 DEF MemoryFollowsLog

\* Who is told "ok" by the end of Write has had its batch applied.
LEMMA AnswerFollows ==
  ASSUME WriteInv, NEW t \in Thread,
         Return({t}, IF failed[t] THEN "error" ELSE "ok"),
         ~failed[t] => Kept(call[t]),
         UNCHANGED <<log, Applied>>
  PROVE  MemoryFollowsLog'
<1>1. PICK p \in {"idle", "written"} :
        /\ p = "idle" <=> call[t] \in BatchCalls \/ failed[t]
        /\ answer' = [c \in Call |-> IF p = "idle" /\ c = call[t]
                        THEN IF failed[t] THEN "error" ELSE "ok" ELSE answer[c]]
  BY ReturnAnswers
<1>2. Follows(Applied, log)'
  BY DEF WriteInv, MemoryFollowsLog, Follows
<1>3. ASSUME NEW c \in BatchCalls, answer'[c] = "ok"
      PROVE  c \in Range(Applied')
  <2>1. c \in Call
    BY QueueAssumption DEF Call
  <2>2. CASE p = "idle" /\ c = call[t]
    BY <1>1, <1>3, <2>1, <2>2 DEF Kept
  <2>3. CASE ~(p = "idle" /\ c = call[t])
    <3>1. answer[c] = "ok"
      BY <1>1, <1>3, <2>1, <2>3
    <3> QED BY <3>1 DEF WriteInv, MemoryFollowsLog
  <2> QED BY <2>2, <2>3
<1> QED BY <1>2, <1>3 DEF MemoryFollowsLog

LEMMA HeadKept ==
  ASSUME WriteInv, NEW t \in Thread, Finish(t)
  PROVE  ~failed[t] => Kept(call[t])
<1>1. queue[1] = t /\ End \in 1..Len(queue) /\ Len(queue) \in Nat /\ pc[t] = "finish"
  BY FinishTakes
<1>2. 1 \in 1..End
  BY <1>1
<1> QED BY <1>1, <1>2 DEF WriteInv, GroupInv, Prepared

LEMMA MemoryHolds == ASSUME WriteInv, [Next]_vars PROVE MemoryFollowsLog'
<1>1. CASE UNCHANGED vars
  BY <1>1, MemoryGrows
  DEF vars, logVars, memVars, clientVars, Applied
<1>2. CASE BackgroundThread
  BY <1>2, BackgroundLeaves, MemoryGrows DEF logVars, clientVars
<1>3. ASSUME NEW t \in Thread,
             \/ Write(t) \/ RoomFails(t) \/ SlowDown(t) \/ EndDelay(t)
             \/ Stall(t) \/ EndStall(t) \/ NewLogFails(t)
             \/ BuildBatchGroup(t) \/ Relock(t)
      PROVE  MemoryFollowsLog'
  <2>1. answer' = answer /\ UNCHANGED logVars /\ UNCHANGED memVars
    BY <1>3 DEF Write, RoomFails, SlowDown, EndDelay, Stall, EndStall,
                NewLogFails, BuildBatchGroup, Relock, clientVars
  <2> QED BY <2>1, MemoryGrows DEF logVars, memVars, Applied
<1>4. ASSUME NEW t \in Thread, SwitchMemTable(t) PROVE MemoryFollowsLog'
  BY <1>4, AppliedStays, MemoryGrows
  DEF SwitchMemTable, WriteInv, logVars, clientVars
<1>5. ASSUME NEW t \in Thread, LogGroup(t) PROVE MemoryFollowsLog'
  BY <1>5, AppliedGrows, MemoryGrows DEF LogGroup, WriteInv, clientVars
<1>6. ASSUME NEW t \in Thread, AddRecordFails(t) \/ SyncFails(t)
      PROVE  MemoryFollowsLog'
  BY <1>6, MemoryGrows DEF AddRecordFails, SyncFails, clientVars, memVars, Applied
<1>7. ASSUME NEW t \in Thread, Finish(t) PROVE MemoryFollowsLog'
  <2>1. UNCHANGED <<log, Applied>>
    BY <1>7, FinishTakes DEF logVars, memVars, Applied
  <2> QED BY <1>7, <2>1, FinishTakes, HeadKept, AnswerFollows
<1>8. ASSUME NEW t \in Thread, Wake(t) PROVE MemoryFollowsLog'
  <2>1. UNCHANGED <<log, Applied>> /\ pc[t] = "queued"
    BY <1>8 DEF Wake, logVars, memVars, Applied
  <2>2. CASE done[t]
    <3>1. Return({t}, IF failed[t] THEN "error" ELSE "ok")
      BY <1>8, <2>2 DEF Wake
    <3>2. ~failed[t] => Kept(call[t])
      BY <2>1, <2>2 DEF WriteInv, GroupInv, Prepared
    <3> QED BY <2>1, <3>1, <3>2, AnswerFollows
  <2>3. CASE ~done[t]
    BY <1>8, <2>1, <2>3, MemoryGrows DEF Wake
  <2> QED BY <2>2, <2>3
<1>9. ASSUME NEW t \in Thread, CompactMemTableWaits(t) PROVE MemoryFollowsLog'
  <2>1. UNCHANGED <<log, Applied>> /\ call[t] \notin BatchCalls
    BY <1>9 DEF CompactMemTableWaits, logVars, memVars, Applied, WriteInv, CallsInv
  <2>2. \A c \in BatchCalls : answer'[c] = answer[c]
    BY <1>9, <2>1, QueueAssumption DEF CompactMemTableWaits, WriteInv, TypeOK, Call
  <2> QED BY <2>1, <2>2 DEF WriteInv, MemoryFollowsLog, Follows
<1> QED
  BY <1>1, <1>2, <1>3, <1>4, <1>5, <1>6, <1>7, <1>8, <1>9 DEF Next, Caller

LEMMA InitWrites == Init => WriteInv
<1> SUFFICES ASSUME Init PROVE WriteInv
  OBVIOUS
<1>1. /\ queue = <<>> /\ pc = [t \in Thread |-> "idle"]
      /\ log = <<>> /\ Applied = <<>> \o <<>> \o <<>>
  BY DEF Init, Applied
<1>2. QueueInv
  BY QueueStarts
<1>3. TypeOK
  <2>1. /\ <<>> \in Seq(Thread) /\ <<>> \in Seq(BatchCalls) /\ IsInjective(<<>>)
        /\ 0 \in 0..Len(<<>>) /\ 0 \in 0..MaxCalls
    BY QueueAssumption DEF IsInjective
  <2> QED BY <2>1 DEF Init, TypeOK
<1>4. CallsInv
  BY <1>3 DEF Init, CallsInv, Call
<1>5. GroupInv
  BY DEF Init, GroupInv, Prepared
<1>6. MemoryFollowsLog
  <2>1. Applied = <<>>
    BY <1>1
  <2>2. Follows(<<>>, <<>>)
    <3> DEFINE at == [i \in DOMAIN <<>> |-> i]
    <3>1. at \in [DOMAIN <<>> -> DOMAIN <<>>] /\ ~\E i : i \in DOMAIN <<>>
      OBVIOUS
    <3> QED BY <3>1 DEF Follows
  <2>3. \A c \in BatchCalls : answer[c] = "none"
    BY QueueAssumption DEF Init, Call
  <2> QED BY <1>1, <2>1, <2>2, <2>3 DEF MemoryFollowsLog
<1> QED BY <1>2, <1>3, <1>4, <1>5, <1>6 DEF WriteInv

\* What the threads know of each other holds from step to step.
LEMMA WritesHold == ASSUME WriteInv, [Next]_vars PROVE WriteInv'
<1>1. QueueInv'
  BY QueueHolds DEF WriteInv
<1> QED BY <1>1, TypesHold, CallsHold, GroupHolds, MemoryHolds DEF WriteInv

\* Who is in the queue, what the head carries out for it and what is in the log
\* always fit together (DBImpl::Write).
THEOREM Invariance == Spec => []WriteInv
BY InitWrites, WritesHold, PTL DEF Spec

\* Every variable keeps its type; no thread comes into the queue twice, and
\* only who is in the middle of Write holds the mutex.
THEOREM TypeCorrect == Spec => []TypeOK
<1>1. WriteInv => TypeOK
  BY DEF WriteInv
<1> QED BY <1>1, Invariance, PTL

\* What is read is in the log, in its order, whatever failed, and every write
\* that was answered "ok" is read (DBImpl::Write, InsertInto).
THEOREM MemoryIsLog == Spec => []MemoryFollowsLog
<1>1. WriteInv => MemoryFollowsLog
  BY DEF WriteInv
<1> QED BY <1>1, Invariance, PTL

-----------------------------------------------------------------------------
(* The threads implement WriteOrder *)

\* How much of the queue is carried out is told by where its head is.
LEMMA TakenIs ==
  ASSUME QueueInv
  PROVE  /\ \A t \in Thread : pc[t] \in Busy =>
              Taken = IF pc[t] \in {"logged", "unsynced", "finish"} THEN End ELSE 0
         /\ (\A t \in Thread : pc[t] \notin Busy) => Taken = 0
<1>1. queue \in Seq(Thread) /\ (queue # <<>> => Head(queue) \in Thread)
  BY DEF QueueInv
<1>2. \A t \in Thread : pc[t] \in Busy => queue # <<>> /\ Head(queue) = t
  BY DEF QueueInv
<1> QED BY <1>1, <1>2 DEF Taken, End, Busy

LEMMA TakenIsNext ==
  ASSUME QueueInv'
  PROVE  /\ \A t \in Thread : pc'[t] \in Busy =>
              Taken' = IF pc'[t] \in {"logged", "unsynced", "finish"} THEN End' ELSE 0
         /\ (\A t \in Thread : pc'[t] \notin Busy) => Taken' = 0
<1>1. queue' \in Seq(Thread) /\ (queue' # <<>> => Head(queue') \in Thread)
  BY DEF QueueInv
<1>2. \A t \in Thread : pc'[t] \in Busy => queue' # <<>> /\ Head(queue') = t
  BY DEF QueueInv
<1> QED BY <1>1, <1>2 DEF Taken, End, Busy

\* The head alone is busy.
LEMMA OthersIdle ==
  ASSUME QueueInv, NEW t \in Thread, pc[t] \in Busy
  PROVE  \A u \in Thread \ {t} : pc[u] \notin Busy
BY DEF QueueInv

\* What waits is the batches of the rest of the queue.
LEMMA TakenRange ==
  ASSUME WriteInv
  PROVE  /\ queue \in Seq(Thread) /\ Len(queue) \in Nat /\ Taken \in 0..Len(queue)
         /\ SubSeq(queue, Taken + 1, Len(queue)) \in Seq(Thread)
         /\ Waiting = BatchesBy(call, SubSeq(queue, Taken + 1, Len(queue)))
<1>1. queue \in Seq(Thread) /\ Len(queue) \in Nat
  BY DEF WriteInv, TypeOK
<1>2. Taken \in 0..Len(queue)
  <2>1. CASE \E t \in Thread : pc[t] \in Grouped
    <3>1. PICK t \in Thread : pc[t] \in Grouped
      BY <2>1
    <3>2. End \in 1..Len(queue)
      BY <3>1, GroupTaken
    <3>3. Taken = IF pc[t] \in {"logged", "unsynced", "finish"} THEN End ELSE 0
      BY <3>1, TakenIs DEF WriteInv, Grouped, Busy
    <3> QED BY <1>1, <3>2, <3>3
  <2>2. CASE ~\E t \in Thread : pc[t] \in Grouped
    <3>1. queue # <<>> => Head(queue) \in Thread
      BY <1>1
    <3>2. Taken = 0
      BY <2>2, <3>1 DEF Taken, Grouped
    <3> QED BY <1>1, <3>2
  <2> QED BY <2>1, <2>2
<1>3. SubSeq(queue, Taken + 1, Len(queue)) \in Seq(Thread)
  BY <1>1, <1>2
<1> QED BY <1>1, <1>2, <1>3, BatchesAre DEF Waiting

\* A call that waits is the call of a writer behind those carried out.
LEMMA WaitingWho ==
  ASSUME WriteInv
  PROVE  /\ Waiting \in Seq(BatchCalls)
         /\ \A c \in Range(Waiting) :
              \E i \in 1..Len(queue) : i > Taken /\ call[queue[i]] = c
<1> DEFINE rest == SubSeq(queue, Taken + 1, Len(queue))
<1>1. /\ rest \in Seq(Thread) /\ Len(rest) = Len(queue) - Taken
      /\ \A i \in 1..Len(rest) : rest[i] = queue[i + Taken]
      /\ Len(queue) \in Nat /\ Taken \in 0..Len(queue)
  <2>1. queue \in Seq(Thread) /\ Len(queue) \in Nat
    BY TakenRange
  <2>2. PICK k \in 0..Len(queue) : k = Taken
    BY TakenRange
  <2> DEFINE r == SubSeq(queue, k + 1, Len(queue))
  <2>3. /\ r \in Seq(Thread) /\ Len(r) = Len(queue) - k
        /\ \A i \in 1..(Len(queue) - k) : r[i] = queue[i + k]
    BY <2>1
  <2> QED BY <2>1, <2>2, <2>3
<1>2. \A i \in 1..Len(rest) : i + Taken \in 1..Len(queue) /\ i + Taken > Taken
  BY <1>1
<1>3. Waiting = BatchesBy(call, rest)
  BY TakenRange
<1> HIDE DEF rest
<1>4. /\ Waiting \in Seq(BatchCalls)
      /\ \A c : c \in Range(Waiting) <=>
              c \in BatchCalls /\ \E i \in 1..Len(rest) : call[rest[i]] = c
  BY <1>1, <1>3, BatchesOf
<1>5. ASSUME NEW c \in Range(Waiting)
      PROVE  \E i \in 1..Len(queue) : i > Taken /\ call[queue[i]] = c
  <2>1. PICK i \in 1..Len(rest) : call[rest[i]] = c
    BY <1>4
  <2> QED BY <1>1, <1>2, <2>1
<1> QED BY <1>4, <1>5

\* Steps that WriteOrder does not see.
LEMMA NobodySees ==
  ASSUME UNCHANGED <<queue, call, Taken, log, durable>>,
         \A c \in BatchCalls : answer'[c] = answer[c]
  PROVE  UNCHANGED Order!orderVars
<1>1. Waiting' = Waiting
  BY DEF Waiting, Batches
<1>2. WriteAnswers' = WriteAnswers
  BY DEF WriteAnswers
<1> QED BY <1>1, <1>2 DEF Order!orderVars

\* Two parts of a sequence put together are the whole, and apart they are the
\* parts.
LEMMA PartsApart ==
  ASSUME NEW S, NEW a \in Seq(S), NEW b \in Seq(S)
  PROVE  /\ a \o b \in Seq(S) /\ Len(a \o b) = Len(a) + Len(b)
         /\ SubSeq(a \o b, 1, Len(a)) = a
         /\ SubSeq(a \o b, Len(a) + 1, Len(a \o b)) = b
<1> DEFINE c == a \o b
           x == SubSeq(c, 1, Len(a))
           y == SubSeq(c, Len(a) + 1, Len(a) + Len(b))
<1>1. Len(a) \in Nat /\ Len(b) \in Nat
  OBVIOUS
<1>2. /\ c \in Seq(S) /\ Len(c) = Len(a) + Len(b)
      /\ \A i \in 1..(Len(a) + Len(b)) :
           c[i] = IF i <= Len(a) THEN a[i] ELSE b[i - Len(a)]
  BY ConcatProperties
<1> HIDE DEF c
<1>3. /\ x \in Seq(S) /\ Len(x) = Len(a)
      /\ \A i \in 1..Len(a) : x[i] = c[i]
  BY <1>1, <1>2
<1>4. /\ y \in Seq(S) /\ Len(y) = Len(b)
      /\ \A i \in 1..Len(b) : y[i] = c[i + Len(a)]
  BY <1>1, <1>2
<1>5. \A i \in 1..Len(a) : x[i] = a[i]
  BY <1>1, <1>2, <1>3
<1>6. \A i \in 1..Len(b) : y[i] = b[i]
  <2> SUFFICES ASSUME NEW i \in 1..Len(b) PROVE y[i] = b[i]
    OBVIOUS
  <2>1. /\ i + Len(a) \in 1..(Len(a) + Len(b)) /\ ~(i + Len(a) <= Len(a))
        /\ (i + Len(a)) - Len(a) = i
    BY <1>1
  <2> QED BY <1>2, <1>4, <2>1
<1> HIDE DEF x, y
<1>7. x = a
  BY <1>3, <1>5, SeqEqual
<1>8. y = b
  BY <1>4, <1>6, SeqEqual
<1> QED BY <1>2, <1>7, <1>8 DEF c, x, y

\* A sequence is its front and its rest.
LEMMA PartsTogether ==
  ASSUME NEW S, NEW q \in Seq(S), NEW n \in 0..Len(q)
  PROVE  /\ SubSeq(q, 1, n) \in Seq(S) /\ SubSeq(q, n + 1, Len(q)) \in Seq(S)
         /\ q = SubSeq(q, 1, n) \o SubSeq(q, n + 1, Len(q))
<1>1. Len(q) \in Nat /\ SubSeq(q, 1, Len(q)) = q
  OBVIOUS
<1>2. 1 \in 1..(Len(q) + 1) /\ n \in (1 - 1)..Len(q) /\ Len(q) \in n..Len(q)
  BY <1>1
<1>3. SubSeq(q, 1, n) \o SubSeq(q, n + 1, Len(q)) = SubSeq(q, 1, Len(q))
  BY <1>2, ConcatAdjacentSubSeq
<1>4. SubSeq(q, 1, n) \in Seq(S) /\ SubSeq(q, n + 1, Len(q)) \in Seq(S)
  BY <1>1
<1> QED BY <1>1, <1>3, <1>4

\* The head has carried out the front of the queue, or gives it up.
LEMMA FrontGoes ==
  ASSUME WriteInv, NEW n \in 1..Len(queue), Taken = 0, Taken' = n,
         UNCHANGED <<queue, call, answer>>,
         log' \in {log, log \o Batches(SubSeq(queue, 1, n))},
         durable' \in durable..Len(log'),
         call[queue[1]] \in BatchCalls \/ UNCHANGED <<log, durable>>
  PROVE  [Order!OrderNext]_(Order!orderVars)
<1>1. queue \in Seq(Thread) /\ Len(queue) \in Nat /\ n \in 0..Len(queue)
  BY TakenRange
<1> DEFINE q1 == SubSeq(queue, 1, n)
           q2 == SubSeq(queue, n + 1, Len(queue))
           front == BatchesBy(call, q1)
           rest == BatchesBy(call, q2)
<1>2. q1 \in Seq(Thread) /\ q2 \in Seq(Thread) /\ queue = q1 \o q2
  BY <1>1, PartsTogether
<1>3. Len(q1) = n /\ q1[1] = queue[1]
  BY <1>1
<1>4. SubSeq(queue, 1, Len(queue)) = queue /\ Taken + 1 = 1
  BY <1>1
<1>5. Waiting = BatchesBy(call, queue)
  <2>1. Waiting = BatchesBy(call, SubSeq(queue, Taken + 1, Len(queue)))
    BY TakenRange
  <2> QED BY <1>4, <2>1
<1>6. Waiting' = rest
  BY BatchesAre DEF Waiting, Batches, BatchesBy, PlacesBy
<1>7. log' \in {log, log \o front}
  BY BatchesAre
<1> HIDE DEF q1, q2
<1>8. /\ front \in Seq(BatchCalls) /\ rest \in Seq(BatchCalls)
      /\ call[queue[1]] \in BatchCalls => call[queue[1]] \in Range(front)
  <2>1. \A c : c \in Range(front) <=>
          c \in BatchCalls /\ \E i \in 1..Len(q1) : call[q1[i]] = c
    BY <1>2, BatchesOf
  <2> QED BY <1>1, <1>2, <1>3, <2>1, BatchesOf
<1>9. Waiting = front \o rest
  BY <1>2, <1>5, BatchesConcat
<1> HIDE DEF front, rest
<1>10. WriteAnswers' = WriteAnswers
  BY DEF WriteAnswers
<1>11. log \in Seq(BatchCalls)
  BY DEF WriteInv, TypeOK
<1>12. CASE front = <<>>
  <2>1. Waiting' = Waiting
    BY <1>6, <1>8, <1>9, <1>12
  <2>2. UNCHANGED <<log, durable>>
    BY <1>8, <1>12 DEF Range
  <2> QED BY <1>10, <2>1, <2>2 DEF Order!orderVars
<1>13. CASE front # <<>>
  <2>1. PICK k : k = Len(front)
    OBVIOUS
  <2>2. /\ Waiting \in Seq(BatchCalls) /\ Len(Waiting) = k + Len(rest)
        /\ SubSeq(Waiting, 1, k) = front
        /\ SubSeq(Waiting, k + 1, Len(Waiting)) = rest
    BY <1>8, <1>9, <2>1, PartsApart
  <2>3. k \in 1..Len(Waiting)
    BY <1>8, <1>13, <2>1, <2>2
  <2>4. Order!TakeGroup(k)
    BY <1>6, <1>7, <1>10, <2>2 DEF Order!TakeGroup
  <2> QED BY <2>3, <2>4 DEF Order!OrderNext
<1> QED BY <1>12, <1>13

\* WriteOrder has the same notions of sequences.
LEMMA OrderWords ==
  \A f : Order!Range(f) = Range(f) /\ (Order!IsInjective(f) <=> IsInjective(f))
BY DEF Order!Range, Range, Order!IsInjective, IsInjective

\* A call is answered that does not wait, by what became of its batch.
LEMMA CallAnswered ==
  ASSUME WriteInv, NEW t \in Thread, pc[t] # "idle",
         Return({t}, IF failed[t] THEN "error" ELSE "ok"),
         UNCHANGED <<Waiting, log, durable>>, call[t] \notin Range(Waiting),
         ~failed[t] => Kept(call[t])
  PROVE  [Order!OrderNext]_(Order!orderVars)
<1>1. PICK p \in {"idle", "written"} :
        /\ p = "idle" <=> call[t] \in BatchCalls \/ failed[t]
        /\ answer' = [c \in Call |-> IF p = "idle" /\ c = call[t]
                        THEN IF failed[t] THEN "error" ELSE "ok" ELSE answer[c]]
  BY ReturnAnswers
<1>2. BatchCalls \subseteq Call
  BY QueueAssumption DEF Call
<1>3. CASE call[t] \notin BatchCalls
  <2>1. \A c \in BatchCalls : answer'[c] = answer[c]
    BY <1>1, <1>2, <1>3
  <2>2. WriteAnswers' = WriteAnswers
    BY <2>1 DEF WriteAnswers
  <2> QED BY <2>2 DEF Order!orderVars
<1>4. CASE call[t] \in BatchCalls
  <2>1. PICK cs : cs = {call[t]}
    OBVIOUS
  <2>2. PICK status \in {"ok", "error"} : status = IF failed[t] THEN "error" ELSE "ok"
    OBVIOUS
  <2>3. WriteAnswers' = [c \in BatchCalls |->
                           IF c \in cs THEN status ELSE WriteAnswers[c]]
    BY <1>1, <1>2, <1>4, <2>1, <2>2 DEF WriteAnswers
  <2>4. status = "ok" =>
          /\ cs \subseteq Range(log)
          /\ cs \cap SyncCalls \subseteq Range(SubSeq(log, 1, durable))
    BY <1>4, <2>1, <2>2 DEF Kept
  <2>5. \A c \in cs : WriteAnswers[c] = "none"
    BY <1>4, <2>1 DEF WriteAnswers, WriteInv, CallsInv
  <2>6. cs \subseteq BatchCalls \ Range(Waiting) /\ cs \in SUBSET BatchCalls
    BY <1>4, <2>1
  <2>7. \E s \in {"ok", "error"} :
          /\ s = "ok" => /\ cs \subseteq Range(log)
                         /\ cs \cap SyncCalls \subseteq Range(SubSeq(log, 1, durable))
          /\ WriteAnswers' = [c \in BatchCalls |-> IF c \in cs THEN s ELSE WriteAnswers[c]]
    BY <2>3, <2>4
  <2>8. Order!Answer(cs)
    BY <2>5, <2>6, <2>7, OrderWords DEF Order!Answer
  <2> QED BY <2>6, <2>8 DEF Order!OrderNext
<1> QED BY <1>3, <1>4

\* Nobody else has the call of a writer.
LEMMA OwnCall ==
  ASSUME WriteInv, NEW t \in Thread, pc[t] # "idle",
         \A i \in 1..Len(queue) : i > Taken => queue[i] # t
  PROVE  call[t] \notin Range(Waiting)
<1> SUFFICES ASSUME call[t] \in Range(Waiting) PROVE FALSE
  OBVIOUS
<1>1. PICK i \in 1..Len(queue) : i > Taken /\ call[queue[i]] = call[t]
  BY WaitingWho
<1>2. queue[i] \in Thread /\ queue[i] # t
  BY <1>1, TakenRange
<1>3. pc[queue[i]] # "idle"
  BY DEF WriteInv, CallsInv, Busy
<1> QED BY <1>1, <1>2, <1>3 DEF WriteInv, CallsInv

LEMMA FinishOrders ==
  ASSUME WriteInv, QueueInv', NEW t \in Thread, Finish(t)
  PROVE  [Order!OrderNext]_(Order!orderVars)
<1>1. /\ queue \in Seq(Thread) /\ Len(queue) \in Nat /\ queue[1] = t
      /\ End \in 1..Len(queue) /\ End \in Nat
      /\ queue' = SubSeq(queue, End + 1, Len(queue))
      /\ pc[t] = "finish" /\ UNCHANGED <<call, logVars, memVars, calls>>
      /\ Return({t}, IF failed[t] THEN "error" ELSE "ok")
  BY FinishTakes
<1>2. PICK p \in {"idle", "written"} : pc' = [pc EXCEPT ![t] = p]
  BY <1>1, ReturnAnswers
<1>3. Taken = End
  BY <1>1, TakenIs DEF WriteInv, Busy
<1>4. Taken' = 0
  <2>1. \A u \in Thread : pc'[u] \notin Busy
    BY <1>1, <1>2, OthersIdle DEF WriteInv, TypeOK, Busy
  <2> QED BY <2>1, TakenIsNext
<1>5. Waiting' = BatchesBy(call, queue')
  <2>1. PICK q \in Seq(Thread) : q = queue'
    BY DEF QueueInv
  <2>2. SubSeq(q, 1, Len(q)) = q
    OBVIOUS
  <2>3. Waiting' = BatchesBy(call, SubSeq(q, 1, Len(q)))
    BY <1>1, <1>4, <2>1 DEF Waiting, Batches, BatchesBy, PlacesBy
  <2> QED BY <2>1, <2>2, <2>3
<1>6. Waiting' = Waiting
  BY <1>1, <1>3, <1>5, TakenRange
<1>7. \A i \in 1..Len(queue) : i > Taken => queue[i] # t
  <2> SUFFICES ASSUME NEW i \in 1..Len(queue), i > Taken PROVE queue[i] # t
    OBVIOUS
  <2>1. i \in 2..Len(queue)
    BY <1>1, <1>3
  <2>2. Head(queue) = t
    BY <1>1 DEF WriteInv, QueueInv, Busy
  <2> QED BY <2>1, <2>2, FollowersWait
<1>8. call[t] \notin Range(Waiting)
  BY <1>1, <1>7, OwnCall
<1> QED BY <1>1, <1>6, <1>8, HeadKept, CallAnswered DEF logVars

\* A call comes behind those that wait.
LEMMA WriteOrders ==
  ASSUME WriteInv, QueueInv', NEW t \in Thread, Write(t)
  PROVE  [Order!OrderNext]_(Order!orderVars)
<1>1. /\ queue' = Append(queue, t) /\ call' = [call EXCEPT ![t] = calls + 1]
      /\ pc[t] = "idle" /\ calls + 1 \in Call
      /\ UNCHANGED <<lastWriter, log, durable, answer>>
  BY QueueAssumption DEF Write, WriteInv, TypeOK, Call, logVars
<1>2. /\ queue \in Seq(Thread) /\ Len(queue) \in Nat /\ Taken \in 0..Len(queue)
      /\ Waiting = BatchesBy(call, SubSeq(queue, Taken + 1, Len(queue)))
  BY TakenRange
<1>3. \A i \in 1..Len(queue) : queue[i] \in Thread /\ queue[i] # t
  <2>1. \A i \in 1..Len(queue) : queue[i] # t
    BY <1>1 DEF WriteInv, CallsInv, Busy
  <2> QED BY <1>2, <2>1
<1>4. Taken' = Taken
  <2>1. CASE queue = <<>>
    <3>1. pc'[t] = "room"
      BY <2>1 DEF Write, NobodyAhead, WriteInv, TypeOK
    <3>2. Taken' = 0
      BY <3>1, TakenIsNext DEF Busy
    <3> QED BY <2>1, <3>2 DEF Taken
  <2>2. CASE queue # <<>>
    <3>1. PICK u \in Thread : u = queue[1] /\ u = Head(queue) /\ u # t
      BY <1>2, <1>3, <2>2
    <3>2. Head(queue') = u /\ queue' # <<>>
      BY <1>1, <1>2, <2>2, <3>1, Behind
    <3>3. pc'[u] = pc[u]
      BY <3>1 DEF Write, WriteInv, TypeOK
    <3>4. CASE pc[u] \in {"logged", "unsynced", "finish"}
      <4>1. End' = End
        BY <3>4, EndStays DEF Grouped
      <4>2. Taken = End /\ Taken' = End'
        BY <3>3, <3>4, TakenIs, TakenIsNext DEF WriteInv, Busy
      <4> QED BY <4>1, <4>2
    <3>5. CASE pc[u] \notin {"logged", "unsynced", "finish"}
      BY <3>1, <3>2, <3>3, <3>5 DEF Taken
    <3> QED BY <3>4, <3>5
  <2> QED BY <2>1, <2>2
<1>5. PICK k \in 0..Len(queue) : k = Taken
  BY <1>2
<1> DEFINE rest == SubSeq(queue, k + 1, Len(queue))
           one == <<t>>
<1>6. SubSeq(queue', k + 1, Len(queue')) = rest \o one
  <2> DEFINE front == SubSeq(queue, 1, k)
             back == rest \o one
  <2>1. /\ front \in Seq(Thread) /\ rest \in Seq(Thread)
        /\ queue = front \o rest
    BY <1>2, PartsTogether
  <2>2. Len(front) = k /\ one \in Seq(Thread)
    BY <1>2
  <2>3. Append(queue, t) = queue \o one
    BY <1>2, AppendIsConcat
  <2> HIDE DEF front, rest, one
  <2>4. back \in Seq(Thread) /\ queue' = front \o back
    BY <1>1, <2>1, <2>2, <2>3, ConcatAssociative, ConcatProperties
  <2> HIDE DEF back
  <2>5. SubSeq(front \o back, Len(front) + 1, Len(front \o back)) = back
    BY <2>1, <2>4, PartsApart
  <2> QED BY <2>2, <2>4, <2>5 DEF back
<1>7. /\ rest \in Seq(Thread) /\ one \in Seq(Thread)
      /\ Len(one) = 1 /\ DOMAIN one = {1} /\ one[1] = t
      /\ \A i \in 1..Len(rest) : rest[i] \in Thread /\ rest[i] # t
  <2>1. rest \in Seq(Thread) /\ one \in Seq(Thread) /\ Len(rest) = Len(queue) - k
    BY <1>2
  <2>2. \A i \in 1..Len(rest) : rest[i] = queue[i + k] /\ i + k \in 1..Len(queue)
    BY <1>2
  <2> QED BY <1>3, <2>1, <2>2
<1>8. Waiting' = BatchesBy(call', rest \o one)
  BY <1>4, <1>5, <1>6 DEF Waiting, Batches, BatchesBy, PlacesBy
<1> HIDE DEF rest
<1>9. BatchesBy(call', rest) = Waiting
  <2>1. \A i \in 1..Len(rest) : call'[rest[i]] = call[rest[i]]
    BY <1>1, <1>7 DEF WriteInv, TypeOK
  <2>2. BatchesBy(call', rest) = BatchesBy(call, rest)
    BY <1>7, <2>1, BatchesSame
  <2> QED BY <1>2, <1>5, <2>2 DEF rest
<1>10. PICK f, b : f = call' /\ b = BatchesBy(f, one)
  OBVIOUS
<1> HIDE DEF one
<1>11. Waiting' = Waiting \o b
  <2>1. BatchesBy(f, rest \o one) = BatchesBy(f, rest) \o BatchesBy(f, one)
    BY <1>7, BatchesConcat
  <2> QED BY <1>8, <1>9, <1>10, <2>1
<1>12. call'[t] = calls + 1 /\ Waiting \in Seq(BatchCalls)
  BY <1>1, WaitingWho DEF WriteInv, TypeOK
<1>13. WriteAnswers' = WriteAnswers
  BY <1>1 DEF WriteAnswers
<1>14. CASE calls + 1 \notin BatchCalls
  <2>1. b = <<>>
    <3>1. /\ b \in Seq(BatchCalls) /\ Len(b) = Cardinality(PlacesBy(f, one))
      BY <1>7, <1>10, BatchesOf
    <3>2. PlacesBy(f, one) = {}
      BY <1>7, <1>10, <1>12, <1>14 DEF PlacesBy
    <3>3. Len(b) = 0
      BY <3>1, <3>2, FS_EmptySet
    <3> QED BY <3>1, <3>3
  <2> QED BY <1>1, <1>11, <1>12, <1>13, <2>1 DEF Order!orderVars
<1>15. CASE calls + 1 \in BatchCalls
  <2>1. b = <<calls + 1>>
    <3>1. /\ b \in Seq(BatchCalls) /\ Len(b) = Cardinality(PlacesBy(f, one))
          /\ \A c : c \in Range(b) <=>
                c \in BatchCalls /\ \E i \in 1..Len(one) : f[one[i]] = c
      BY <1>7, <1>10, BatchesOf
    <3>2. PlacesBy(f, one) = {1}
      BY <1>7, <1>10, <1>12, <1>15 DEF PlacesBy
    <3>3. Len(b) = 1
      BY <3>1, <3>2, FS_Singleton
    <3>4. b[1] = calls + 1
      <4>1. b[1] \in Range(b)
        BY <3>1, <3>3 DEF Range
      <4> QED BY <1>7, <1>10, <1>12, <3>1, <4>1
    <3> QED BY <3>1, <3>3, <3>4
  <2>2. Waiting' = Append(Waiting, calls + 1)
    <3>1. Append(Waiting, calls + 1) = Waiting \o <<calls + 1>>
      BY <1>12, <1>15, AppendIsConcat
    <3> QED BY <1>11, <2>1, <3>1
  <2>3. calls + 1 \notin Range(log)
    <3>1. calls \in Nat /\ log \in Seq(BatchCalls)
      BY DEF WriteInv, TypeOK
    <3>2. \A i \in 1..Len(log) : log[i] <= calls
      BY DEF WriteInv, CallsInv
    <3>3. \A i \in 1..Len(log) : log[i] # calls + 1
      BY <3>1, <3>2
    <3> QED BY <3>1, <3>3, Elements
  <2>4. calls + 1 \notin Range(Waiting)
    <3> SUFFICES ASSUME calls + 1 \in Range(Waiting) PROVE FALSE
      OBVIOUS
    <3>1. PICK i \in 1..Len(queue) : call[queue[i]] = calls + 1
      BY WaitingWho
    <3>2. pc[queue[i]] # "idle" /\ queue[i] \in Thread
      BY <1>3 DEF WriteInv, CallsInv, Busy
    <3> QED BY <3>1, <3>2 DEF WriteInv, CallsInv, TypeOK
  <2>5. WriteAnswers[calls + 1] = "none"
    BY <1>1, <1>15 DEF WriteAnswers, WriteInv, CallsInv, TypeOK
  <2>6. Order!Enqueue(calls + 1)
    BY <1>1, <1>13, <2>2, <2>3, <2>4, <2>5, OrderWords DEF Order!Enqueue
  <2> QED BY <1>15, <2>6 DEF Order!OrderNext
<1> QED BY <1>14, <1>15

\* Who is woken either returns, answered as its group was, or is the head.
LEMMA WakeOrders ==
  ASSUME WriteInv, QueueInv', NEW t \in Thread, Wake(t)
  PROVE  [Order!OrderNext]_(Order!orderVars)
<1>1. /\ pc[t] = "queued" /\ UNCHANGED <<queue, call, lastWriter, log, durable>>
  BY DEF Wake, logVars
<1>2. PICK p \in {"idle", "written", "room"} :
        pc' = [pc EXCEPT ![t] = p] /\ (p = "room" <=> ~done[t])
  <2>1. CASE done[t]
    <3>1. Return({t}, IF failed[t] THEN "error" ELSE "ok")
      BY <2>1 DEF Wake
    <3> QED BY <2>1, <3>1, ReturnAnswers
  <2>2. CASE ~done[t]
    BY <2>2 DEF Wake
  <2> QED BY <2>1, <2>2
<1>3. Taken' = Taken
  <2>1. \A u \in Thread : pc'[u] = IF u = t THEN p ELSE pc[u]
    BY <1>2 DEF WriteInv, TypeOK
  <2>2. ASSUME queue # <<>>
        PROVE  pc[Head(queue)] \in {"logged", "unsynced", "finish"}
                 <=> pc'[Head(queue)] \in {"logged", "unsynced", "finish"}
    <3>1. Head(queue) \in Thread
      BY <2>2 DEF WriteInv, TypeOK
    <3> QED BY <1>1, <2>1, <3>1
  <2> QED BY <1>1, <2>2 DEF Taken
<1>4. CASE ~done[t]
  <2>1. answer' = answer
    BY <1>4 DEF Wake
  <2> QED BY <1>1, <1>3, <2>1, NobodySees
<1>5. CASE done[t]
  <2>1. Return({t}, IF failed[t] THEN "error" ELSE "ok")
    BY <1>5 DEF Wake
  <2>2. Waiting' = Waiting
    BY <1>1, <1>3 DEF Waiting, Batches
  <2>3. \A i \in 1..Len(queue) : queue[i] # t
    BY <1>5 DEF WriteInv, CallsInv
  <2>4. call[t] \notin Range(Waiting)
    BY <1>1, <2>3, OwnCall
  <2>5. ~failed[t] => Kept(call[t])
    BY <1>1, <1>5 DEF WriteInv, GroupInv, Prepared
  <2> QED BY <1>1, <2>1, <2>2, <2>4, <2>5, CallAnswered
<1> QED BY <1>4, <1>5

\* The head fails, or has nothing to log: it alone leaves the queue.
LEMMA HeadGoes ==
  ASSUME WriteInv, QueueInv', NEW t \in Thread, pc[t] = "room",
         pc' = [pc EXCEPT ![t] = "finish"], lastWriter' = t,
         UNCHANGED <<queue, call, log, durable, answer>>
  PROVE  [Order!OrderNext]_(Order!orderVars)
<1>1. queue \in Seq(Thread) /\ queue # <<>> /\ Head(queue) = t /\ IsInjective(queue)
  BY DEF WriteInv, TypeOK, QueueInv, Busy
<1>2. 1 \in 1..Len(queue) /\ queue[1] = t
  BY <1>1
<1>3. End' = 1
  BY <1>1, <1>2, EndIs DEF End
<1>4. Taken = 0
  BY TakenIs DEF WriteInv, Busy
<1>5. pc'[t] = "finish"
  BY DEF WriteInv, TypeOK
<1>6. Taken' = 1
  BY <1>3, <1>5, TakenIsNext DEF Busy
<1>7. durable' \in durable..Len(log')
  BY DEF WriteInv, TypeOK
<1> QED BY <1>2, <1>4, <1>6, <1>7, FrontGoes

\* The batches of the group go to the log, or fail to.
LEMMA LogOrders ==
  ASSUME WriteInv, QueueInv', NEW t \in Thread,
         LogGroup(t) \/ AddRecordFails(t) \/ SyncFails(t)
  PROVE  [Order!OrderNext]_(Order!orderVars)
<1>1. /\ pc[t] = "logging" /\ UNCHANGED <<queue, lastWriter, call, answer>>
      /\ log' \in {log, log \o group}
  BY DEF LogGroup, AddRecordFails, SyncFails, clientVars
<1>2. durable' \in durable..Len(log')
  <2>1. /\ log \in Seq(BatchCalls) /\ group \in Seq(BatchCalls)
        /\ durable \in 0..Len(log)
    BY DEF WriteInv, TypeOK
  <2>2. Len(log) <= Len(log \o group) /\ Len(log \o group) \in Nat /\ Len(log) \in Nat
    BY <2>1
  <2>3. PICK m \in Nat : m = Len(log') /\ Len(log) <= m
    BY <1>1, <2>2
  <2>4. durable' = m \/ durable' = durable
    BY <2>3 DEF LogGroup, AddRecordFails, SyncFails
  <2> QED BY <2>1, <2>2, <2>3, <2>4
<1>3. PICK n \in 1..Len(queue) : n = End
  BY <1>1, GroupTaken DEF Grouped
<1>4. group = Batches(SubSeq(queue, 1, n)) /\ call[queue[1]] \in BatchCalls
  <2>1. call[t] \in BatchCalls
    BY <1>1 DEF WriteInv, CallsInv
  <2>2. queue[1] = t
    BY <1>1, GroupTaken DEF Grouped
  <2> QED BY <1>1, <1>3, <2>1, <2>2 DEF WriteInv, GroupInv, Prepared
<1>5. Taken = 0
  BY <1>1, TakenIs DEF WriteInv, Busy
<1>6. pc'[t] \in {"logged", "unsynced"}
  BY DEF LogGroup, AddRecordFails, SyncFails, WriteInv, TypeOK
<1>7. End' = End
  BY <1>1 DEF End
<1>8. Taken' = n
  BY <1>3, <1>6, <1>7, TakenIsNext DEF Busy
<1> QED BY <1>1, <1>2, <1>4, <1>5, <1>8, FrontGoes

\* The head goes on, and the group is where it was.
LEMMA HeadOrders ==
  ASSUME WriteInv, QueueInv', NEW t \in Thread,
         \/ SlowDown(t) \/ EndDelay(t) \/ Stall(t) \/ EndStall(t) \/ Relock(t)
         \/ BuildBatchGroup(t) /\ call[t] \in BatchCalls
  PROVE  UNCHANGED Order!orderVars
<1>1. UNCHANGED <<queue, call, log, durable, answer>>
  BY DEF SlowDown, EndDelay, Stall, EndStall, Relock, BuildBatchGroup, logVars, clientVars
<1>2. Taken' = Taken
  <2>1. CASE Relock(t)
    <3>1. /\ pc[t] \in {"logged", "unsynced"} /\ pc'[t] = "finish"
          /\ lastWriter' = lastWriter
      BY <2>1 DEF Relock, WriteInv, TypeOK
    <3>2. Taken = End
      BY <3>1, TakenIs DEF WriteInv, Busy
    <3>3. Taken' = End'
      BY <3>1, TakenIsNext DEF Busy
    <3> QED BY <1>1, <3>1, <3>2, <3>3 DEF End
  <2>2. CASE ~Relock(t)
    <3>1. /\ pc[t] \in {"room", "delayed", "stalled"}
          /\ pc'[t] \in {"room", "delayed", "stalled", "logging"}
      BY <2>2 DEF SlowDown, EndDelay, Stall, EndStall, BuildBatchGroup, InRoom,
                  WriteInv, TypeOK
    <3>2. Taken = 0
      BY <3>1, TakenIs DEF WriteInv, Busy
    <3>3. Taken' = 0
      BY <3>1, TakenIsNext DEF Busy
    <3> QED BY <3>2, <3>3
  <2> QED BY <2>1, <2>2
<1> QED BY <1>1, <1>2, NobodySees

\* Who waits for the memtable has no batch.
LEMMA CompactOrders ==
  ASSUME WriteInv, NEW t \in Thread, CompactMemTableWaits(t)
  PROVE  UNCHANGED Order!orderVars
<1>1. /\ pc[t] \in {"written", "flushing"}
      /\ UNCHANGED <<queue, call, lastWriter, log, durable>>
  BY DEF CompactMemTableWaits, logVars
<1>2. call[t] \notin BatchCalls
  BY <1>1 DEF WriteInv, CallsInv
<1>3. \A c \in BatchCalls : answer'[c] = answer[c]
  BY <1>2, QueueAssumption DEF CompactMemTableWaits, WriteInv, TypeOK, Call
<1>4. Taken' = Taken
  <2>1. PICK p \in {"idle", "flushing"} : pc' = [pc EXCEPT ![t] = p]
    BY DEF CompactMemTableWaits
  <2>2. \A u \in Thread : pc'[u] = IF u = t THEN p ELSE pc[u]
    BY <2>1 DEF WriteInv, TypeOK
  <2>3. ASSUME queue # <<>>
        PROVE  pc[Head(queue)] \in {"logged", "unsynced", "finish"}
                 <=> pc'[Head(queue)] \in {"logged", "unsynced", "finish"}
    <3>1. Head(queue) \in Thread
      BY <2>3 DEF WriteInv, TypeOK
    <3> QED BY <1>1, <2>2, <3>1
  <2> QED BY <1>1, <2>3 DEF Taken
<1> QED BY <1>1, <1>3, <1>4, NobodySees

LEMMA StepsOrder ==
  ASSUME WriteInv, [Next]_vars
  PROVE  [Order!OrderNext]_(Order!orderVars)
<1>1. QueueInv'
  BY QueueHolds DEF WriteInv
<1>2. CASE UNCHANGED vars
  <2>1. UNCHANGED <<queue, pc, call, lastWriter, log, durable, answer>>
    BY <1>2 DEF vars, queueVars, logVars, clientVars
  <2> QED BY <2>1, NobodySees DEF Taken
<1>3. CASE BackgroundThread
  <2>1. UNCHANGED <<queue, pc, call, lastWriter, log, durable, answer>>
    BY <1>3, BackgroundLeaves DEF queueVars, logVars, clientVars
  <2> QED BY <2>1, NobodySees DEF Taken
<1>4. ASSUME NEW t \in Thread, SwitchMemTable(t)
      PROVE  UNCHANGED Order!orderVars
  <2>1. UNCHANGED <<queue, pc, call, lastWriter, log, durable, answer>>
    BY <1>4 DEF SwitchMemTable, logVars, clientVars
  <2> QED BY <2>1, NobodySees DEF Taken
<1>5. ASSUME NEW t \in Thread,
             \/ RoomFails(t) \/ NewLogFails(t)
             \/ BuildBatchGroup(t) /\ call[t] \notin BatchCalls
      PROVE  [Order!OrderNext]_(Order!orderVars)
  <2>1. /\ pc[t] = "room" /\ pc' = [pc EXCEPT ![t] = "finish"] /\ lastWriter' = t
        /\ UNCHANGED <<queue, call, log, durable, answer>>
    BY <1>5 DEF RoomFails, NewLogFails, BuildBatchGroup, InRoom, logVars, clientVars
  <2> QED BY <1>1, <2>1, HeadGoes
<1>6. ASSUME NEW t \in Thread, Caller(t)
      PROVE  [Order!OrderNext]_(Order!orderVars)
  BY <1>1, <1>4, <1>5, <1>6, WakeOrders, LogOrders, HeadOrders, FinishOrders,
     CompactOrders
  DEF Caller
<1> QED BY <1>1, <1>2, <1>3, <1>6, WriteOrders DEF Next

\* However threads, groups and failures interleave, the writes reach the log as
\* if each were alone: in the order of the queue, each once, and each answered
\* by what became of it (DBImpl::Write; WriteOrder).
THEOREM InOrder == Spec => WritesInOrder
<1>1. Init => Order!OrderInit
  <2> SUFFICES ASSUME Init PROVE Order!OrderInit
    OBVIOUS
  <2>1. queue = <<>> /\ log = <<>> /\ durable = 0 /\ Taken = 0
    BY DEF Init, Taken
  <2>2. WriteInv
    BY InitWrites
  <2>3. Waiting = <<>>
    <3>1. Waiting \in Seq(BatchCalls) /\ Range(Waiting) = {}
      BY <2>1, <2>2, WaitingWho
    <3>2. \A i \in 1..Len(Waiting) : Waiting[i] \in Range(Waiting)
      BY <3>1 DEF Range
    <3>3. Len(Waiting) = 0
      BY <3>1, <3>2
    <3> QED BY <3>1, <3>3
  <2>4. WriteAnswers = [c \in BatchCalls |-> "none"]
    BY QueueAssumption DEF Init, WriteAnswers, Call
  <2> QED BY <2>1, <2>3, <2>4 DEF Order!OrderInit
<1>2. WriteInv /\ [Next]_vars => [Order!OrderNext]_(Order!orderVars)
  BY StepsOrder
<1> QED BY <1>1, <1>2, Invariance, PTL DEF Spec, WritesInOrder, Order!OrderSpec

-----------------------------------------------------------------------------
(* What WriteOrder promises, and so the threads that implement it *)

OrderInv ==
  /\ Waiting \in Seq(BatchCalls) /\ log \in Seq(BatchCalls)
  /\ durable \in 0..Len(log)
  /\ WriteAnswers \in [BatchCalls -> {"none", "ok", "error"}]
  /\ Order!Acknowledged /\ Order!OnceEach

LEMMA OnceIs ==
  /\ Order!OnceEach <=> /\ IsInjective(log) /\ IsInjective(Waiting)
                        /\ Range(log) \cap Range(Waiting) = {}
  /\ Order!OnceEach' <=> /\ IsInjective(log') /\ IsInjective(Waiting')
                         /\ Range(log') \cap Range(Waiting') = {}
BY OrderWords DEF Order!OnceEach

\* Two sequences have nothing in common.
LEMMA Apart ==
  ASSUME NEW S, NEW s \in Seq(S), NEW r \in Seq(S)
  PROVE  Range(s) \cap Range(r) = {} <=>
           \A i \in 1..Len(s), j \in 1..Len(r) : s[i] # r[j]
<1>1. /\ \A x : x \in Range(s) <=> \E i \in 1..Len(s) : s[i] = x
      /\ \A x : x \in Range(r) <=> \E i \in 1..Len(r) : r[i] = x
  BY Elements
<1> QED BY <1>1

\* One more at the end, that is new to both.
LEMMA AppendApart ==
  ASSUME NEW S, NEW l \in Seq(S), NEW w \in Seq(S), NEW c \in S,
         IsInjective(w), Range(l) \cap Range(w) = {},
         c \notin Range(l) \cup Range(w)
  PROVE  IsInjective(Append(w, c)) /\ Range(l) \cap Range(Append(w, c)) = {}
<1> DEFINE a == Append(w, c)
<1>1. /\ a \in Seq(S) /\ Len(a) = Len(w) + 1 /\ a[Len(w) + 1] = c
      /\ \A i \in 1..Len(w) : a[i] = w[i]
      /\ Len(w) \in Nat
  OBVIOUS
<1>2. /\ \A i \in 1..Len(l) : l[i] # c
      /\ \A i \in 1..Len(w) : w[i] # c
      /\ \A i \in 1..Len(l), j \in 1..Len(w) : l[i] # w[j]
      /\ \A i, j \in 1..Len(w) : w[i] = w[j] => i = j
  BY Elements, Apart
<1> HIDE DEF a
<1>3. \A i \in 1..Len(a) : (i \in 1..Len(w) /\ a[i] = w[i])
                             \/ (i = Len(w) + 1 /\ a[i] = c)
  BY <1>1
<1>4. \A i, j \in 1..Len(a) : a[i] = a[j] => i = j
  BY <1>2, <1>3
<1>5. \A i \in 1..Len(l), j \in 1..Len(a) : l[i] # a[j]
  BY <1>2, <1>3
<1> QED BY <1>1, <1>4, <1>5, Elements, Apart DEF a

\* The front part of w moves behind l.
LEMMA MoveApart ==
  ASSUME NEW S, NEW l \in Seq(S), NEW w \in Seq(S), NEW n \in 1..Len(w),
         IsInjective(l), IsInjective(w), Range(l) \cap Range(w) = {}
  PROVE  LET front == SubSeq(w, 1, n)
             rest == SubSeq(w, n + 1, Len(w))
         IN  /\ rest \in Seq(S) /\ l \o front \in Seq(S)
             /\ Len(l) <= Len(l \o front)
             /\ \A i \in 1..Len(l) : (l \o front)[i] = l[i]
             /\ IsInjective(rest) /\ IsInjective(l \o front)
             /\ Range(l) \cap Range(rest) = {}
             /\ Range(l \o front) \cap Range(rest) = {}
<1> DEFINE front == SubSeq(w, 1, n)
           rest == SubSeq(w, n + 1, Len(w))
           both == l \o front
<1>1. /\ front \in Seq(S) /\ Len(front) = n
      /\ \A i \in 1..n : front[i] = w[i]
      /\ rest \in Seq(S) /\ Len(rest) = Len(w) - n
      /\ \A i \in 1..Len(rest) : rest[i] = w[i + n]
      /\ Len(w) \in Nat /\ Len(l) \in Nat /\ n \in Nat /\ n <= Len(w)
  OBVIOUS
<1> HIDE DEF front, rest
<1>2. /\ both \in Seq(S) /\ Len(both) = Len(l) + n
      /\ \A i \in 1..Len(l) : both[i] = l[i]
      /\ \A i \in 1..Len(both) : i > Len(l) => both[i] = front[i - Len(l)]
  <2>1. both \in Seq(S) /\ Len(both) = Len(l) + n
    BY <1>1, ConcatProperties
  <2>2. \A i \in 1..(Len(l) + n) :
          both[i] = IF i <= Len(l) THEN l[i] ELSE front[i - Len(l)]
    BY <1>1
  <2> HIDE DEF both
  <2>3. ASSUME NEW i \in 1..Len(l) PROVE both[i] = l[i]
    <3>1. i \in 1..(Len(l) + n) /\ i <= Len(l)
      BY <1>1
    <3> QED BY <2>2, <3>1
  <2>4. ASSUME NEW i \in 1..Len(both), i > Len(l)
        PROVE  both[i] = front[i - Len(l)]
    <3>1. i \in 1..(Len(l) + n) /\ ~(i <= Len(l))
      BY <1>1, <2>1, <2>4
    <3> QED BY <2>2, <3>1
  <2> QED BY <2>1, <2>3, <2>4
<1> HIDE DEF both
<1>3. /\ \A i, j \in 1..Len(l) : l[i] = l[j] => i = j
      /\ \A i, j \in 1..Len(w) : w[i] = w[j] => i = j
      /\ \A i \in 1..Len(l), j \in 1..Len(w) : l[i] # w[j]
  BY Elements, Apart
<1>4. \A j \in 1..Len(rest) :
        j + n \in 1..Len(w) /\ rest[j] = w[j + n] /\ j + n > n /\ j \in Nat
  BY <1>1
<1>5. ASSUME NEW i \in 1..Len(both)
      PROVE  \/ i \in 1..Len(l) /\ both[i] = l[i]
             \/ /\ i - Len(l) \in 1..Len(w) /\ i - Len(l) <= n
                /\ both[i] = w[i - Len(l)]
  <2>1. CASE i <= Len(l)
    <3>1. i \in 1..Len(l)
      BY <1>1, <1>2, <2>1
    <3> QED BY <1>2, <3>1
  <2>2. CASE i > Len(l)
    <3>1. i - Len(l) \in 1..n /\ i - Len(l) \in 1..Len(w)
      BY <1>1, <1>2, <2>2
    <3> QED BY <1>1, <1>2, <2>2, <3>1
  <2> QED BY <1>1, <2>1, <2>2
<1>6. \A i, j \in 1..Len(rest) : rest[i] = rest[j] => i = j
  <2> SUFFICES ASSUME NEW i \in 1..Len(rest), NEW j \in 1..Len(rest),
                      rest[i] = rest[j]
               PROVE  i = j
    OBVIOUS
  <2>1. i + n = j + n
    BY <1>3, <1>4
  <2> QED BY <1>1, <1>4, <2>1
<1>7. \A i, j \in 1..Len(both) : both[i] = both[j] => i = j
  <2> SUFFICES ASSUME NEW i \in 1..Len(both), NEW j \in 1..Len(both),
                      both[i] = both[j]
               PROVE  i = j
    OBVIOUS
  <2>1. CASE i \in 1..Len(l)
    BY <1>3, <1>5, <2>1
  <2>2. CASE i \notin 1..Len(l)
    <3>1. j \notin 1..Len(l)
      BY <1>3, <1>5, <2>2
    <3>2. i - Len(l) = j - Len(l)
      BY <1>3, <1>5, <2>2, <3>1
    <3> QED BY <1>1, <1>2, <3>2
  <2> QED BY <2>1, <2>2
<1>8. \A i \in 1..Len(l), j \in 1..Len(rest) : l[i] # rest[j]
  BY <1>3, <1>4
<1>9. \A i \in 1..Len(both), j \in 1..Len(rest) : both[i] # rest[j]
  <2> SUFFICES ASSUME NEW i \in 1..Len(both), NEW j \in 1..Len(rest),
                      both[i] = rest[j]
               PROVE  FALSE
    OBVIOUS
  <2>1. j + n \in 1..Len(w) /\ both[i] = w[j + n] /\ j + n > n
    BY <1>4
  <2>2. CASE i \in 1..Len(l)
    BY <1>3, <1>5, <2>1, <2>2
  <2>3. CASE i \notin 1..Len(l)
    <3>1. i - Len(l) = j + n /\ i - Len(l) <= n
      BY <1>3, <1>5, <2>1, <2>3
    <3> QED BY <1>1, <1>4, <3>1
  <2> QED BY <2>2, <2>3
<1>10. IsInjective(rest) /\ IsInjective(both)
  BY <1>1, <1>2, <1>6, <1>7, Elements
<1>11. /\ Range(l) \cap Range(rest) = {}
       /\ Range(both) \cap Range(rest) = {}
  BY <1>1, <1>2, <1>8, <1>9, Apart
<1>12. Len(l) <= Len(both)
  BY <1>1, <1>2
<1> QED BY <1>1, <1>2, <1>10, <1>11, <1>12 DEF front, rest, both

\* A log that grows and of which more becomes durable keeps its promises.
LEMMA GrowingKeeps ==
  ASSUME OrderInv, log' \in Seq(BatchCalls), Len(log) <= Len(log'),
         \A i \in 1..Len(log) : log'[i] = log[i],
         durable' \in durable..Len(log'), WriteAnswers' = WriteAnswers
  PROVE  Order!Acknowledged'
<1> SUFFICES ASSUME NEW c \in BatchCalls, WriteAnswers[c] = "ok"
             PROVE  \E i \in 1..Len(log') :
                      log'[i] = c /\ (c \in SyncCalls => i <= durable')
  BY DEF Order!Acknowledged
<1>1. PICK i \in 1..Len(log) : log[i] = c /\ (c \in SyncCalls => i <= durable)
  BY DEF OrderInv, Order!Acknowledged
<1>2. /\ Len(log) \in Nat /\ Len(log') \in Nat
      /\ durable \in Nat /\ durable' \in Nat /\ durable <= durable'
  BY DEF OrderInv
<1>3. i \in 1..Len(log') /\ log'[i] = c /\ (c \in SyncCalls => i <= durable')
  BY <1>1, <1>2
<1> QED BY <1>3

LEMMA EnqueueKeeps ==
  ASSUME OrderInv, NEW c \in BatchCalls, Order!Enqueue(c)
  PROVE  OrderInv'
<1>1. /\ Waiting' = Append(Waiting, c) /\ UNCHANGED <<log, durable, WriteAnswers>>
      /\ c \notin Range(Waiting) \cup Range(log)
  BY OrderWords DEF Order!Enqueue
<1>2. Order!OnceEach'
  BY <1>1, AppendApart, OnceIs DEF OrderInv
<1>3. Order!Acknowledged'
  BY <1>1 DEF OrderInv, Order!Acknowledged
<1> QED BY <1>1, <1>2, <1>3 DEF OrderInv

LEMMA TakeGroupKeeps ==
  ASSUME OrderInv, NEW n \in 1..Len(Waiting), Order!TakeGroup(n)
  PROVE  OrderInv'
<1> DEFINE both == log \o SubSeq(Waiting, 1, n)
<1>1. /\ Waiting' = SubSeq(Waiting, n + 1, Len(Waiting))
      /\ log' \in {log, both} /\ WriteAnswers' = WriteAnswers
      /\ durable' \in durable..Len(log')
  BY DEF Order!TakeGroup
<1>2. /\ Waiting' \in Seq(BatchCalls) /\ both \in Seq(BatchCalls)
      /\ Len(log) <= Len(both) /\ \A i \in 1..Len(log) : both[i] = log[i]
      /\ IsInjective(Waiting') /\ IsInjective(both)
      /\ Range(log) \cap Range(Waiting') = {}
      /\ Range(both) \cap Range(Waiting') = {}
  BY <1>1, MoveApart, OnceIs DEF OrderInv
<1> HIDE DEF both
<1>3. Order!OnceEach'
  BY <1>1, <1>2, OnceIs DEF OrderInv
<1>4. /\ log' \in Seq(BatchCalls) /\ Len(log) <= Len(log')
      /\ \A i \in 1..Len(log) : log'[i] = log[i]
      /\ Len(log') \in Nat
  BY <1>1, <1>2 DEF OrderInv
<1>5. Order!Acknowledged'
  BY <1>1, <1>4, GrowingKeeps
<1>6. durable' \in 0..Len(log')
  BY <1>1, <1>4 DEF OrderInv
<1> QED BY <1>1, <1>2, <1>3, <1>4, <1>5, <1>6 DEF OrderInv

LEMMA AnswerKeeps ==
  ASSUME OrderInv, NEW cs \in SUBSET BatchCalls, Order!Answer(cs)
  PROVE  OrderInv'
<1>1. PICK status \in {"ok", "error"} :
        /\ status = "ok" =>
             /\ cs \subseteq Range(log)
             /\ cs \cap SyncCalls \subseteq Range(SubSeq(log, 1, durable))
        /\ WriteAnswers' = [c \in BatchCalls |-> IF c \in cs THEN status ELSE WriteAnswers[c]]
  BY OrderWords DEF Order!Answer
<1>2. UNCHANGED <<Waiting, log, durable>>
  BY DEF Order!Answer
<1>3. log \in Seq(BatchCalls) /\ durable \in 0..Len(log) /\ Len(log) \in Nat
  BY DEF OrderInv
<1>4. ASSUME NEW c \in cs, status = "ok"
      PROVE  \E i \in 1..Len(log) : log[i] = c /\ (c \in SyncCalls => i <= durable)
  <2>1. CASE c \notin SyncCalls
    BY <1>1, <1>3, <1>4, <2>1 DEF Range
  <2>2. CASE c \in SyncCalls
    <3> DEFINE front == SubSeq(log, 1, durable)
    <3>1. /\ DOMAIN front = 1..durable
          /\ \A i \in 1..durable : front[i] = log[i]
      BY <1>3
    <3>2. c \in Range(front)
      BY <1>1, <1>4, <2>2
    <3> HIDE DEF front
    <3>3. PICK i \in 1..durable : log[i] = c
      BY <3>1, <3>2 DEF Range
    <3> QED BY <1>3, <3>3
  <2> QED BY <2>1, <2>2
<1>5. Order!Acknowledged'
  BY <1>1, <1>2, <1>4 DEF OrderInv, Order!Acknowledged
<1> QED BY <1>1, <1>2, <1>5, OnceIs DEF OrderInv

LEMMA OrderHolds == ASSUME OrderInv, [Order!OrderNext]_(Order!orderVars) PROVE OrderInv'
<1>1. CASE UNCHANGED Order!orderVars
  BY <1>1, OnceIs DEF Order!orderVars, OrderInv, Order!Acknowledged
<1> QED
  BY <1>1, EnqueueKeeps, TakeGroupKeeps, AnswerKeeps DEF Order!OrderNext

LEMMA OrderStarts == Order!OrderInit => OrderInv
BY OnceIs DEF Order!OrderInit, OrderInv, Order!Acknowledged, IsInjective, Range

\* However callers, groups and failures interleave: who was told "ok" is in the
\* log, and on the medium if it asked for a sync (DB::Write, WriteOptions::sync).
THEOREM AnsweredIsKept == Spec => []Order!Acknowledged
<1>1. OrderInv => Order!Acknowledged
  BY DEF OrderInv
<1> QED
  BY <1>1, InOrder, OrderStarts, OrderHolds, PTL DEF WritesInOrder, Order!OrderSpec

\* No write is carried out twice, or carried out and still waiting
\* (BuildBatchGroup, last_writer).
THEOREM EachOnce == Spec => []Order!OnceEach
<1>1. OrderInv => Order!OnceEach
  BY DEF OrderInv
<1> QED
  BY <1>1, InOrder, OrderStarts, OrderHolds, PTL DEF WritesInOrder, Order!OrderSpec
=============================================================================
