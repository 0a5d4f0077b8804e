---------------------------- MODULE SessionProofs ----------------------------
(***************************************************************************)
(* Proofs about Session, for any number of phones, commands, pictures and  *)
(* places, any listens of the phones, and any connections that may be      *)
(* lost: its types, that no command is lost, that it delivers commands as  *)
(* CommandDelivery says, and where the room comes to rest.                 *)
(***************************************************************************)
EXTENDS Session, SyncProofs

-----------------------------------------------------------------------------
(* The names of the room *)

\* The presses are apart from the settings, and everything has its place in
\* the room.
LEMMA RoomNames ==
  /\ Mac \in Client /\ Remote \subseteq Client /\ Mac \notin Remote
  /\ \A c \in Client : c = Mac \/ c \in Remote
  /\ Press \subseteq Leaf /\ Setting \subseteq Leaf
  /\ \A p \in Leaf : p \in Press \/ p = "url" \/ p = "wants" \/ p = "coord"
  /\ \A p \in Press : p # "url" /\ p # "wants" /\ p # "coord" /\ p # "settings"
PROOF
  BY RoomAssumption DEF RoomLeaf, Setting

LEMMA RoomValues ==
  /\ None \notin Value /\ Keep \notin Value /\ None # Keep
  /\ Action \subseteq Value /\ "true" \in Value /\ "false" \in Value /\ Off \in Value
  /\ Point \subseteq Value /\ Address \subseteq Value
  /\ FirstUrl \in Address /\ Range(Urls) \subseteq Address
  /\ \A job \in Block : job.kind # "event"
PROOF
  BY RoomAssumption, SyncAssumption DEF RoomValue, Address

LEMMA PressesFinite == IsFiniteSet(Press)
PROOF
  <1>1. PressIds \in Seq(Press)
    BY RoomAssumption
  <1>2. Len(PressIds) \in Nat /\ DOMAIN PressIds = 1..Len(PressIds)
    BY <1>1
  <1>3. IsFiniteSet(1..Len(PressIds))
    BY <1>2, FS_Interval
  <1>4. PressIds \in Surjection(1..Len(PressIds), Press)
    BY <1>1, <1>2 DEF Surjection, Press, Range
  <1> QED
    BY <1>3, <1>4, FS_Surjection

-----------------------------------------------------------------------------
(* The loop of the listener *)

LEMMA IntervalFinite == \A n \in Nat : IsFiniteSet(1..n) /\ Cardinality(1..n) = n
PROOF
  <1> SUFFICES ASSUME NEW n \in Nat PROVE IsFiniteSet(1..n) /\ Cardinality(1..n) = n
    OBVIOUS
  <1>1. 1 \in Int /\ n \in Int
    OBVIOUS
  <1> QED
    BY <1>1, FS_Interval

\* Nth counts through a set of places: every number leads to a place, and
\* every place has a number.
LEMMA NthCounts ==
  ASSUME NEW n \in Nat, NEW S \in SUBSET (1..n)
  PROVE  /\ Cardinality(S) \in Nat
         /\ \A k \in 1..Cardinality(S) : Nth(S, k) \in S
         /\ \A i \in S : \E k \in 1..Cardinality(S) : Nth(S, k) = i
PROOF
  <1> DEFINE Below(i) == {j \in S : j <= i}
             rank == [i \in S |-> Cardinality(Below(i))]
             N == Cardinality(S)
  <1>1. IsFiniteSet(S) /\ N \in Nat
    BY IntervalFinite, FS_Subset, FS_CardinalityType
  <1>2. \A i \in S : IsFiniteSet(Below(i)) /\ Cardinality(Below(i)) \in Nat /\ Cardinality(Below(i)) <= N
    <2> SUFFICES ASSUME NEW i \in S
                 PROVE  IsFiniteSet(Below(i)) /\ Cardinality(Below(i)) \in Nat /\ Cardinality(Below(i)) <= N
      OBVIOUS
    <2>1. Below(i) \in SUBSET S
      OBVIOUS
    <2> QED
      BY <1>1, <2>1, FS_Subset, FS_CardinalityType
  <1>3. ASSUME NEW i \in S PROVE Cardinality(Below(i)) # 0
    <2>1. i \in Below(i)
      OBVIOUS
    <2> QED
      BY <2>1, <1>2, FS_EmptySet
  <1>4. rank \in [S -> 1..N]
    <2>1. ASSUME NEW i \in S PROVE Cardinality(Below(i)) \in 1..N
      BY <1>1, <1>2, <1>3
    <2> QED
      BY <2>1
  <1>5. ASSUME NEW i \in S, NEW j \in S, i < j PROVE rank[i] # rank[j]
    <2>1. \A x \in S : x <= i => x <= j
      BY <1>5
    <2>2. j <= j /\ ~ (j <= i)
      BY <1>5
    <2>3. Below(i) \in SUBSET Below(j)
      BY <2>1, Zenon
    <2>4. j \in Below(j) /\ j \notin Below(i)
      BY <2>2, Zenon
    <2>5. Cardinality(Below(i)) # Cardinality(Below(j))
      BY <1>2, <2>3, <2>4, FS_Subset
    <2> QED
      BY <2>5
  <1>6. \A i, j \in S : rank[i] = rank[j] => i = j
    <2>1. \A i, j \in S : i = j \/ i < j \/ j < i
      OBVIOUS
    <2> QED
      BY <1>5, <2>1
  <1>7. rank \in Injection(S, 1..N)
    BY <1>4, <1>6 DEF Injection, IsInjective
  <1>8. IsFiniteSet(1..N) /\ Cardinality(1..N) = Cardinality(S)
    BY <1>1, IntervalFinite
  <1>9. rank \in Surjection(S, 1..N)
    BY <1>7, <1>8, FS_Injection
  <1>10. \A k \in 1..N : \E i \in S : rank[i] = k
    BY <1>9 DEF Surjection
  <1>11. \A k \in 1..N : Nth(S, k) \in S /\ rank[Nth(S, k)] = k
    BY <1>10 DEF Nth
  <1> HIDE DEF rank, N
  <1>12. ASSUME NEW i \in S PROVE \E k \in 1..N : Nth(S, k) = i
    <2>1. rank[i] \in 1..N
      BY <1>4
    <2>2. Nth(S, rank[i]) \in S /\ rank[Nth(S, rank[i])] = rank[i]
      BY <1>11, <2>1
    <2> QED
      BY <1>6, <2>1, <2>2
  <1> QED
    BY <1>1, <1>11, <1>12 DEF N

LEMMA LoopOrder ==
  ASSUME NEW tree, NEW order \in Orders(tree)
  PROVE  /\ order \in Seq(Children(tree)) /\ Children(tree) \subseteq Press \cup {"settings"}
         /\ Len(order) \in Nat /\ DOMAIN order = 1..Len(order)
         /\ \A i \in DOMAIN order : order[i] \in Children(tree)
PROOF
  <1>1. {p \in Press : tree[p] # None} \in SUBSET Press
    OBVIOUS
  <1>2. IsFiniteSet(Press) /\ IsFiniteSet({"settings"}) /\ IsFiniteSet({})
    BY PressesFinite, FS_Singleton, FS_EmptySet
  <1>3. IsFiniteSet(Children(tree)) /\ Children(tree) \subseteq Press \cup {"settings"}
    BY <1>1, <1>2, FS_Subset, FS_Union DEF Children
  <1> DEFINE n == Cardinality(Children(tree))
  <1>4. n \in Nat
    BY <1>3, FS_CardinalityType
  <1>5. order \in [1..n -> Children(tree)]
    BY DEF Orders, Bijection, Injection
  <1> HIDE DEF n
  <1>6. order \in Seq(Children(tree)) /\ Len(order) = n /\ DOMAIN order = 1..n
    BY <1>4, <1>5
  <1> QED
    BY <1>3, <1>4, <1>5, <1>6

LEMMA LoopReach ==
  ASSUME NEW tree, NEW order \in Orders(tree)
  PROVE  Reached(order, tree) \in 0..Len(order)
PROOF
  <1> DEFINE S == {i \in DOMAIN order : \A j \in 1..i : order[j] # "settings"}
  <1>1. Len(order) \in Nat /\ S \in SUBSET (1..Len(order))
    BY LoopOrder
  <1>2. Cardinality(S) \in Nat /\ Cardinality(S) <= Len(order)
    BY <1>1, IntervalFinite, FS_Subset, FS_CardinalityType
  <1> QED
    BY <1>1, <1>2 DEF Reached

\* The commands the loop comes by, the blackout among them.
Passed(order, tree) == {p \in Press : \E i \in 1..Reached(order, tree) : order[i] = p}

LEMMA PassedPresent ==
  ASSUME NEW tree, NEW order \in Orders(tree), NEW p \in Passed(order, tree)
  PROVE  p \in Press /\ tree[p] # None
PROOF
  <1>1. p \in Press /\ p \in Children(tree)
    BY LoopOrder, LoopReach DEF Passed
  <1> QED
    BY <1>1, RoomNames DEF Children

\* What the loop writes are writes, which take back the request or remove one
\* command it came by.
LEMMA LoopWritesPlain ==
  ASSUME NEW tree, NEW order \in Orders(tree)
  PROVE  /\ LoopWrites(order, tree) \in Seq(Write)
         /\ \A write \in Range(LoopWrites(order, tree)) :
              \/ write = SetWants("false")
              \/ \E p \in Passed(order, tree) : write = Remove(p)
PROOF
  <1> DEFINE n == Reached(order, tree)
             ws == LoopWrites(order, tree)
  <1>1. n \in Nat /\ n <= Len(order) /\ Len(order) \in Nat
    BY LoopReach, LoopOrder
  <1>2. /\ DOMAIN ws = 1..n
        /\ \A i \in 1..n : \/ order[i] = "settings" /\ ws[i] = SetWants("false")
                           \/ order[i] # "settings" /\ ws[i] = Remove(order[i])
    BY DEF LoopWrites
  <1>3. \A i \in 1..n : order[i] = "settings" \/ order[i] \in Passed(order, tree)
    BY <1>1, LoopOrder DEF Passed
  <1>4. SetWants("false") \in Write
    BY RoomValues DEF SetWants, NoWrite, Write, Content
  <1>5. \A p \in Press : Remove(p) \in Write
    BY DEF Remove, NoWrite, Write, Content
  <1>6. Passed(order, tree) \subseteq Press
    BY DEF Passed
  <1> HIDE DEF ws, n
  <1>7. \A i \in 1..n : \/ ws[i] = SetWants("false")
                        \/ \E p \in Passed(order, tree) : ws[i] = Remove(p)
    BY <1>2, <1>3, Zenon
  <1>8. \A i \in 1..n : ws[i] \in Write
    BY <1>4, <1>5, <1>6, <1>7
  <1>9. ws = [i \in 1..n |-> ws[i]]
    BY <1>2 DEF ws, n, LoopWrites
  <1>10. ws \in Seq(Write)
    BY <1>1, <1>8, <1>9, IsASeq
  <1> QED
    BY <1>2, <1>7, <1>10, Zenon DEF ws, Range

\* The blocks the loop leaves carry out the commands it came by, but for the
\* blackout, all of them and no other.
LEMMA LoopBlocksPlain ==
  ASSUME NEW tree \in Tree, NEW order \in Orders(tree),
         \A p \in Press : tree[p] \in Action \cup {None}
  PROVE  /\ LoopBlocks(order, tree) \in Seq(MacBlock)
         /\ \A i \in DOMAIN LoopBlocks(order, tree) :
              /\ LoopBlocks(order, tree)[i].kind = "perform"
              /\ LoopBlocks(order, tree)[i].press \in Passed(order, tree)
         /\ \A p \in Passed(order, tree) :
              \/ p \in Switched(order, tree)
              \/ \E i \in DOMAIN LoopBlocks(order, tree) :
                   LoopBlocks(order, tree)[i].press = p
PROOF
  <1> DEFINE D == Deferred(order, tree)
             N == Cardinality(D)
             bs == LoopBlocks(order, tree)
             n == Reached(order, tree)
  <1>1. n \in Nat /\ n <= Len(order) /\ Len(order) \in Nat
    BY LoopReach, LoopOrder
  <1>2. D \in SUBSET (1..n)
    BY DEF Deferred
  <1>3. /\ N \in Nat
        /\ \A k \in 1..N : Nth(D, k) \in D
        /\ \A i \in D : \E k \in 1..N : Nth(D, k) = i
    BY <1>1, <1>2, NthCounts
  <1>4. /\ DOMAIN bs = 1..N
        /\ bs = [k \in 1..N |-> bs[k]]
        /\ \A k \in 1..N : bs[k] = Perform(order[Nth(D, k)], tree[order[Nth(D, k)]])
    BY DEF LoopBlocks, Blocks
  <1>5. \A i \in D : /\ order[i] \in Passed(order, tree)
                     /\ order[i] \in Press
                     /\ tree[order[i]] \in Action \ {"blank"}
    <2> SUFFICES ASSUME NEW i \in D
                 PROVE  /\ order[i] \in Passed(order, tree)
                        /\ order[i] \in Press
                        /\ tree[order[i]] \in Action \ {"blank"}
      OBVIOUS
    <2>1. order[i] \in Press /\ tree[order[i]] # "blank" /\ i \in 1..n
      BY DEF Deferred
    <2>2. order[i] \in Passed(order, tree)
      BY <2>1 DEF Passed
    <2> QED
      BY <2>1, <2>2, PassedPresent
  <1>6. \A p \in Passed(order, tree) : p \in Switched(order, tree) \/ \E i \in D : order[i] = p
    BY DEF Passed, Switched, Deferred
  <1> HIDE DEF D, N, bs, n
  <1>7. \A k \in 1..N : bs[k] \in MacBlock
    BY <1>3, <1>4, <1>5 DEF Perform, MacBlock
  <1>8. \A k \in 1..N : bs[k].kind = "perform" /\ bs[k].press = order[Nth(D, k)]
    BY <1>4 DEF Perform
  <1>9. bs \in Seq(MacBlock)
    BY <1>3, <1>4, <1>7, IsASeq
  <1>10. \A k \in 1..N : bs[k].press \in Passed(order, tree)
    BY <1>3, <1>5, <1>8, Zenon
  <1>11. ASSUME NEW p \in Passed(order, tree), p \notin Switched(order, tree)
         PROVE  \E k \in 1..N : bs[k].press = p
    <2>1. PICK i \in D : order[i] = p
      BY <1>6, <1>11, Zenon
    <2>2. PICK k \in 1..N : Nth(D, k) = i
      BY <1>3, Zenon
    <2> QED
      BY <1>8, <2>1, <2>2, Zenon
  <1> QED
    BY <1>4, <1>8, <1>9, <1>10, <1>11, Zenon DEF bs

-----------------------------------------------------------------------------
(* The inductive invariant *)

Sent(n) == {PressIds[i] : i \in 1..n}

\* What the leaves may hold when n commands were sent.
Holds(n) ==
  [p \in Leaf |->
     {None} \cup
       (IF p = "url" THEN Address
        ELSE IF p = "wants" THEN {"true", "false"}
        ELSE IF p = "coord" THEN Point \cup {Off}
        ELSE IF p \in Sent(n) THEN Action ELSE {})]

\* The Mac removes a command only if it has taken it, one in a write.
MacWritesOK ==
  \A write \in Writes(Mac) : \A p \in Press :
    write[p] # Keep =>
      /\ write[p] = None /\ Taken(p)
      /\ \A q \in Press : write[q] # Keep => q = p

\* The phones remove nothing, and their main queues hold events only.
PhonesOK ==
  \A r \in Remote :
    /\ \A write \in Writes(r) : \A p \in Press : write[p] # None
    /\ \A job \in Range(mainq[r]) : job.kind = "event"

\* Neither the types nor NoCommandLost is inductive alone: what a callback
\* finds in its tree has passed through the whole library, and a removal in
\* the Mac's queue must be of a command taken already.
SInv ==
  /\ SyncInv /\ MacTypeOK /\ RemoteTypeOK
  /\ Fits(Holds(made))
  /\ MacWritesOK /\ PhonesOK
  /\ Delivery!Accounted

LEMMA HoldsFacts ==
  ASSUME NEW n
  PROVE  /\ \A p \in Leaf : None \in Holds(n)[p]
         /\ Holds(n)["url"] = {None} \cup Address
         /\ Holds(n)["wants"] = {None, "true", "false"}
         /\ Holds(n)["coord"] = {None, Off} \cup Point
         /\ \A p \in Press : Holds(n)[p] = {None} \cup (IF p \in Sent(n) THEN Action ELSE {})
PROOF
  <1>1. "url" \in Leaf /\ "wants" \in Leaf /\ "coord" \in Leaf
    BY RoomNames DEF Setting
  <1> QED
    BY <1>1, RoomNames DEF Holds

LEMMA HoldsMore ==
  ASSUME NEW n, NEW m, Sent(n) \subseteq Sent(m)
  PROVE  \A p \in Leaf : Holds(n)[p] \subseteq Holds(m)[p]
PROOF
  BY DEF Holds

LEMMA MadeSent == MadePress = Sent(made)
PROOF
  BY DEF MadePress, Sent

\* The command is taken, as the jobs on the Mac's queue tell.
LEMMA TakenJobs ==
  \A p : Taken(p) <=> \/ performed[p] > 0
                      \/ \E job \in Range(mainq[Mac]) : job.kind = "perform" /\ job.press = p
PROOF
  BY Zenon DEF Taken, Range

LEMMA TakenJobsNext ==
  \A p : Taken(p)' <=> \/ performed'[p] > 0
                       \/ \E job \in Range(mainq'[Mac]) : job.kind = "perform" /\ job.press = p
PROOF
  BY Zenon DEF Taken, Range

LEMMA UnsentOwing == \A p : Unsent(p) <=> \E r \in Remote : Owing(r, p)
PROOF
  BY Zenon DEF Unsent, Owing

LEMMA UnsentOwingNext == \A p : Unsent(p)' <=> \E r \in Remote : Owing(r, p)'
PROOF
  BY Zenon DEF Unsent, Owing, NextPut

\* The promise keeps account of the commands, whatever it does.
LEMMA DeliveryAccounts ==
  ASSUME Delivery!Accounted, [Delivery!DeliveryNext]_(Delivery!dvars),
         performed \in [Press -> Nat]
  PROVE  Delivery!Accounted'
PROOF
  <1>1. ASSUME NEW p \in Press, Delivery!Submit(p) PROVE Delivery!Accounted'
    BY <1>1 DEF Delivery!Accounted, Delivery!Submit
  <1>2. ASSUME NEW p \in Press, Delivery!CarryOut(p) PROVE Delivery!Accounted'
    BY <1>2 DEF Delivery!Accounted, Delivery!CarryOut
  <1>3. ASSUME NEW p \in Press, Delivery!Close(p) PROVE Delivery!Accounted'
    BY <1>3 DEF Delivery!Accounted, Delivery!Close
  <1>4. ASSUME NEW ps \in SUBSET Press, Delivery!SendAgain(ps) PROVE Delivery!Accounted'
    BY <1>4 DEF Delivery!Accounted, Delivery!SendAgain
  <1>5. ASSUME NEW ps \in SUBSET Press, NEW atOnce \in SUBSET ps, Delivery!Take(ps, atOnce)
        PROVE  Delivery!Accounted'
    BY <1>5 DEF Delivery!Accounted, Delivery!Take
  <1>6. CASE UNCHANGED Delivery!dvars
    BY <1>6 DEF Delivery!Accounted, Delivery!dvars
  <1> QED
    BY <1>1, <1>2, <1>3, <1>4, <1>5, <1>6 DEF Delivery!DeliveryNext

-----------------------------------------------------------------------------
(* The library *)

\* Nothing changes in what the commands are accounted by.
LEMMA Unaccounted ==
  ASSUME MadePress' = MadePress, performed' = performed,
         \A p : Taken(p)' <=> Taken(p),
         \A p \in MadePress : (Unsent(p)' \/ server'[p] # None) <=> (Unsent(p) \/ server[p] # None)
  PROVE  UNCHANGED Delivery!dvars
PROOF
  BY DEF Delivery!dvars

\* The library takes up no command: it puts nothing but events on the main
\* queue of the Mac.
LEMMA LibraryTakes ==
  ASSUME SInv, NEW c \in Client, SyncStep(c), UNCHANGED <<macVars, remoteVars>>
  PROVE  /\ MadePress' = MadePress /\ performed' = performed
         /\ \A p : Taken(p)' <=> Taken(p)
PROOF
  <1>1. made' = made /\ performed' = performed
    BY DEF macVars, remoteVars
  <1>2. MadePress' = MadePress
    BY <1>1 DEF MadePress
  <1>3. CASE mainq'[Mac] = mainq[Mac]
    BY <1>1, <1>2, <1>3, TakenJobs, TakenJobsNext
  <1>4. CASE mainq'[Mac] = Append(mainq[Mac], [kind |-> "event", tree |-> View(Mac)'])
    <2>1. Range(mainq'[Mac]) = Range(mainq[Mac]) \cup {[kind |-> "event", tree |-> View(Mac)']}
      BY <1>4, RangeOfAppend, RoomNames DEF SInv, SyncInv, TypeOK
    <2> QED
      BY <1>1, <1>2, <2>1, TakenJobs, TakenJobsNext
  <1> QED
    BY <1>3, <1>4, JobsStep, RoomNames DEF SInv

\* To the commands the library does nothing, or the server removes one that
\* the Mac has taken, or a phone that was cut off sends what it has no answer
\* for again.
LEMMA LibraryDelivers ==
  ASSUME SInv, NEW c \in Client, SyncStep(c), UNCHANGED <<macVars, remoteVars>>
  PROVE  [Delivery!DeliveryNext]_(Delivery!dvars)
PROOF
  <1>s. SyncInv /\ Mac \in Client /\ Remote \subseteq Client /\ Mac \notin Remote /\ Press \subseteq Leaf
    BY RoomNames DEF SInv
  <1>t. /\ MadePress' = MadePress /\ performed' = performed
        /\ \A p : Taken(p)' <=> Taken(p)
    BY LibraryTakes
  <1>p. MadePress \subseteq Press
    BY DEF SInv, Delivery!Accounted, MadePress, RemoteTypeOK, Press, Range
  <1>w. ASSUME NEW w, w = pending[c][NextPut(c)], w \in Range(pending[c])
        PROVE  w \in Writes(c)
    BY <1>w DEF Writes
  <1>1. CASE ~ServerPut(c) /\ ~Disconnect(c)
    <2>1. server' = server
      BY <1>1, <1>s, ServerStepPuts
    <2>2. \A d \in Remote : \A p \in Press : Owing(d, p)' <=> Owing(d, p)
      BY <1>1, <1>s, OwingStep
    <2> QED
      BY <1>p, <1>t, <2>1, <2>2, Unaccounted, UnsentOwing, UnsentOwingNext
  <1>2. CASE ServerPut(c)
    <2> DEFINE w == pending[c][NextPut(c)]
    <2>1. server' = Apply(server, w) /\ w \in Writes(c) /\ NextPut(c) \in DOMAIN pending[c]
      <3>1. CASE server' # server
        BY <1>s, <1>w, <3>1, ServerStepPuts
      <3>2. NextPut(c) \in DOMAIN pending[c] /\ server' = Apply(server, w)
        <4>1. pending[c] \in Seq(Write) /\ NextPut(c) \in 1..Len(pending[c])
          BY <1>2, <1>s, NextPutTyped DEF SyncInv, TypeOK
        <4> QED
          BY <1>2, <4>1 DEF ServerPut
      <3>3. w \in Range(pending[c])
        BY <3>2, Zenon DEF Range
      <3> QED
        BY <1>w, <3>2, <3>3
    <2>2. \A p \in Press : server'[p] = IF w[p] = Keep THEN server[p] ELSE w[p]
      BY <1>s, <2>1 DEF Apply
    <2>3. \A d \in Remote : \A p \in Press :
            \/ Owing(d, p)' <=> Owing(d, p)
            \/ d = c /\ Owing(d, p) /\ w[p] # Keep
      BY <1>2, <1>s, PutNotDrop, OwingStep
    <2>4. CASE c \in Remote
      <3>1. \A p \in Press : w[p] # None
        BY <2>1, <2>4 DEF SInv, PhonesOK
      <3>2. \A p \in Press : w[p] # Keep => Owing(c, p)
        <4>1. NextPut(c) >= NextPut(c)
          BY <1>s, c \in Client DEF SyncInv, TypeOK, NextPut
        <4> QED
          BY <2>1, <4>1, Zenon DEF Owing
      <3>3. ASSUME NEW p \in Press
            PROVE  ((\E r \in Remote : Owing(r, p)') \/ server'[p] # None)
                     <=> ((\E r \in Remote : Owing(r, p)) \/ server[p] # None)
        BY <2>2, <2>3, <2>4, <3>1, <3>2
      <3>4. \A p \in MadePress :
              (Unsent(p)' \/ server'[p] # None) <=> (Unsent(p) \/ server[p] # None)
        BY <1>p, <3>3, UnsentOwing, UnsentOwingNext
      <3> QED
        BY <1>t, <3>4, Unaccounted
    <2>5. CASE c = Mac
      <3>1. \A p \in Press : Unsent(p)' <=> Unsent(p)
        BY <2>3, <2>5, <1>s, UnsentOwing, UnsentOwingNext
      <3>2. \A p \in Press : w[p] # Keep =>
              /\ w[p] = None /\ Taken(p)
              /\ \A q \in Press : w[q] # Keep => q = p
        BY <2>1, <2>5 DEF SInv, MacWritesOK
      <3>3. CASE \A p \in Press : w[p] = Keep
        <4>1. \A p \in MadePress : server'[p] = server[p]
          BY <1>p, <2>2, <3>3
        <4> QED
          BY <1>p, <1>t, <3>1, <4>1, Unaccounted
      <3>4. ASSUME NEW p \in Press, w[p] # Keep
            PROVE  UNCHANGED Delivery!dvars \/ Delivery!Close(p)
        <4>1. /\ w[p] = None /\ Taken(p) /\ server'[p] = None
              /\ \A q \in Press : q # p => server'[q] = server[q]
          BY <2>2, <3>2, <3>4
        <4>2. CASE p \in MadePress /\ ~Unsent(p) /\ server[p] # None
          BY <1>p, <1>t, <3>1, <4>1, <4>2 DEF Delivery!Close
        <4>3. CASE ~ (p \in MadePress /\ ~Unsent(p) /\ server[p] # None)
          <5>1. \A q \in MadePress :
                  (Unsent(q)' \/ server'[q] # None) <=> (Unsent(q) \/ server[q] # None)
            BY <1>p, <3>1, <4>1, <4>3
          <5> QED
            BY <1>t, <5>1, Unaccounted
        <4> QED
          BY <4>2, <4>3
      <3> QED
        BY <3>3, <3>4 DEF Delivery!DeliveryNext
    <2> QED
      BY <2>4, <2>5, RoomNames
  <1>3. CASE Disconnect(c)
    <2>1. server' = server /\ ~ServerPut(c)
      BY <1>3, <1>s, PutNotDrop DEF Disconnect
    <2>2. \A d \in Remote : \A p \in Press :
            \/ Owing(d, p)' <=> Owing(d, p)
            \/ d = c /\ (Owing(d, p) => Owing(d, p)')
      BY <1>s, <2>1, OwingStep
    <2>3. CASE c = Mac
      <3>1. \A p \in MadePress : Unsent(p)' <=> Unsent(p)
        BY <1>p, <1>s, <2>2, <2>3, UnsentOwing, UnsentOwingNext
      <3> QED
        BY <1>t, <2>1, <3>1, Unaccounted
    <2>4. CASE c \in Remote
      <3>1. Flaky \cap Remote # {}
        BY <1>3, <2>4 DEF Disconnect
      <3>2. PICK again \in SUBSET Press :
              \A p \in Press : p \in again <=>
                p \in MadePress /\ Unsent(p)' /\ ~Unsent(p) /\ server[p] = None
        <4> DEFINE A == {p \in Press : p \in MadePress /\ Unsent(p)' /\ ~Unsent(p) /\ server[p] = None}
        <4>1. A \in SUBSET Press
          OBVIOUS
        <4> QED
          BY <4>1
      <3>3. again \subseteq {p \in Press : Taken(p)}
        BY <3>2 DEF SInv, Delivery!Accounted
      <3>4. \A p \in MadePress : Unsent(p) => Unsent(p)'
        BY <1>p, <2>2, UnsentOwing, UnsentOwingNext
      <3>5. {p \in MadePress : Unsent(p)' \/ server'[p] # None}
              = {p \in MadePress : Unsent(p) \/ server[p] # None} \cup again
        BY <1>p, <2>1, <3>2, <3>4
      <3>6. Delivery!SendAgain(again)
        BY <1>t, <3>1, <3>3, <3>5 DEF Delivery!SendAgain
      <3> QED
        BY <3>6, Zenon DEF Delivery!DeliveryNext
    <2> QED
      BY <2>3, <2>4, RoomNames
  <1> QED
    BY <1>1, <1>2, <1>3

LEMMA LibraryHolds ==
  ASSUME SInv, NEW c \in Client, SyncStep(c), UNCHANGED <<macVars, remoteVars>>
  PROVE  SInv'
PROOF
  <1>1. SyncInv'
    BY SyncStepHolds DEF SInv
  <1>2. MacTypeOK' /\ RemoteTypeOK' /\ made' = made /\ performed' = performed
    BY DEF SInv, MacTypeOK, RemoteTypeOK, macVars, remoteVars
  <1>3. Fits(Holds(made))'
    <2>1. PICK F : F = Holds(made)
      OBVIOUS
    <2>2. F = Holds(made)' /\ \A p \in Leaf : None \in F[p]
      BY <1>2, <2>1, HoldsFacts DEF Holds, Sent
    <2>3. Fits(F)'
      BY <2>1, <2>2, FitsStep DEF SInv
    <2> QED
      BY <2>2, <2>3
  <1>4. MacWritesOK'
    BY WritesStep, LibraryTakes, RoomNames DEF SInv, MacWritesOK
  <1>5. PhonesOK'
    <2> SUFFICES ASSUME NEW r \in Remote
                 PROVE  /\ \A write \in Writes(r)' : \A p \in Press : write[p] # None
                        /\ \A job \in Range(mainq[r])' : job.kind = "event"
      BY DEF PhonesOK
    <2>1. r \in Client /\ mainq[r] \in Seq(Job)
      BY RoomNames DEF SInv, SyncInv, TypeOK
    <2>2. \A write \in Writes(r)' : \A p \in Press : write[p] # None
      BY <2>1, WritesStep DEF SInv, PhonesOK
    <2>3. CASE mainq'[r] = mainq[r]
      BY <2>2, <2>3 DEF SInv, PhonesOK
    <2>4. CASE mainq'[r] = Append(mainq[r], [kind |-> "event", tree |-> View(r)'])
      <3>1. Range(mainq'[r]) = Range(mainq[r]) \cup {[kind |-> "event", tree |-> View(r)']}
        BY <2>1, <2>4, RangeOfAppend
      <3> QED
        BY <2>2, <3>1 DEF SInv, PhonesOK
    <2> QED
      BY <2>1, <2>3, <2>4, JobsStep DEF SInv
  <1>6. Delivery!Accounted'
    BY LibraryDelivers, DeliveryAccounts DEF SInv, MacTypeOK
  <1> QED
    BY <1>1, <1>2, <1>3, <1>4, <1>5, <1>6 DEF SInv

-----------------------------------------------------------------------------
(* The applications *)

\* What the writes of the room say of the commands, and of the other leaves.
LEMMA WriteFacts ==
  ASSUME NEW F, \A p \in Leaf : None \in F[p]
  PROVE  /\ \A flag \in Value :
              /\ SetWants(flag) \in Write
              /\ \A p \in Press : SetWants(flag)[p] = Keep
              /\ flag \in F["wants"] => FitsWrite(F, SetWants(flag))
         /\ \A url \in Value :
              /\ SetSettings(url) \in Write
              /\ \A p \in Press : SetSettings(url)[p] = Keep
              /\ url \in F["url"] => FitsWrite(F, SetSettings(url))
         /\ \A place \in Value :
              /\ MergeCoord(place) \in Write
              /\ \A p \in Press : MergeCoord(place)[p] = Keep
              /\ place \in F["coord"] => FitsWrite(F, MergeCoord(place))
         /\ \A p \in Press :
              /\ Remove(p) \in Write /\ FitsWrite(F, Remove(p))
              /\ Remove(p)[p] = None /\ \A q \in Press : q # p => Remove(p)[q] = Keep
         /\ \A p \in Press : \A action \in Value :
              /\ SetAction(p, action) \in Write
              /\ SetAction(p, action)[p] = action
              /\ \A q \in Press : q # p => SetAction(p, action)[q] = Keep
              /\ action \in F[p] => FitsWrite(F, SetAction(p, action))
PROOF
  <1>1. /\ "url" \in Leaf /\ "wants" \in Leaf /\ "coord" \in Leaf /\ Press \subseteq Leaf
        /\ \A p \in Press : p # "url" /\ p # "wants" /\ p # "coord"
    BY RoomNames DEF Setting
  <1>2. \A flag \in Value :
              /\ SetWants(flag) \in Write
              /\ \A p \in Press : SetWants(flag)[p] = Keep
              /\ flag \in F["wants"] => FitsWrite(F, SetWants(flag))
    BY <1>1 DEF SetWants, NoWrite, Write, Content, FitsWrite
  <1>3. \A url \in Value :
              /\ SetSettings(url) \in Write
              /\ \A p \in Press : SetSettings(url)[p] = Keep
              /\ url \in F["url"] => FitsWrite(F, SetSettings(url))
    BY <1>1 DEF SetSettings, NoWrite, Write, Content, FitsWrite
  <1>4. \A place \in Value :
              /\ MergeCoord(place) \in Write
              /\ \A p \in Press : MergeCoord(place)[p] = Keep
              /\ place \in F["coord"] => FitsWrite(F, MergeCoord(place))
    BY <1>1 DEF MergeCoord, NoWrite, Write, Content, FitsWrite
  <1>5. \A p \in Press :
              /\ Remove(p) \in Write /\ FitsWrite(F, Remove(p))
              /\ Remove(p)[p] = None /\ \A q \in Press : q # p => Remove(p)[q] = Keep
    BY <1>1 DEF Remove, NoWrite, Write, Content, FitsWrite
  <1>6. \A p \in Press : \A action \in Value :
              /\ SetAction(p, action) \in Write
              /\ SetAction(p, action)[p] = action
              /\ \A q \in Press : q # p => SetAction(p, action)[q] = Keep
              /\ action \in F[p] => FitsWrite(F, SetAction(p, action))
    BY <1>1 DEF SetAction, NoWrite, Write, Content, FitsWrite
  <1> QED
    BY <1>2, <1>3, <1>4, <1>5, <1>6

\* An application dispatches writes, and takes or adds jobs that are no events.
LEMMA ApplicationHolds ==
  ASSUME SInv, NEW c \in Client, NEW ws \in Seq(Write), Dispatch(c, ws),
         UNCHANGED <<serverVars, pending, held, unacked, cache, loaded, online, drops>>,
         mainq' \in [Client -> Seq(Job)],
         Sent(made) \subseteq Sent(made'),
         \A write \in Range(ws) : FitsWrite(Holds(made'), write),
         \A d \in Client : \A job \in Range(mainq'[d]) :
           job \in Range(mainq[d]) \/ (d = Mac /\ job.kind # "event"),
         \A p \in Press : Taken(p) => Taken(p)',
         c # Mac => \A write \in Range(ws) : \A p \in Press : write[p] # None,
         c = Mac => \A write \in Range(ws) : \A p \in Press : write[p] # Keep =>
                      /\ write[p] = None /\ Taken(p)'
                      /\ \A q \in Press : write[q] # Keep => q = p
  PROVE  /\ SyncInv' /\ Fits(Holds(made))' /\ MacWritesOK' /\ PhonesOK'
         /\ server' = server
         /\ \A r \in Remote : \A p :
              Owing(r, p)' <=> \/ Owing(r, p)
                               \/ r = c /\ \E write \in Range(ws) : write[p] # Keep
PROOF
  <1>s. SyncInv /\ TypeOK /\ Mac \in Client /\ Remote \subseteq Client /\ Mac \notin Remote
    BY RoomNames DEF SInv, SyncInv
  <1>1. /\ calls' \in [Client -> Seq(Write)]
        /\ \A d \in Client :
              Writes(d)' = IF d = c THEN Writes(d) \cup Range(ws) ELSE Writes(d)
        /\ \A d \in Client : \A p :
              Owing(d, p)' <=> \/ Owing(d, p)
                               \/ d = c /\ \E write \in Range(ws) : write[p] # Keep
    BY <1>s, DispatchAdds DEF serverVars
  <1>2. SyncInv'
    <2>1. TypeOK'
      BY <1>s, <1>1 DEF TypeOK, serverVars
    <2>2. AcksCounted' /\ StreamExact'
      BY <1>s, ApplicationStepHolds DEF SyncInv, serverVars
    <2> QED
      BY <2>1, <2>2 DEF SyncInv
  <1>3. Fits(Holds(made))'
    <2>1. PICK F : F = Holds(made)
      OBVIOUS
    <2>2. PICK G : G = Holds(made')
      OBVIOUS
    <2>3. \A p \in Leaf : F[p] \subseteq G[p]
      BY <2>1, <2>2, HoldsMore
    <2>4. Fits(F)
      BY <2>1 DEF SInv
    <2>5. Fits(G)
      BY <2>3, <2>4, FitsMore
    <2>6. \A d \in Client : \A write \in Writes(d)' : FitsWrite(G, write)
      BY <1>1, <2>2, <2>5 DEF Fits
    <2>7. \A d \in Client : \A job \in Range(mainq[d])' : FitsJob(G, job)
      BY <2>5 DEF Fits, FitsJob
    <2>8. Fits(G)'
      BY <2>5, <2>6, <2>7 DEF Fits, serverVars
    <2>9. G = Holds(made)'
      BY <2>2 DEF Holds, Sent
    <2> QED
      BY <2>8, <2>9
  <1>4. MacWritesOK'
    BY <1>s, <1>1 DEF SInv, MacWritesOK
  <1>5. PhonesOK'
    <2>1. \A r \in Remote : \A write \in Writes(r)' : \A p \in Press : write[p] # None
      <3> SUFFICES ASSUME NEW r \in Remote, NEW write \in Writes(r)', NEW p \in Press
                   PROVE  write[p] # None
        OBVIOUS
      <3>1. r \in Client /\ r # Mac /\ (write \in Writes(r) \/ (r = c /\ write \in Range(ws)))
        BY <1>s, <1>1
      <3> QED
        BY <3>1 DEF SInv, PhonesOK
    <2>2. \A r \in Remote : \A job \in Range(mainq[r])' : job.kind = "event"
      BY <1>s DEF SInv, PhonesOK
    <2> QED
      BY <2>1, <2>2 DEF PhonesOK
  <1> QED
    BY <1>s, <1>1, <1>2, <1>3, <1>4, <1>5 DEF serverVars

\* An application that writes nothing.
LEMMA NothingWritten ==
  ASSUME SInv, calls' = calls, NEW c \in Client
  PROVE  Dispatch(c, <<>>) /\ <<>> \in Seq(Write) /\ Range(<<>>) = {}
PROOF
  <1>1. calls[c] \in Seq(Write) /\ calls \in [Client -> Seq(Write)]
    BY DEF SInv, SyncInv, TypeOK
  <1>2. calls[c] \o <<>> = calls[c]
    BY <1>1, ConcatEmptySeq
  <1>3. Range(<<>>) = {}
    BY DEF Range
  <1> QED
    BY <1>1, <1>2, <1>3 DEF Dispatch

LEMMA WriteOne == ASSUME NEW write \in Write PROVE <<write>> \in Seq(Write) /\ Range(<<write>>) = {write}
PROOF
  <1>1. DOMAIN <<write>> = {1} /\ <<write>>[1] = write /\ <<write>> \in Seq(Write)
    OBVIOUS
  <1> QED
    BY <1>1, Zenon DEF Range

\* The first job of a main queue, and what is left of the queue.
LEMMA FirstJob ==
  ASSUME SInv, NEW c \in Client, mainq[c] # <<>>
  PROVE  /\ Head(mainq[c]) \in Job /\ Tail(mainq[c]) \in Seq(Job)
         /\ Range(mainq[c]) = {Head(mainq[c])} \cup Range(Tail(mainq[c]))
         /\ Head(mainq[c]).kind = "event" =>
              /\ Head(mainq[c]).tree \in Tree
              /\ FitsTree(Holds(made), Head(mainq[c]).tree)
         /\ Head(mainq[c]).kind # "event" => c = Mac /\ Head(mainq[c]) \in MacBlock
PROOF
  <1>1. mainq[c] \in Seq(Job)
    BY DEF SInv, SyncInv, TypeOK
  <1>2. Head(mainq[c]) \in Job /\ Tail(mainq[c]) \in Seq(Job)
    BY <1>1, HeadTailProperties
  <1>3. Range(mainq[c]) = {Head(mainq[c])} \cup Range(Tail(mainq[c]))
    BY <1>1, RangeOfTail
  <1>4. FitsJob(Holds(made), Head(mainq[c]))
    BY <1>3 DEF SInv, Fits
  <1>5. Head(mainq[c]).kind = "event" => Head(mainq[c]).tree \in Tree
    BY <1>2, RoomValues DEF Job, Event
  <1>6. Head(mainq[c]).kind # "event" => c = Mac /\ Head(mainq[c]) \in MacBlock
    BY <1>2, <1>3, SessionAssumption, RoomNames DEF Job, Event, SInv, PhonesOK
  <1> QED
    BY <1>2, <1>3, <1>4, <1>5, <1>6 DEF FitsJob

\* What a callback finds in its tree.
LEMMA TreeSays ==
  ASSUME SInv, NEW tree, FitsTree(Holds(made), tree)
  PROVE  /\ tree["url"] \in Address \cup {None}
         /\ tree["coord"] \in Point \cup {Off, None}
         /\ \A p \in Press : /\ tree[p] \in Action \cup {None}
                             /\ tree[p] # None => p \in MadePress
PROOF
  <1>1. "url" \in Leaf /\ "coord" \in Leaf /\ Press \subseteq Leaf
    BY RoomNames DEF Setting
  <1> QED
    BY <1>1, HoldsFacts, MadeSent DEF FitsTree

\* The Mac takes up what its loop comes by.
LEMMA MacCallbackHolds ==
  ASSUME SInv, MacCallback, UNCHANGED remoteVars
  PROVE  SInv' /\ [Delivery!DeliveryNext]_(Delivery!dvars)
PROOF
  <1> DEFINE tree == Head(mainq[Mac]).tree
  <1>1. PICK order \in Orders(tree) :
       /\ Dispatch(Mac, LoopWrites(order, tree))
       /\ mainq' = [mainq EXCEPT ![Mac] = Tail(@) \o LoopBlocks(order, tree)]
       /\ uploads' = IF WantsImage(tree) THEN uploads + 1 ELSE uploads
       /\ dot' = DotAt(tree)
       /\ black' = (black # (Cardinality(Switched(order, tree)) % 2 = 1))
       /\ performed' = [p \in Press |->
            IF p \in Switched(order, tree) THEN performed[p] + 1 ELSE performed[p]]
    BY DEF MacCallback
  <1>2. /\ mainq[Mac] # <<>> /\ Head(mainq[Mac]).kind = "event"
        /\ UNCHANGED <<serverVars, pending, held, unacked, cache, loaded, online, drops>>
        /\ UNCHANGED <<timers, stored>>
    BY DEF MacCallback
  <1>s. Mac \in Client /\ mainq \in [Client -> Seq(Job)] /\ performed \in [Press -> Nat]
    BY RoomNames DEF SInv, SyncInv, TypeOK, MacTypeOK
  <1>3. /\ tree \in Tree /\ FitsTree(Holds(made), tree) /\ Tail(mainq[Mac]) \in Seq(Job)
        /\ Range(mainq[Mac]) = {Head(mainq[Mac])} \cup Range(Tail(mainq[Mac]))
    BY <1>2, <1>s, FirstJob
  <1> DEFINE ws == LoopWrites(order, tree)
             bs == LoopBlocks(order, tree)
             ps == Passed(order, tree)
             sw == Switched(order, tree)
  <1>4. /\ tree["coord"] \in Point \cup {Off, None}
        /\ \A p \in Press : /\ tree[p] \in Action \cup {None}
                            /\ tree[p] # None => p \in MadePress
    BY <1>3, TreeSays
  <1>5. /\ ws \in Seq(Write)
        /\ \A write \in Range(ws) : \/ write = SetWants("false")
                                    \/ \E p \in ps : write = Remove(p)
    BY LoopWritesPlain
  <1>6. /\ bs \in Seq(MacBlock)
        /\ \A job \in Range(bs) : job.kind = "perform" /\ job.press \in ps
        /\ \A p \in ps : p \in sw \/ \E job \in Range(bs) : job.press = p
    <2>1. /\ bs \in Seq(MacBlock)
          /\ \A i \in DOMAIN bs : bs[i].kind = "perform" /\ bs[i].press \in ps
          /\ \A p \in ps : p \in sw \/ \E i \in DOMAIN bs : bs[i].press = p
      BY <1>3, <1>4, LoopBlocksPlain
    <2> QED
      BY <2>1, Zenon DEF Range
  <1>7. ps \subseteq MadePress /\ ps \subseteq Press /\ sw \subseteq ps
    <2>1. \A p \in ps : p \in Press /\ tree[p] # None
      BY PassedPresent
    <2>2. sw \subseteq ps
      BY DEF Switched, Passed
    <2> QED
      BY <1>4, <2>1, <2>2
  <1>8. made' = made /\ MadePress' = MadePress
    BY DEF remoteVars, MadePress
  <1>d. dot' \in Point \cup {Off, None}
    BY <1>1, <1>4 DEF DotAt, SInv, MacTypeOK
  <1> HIDE DEF tree, ws, bs, ps, sw
  <1>9. /\ mainq' \in [Client -> Seq(Job)]
        /\ Range(mainq'[Mac]) = Range(Tail(mainq[Mac])) \cup Range(bs)
        /\ \A d \in Client : d # Mac => mainq'[d] = mainq[d]
    <2>1. bs \in Seq(Job)
      BY <1>6, SeqMonotonic, SessionAssumption DEF Job
    <2>2. mainq'[Mac] = Tail(mainq[Mac]) \o bs
      BY <1>1, <1>s DEF bs
    <2>3. Tail(mainq[Mac]) \o bs \in Seq(Job)
      BY <1>3, <2>1, ConcatProperties
    <2>4. Range(Tail(mainq[Mac]) \o bs) = Range(Tail(mainq[Mac])) \cup Range(bs)
      <3>1. \A s \in Seq(Job) : \A t \in Seq(Job) : Range(s \o t) = Range(s) \cup Range(t)
        BY RangeConcatenation
      <3> QED
        BY <1>3, <2>1, <3>1, Zenon
    <2> QED
      BY <1>1, <1>s, <2>2, <2>3, <2>4 DEF bs
  <1>10. performed' = [p \in Press |-> IF p \in sw THEN performed[p] + 1 ELSE performed[p]]
    BY <1>1 DEF sw
  <1>11. ASSUME NEW p \in Press PROVE Taken(p)' <=> (Taken(p) \/ p \in ps)
    <2>1. performed'[p] > 0 <=> (performed[p] > 0 \/ p \in sw)
      BY <1>10, <1>s
    <2>2. Taken(p) <=> \/ performed[p] > 0
                       \/ \E job \in Range(Tail(mainq[Mac])) : job.kind = "perform" /\ job.press = p
      BY <1>2, <1>3, TakenJobs
    <2>3. Taken(p)' <=> \/ performed'[p] > 0
                        \/ \E job \in Range(Tail(mainq[Mac])) : job.kind = "perform" /\ job.press = p
                        \/ \E job \in Range(bs) : job.kind = "perform" /\ job.press = p
      BY <1>9, TakenJobsNext
    <2> QED
      BY <1>6, <1>7, <2>1, <2>2, <2>3
  <1>12. /\ SyncInv' /\ Fits(Holds(made))' /\ MacWritesOK' /\ PhonesOK'
         /\ server' = server
         /\ \A r \in Remote : \A p :
              Owing(r, p)' <=> \/ Owing(r, p)
                               \/ r = Mac /\ \E write \in Range(ws) : write[p] # Keep
    <2>1. \A write \in Range(ws) : FitsWrite(Holds(made'), write)
      <3>1. PICK F : F = Holds(made')
        OBVIOUS
      <3>2. "false" \in F["wants"] /\ (\A p \in Leaf : None \in F[p]) /\ "false" \in Value
        BY <3>1, HoldsFacts, RoomValues
      <3> QED
        BY <1>5, <1>7, <3>1, <3>2, WriteFacts
    <2>2. \A write \in Range(ws) : \A p \in Press : write[p] # Keep =>
                      /\ write[p] = None /\ Taken(p)'
                      /\ \A q \in Press : write[q] # Keep => q = p
      <3> SUFFICES ASSUME NEW write \in Range(ws), NEW p \in Press, write[p] # Keep
                   PROVE  /\ write[p] = None /\ Taken(p)'
                          /\ \A q \in Press : write[q] # Keep => q = p
        OBVIOUS
      <3>0. PICK F : F = [x \in Leaf |-> {None}]
        OBVIOUS
      <3>1. CASE write = SetWants("false")
        BY <3>0, <3>1, WriteFacts, RoomValues
      <3>2. ASSUME NEW o \in ps, write = Remove(o)
            PROVE  /\ write[p] = None /\ Taken(p)'
                   /\ \A q \in Press : write[q] # Keep => q = p
        <4>1. p = o /\ write[p] = None /\ \A q \in Press : write[q] # Keep => q = p
          BY <3>0, <3>2, <1>7, WriteFacts
        <4> QED
          BY <4>1, <1>11
      <3> QED
        BY <1>5, <3>1, <3>2
    <2>3. Dispatch(Mac, ws)
      BY <1>1 DEF ws
    <2>4. \A d \in Client : \A job \in Range(mainq'[d]) :
           job \in Range(mainq[d]) \/ (d = Mac /\ job.kind # "event")
      BY <1>3, <1>6, <1>9
    <2>5. \A p \in Press : Taken(p) => Taken(p)'
      BY <1>11
    <2> QED
      BY <1>2, <1>5, <1>8, <1>9, <1>s, <2>1, <2>2, <2>3, <2>4, <2>5, ApplicationHolds
  <1>13. MacTypeOK'
    <2>1. uploads' \in Nat /\ black' \in BOOLEAN /\ timers' = timers /\ stored' = stored
      BY <1>1, <1>2 DEF SInv, MacTypeOK
    <2>2. performed' \in [Press -> Nat]
      BY <1>10, <1>s
    <2> QED
      BY <1>d, <2>1, <2>2 DEF SInv, MacTypeOK
  <1>14. RemoteTypeOK'
    BY DEF SInv, RemoteTypeOK, remoteVars
  <1>15. Delivery!Take(ps, sw)
    <2>1. \A p \in MadePress : Unsent(p)' <=> Unsent(p)
      BY <1>12, RoomNames, UnsentOwing, UnsentOwingNext
    <2>2. {p \in Press : Taken(p)'} = {p \in Press : Taken(p)} \cup ps
      BY <1>7, <1>11
    <2>3. ps \ {p \in Press : Taken(p)} \subseteq {p \in MadePress : Unsent(p) \/ server[p] # None}
      BY <1>7 DEF SInv, Delivery!Accounted
    <2> QED
      BY <1>8, <1>10, <1>12, <2>1, <2>2, <2>3 DEF Delivery!Take
  <1>16. Delivery!DeliveryNext
    BY <1>7, <1>15, Zenon DEF Delivery!DeliveryNext
  <1>17. Delivery!Accounted'
    BY <1>16, <1>s, DeliveryAccounts DEF SInv
  <1> QED
    BY <1>12, <1>13, <1>14, <1>16, <1>17 DEF SInv

\* A step that neither writes commands, nor takes or carries out any.
LEMMA Passive ==
  ASSUME SInv, made' = made, performed' = performed,
         \A p \in Press : Taken(p)' <=> Taken(p),
         server' = server,
         \A r \in Remote : \A p \in Press : Owing(r, p)' <=> Owing(r, p)
  PROVE  UNCHANGED Delivery!dvars /\ Delivery!Accounted'
PROOF
  <1>1. MadePress' = MadePress /\ MadePress \subseteq Press
    BY DEF MadePress, SInv, Delivery!Accounted, RemoteTypeOK, Press, Range
  <1>2. \A p \in Press : Unsent(p)' <=> Unsent(p)
    BY UnsentOwing, UnsentOwingNext
  <1>3. UNCHANGED Delivery!dvars
    BY <1>1, <1>2 DEF Delivery!dvars
  <1> QED
    BY <1>3, DeliveryAccounts DEF SInv, MacTypeOK

\* What is taken, when the main queue of the Mac loses its first job and gets
\* others that carry out no command.
LEMMA TakenStays ==
  ASSUME performed' = performed,
         \A job : job.kind = "perform" =>
           (job \in Range(mainq'[Mac]) <=> job \in Range(mainq[Mac]))
  PROVE  \A p : Taken(p)' <=> Taken(p)
PROOF
  BY TakenJobs, TakenJobsNext

LEMMA RunPerformHolds ==
  ASSUME SInv, RunPerform, UNCHANGED remoteVars
  PROVE  SInv' /\ [Delivery!DeliveryNext]_(Delivery!dvars)
PROOF
  <1> DEFINE job == Head(mainq[Mac])
  <1>1. /\ mainq[Mac] # <<>> /\ job.kind = "perform"
        /\ performed' = [performed EXCEPT ![job.press] = @ + 1]
        /\ timers' = IF job.action \in {"keydown", "keyup"} THEN timers + 1 ELSE timers
        /\ mainq' = [mainq EXCEPT ![Mac] = Tail(@)]
        /\ calls' = calls
        /\ UNCHANGED <<serverVars, pending, held, unacked, cache, loaded, online, drops>>
        /\ UNCHANGED <<uploads, stored, dot, black>>
    BY DEF RunPerform
  <1>s. Mac \in Client /\ mainq \in [Client -> Seq(Job)] /\ performed \in [Press -> Nat]
    BY RoomNames DEF SInv, SyncInv, TypeOK, MacTypeOK
  <1>2. /\ job \in MacBlock /\ Tail(mainq[Mac]) \in Seq(Job)
        /\ Range(mainq[Mac]) = {job} \cup Range(Tail(mainq[Mac]))
    BY <1>1, <1>s, FirstJob
  <1>3. job.press \in Press
    BY <1>1, <1>2 DEF MacBlock
  <1>4. Taken(job.press)
    BY <1>1, <1>2, TakenJobs
  <1> HIDE DEF job
  <1>5. /\ mainq' \in [Client -> Seq(Job)]
        /\ mainq'[Mac] = Tail(mainq[Mac])
        /\ \A d \in Client : d # Mac => mainq'[d] = mainq[d]
    BY <1>1, <1>2, <1>s
  <1>6. ASSUME NEW p \in Press PROVE Taken(p)' <=> Taken(p)
    <2>1. performed'[p] > 0 <=> (performed[p] > 0 \/ p = job.press)
      BY <1>1, <1>s
    <2>2. Taken(p)' <=> \/ performed[p] > 0 \/ p = job.press
                        \/ \E b \in Range(Tail(mainq[Mac])) : b.kind = "perform" /\ b.press = p
      BY <1>5, <2>1, TakenJobsNext
    <2>3. Taken(p) <=> \/ performed[p] > 0
                       \/ \E b \in Range(mainq[Mac]) : b.kind = "perform" /\ b.press = p
      BY TakenJobs
    <2> QED
      BY <1>1, <1>2, <1>4, <2>2, <2>3
  <1>7. made' = made
    BY DEF remoteVars
  <1>8. /\ SyncInv' /\ Fits(Holds(made))' /\ MacWritesOK' /\ PhonesOK'
        /\ server' = server
        /\ \A r \in Remote : \A p : Owing(r, p)' <=> Owing(r, p)
    <2>1. Dispatch(Mac, <<>>) /\ <<>> \in Seq(Write) /\ Range(<<>>) = {}
      BY <1>1, <1>s, NothingWritten
    <2>2. \A d \in Client : \A b \in Range(mainq'[d]) :
            b \in Range(mainq[d]) \/ (d = Mac /\ b.kind # "event")
      BY <1>2, <1>5
    <2> QED
      BY <1>1, <1>5, <1>6, <1>7, <1>s, <2>1, <2>2, ApplicationHolds
  <1>9. MacTypeOK' /\ RemoteTypeOK'
    <2>1. timers' \in Nat /\ performed' \in [Press -> Nat]
      BY <1>1, <1>3, <1>s DEF SInv, MacTypeOK
    <2> QED
      BY <1>1, <2>1 DEF SInv, MacTypeOK, RemoteTypeOK, remoteVars
  <1>10. Delivery!CarryOut(job.press)
    <2>1. MadePress' = MadePress /\ MadePress \subseteq Press
      BY <1>7 DEF MadePress, SInv, Delivery!Accounted, RemoteTypeOK, Press, Range
    <2>2. \A p \in Press : Unsent(p)' <=> Unsent(p)
      BY <1>8, UnsentOwing, UnsentOwingNext
    <2> QED
      BY <1>1, <1>3, <1>4, <1>6, <1>8, <2>1, <2>2 DEF Delivery!CarryOut
  <1>11. Delivery!DeliveryNext
    BY <1>3, <1>10, Zenon DEF Delivery!DeliveryNext
  <1>12. Delivery!Accounted'
    BY <1>11, <1>s, DeliveryAccounts DEF SInv
  <1> QED
    BY <1>8, <1>9, <1>11, <1>12 DEF SInv

LEMMA TimerFiresHolds ==
  ASSUME SInv, TimerFires, UNCHANGED remoteVars
  PROVE  SInv' /\ [Delivery!DeliveryNext]_(Delivery!dvars)
PROOF
  <1>1. /\ UNCHANGED <<syncVars, stored, dot, black, performed>> /\ made' = made
        /\ timers' \in Nat /\ uploads' \in Nat
    BY DEF TimerFires, SInv, MacTypeOK, remoteVars
  <1>s. Mac \in Client /\ mainq \in [Client -> Seq(Job)]
    BY RoomNames DEF SInv, SyncInv, TypeOK, MacTypeOK
  <1>2. \A p : Taken(p)' <=> Taken(p)
    BY <1>1, TakenStays DEF syncVars, clientVars
  <1>3. /\ SyncInv' /\ Fits(Holds(made))' /\ MacWritesOK' /\ PhonesOK'
        /\ server' = server
        /\ \A r \in Remote : \A p : Owing(r, p)' <=> Owing(r, p)
    <2>1. Dispatch(Mac, <<>>) /\ <<>> \in Seq(Write) /\ Range(<<>>) = {}
      BY <1>1, <1>s, NothingWritten DEF syncVars, clientVars
    <2> QED
      BY <1>1, <1>2, <1>s, <2>1, ApplicationHolds DEF syncVars, clientVars
  <1>4. UNCHANGED Delivery!dvars /\ Delivery!Accounted'
    BY <1>1, <1>2, <1>3, Passive
  <1>5. MacTypeOK' /\ RemoteTypeOK'
    BY <1>1 DEF SInv, MacTypeOK, RemoteTypeOK, remoteVars
  <1> QED
    BY <1>3, <1>4, <1>5 DEF SInv

LEMMA StorageAnswersHolds ==
  ASSUME SInv, StorageAnswers, UNCHANGED remoteVars
  PROVE  SInv' /\ [Delivery!DeliveryNext]_(Delivery!dvars)
PROOF
  <1>1. /\ UNCHANGED <<timers, dot, black, performed>> /\ made' = made
        /\ calls' = calls
        /\ UNCHANGED <<serverVars, pending, held, unacked, cache, loaded, online, drops>>
        /\ uploads' \in Nat
    BY DEF StorageAnswers, SInv, MacTypeOK, remoteVars
  <1>s. Mac \in Client /\ mainq \in [Client -> Seq(Job)] /\ Len(Urls) \in Nat /\ stored \in 0..Len(Urls)
    BY RoomNames, RoomAssumption DEF SInv, SyncInv, TypeOK, MacTypeOK
  <1>2. \/ mainq' = mainq /\ stored' = stored
        \/ /\ stored' \in 0..Len(Urls)
           /\ \E url \in Range(Urls) :
                mainq' = [mainq EXCEPT ![Mac] = Append(@, Uploaded(url))]
    <2>1. CASE /\ stored < Len(Urls)
               /\ stored' = stored + 1
               /\ mainq' = [mainq EXCEPT ![Mac] = Append(@, Uploaded(Urls[stored + 1]))]
      <3>1. stored + 1 \in 1..Len(Urls) /\ stored' \in 0..Len(Urls)
        BY <1>s, <2>1
      <3>2. Urls[stored + 1] \in Range(Urls)
        BY <3>1, RoomAssumption, ElementOfSeq
      <3> QED
        BY <2>1, <3>1, <3>2
    <2> QED
      BY <2>1 DEF StorageAnswers
  <1>3. /\ mainq' \in [Client -> Seq(Job)]
        /\ \A d \in Client : \A b \in Range(mainq'[d]) :
             b \in Range(mainq[d]) \/ (d = Mac /\ b.kind = "uploaded")
        /\ \A d \in Client : Range(mainq[d]) \subseteq Range(mainq'[d])
    <2>1. CASE mainq' = mainq
      BY <1>s, <2>1
    <2>2. ASSUME NEW url \in Range(Urls),
                 mainq' = [mainq EXCEPT ![Mac] = Append(@, Uploaded(url))]
          PROVE  /\ mainq' \in [Client -> Seq(Job)]
                 /\ \A d \in Client : \A b \in Range(mainq'[d]) :
                      b \in Range(mainq[d]) \/ (d = Mac /\ b.kind = "uploaded")
                 /\ \A d \in Client : Range(mainq[d]) \subseteq Range(mainq'[d])
      <3>1. Uploaded(url) \in Job /\ Uploaded(url).kind = "uploaded"
        BY SessionAssumption DEF Job, MacBlock, Uploaded
      <3>2. /\ mainq'[Mac] = Append(mainq[Mac], Uploaded(url))
            /\ \A d \in Client : d # Mac => mainq'[d] = mainq[d]
        BY <1>s, <2>2
      <3>3. Range(mainq'[Mac]) = Range(mainq[Mac]) \cup {Uploaded(url)}
        BY <1>s, <3>2, RangeOfAppend
      <3>4. mainq' \in [Client -> Seq(Job)]
        BY <1>s, <2>2, <3>1
      <3> QED
        BY <3>1, <3>2, <3>3, <3>4
    <2> QED
      BY <1>2, <2>1, <2>2
  <1>4. \A p : Taken(p)' <=> Taken(p)
    BY <1>1, <1>3, <1>s, TakenStays
  <1>5. /\ SyncInv' /\ Fits(Holds(made))' /\ MacWritesOK' /\ PhonesOK'
        /\ server' = server
        /\ \A r \in Remote : \A p : Owing(r, p)' <=> Owing(r, p)
    <2>1. Dispatch(Mac, <<>>) /\ <<>> \in Seq(Write) /\ Range(<<>>) = {}
      BY <1>1, <1>s, NothingWritten
    <2> QED
      BY <1>1, <1>3, <1>4, <1>s, <2>1, ApplicationHolds
  <1>6. UNCHANGED Delivery!dvars /\ Delivery!Accounted'
    BY <1>1, <1>4, <1>5, Passive
  <1>7. MacTypeOK' /\ RemoteTypeOK'
    BY <1>1, <1>2, <1>s DEF SInv, MacTypeOK, RemoteTypeOK, remoteVars
  <1> QED
    BY <1>5, <1>6, <1>7 DEF SInv

LEMMA RunUploadedHolds ==
  ASSUME SInv, RunUploaded, UNCHANGED remoteVars
  PROVE  SInv' /\ [Delivery!DeliveryNext]_(Delivery!dvars)
PROOF
  <1> DEFINE job == Head(mainq[Mac])
  <1>1. /\ mainq[Mac] # <<>> /\ job.kind = "uploaded"
        /\ Dispatch(Mac, <<SetSettings(job.url)>>)
        /\ mainq' = [mainq EXCEPT ![Mac] = Tail(@)]
        /\ UNCHANGED <<serverVars, pending, held, unacked, cache, loaded, online, drops>>
        /\ UNCHANGED macVars /\ performed' = performed /\ made' = made
    BY DEF RunUploaded, macVars, remoteVars
  <1>s. Mac \in Client /\ mainq \in [Client -> Seq(Job)]
    BY RoomNames DEF SInv, SyncInv, TypeOK
  <1>2. /\ job \in MacBlock /\ Tail(mainq[Mac]) \in Seq(Job)
        /\ Range(mainq[Mac]) = {job} \cup Range(Tail(mainq[Mac]))
    BY <1>1, <1>s, FirstJob
  <1>3. job.url \in Address /\ job.url \in Value
    BY <1>1, <1>2, RoomValues DEF MacBlock
  <1> HIDE DEF job
  <1>4. /\ mainq' \in [Client -> Seq(Job)]
        /\ mainq'[Mac] = Tail(mainq[Mac])
        /\ \A d \in Client : d # Mac => mainq'[d] = mainq[d]
    BY <1>1, <1>2, <1>s
  <1>5. \A p : Taken(p)' <=> Taken(p)
    BY <1>1, <1>2, <1>4, TakenStays
  <1> DEFINE write == SetSettings(job.url)
  <1>6. /\ write \in Write /\ FitsWrite(Holds(made'), write)
        /\ \A p \in Press : write[p] = Keep
    <2>1. PICK F : F = Holds(made')
      OBVIOUS
    <2>2. job.url \in F["url"] /\ \A p \in Leaf : None \in F[p]
      BY <1>3, <2>1, HoldsFacts
    <2> QED
      BY <1>3, <2>1, <2>2, WriteFacts
  <1> DEFINE ws == <<write>>
  <1>7. ws \in Seq(Write) /\ Range(ws) = {write} /\ Dispatch(Mac, ws)
    BY <1>1, <1>6, WriteOne
  <1> HIDE DEF write, ws
  <1>8. /\ SyncInv' /\ Fits(Holds(made))' /\ MacWritesOK' /\ PhonesOK'
        /\ server' = server
        /\ \A r \in Remote : \A p \in Press : Owing(r, p)' <=> Owing(r, p)
    <2>1. \A d \in Client : \A b \in Range(mainq'[d]) :
            b \in Range(mainq[d]) \/ (d = Mac /\ b.kind # "event")
      BY <1>2, <1>4
    <2>2. \A w \in Range(ws) : FitsWrite(Holds(made'), w) /\ \A p \in Press : w[p] = Keep
      BY <1>6, <1>7
    <2>3. /\ SyncInv' /\ Fits(Holds(made))' /\ MacWritesOK' /\ PhonesOK'
          /\ server' = server
          /\ \A r \in Remote : \A p :
              Owing(r, p)' <=> \/ Owing(r, p)
                               \/ r = Mac /\ \E w \in Range(ws) : w[p] # Keep
      BY <1>1, <1>4, <1>5, <1>7, <1>s, <2>1, <2>2, ApplicationHolds
    <2> QED
      BY <2>3, RoomNames
  <1>9. UNCHANGED Delivery!dvars /\ Delivery!Accounted'
    BY <1>1, <1>5, <1>8, Passive
  <1>10. MacTypeOK' /\ RemoteTypeOK'
    BY <1>1 DEF SInv, MacTypeOK, RemoteTypeOK, remoteVars, macVars
  <1> QED
    BY <1>8, <1>9, <1>10 DEF SInv

\* A phone writes something that is no command.
LEMMA PhoneWrites ==
  ASSUME SInv, NEW r \in Remote, NEW write \in Write, Dispatch(r, <<write>>),
         UNCHANGED <<serverVars, pending, held, unacked, cache, loaded, mainq, online, drops>>,
         FitsWrite(Holds(made), write), \A p \in Press : write[p] = Keep,
         made' = made, UNCHANGED macVars, RemoteTypeOK'
  PROVE  SInv' /\ UNCHANGED Delivery!dvars
PROOF
  <1> DEFINE ws == <<write>>
  <1>1. ws \in Seq(Write) /\ Range(ws) = {write} /\ Dispatch(r, ws)
    BY WriteOne
  <1> HIDE DEF ws
  <1>2. performed' = performed
    BY DEF macVars
  <1>s. r \in Client /\ r # Mac /\ mainq \in [Client -> Seq(Job)]
    BY RoomNames DEF SInv, SyncInv, TypeOK
  <1>3. \A p : Taken(p)' <=> Taken(p)
    BY <1>2, TakenStays
  <1>4. \A w \in Range(ws) : FitsWrite(Holds(made'), w) /\ \A p \in Press : w[p] = Keep
    BY <1>1
  <1>5. /\ SyncInv' /\ Fits(Holds(made))' /\ MacWritesOK' /\ PhonesOK'
        /\ server' = server
        /\ \A d \in Remote : \A p :
              Owing(d, p)' <=> \/ Owing(d, p)
                               \/ d = r /\ \E w \in Range(ws) : w[p] # Keep
    BY <1>1, <1>2, <1>3, <1>4, <1>s, RoomValues, ApplicationHolds
  <1>6. UNCHANGED Delivery!dvars /\ Delivery!Accounted'
    BY <1>2, <1>3, <1>4, <1>5, Passive
  <1>7. MacTypeOK'
    BY DEF SInv, MacTypeOK, macVars
  <1> QED
    BY <1>5, <1>6, <1>7 DEF SInv

\* A phone writes nothing, and its main queue may lose its first event.
LEMMA PhoneWritesNothing ==
  ASSUME SInv, NEW r \in Remote,
         \/ UNCHANGED syncVars
         \/ /\ mainq[r] # <<>> /\ mainq' = [mainq EXCEPT ![r] = Tail(@)]
            /\ UNCHANGED <<serverVars, calls, pending, held, unacked, cache, loaded, online, drops>>,
         made' = made, UNCHANGED macVars, RemoteTypeOK'
  PROVE  SInv' /\ UNCHANGED Delivery!dvars
PROOF
  <1>s. Mac \in Client /\ r \in Client /\ r # Mac /\ mainq \in [Client -> Seq(Job)]
    BY RoomNames DEF SInv, SyncInv, TypeOK
  <1>1. /\ UNCHANGED <<serverVars, pending, held, unacked, cache, loaded, online, drops>>
        /\ calls' = calls /\ performed' = performed
    BY DEF syncVars, clientVars, macVars
  <1>2. /\ mainq' \in [Client -> Seq(Job)] /\ mainq'[Mac] = mainq[Mac]
        /\ \A d \in Client : Range(mainq'[d]) \subseteq Range(mainq[d])
    <2>1. CASE UNCHANGED syncVars
      BY <1>s, <2>1 DEF syncVars, clientVars
    <2>2. CASE mainq[r] # <<>> /\ mainq' = [mainq EXCEPT ![r] = Tail(@)]
      <3>1. Tail(mainq[r]) \in Seq(Job) /\ Range(Tail(mainq[r])) \subseteq Range(mainq[r])
        BY <1>s, <2>2, FirstJob
      <3> QED
        BY <1>s, <2>2, <3>1
    <2> QED
      BY <2>1, <2>2
  <1>3. \A p : Taken(p)' <=> Taken(p)
    BY <1>1, <1>2, TakenStays
  <1>4. Dispatch(r, <<>>) /\ <<>> \in Seq(Write) /\ Range(<<>>) = {}
    BY <1>1, <1>s, NothingWritten
  <1>5. /\ SyncInv' /\ Fits(Holds(made))' /\ MacWritesOK' /\ PhonesOK'
        /\ server' = server
        /\ \A d \in Remote : \A p : Owing(d, p)' <=> Owing(d, p)
    BY <1>1, <1>2, <1>3, <1>4, <1>s, ApplicationHolds
  <1>6. UNCHANGED Delivery!dvars /\ Delivery!Accounted'
    BY <1>1, <1>3, <1>5, Passive
  <1>7. MacTypeOK'
    BY DEF SInv, MacTypeOK, macVars
  <1> QED
    BY <1>5, <1>6, <1>7 DEF SInv

LEMMA SendCommandHolds ==
  ASSUME SInv, NEW r \in Remote, NEW action \in Action, SendCommand(r, action),
         UNCHANGED macVars
  PROVE  SInv' /\ [Delivery!DeliveryNext]_(Delivery!dvars)
PROOF
  <1>0. PICK new : new = PressIds[made + 1]
    OBVIOUS
  <1> DEFINE write == SetAction(new, action)
             ws == <<write>>
  <1>n. /\ made \in Nat /\ made + 1 \in 1..Len(PressIds) /\ made' = made + 1
        /\ DOMAIN PressIds = 1..Len(PressIds)
    BY RoomAssumption DEF SendCommand, SInv, RemoteTypeOK
  <1>1. new \in Press /\ action \in Value
    BY <1>0, <1>n, RoomAssumption, RoomValues, ElementOfSeq
  <1>2. MadePress' = MadePress \cup {new} /\ Sent(made') = Sent(made) \cup {new}
    <2>1. 1..(made + 1) = (1..made) \cup {made + 1}
      BY <1>n
    <2> QED
      BY <1>0, <1>n, <2>1 DEF MadePress, Sent
  <1>3. new \notin MadePress
    <2>1. \A i \in 1..made : i \in DOMAIN PressIds /\ i # made + 1
      BY <1>n
    <2> QED
      BY <1>0, <1>n, <2>1, RoomAssumption DEF MadePress, IsInjective
  <1>4. /\ write \in Write /\ FitsWrite(Holds(made'), write)
        /\ write[new] = action /\ \A p \in Press : p # new => write[p] = Keep
    <2>1. PICK F : F = Holds(made')
      OBVIOUS
    <2>2. action \in F[new] /\ \A p \in Leaf : None \in F[p]
      BY <1>1, <1>2, <2>1, HoldsFacts
    <2> QED
      BY <1>1, <2>1, <2>2, WriteFacts
  <1>5. ws \in Seq(Write) /\ Range(ws) = {write} /\ Dispatch(r, ws)
    BY <1>0, <1>4, WriteOne DEF SendCommand, Send
  <1>6. /\ UNCHANGED <<serverVars, pending, held, unacked, cache, loaded, mainq, online, drops>>
        /\ performed' = performed
    BY DEF SendCommand, Send, macVars
  <1> HIDE DEF write, ws
  <1>s. r \in Client /\ r # Mac /\ mainq \in [Client -> Seq(Job)]
    BY RoomNames DEF SInv, SyncInv, TypeOK
  <1>7. \A p : Taken(p)' <=> Taken(p)
    BY <1>6, TakenStays
  <1>8. \A w \in Range(ws) :
          /\ FitsWrite(Holds(made'), w)
          /\ \A p \in Press : w[p] # None /\ (w[p] # Keep <=> p = new)
    BY <1>1, <1>4, <1>5, RoomValues
  <1>9. /\ SyncInv' /\ Fits(Holds(made))' /\ MacWritesOK' /\ PhonesOK'
        /\ server' = server
        /\ \A d \in Remote : \A p :
              Owing(d, p)' <=> \/ Owing(d, p)
                               \/ d = r /\ \E w \in Range(ws) : w[p] # Keep
    BY <1>2, <1>5, <1>6, <1>7, <1>8, <1>s, ApplicationHolds
  <1>10. \A p \in Press : Unsent(p)' <=> (Unsent(p) \/ p = new)
    <2>1. \A d \in Remote : \A p \in Press : Owing(d, p)' <=> (Owing(d, p) \/ (d = r /\ p = new))
      BY <1>5, <1>8, <1>9
    <2> QED
      BY <2>1, UnsentOwing, UnsentOwingNext
  <1>11. MacTypeOK' /\ RemoteTypeOK'
    <2>1. made' \in 0..Len(PressIds)
      BY <1>n
    <2>2. MacTypeOK'
      BY DEF SInv, MacTypeOK, macVars
    <2> QED
      BY <2>1, <2>2 DEF SInv, RemoteTypeOK, SendCommand
  <1>12. Delivery!Submit(new)
    <2>1. MadePress \subseteq Press
      BY DEF MadePress, SInv, Delivery!Accounted, RemoteTypeOK, Press, Range
    <2>2. {p \in MadePress' : Unsent(p)' \/ server'[p] # None}
            = {p \in MadePress : Unsent(p) \/ server[p] # None} \cup {new}
      BY <1>1, <1>2, <1>9, <1>10, <2>1
    <2>3. {p \in Press : Taken(p)}' = {p \in Press : Taken(p)}
      BY <1>7
    <2> QED
      BY <1>2, <1>3, <1>6, <2>2, <2>3, Zenon DEF Delivery!Submit
  <1>13. Delivery!DeliveryNext
    BY <1>1, <1>12, Zenon DEF Delivery!DeliveryNext
  <1>14. Delivery!Accounted'
    BY <1>13, DeliveryAccounts DEF SInv, MacTypeOK
  <1> QED
    BY <1>9, <1>11, <1>13, <1>14 DEF SInv

LEMMA UserHolds ==
  ASSUME SInv, NEW r \in Remote, UserStep(r), UNCHANGED macVars
  PROVE  SInv' /\ [Delivery!DeliveryNext]_(Delivery!dvars)
PROOF
  <1> PICK F : F = Holds(made)
    OBVIOUS
  <1>f. /\ \A p \in Leaf : None \in F[p]
        /\ "true" \in F["wants"] /\ Off \in F["coord"] /\ Point \subseteq F["coord"]
    BY HoldsFacts
  <1>v. "true" \in Value /\ Off \in Value /\ Point \subseteq Value
    BY RoomValues
  <1>w. ASSUME NEW write, Dispatch(r, <<write>>),
               UNCHANGED <<serverVars, pending, held, unacked, cache, loaded, mainq, online, drops>>,
               \/ write = SetWants("true")
               \/ \E place \in Point \cup {Off} : write = MergeCoord(place),
               made' = made, RemoteTypeOK'
        PROVE  SInv' /\ UNCHANGED Delivery!dvars
    <2>1. write \in Write /\ FitsWrite(F, write) /\ \A p \in Press : write[p] = Keep
      <3>1. CASE write = SetWants("true")
        BY <1>f, <1>v, <3>1, WriteFacts
      <3>2. ASSUME NEW place \in Point \cup {Off}, write = MergeCoord(place)
            PROVE  write \in Write /\ FitsWrite(F, write) /\ \A p \in Press : write[p] = Keep
        BY <1>f, <1>v, <3>2, WriteFacts
      <3> QED
        BY <1>w, <3>1, <3>2
    <2>2. FitsWrite(Holds(made), write)
      BY <2>1
    <2> QED
      BY <1>w, <2>1, <2>2, PhoneWrites
  <1>1. CASE OpenScreen(r) \/ ForceRefresh(r)
    <2>1. /\ Dispatch(r, <<SetWants("true")>>) /\ made' = made
          /\ UNCHANGED <<serverVars, pending, held, unacked, cache, loaded, mainq, online, drops>>
      BY <1>1 DEF OpenScreen, ForceRefresh, Send
    <2>2. RemoteTypeOK'
      <3>1. requests' \in 0..MaxRequests /\ joined' \in [Remote -> BOOLEAN]
        <4>1. /\ requests' = requests \/ (requests < MaxRequests /\ requests' = requests + 1)
              /\ joined' = joined \/ joined' = [joined EXCEPT ![r] = TRUE]
          BY <1>1, Zenon DEF OpenScreen, ForceRefresh
        <4>2. requests' \in 0..MaxRequests
          BY <4>1, RemoteAssumption DEF SInv, RemoteTypeOK
        <4>3. joined' \in [Remote -> BOOLEAN]
          BY <4>1 DEF SInv, RemoteTypeOK
        <4> QED
          BY <4>2, <4>3
      <3> QED
        BY <1>1, <3>1 DEF OpenScreen, ForceRefresh, SInv, RemoteTypeOK
    <2> QED
      BY <2>1, <2>2, <1>w
  <1>2. CASE Touch(r) \/ TouchesEnded(r)
    <2>1. made' = made /\ RemoteTypeOK'
      <3>1. touches' \in 0..MaxTouches /\ finger' \in [Remote -> BOOLEAN]
        <4>1. /\ touches' = touches \/ (touches < MaxTouches /\ touches' = touches + 1)
              /\ \/ finger' = [finger EXCEPT ![r] = TRUE]
                 \/ finger' = [finger EXCEPT ![r] = FALSE]
          BY <1>2, Zenon DEF Touch, TouchesEnded
        <4>2. touches' \in 0..MaxTouches
          BY <4>1, RemoteAssumption DEF SInv, RemoteTypeOK
        <4>3. finger' \in [Remote -> BOOLEAN]
          BY <4>1 DEF SInv, RemoteTypeOK
        <4> QED
          BY <4>2, <4>3
      <3> QED
        BY <1>2, <3>1 DEF Touch, TouchesEnded, SInv, RemoteTypeOK
    <2>2. \/ UNCHANGED syncVars
          \/ \E place \in Point \cup {Off} : Send(r, MergeCoord(place))
      BY <1>2, Zenon DEF Touch, TouchesEnded
    <2>3. ASSUME NEW place \in Point \cup {Off}, Send(r, MergeCoord(place))
          PROVE  SInv' /\ UNCHANGED Delivery!dvars
      <3>1. PICK write : write = MergeCoord(place)
        OBVIOUS
      <3>2. /\ Dispatch(r, <<write>>)
            /\ UNCHANGED <<serverVars, pending, held, unacked, cache, loaded, mainq, online, drops>>
        BY <2>3, <3>1 DEF Send
      <3> QED
        BY <1>w, <2>1, <3>1, <3>2
    <2> QED
      BY <2>1, <2>2, <2>3, PhoneWritesNothing
  <1>3. CASE TouchCancelled(r) \/ PointerBtnPressed(r)
    <2>1. made' = made /\ UNCHANGED syncVars
      BY <1>3 DEF TouchCancelled, PointerBtnPressed
    <2>2. RemoteTypeOK'
      <3>1. /\ toggles' \in 0..MaxToggles /\ finger' \in [Remote -> BOOLEAN]
            /\ pointer' \in [Remote -> BOOLEAN]
        <4>1. /\ toggles' = toggles \/ (toggles < MaxToggles /\ toggles' = toggles + 1)
              /\ finger' = finger \/ finger' = [finger EXCEPT ![r] = FALSE]
              /\ pointer' = pointer \/ pointer' = [pointer EXCEPT ![r] = ~@]
          BY <1>3, Zenon DEF TouchCancelled, PointerBtnPressed
        <4>2. toggles' \in 0..MaxToggles
          BY <4>1, RemoteAssumption DEF SInv, RemoteTypeOK
        <4>3. finger' \in [Remote -> BOOLEAN] /\ pointer' \in [Remote -> BOOLEAN]
          BY <4>1 DEF SInv, RemoteTypeOK
        <4> QED
          BY <4>2, <4>3
      <3> QED
        BY <1>3, <3>1 DEF TouchCancelled, PointerBtnPressed, SInv, RemoteTypeOK
    <2> QED
      BY <2>1, <2>2, PhoneWritesNothing
  <1>4. CASE \E action \in Action : SendCommand(r, action)
    BY <1>4, SendCommandHolds
  <1> QED
    BY <1>1, <1>2, <1>3, <1>4 DEF UserStep

LEMMA PhoneHolds ==
  ASSUME SInv, NEW r \in Remote, PhoneStep(r), UNCHANGED macVars
  PROVE  SInv' /\ UNCHANGED Delivery!dvars
PROOF
  <1>1. CASE DownloadEnds(r)
    <2>1. PICK url \in Address :
            /\ downloads[r][url] > 0
            /\ downloads' = [downloads EXCEPT ![r][url] = @ - 1]
            /\ \/ url # FirstUrl /\ image' = [image EXCEPT ![r] = url]
               \/ UNCHANGED image
            /\ UNCHANGED <<syncVars, joined, made, pointer, finger, touches, toggles, requests>>
      BY <1>1 DEF DownloadEnds
    <2>2. downloads' \in [Remote -> [Address -> Nat]]
      BY <2>1 DEF SInv, RemoteTypeOK
    <2>3. image' \in [Remote -> Range(Urls) \cup {None}]
      BY <2>1 DEF SInv, RemoteTypeOK, Address
    <2>4. RemoteTypeOK'
      BY <2>1, <2>2, <2>3 DEF SInv, RemoteTypeOK
    <2> QED
      BY <2>1, <2>4, PhoneWritesNothing
  <1>2. CASE UrlCallback(r)
    <2> DEFINE url == Head(mainq[r]).tree["url"]
    <2>1. /\ mainq[r] # <<>> /\ mainq' = [mainq EXCEPT ![r] = Tail(@)]
          /\ UNCHANGED <<serverVars, calls, pending, held, unacked, cache, loaded, online, drops>>
          /\ UNCHANGED <<joined, made, pointer, finger, touches, toggles, requests, image>>
          /\ downloads' = IF url = None THEN downloads
                          ELSE [downloads EXCEPT ![r][url] = @ + 1]
      BY <1>2 DEF UrlCallback
    <2>2. url \in Address \cup {None}
      <3>1. r \in Client /\ r # Mac
        BY RoomNames
      <3>2. FitsTree(Holds(made), Head(mainq[r]).tree)
        BY <2>1, <3>1, FirstJob
      <3> QED
        BY <3>2, TreeSays
    <2> HIDE DEF url
    <2>3. downloads' \in [Remote -> [Address -> Nat]]
      BY <2>1, <2>2 DEF SInv, RemoteTypeOK
    <2>4. RemoteTypeOK'
      BY <2>1, <2>3 DEF SInv, RemoteTypeOK
    <2> QED
      BY <2>1, <2>4, PhoneWritesNothing
  <1> QED
    BY <1>1, <1>2 DEF PhoneStep

-----------------------------------------------------------------------------
(* What the Mac answers to *)

\* The last event of a main queue, and a queue without one.
Newest(q, i) ==
  /\ i \in DOMAIN q /\ q[i].kind = "event"
  /\ \A j \in DOMAIN q : j > i => q[j].kind # "event"

TellsLast(q, tree) == \E i \in DOMAIN q : Newest(q, i) /\ q[i].tree = tree
NoEvents(q) == \A j \in DOMAIN q : q[j].kind # "event"

\* The Mac has answered to what it sees: a request is being taken back, and
\* the dot is where the room says.
Settled ==
  /\ View(Mac)["wants"] = "true" => \E write \in Range(calls[Mac]) : write["wants"] # Keep
  /\ View(Mac)["wants"] # "true" /\ View(Mac)["coord"] # None => dot = View(Mac)["coord"]

\* What the Mac sees is on its way to the callback, as the last event, or the
\* callback has answered to it.
Abreast ==
  loaded[Mac] => \/ TellsLast(mainq[Mac], View(Mac))
                 \/ NoEvents(mainq[Mac]) /\ Settled

\* The Mac asks for no screenshot, of itself.
MacNeverAsks == \A write \in Writes(Mac) : write["wants"] # "true"

\* Neither NoRequestLeft nor DotFollows says anything but of the end: what
\* they follow from holds all the way.
RestInv == Filled /\ MacNeverAsks /\ Abreast

LEMMA QueueAppends ==
  ASSUME NEW q \in Seq(Job), NEW bs \in Seq(Job), \A b \in Range(bs) : b.kind # "event"
  PROVE  /\ \A tree : TellsLast(q, tree) => TellsLast(q \o bs, tree)
         /\ NoEvents(q) => NoEvents(q \o bs)
PROOF
  <1>1. /\ DOMAIN q = 1..Len(q) /\ DOMAIN (q \o bs) = 1..(Len(q) + Len(bs))
        /\ Len(q) \in Nat /\ Len(bs) \in Nat
        /\ \A i \in 1..Len(q) : (q \o bs)[i] = q[i]
    BY ConcatProperties
  <1>2. ASSUME NEW i \in 1..(Len(q) + Len(bs)), i \notin 1..Len(q)
        PROVE  (q \o bs)[i].kind # "event"
    <2>1. (q \o bs)[i] = bs[i - Len(q)] /\ i - Len(q) \in DOMAIN bs
      BY <1>1, <1>2
    <2> QED
      BY <2>1 DEF Range
  <1>3. \A i \in 1..Len(q) : i \in 1..(Len(q) + Len(bs))
    BY <1>1
  <1>4. ASSUME NEW tree, TellsLast(q, tree) PROVE TellsLast(q \o bs, tree)
    <2>1. PICK i \in 1..Len(q) : Newest(q, i) /\ q[i].tree = tree
      BY <1>1, <1>4 DEF TellsLast
    <2>2. \A j \in 1..(Len(q) + Len(bs)) : j > i => (q \o bs)[j].kind # "event"
      BY <1>1, <1>2, <2>1, Zenon DEF Newest
    <2> QED
      BY <1>1, <1>3, <2>1, <2>2, Zenon DEF TellsLast, Newest
  <1>5. NoEvents(q) => NoEvents(q \o bs)
    BY <1>1, <1>2, Zenon DEF NoEvents
  <1> QED
    BY <1>4, <1>5

LEMMA QueueTells ==
  ASSUME NEW q \in Seq(Job), NEW tree
  PROVE  TellsLast(Append(q, [kind |-> "event", tree |-> tree]), tree)
PROOF
  <1> DEFINE new == [kind |-> "event", tree |-> tree]
             s == Append(q, new)
  <1>1. /\ DOMAIN s = 1..(Len(q) + 1) /\ Len(q) \in Nat /\ s[Len(q) + 1] = new
        /\ Len(q) + 1 \in 1..(Len(q) + 1)
        /\ \A j \in 1..(Len(q) + 1) : ~ (j > Len(q) + 1)
    OBVIOUS
  <1>2. new.kind = "event" /\ new.tree = tree
    OBVIOUS
  <1> HIDE DEF new, s
  <1>3. TellsLast(s, tree)
    BY <1>1, <1>2, Zenon DEF TellsLast, Newest
  <1> QED
    BY <1>3 DEF s, new

LEMMA QueueTakes ==
  ASSUME NEW q \in Seq(Job), q # <<>>
  PROVE  /\ \A tree : TellsLast(q, tree) =>
              \/ TellsLast(Tail(q), tree)
              \/ NoEvents(Tail(q)) /\ Head(q).kind = "event" /\ Head(q).tree = tree
         /\ NoEvents(q) => NoEvents(Tail(q)) /\ Head(q).kind # "event"
PROOF
  <1>1. /\ Len(q) \in Nat /\ Len(q) > 0 /\ DOMAIN q = 1..Len(q)
        /\ DOMAIN Tail(q) = 1..(Len(q) - 1) /\ Head(q) = q[1]
        /\ \A i \in 1..(Len(q) - 1) : Tail(q)[i] = q[i + 1]
    BY HeadTailProperties
  <1>2. \A i \in 1..(Len(q) - 1) : i + 1 \in 1..Len(q) /\ i + 1 > 1 /\ 1 \in 1..Len(q)
    BY <1>1
  <1>3. ASSUME NEW tree, TellsLast(q, tree)
        PROVE  \/ TellsLast(Tail(q), tree)
               \/ NoEvents(Tail(q)) /\ Head(q).kind = "event" /\ Head(q).tree = tree
    <2>1. PICK i \in 1..Len(q) : Newest(q, i) /\ q[i].tree = tree
      BY <1>1, <1>3 DEF TellsLast
    <2>2. CASE i = 1
      <3>1. NoEvents(Tail(q))
        BY <1>1, <1>2, <2>1, <2>2, Zenon DEF Newest, NoEvents
      <3> QED
        BY <1>1, <2>1, <2>2, <3>1 DEF Newest
    <2>3. CASE i # 1
      <3>1. i - 1 \in 1..(Len(q) - 1) /\ Tail(q)[i - 1] = q[i]
        BY <1>1, <2>3
      <3>2. \A j \in 1..(Len(q) - 1) : j > i - 1 => j + 1 > i
        BY <1>1
      <3>3. Newest(Tail(q), i - 1)
        BY <1>1, <1>2, <2>1, <3>1, <3>2, Zenon DEF Newest
      <3> QED
        BY <1>1, <2>1, <3>1, <3>3, Zenon DEF TellsLast
    <2> QED
      BY <2>2, <2>3
  <1>4. ASSUME NoEvents(q) PROVE NoEvents(Tail(q)) /\ Head(q).kind # "event"
    <2>1. 1 \in 1..Len(q)
      BY <1>1
    <2> QED
      BY <1>1, <1>2, <1>4, <2>1, Zenon DEF NoEvents
  <1> QED
    BY <1>3, <1>4

\* The newest write is what is seen of the leaves it names.
LEMMA OverlayNewest ==
  ASSUME NEW tree, NEW ws \in Seq(Write), NEW write \in Write, NEW p \in Leaf, write[p] # Keep
  PROVE  Overlay(tree, Append(ws, write))[p] = write[p]
PROOF
  <1> DEFINE s == Append(ws, write)
             n == Len(ws) + 1
             C == Covering(s, p)
  <1>1. /\ Len(ws) \in Nat /\ n \in Nat /\ DOMAIN s = 1..n /\ s[n] = write /\ n \in 1..n
    OBVIOUS
  <1> HIDE DEF s, n
  <1>2. C \in SUBSET (1..n) /\ n \in C
    BY <1>1 DEF Covering
  <1>3. Max(C) \in C /\ \A i \in C : i <= Max(C)
    BY <1>1, <1>2, LastExists
  <1>4. Max(C) = n
    <2>1. n <= Max(C) /\ Max(C) \in 1..n
      BY <1>2, <1>3
    <2> QED
      BY <1>1, <2>1
  <1>5. C # {}
    BY <1>2
  <1>6. Overlay(tree, s)[p] = s[Max(C)][p]
    BY <1>5 DEF Overlay
  <1> QED
    BY <1>1, <1>4, <1>6 DEF s

LEMMA MacSees ==
  ASSUME TypeOK
  PROVE  \A p \in Leaf : View(Mac)[p] = Overlay(cache[Mac], pending[Mac])[p]
PROOF
  BY RoomAssumption DEF View, Under

LEMMA MacSeesNext ==
  \A p \in Leaf : View(Mac)'[p] = Overlay(cache'[Mac], pending'[Mac])[p]
PROOF
  BY RoomAssumption DEF View, Under

\* The library takes no answer away: when the write that takes a request back
\* enters the write tree, the request is no longer seen.
LEMMA LibraryRests ==
  ASSUME SInv, RestInv, NEW c \in Client, SyncStep(c), UNCHANGED <<macVars, remoteVars>>
  PROVE  RestInv'
PROOF
  <1>t. /\ SyncInv /\ TypeOK /\ Mac \in Client /\ "wants" \in Leaf
        /\ mainq \in [Client -> Seq(Job)] /\ calls \in [Client -> Seq(Write)]
        /\ pending \in [Client -> Seq(Write)]
    BY RoomNames DEF SInv, SyncInv, TypeOK, Setting
  <1>1. Filled'
    BY <1>t, FilledStep DEF RestInv
  <1>2. MacNeverAsks'
    BY <1>t, WritesStep DEF RestInv, MacNeverAsks
  <1>3. ASSUME loaded'[Mac], mainq'[Mac] = mainq[Mac], loaded[Mac], View(Mac)' = View(Mac)
        PROVE  \/ TellsLast(mainq[Mac], View(Mac))'
               \/ NoEvents(mainq[Mac])' /\ Settled'
    <2>1. CASE TellsLast(mainq[Mac], View(Mac))
      <3>1. PICK tree : tree = View(Mac)
        OBVIOUS
      <3>2. TellsLast(mainq'[Mac], tree) /\ tree = View(Mac)'
        BY <1>3, <2>1, <3>1
      <3>3. TellsLast(mainq[Mac], View(Mac))'
        BY <3>2
      <3> QED
        BY <3>3
    <2>2. CASE NoEvents(mainq[Mac]) /\ Settled
      <3>1. ASSUME View(Mac)["wants"] = "true"
            PROVE  \E write \in Range(calls'[Mac]) : write["wants"] # Keep
        <4>1. PICK write \in Range(calls[Mac]) : write["wants"] # Keep
          BY <2>2, <3>1 DEF Settled
        <4>2. CASE calls'[Mac] = calls[Mac]
          BY <4>1, <4>2
        <4>3. CASE calls'[Mac] # calls[Mac]
          <5>1. c = Mac /\ RunWrite(Mac)
            BY <1>t, <4>3 DEF SyncStep, ClientStep, ServerStep, RunWrite, ReceiveData, ReceiveAck,
                 ReceiveOk, AckHeld, RemoveOldest, Connect, Disconnect, ServerPut, ServerListen,
                 clientVars
          <5> DEFINE head == Head(calls[Mac])
          <5>2. /\ calls[Mac] # <<>> /\ calls'[Mac] = Tail(calls[Mac])
                /\ pending'[Mac] = Append(pending[Mac], head) /\ cache' = cache
            BY <1>t, <5>1 DEF RunWrite
          <5>3. /\ Range(calls[Mac]) = {head} \cup Range(Tail(calls[Mac]))
                /\ head \in Range(calls[Mac]) /\ head \in Write
            BY <1>t, <5>2, RangeOfTail, HeadTailProperties
          <5>4. head["wants"] # "true"
            BY <5>3 DEF RestInv, MacNeverAsks, Writes
          <5>5. head["wants"] # Keep => View(Mac)'["wants"] = head["wants"]
            <6>1. \A ws \in Seq(Write) : \A w \in Write :
                    w["wants"] # Keep =>
                      Overlay(cache[Mac], Append(ws, w))["wants"] = w["wants"]
              BY <1>t, OverlayNewest
            <6> HIDE DEF head
            <6>2. View(Mac)'["wants"] = Overlay(cache'[Mac], pending'[Mac])["wants"]
              BY <1>t, MacSeesNext
            <6> QED
              BY <1>t, <5>2, <5>3, <6>1, <6>2
          <5>6. head["wants"] = Keep
            BY <1>3, <3>1, <5>4, <5>5
          <5> QED
            BY <4>1, <5>2, <5>3, <5>6
        <4> QED
          BY <4>2, <4>3
      <3>2. dot' = dot
        BY DEF macVars
      <3> QED
        BY <1>3, <2>2, <3>1, <3>2 DEF Settled
    <2> QED
      BY <1>3, <2>1, <2>2 DEF RestInv, Abreast
  <1>4. ASSUME mainq'[Mac] = Append(mainq[Mac], [kind |-> "event", tree |-> View(Mac)'])
        PROVE  TellsLast(mainq[Mac], View(Mac))'
    <2>1. PICK tree : tree = View(Mac)'
      OBVIOUS
    <2>2. TellsLast(mainq'[Mac], tree)
      BY <1>4, <1>t, <2>1, QueueTells
    <2> QED
      BY <2>1, <2>2
  <1>5. Abreast'
    BY <1>t, <1>3, <1>4, RaiseStep DEF Abreast
  <1> QED
    BY <1>1, <1>2, <1>5 DEF RestInv

\* A step of an application that dispatches no request from the Mac and
\* leaves its main queue, or takes a job from it and adds blocks.
LEMMA ApplicationRests ==
  ASSUME SInv, RestInv, SInv', NEW c \in Client, NEW ws \in Seq(Write), Dispatch(c, ws),
         UNCHANGED <<serverVars, pending, held, unacked, cache, loaded, online, drops>>,
         c = Mac => \A write \in Range(ws) : write["wants"] # "true",
         NEW bs \in Seq(Job), \A b \in Range(bs) : b.kind # "event",
         \/ dot' = dot /\ mainq'[Mac] = mainq[Mac] \o bs
         \/ /\ mainq[Mac] # <<>> /\ mainq'[Mac] = Tail(mainq[Mac]) \o bs
            /\ \/ dot' = dot /\ Head(mainq[Mac]).kind # "event"
               \/ /\ Head(mainq[Mac]).kind = "event"
                  /\ Head(mainq[Mac]).tree = View(Mac) => Settled'
  PROVE  RestInv'
PROOF
  <1>t. /\ TypeOK /\ Mac \in Client /\ mainq[Mac] \in Seq(Job)
    BY RoomNames DEF SInv, SyncInv, TypeOK
  <1>1. Filled' /\ View(Mac)' = View(Mac) /\ loaded' = loaded
    BY DEF RestInv, Filled, serverVars, View
  <1>2. /\ \A d \in Client : Writes(d)' = IF d = c THEN Writes(d) \cup Range(ws) ELSE Writes(d)
        /\ Range(calls[Mac]) \subseteq Range(calls'[Mac])
    <2>1. \A d \in Client : Writes(d)' = IF d = c THEN Writes(d) \cup Range(ws) ELSE Writes(d)
      BY <1>t, DispatchAdds DEF serverVars
    <2>2. CASE c # Mac
      BY <1>t, <2>1, <2>2 DEF Dispatch, TypeOK
    <2>3. CASE c = Mac
      <3>1. calls[Mac] \in Seq(Write) /\ calls'[Mac] = calls[Mac] \o ws
        BY <1>t, <2>3 DEF Dispatch, TypeOK
      <3>2. \A s \in Seq(Write) : \A u \in Seq(Write) : Range(s \o u) = Range(s) \cup Range(u)
        BY RangeConcatenation
      <3> QED
        BY <2>1, <3>1, <3>2
    <2> QED
      BY <2>1, <2>2, <2>3
  <1>3. MacNeverAsks'
    BY <1>t, <1>2 DEF RestInv, MacNeverAsks
  <1>4. dot' = dot /\ Settled => Settled'
    BY <1>1, <1>2 DEF Settled
  <1>5. CASE dot' = dot /\ mainq'[Mac] = mainq[Mac] \o bs
    <2>1. /\ TellsLast(mainq[Mac], View(Mac)) => TellsLast(mainq[Mac] \o bs, View(Mac))
          /\ NoEvents(mainq[Mac]) => NoEvents(mainq[Mac] \o bs)
      BY <1>t, QueueAppends
    <2> QED
      BY <1>1, <1>3, <1>4, <1>5, <2>1 DEF RestInv, Abreast
  <1>6. CASE /\ mainq[Mac] # <<>> /\ mainq'[Mac] = Tail(mainq[Mac]) \o bs
             /\ \/ dot' = dot /\ Head(mainq[Mac]).kind # "event"
                \/ /\ Head(mainq[Mac]).kind = "event"
                  /\ Head(mainq[Mac]).tree = View(Mac) => Settled'
    <2>1. PICK q : q = Tail(mainq[Mac])
      OBVIOUS
    <2>2. q \in Seq(Job)
      BY <1>6, <1>t, <2>1, HeadTailProperties
    <2>3. /\ TellsLast(q, View(Mac)) => TellsLast(q \o bs, View(Mac))
          /\ NoEvents(q) => NoEvents(q \o bs)
      BY <2>2, QueueAppends
    <2>4. /\ TellsLast(mainq[Mac], View(Mac)) =>
                \/ TellsLast(q, View(Mac))
                \/ NoEvents(q) /\ Head(mainq[Mac]).kind = "event" /\ Head(mainq[Mac]).tree = View(Mac)
          /\ NoEvents(mainq[Mac]) => NoEvents(q) /\ Head(mainq[Mac]).kind # "event"
      BY <1>6, <1>t, <2>1, QueueTakes
    <2> QED
      BY <1>1, <1>3, <1>4, <1>6, <2>1, <2>3, <2>4 DEF RestInv, Abreast
  <1> QED
    BY <1>5, <1>6

\* What a phone does reaches the Mac through the room only.
LEMMA PhoneRests ==
  ASSUME SInv, RestInv, NEW r \in Remote, UserStep(r) \/ PhoneStep(r), UNCHANGED macVars
  PROVE  RestInv'
PROOF
  <1>t. /\ Mac \in Client /\ r \in Client /\ r # Mac
        /\ calls \in [Client -> Seq(Write)] /\ mainq \in [Client -> Seq(Job)]
    BY RoomNames DEF SInv, SyncInv, TypeOK
  <1>1. /\ UNCHANGED <<server, watching, down, pending, cache, loaded>>
        /\ calls'[Mac] = calls[Mac]
    <2>1. CASE PhoneStep(r)
      BY <2>1 DEF PhoneStep, UrlCallback, DownloadEnds, syncVars, clientVars, serverVars
    <2>2. ASSUME NEW write, Send(r, write)
          PROVE  /\ UNCHANGED <<server, watching, down, pending, cache, loaded>>
                 /\ calls'[Mac] = calls[Mac]
      BY <1>t, <2>2 DEF Send, Dispatch, serverVars
    <2>3. CASE OpenScreen(r)
      BY <1>t, <2>3 DEF OpenScreen, Dispatch, serverVars
    <2>4. CASE \E action \in Action : SendCommand(r, action)
      BY <2>2, <2>4 DEF SendCommand
    <2>5. CASE ForceRefresh(r)
      BY <2>2, <2>5 DEF ForceRefresh
    <2>6. CASE UNCHANGED syncVars
      BY <2>6 DEF syncVars, clientVars, serverVars
    <2>7. CASE Touch(r)
      <3>1. UNCHANGED syncVars \/ \E place \in Point : Send(r, MergeCoord(place))
        BY <2>7 DEF Touch
      <3> QED
        BY <2>2, <2>6, <3>1
    <2>8. CASE TouchesEnded(r)
      <3>1. UNCHANGED syncVars \/ Send(r, MergeCoord(Off))
        BY <2>8 DEF TouchesEnded
      <3> QED
        BY <2>2, <2>6, <3>1
    <2>9. CASE TouchCancelled(r) \/ PointerBtnPressed(r)
      BY <2>6, <2>9 DEF TouchCancelled, PointerBtnPressed
    <2> QED
      BY <2>1, <2>3, <2>4, <2>5, <2>7, <2>8, <2>9 DEF UserStep
  <1>2. mainq'[Mac] = mainq[Mac]
    BY <1>t DEF PhoneStep, UrlCallback, DownloadEnds, UserStep, OpenScreen, SendCommand, ForceRefresh,
         Touch, TouchesEnded, TouchCancelled, PointerBtnPressed, Send, syncVars, clientVars
  <1>3. dot' = dot /\ View(Mac)' = View(Mac)
    BY <1>1 DEF macVars, View
  <1>4. Filled' /\ MacNeverAsks'
    BY <1>1, <1>t DEF RestInv, Filled, MacNeverAsks, Writes
  <1>5. Abreast'
    BY <1>1, <1>2, <1>3 DEF RestInv, Abreast, Settled
  <1> QED
    BY <1>4, <1>5 DEF RestInv

LEMMA NoBlocks ==
  /\ <<>> \in Seq(Job) /\ \A b \in Range(<<>>) : b.kind # "event"
  /\ \A q \in Seq(Job) : q \o <<>> = q
PROOF
  <1>1. Range(<<>>) = {}
    BY DEF Range
  <1> QED
    BY <1>1, ConcatEmptySeq

\* The loop takes a request back: the settings are among the children, and it
\* reaches all of them.
LEMMA LoopAnswers ==
  ASSUME NEW tree, NEW order \in Orders(tree), tree["wants"] = "true"
  PROVE  SetWants("false") \in Range(LoopWrites(order, tree))
PROOF
  <1>1. "settings" \in Children(tree)
    BY RoomValues DEF Children, Setting
  <1>2. \A x \in Children(tree) : \E i \in DOMAIN order : order[i] = x
    BY DEF Orders, Bijection, Surjection
  <1>3. PICK i \in DOMAIN order : order[i] = "settings"
    BY <1>1, <1>2
  <1>4. i \in 1..Reached(order, tree)
    BY <1>3, LoopOrder DEF Reached, WantsImage
  <1>5. LoopWrites(order, tree)[i] = SetWants("false") /\ i \in DOMAIN LoopWrites(order, tree)
    BY <1>3, <1>4 DEF LoopWrites
  <1> QED
    BY <1>5 DEF Range

LEMMA WantsWritten ==
  /\ SetWants("false")["wants"] = "false"
  /\ \A url : SetSettings(url)["wants"] = None
  /\ \A p \in Press : Remove(p)["wants"] = Keep
PROOF
  <1>1. "wants" \in Leaf /\ Press \subseteq Leaf /\ \A p \in Press : p # "wants"
    BY RoomNames DEF Setting
  <1> QED
    BY <1>1 DEF SetWants, SetSettings, Remove, NoWrite

LEMMA MacCallbackRests ==
  ASSUME SInv, RestInv, SInv', MacCallback
  PROVE  RestInv'
PROOF
  <1> DEFINE tree == Head(mainq[Mac]).tree
  <1>1. PICK order \in Orders(tree) :
       /\ Dispatch(Mac, LoopWrites(order, tree))
       /\ mainq' = [mainq EXCEPT ![Mac] = Tail(@) \o LoopBlocks(order, tree)]
       /\ dot' = DotAt(tree)
    BY DEF MacCallback
  <1>2. /\ mainq[Mac] # <<>> /\ Head(mainq[Mac]).kind = "event"
        /\ UNCHANGED <<serverVars, pending, held, unacked, cache, loaded, online, drops>>
    BY DEF MacCallback
  <1>s. Mac \in Client /\ mainq \in [Client -> Seq(Job)] /\ calls \in [Client -> Seq(Write)]
    BY RoomNames DEF SInv, SyncInv, TypeOK
  <1>3. tree \in Tree /\ \A p \in Press : tree[p] \in Action \cup {None}
    BY <1>2, <1>s, FirstJob, TreeSays
  <1> DEFINE ws == LoopWrites(order, tree)
             bs == LoopBlocks(order, tree)
  <1>4. ws \in Seq(Write) /\ \A write \in Range(ws) : write["wants"] # "true"
    <2>1. /\ ws \in Seq(Write)
          /\ \A write \in Range(ws) : \/ write = SetWants("false")
                                      \/ \E p \in Press : write = Remove(p)
      BY LoopWritesPlain DEF Passed
    <2> HIDE DEF ws
    <2> QED
      BY <2>1, WantsWritten, RoomValues
  <1>5. bs \in Seq(Job) /\ \A b \in Range(bs) : b.kind # "event"
    <2>1. bs \in Seq(MacBlock) /\ \A i \in DOMAIN bs : bs[i].kind = "perform"
      BY <1>3, LoopBlocksPlain
    <2> HIDE DEF bs
    <2>2. \A b \in Range(bs) : b.kind # "event"
      BY <2>1 DEF Range
    <2> QED
      BY <2>1, <2>2, SeqMonotonic, SessionAssumption DEF Job
  <1>6. ASSUME tree = View(Mac) PROVE Settled'
    <2>1. View(Mac)' = tree
      BY <1>2, <1>6 DEF View
    <2>2. ASSUME tree["wants"] = "true"
          PROVE  \E write \in Range(calls'[Mac]) : write["wants"] # Keep
      <3>1. SetWants("false") \in Range(ws)
        BY <2>2, LoopAnswers
      <3>2. calls'[Mac] = calls[Mac] \o ws
        BY <1>1, <1>s DEF Dispatch
      <3> HIDE DEF ws, tree
      <3>3. \A s \in Seq(Write) : \A u \in Seq(Write) : Range(s \o u) = Range(s) \cup Range(u)
        BY RangeConcatenation
      <3>4. SetWants("false") \in Range(calls'[Mac])
        BY <1>4, <1>s, <3>1, <3>2, <3>3
      <3> QED
        BY <3>4, WantsWritten, RoomValues
    <2>3. tree["wants"] # "true" /\ tree["coord"] # None => dot' = tree["coord"]
      BY <1>1 DEF DotAt, WantsImage
    <2> HIDE DEF tree
    <2> QED
      BY <2>1, <2>2, <2>3 DEF Settled
  <1>7. mainq'[Mac] = Tail(mainq[Mac]) \o bs /\ Dispatch(Mac, ws)
    BY <1>1, <1>s
  <1> HIDE DEF ws, bs
  <1> QED
    BY <1>2, <1>s, <1>4, <1>5, <1>6, <1>7, ApplicationRests

LEMMA MacRests ==
  ASSUME SInv, RestInv, SInv', MacStep
  PROVE  RestInv'
PROOF
  <1>t. Mac \in Client /\ mainq \in [Client -> Seq(Job)] /\ calls \in [Client -> Seq(Write)]
    BY RoomNames DEF SInv, SyncInv, TypeOK
  <1>0. calls' = calls => Dispatch(Mac, <<>>) /\ <<>> \in Seq(Write) /\ Range(<<>>) = {}
    BY <1>t, NothingWritten
  <1>1. CASE RunPerform
    <2>1. /\ mainq[Mac] # <<>> /\ Head(mainq[Mac]).kind # "event" /\ mainq'[Mac] = Tail(mainq[Mac])
          /\ calls' = calls /\ dot' = dot
          /\ UNCHANGED <<serverVars, pending, held, unacked, cache, loaded, online, drops>>
      BY <1>1, <1>t DEF RunPerform
    <2>2. Tail(mainq[Mac]) \in Seq(Job)
      BY <1>t, <2>1, HeadTailProperties
    <2>3. mainq'[Mac] = Tail(mainq[Mac]) \o <<>>
      BY <2>1, <2>2, NoBlocks
    <2> QED
      BY <1>0, <1>t, <2>1, <2>3, NoBlocks, ApplicationRests
  <1>2. CASE RunUploaded
    <2>1. PICK write : write = SetSettings(Head(mainq[Mac]).url)
      OBVIOUS
    <2>2. /\ mainq[Mac] # <<>> /\ Head(mainq[Mac]).kind = "uploaded"
          /\ mainq'[Mac] = Tail(mainq[Mac]) /\ Dispatch(Mac, <<write>>) /\ dot' = dot
          /\ UNCHANGED <<serverVars, pending, held, unacked, cache, loaded, online, drops>>
      BY <1>2, <1>t, <2>1 DEF RunUploaded, macVars
    <2>3. Tail(mainq[Mac]) \in Seq(Job)
      BY <1>t, <2>2, HeadTailProperties
    <2>4. mainq'[Mac] = Tail(mainq[Mac]) \o <<>>
      BY <2>2, <2>3, NoBlocks
    <2>5. Head(mainq[Mac]).url \in Value
      BY <1>t, <2>2, FirstJob, RoomValues DEF MacBlock
    <2>6. write \in Write /\ write["wants"] # "true"
      <3>1. PICK F : F = [x \in Leaf |-> {None}]
        OBVIOUS
      <3>2. write \in Write
        BY <2>1, <2>5, <3>1, WriteFacts
      <3>3. write["wants"] = None
        BY <2>1, WantsWritten
      <3> QED
        BY <3>2, <3>3, RoomValues
    <2>7. PICK ws : ws = <<write>>
      OBVIOUS
    <2>8. ws \in Seq(Write) /\ Range(ws) = {write} /\ Dispatch(Mac, ws)
      BY <2>2, <2>6, <2>7, WriteOne
    <2> QED
      BY <1>t, <2>2, <2>4, <2>6, <2>8, NoBlocks, ApplicationRests
  <1>3. CASE TimerFires
    <2>1. mainq'[Mac] = mainq[Mac] /\ calls' = calls /\ dot' = dot
          /\ UNCHANGED <<serverVars, pending, held, unacked, cache, loaded, online, drops>>
      BY <1>3 DEF TimerFires, syncVars, clientVars
    <2>2. mainq'[Mac] = mainq[Mac] \o <<>>
      BY <1>t, <2>1, NoBlocks
    <2> QED
      BY <1>0, <1>t, <2>1, <2>2, NoBlocks, ApplicationRests
  <1>4. CASE StorageAnswers
    <2>1. /\ calls' = calls /\ dot' = dot
          /\ UNCHANGED <<serverVars, pending, held, unacked, cache, loaded, online, drops>>
      BY <1>4 DEF StorageAnswers
    <2>2. CASE mainq' = mainq
      <3>1. mainq'[Mac] = mainq[Mac] \o <<>>
        BY <1>t, <2>2, NoBlocks
      <3> QED
        BY <1>0, <1>t, <2>1, <3>1, NoBlocks, ApplicationRests
    <2>3. CASE mainq' # mainq
      <3>1. PICK job : job = Uploaded(Urls[stored + 1])
        OBVIOUS
      <3>2. mainq'[Mac] = Append(mainq[Mac], job)
        BY <1>4, <1>t, <2>3, <3>1 DEF StorageAnswers
      <3>3. job \in Job /\ job.kind # "event"
        <4>1. stored + 1 \in 1..Len(Urls)
          BY <1>4, <2>3, RoomAssumption DEF StorageAnswers, SInv, MacTypeOK
        <4>2. Urls[stored + 1] \in Range(Urls)
          BY <4>1, RoomAssumption, ElementOfSeq
        <4> QED
          BY <3>1, <4>2, SessionAssumption DEF Uploaded, MacBlock, Job
      <3>4. PICK bs : bs = <<job>>
        OBVIOUS
      <3>5. bs \in Seq(Job) /\ \A b \in Range(bs) : b.kind # "event"
        <4>1. bs \in Seq(Job) /\ DOMAIN bs = {1} /\ bs[1] = job
          BY <3>3, <3>4
        <4> QED
          BY <3>3, <4>1 DEF Range
      <3>6. mainq'[Mac] = mainq[Mac] \o bs
        BY <1>t, <3>2, <3>3, <3>4
      <3> QED
        BY <1>0, <1>t, <2>1, <3>5, <3>6, ApplicationRests
    <2> QED
      BY <2>2, <2>3
  <1> QED
    BY <1>1, <1>2, <1>3, <1>4, MacCallbackRests DEF MacStep, MacMain

-----------------------------------------------------------------------------
(* Theorems *)

LEMMA InitHolds == ASSUME Init PROVE SInv /\ Delivery!DeliveryInit
PROOF
  <1>1. SyncInv
    BY SyncInitHolds DEF Init
  <1>2. MacTypeOK
    <2>1. Len(Urls) \in Nat
      BY RoomAssumption
    <2>2. 0 \in 0..Len(Urls)
      BY <2>1
    <2> QED
      BY <2>2 DEF Init, MacInit, NothingDone, MacTypeOK
  <1>3. RemoteTypeOK
    <2>1. Len(PressIds) \in Nat
      BY RoomAssumption
    <2>2. 0 \in 0..Len(PressIds)
      BY <2>1
    <2> QED
      BY <2>2, RemoteAssumption DEF Init, RemoteInit, ScreenInit, Untouched, RemoteTypeOK
  <1>4. MadePress = {} /\ made = 0
    BY DEF MadePress, Init, RemoteInit, Untouched
  <1>5. \A p \in Press : ~Taken(p)
    <2>1. \A p \in Press : performed[p] = 0
      BY DEF Init, NothingDone
    <2>2. DOMAIN mainq[Mac] = {}
      BY RoomNames DEF Init, SyncInit
    <2> QED
      BY <2>1, <2>2 DEF Taken
  <1>6. Delivery!DeliveryInit
    BY <1>4, <1>5 DEF Delivery!DeliveryInit, Init, NothingDone
  <1>7. Delivery!Accounted
    BY <1>4, <1>5 DEF Delivery!Accounted, Init, NothingDone
  <1> DEFINE first == SetSettings(FirstUrl)
  <1>8. /\ \A c \in Client : Writes(c) = IF c = Mac THEN {first} ELSE {}
        /\ \A c \in Client : Range(down[c]) = {} /\ Range(mainq[c]) = {}
    <2>1. Range(<<>>) = {} /\ Range(<<first>>) = {first}
      <3>1. DOMAIN <<>> = {} /\ DOMAIN <<first>> = {1} /\ <<first>>[1] = first
        OBVIOUS
      <3> QED
        BY <3>1, Zenon DEF Range
    <2>2. \A c \in Client : /\ calls[c] = <<>> /\ down[c] = <<>> /\ mainq[c] = <<>>
                           /\ pending[c] = IF c = Mac THEN <<first>> ELSE <<>>
      BY RoomAssumption DEF Init, SyncInit, RoomFirstWrites
    <2> QED
      BY <2>1, <2>2 DEF Writes
  <1>9. PICK F : F = Holds(made)
    OBVIOUS
  <1>10. FitsWrite(F, first) /\ \A p \in Press : first[p] = Keep
    BY <1>9, HoldsFacts, RoomValues, WriteFacts
  <1>11. FitsTree(F, EmptyTree)
    BY <1>9, HoldsFacts DEF FitsTree, EmptyTree
  <1>12. Fits(F)
    BY <1>8, <1>10, <1>11 DEF Fits, Init, SyncInit
  <1>13. MacWritesOK /\ PhonesOK
    BY <1>8, <1>10, RoomNames DEF MacWritesOK, PhonesOK
  <1> QED
    BY <1>1, <1>2, <1>3, <1>6, <1>7, <1>9, <1>12, <1>13 DEF SInv

LEMMA NextHolds ==
  ASSUME SInv, [Next]_vars
  PROVE  SInv' /\ [Delivery!DeliveryNext]_(Delivery!dvars)
PROOF
  <1>1. ASSUME NEW c \in Client, Library(c)
        PROVE  SInv' /\ [Delivery!DeliveryNext]_(Delivery!dvars)
    <2>1. SyncStep(c) /\ UNCHANGED <<macVars, remoteVars>>
      BY <1>1 DEF Library, SyncStep
    <2> QED
      BY <2>1, LibraryHolds, LibraryDelivers
  <1>2. CASE Receiver
    BY <1>2, MacCallbackHolds, RunPerformHolds, RunUploadedHolds, TimerFiresHolds, StorageAnswersHolds
       DEF Receiver, MacStep, MacMain
  <1>3. ASSUME NEW r \in Remote, Phone(r)
        PROVE  SInv' /\ [Delivery!DeliveryNext]_(Delivery!dvars)
    BY <1>3, UserHolds, PhoneHolds DEF Phone
  <1>4. CASE UNCHANGED vars
    <2>1. /\ UNCHANGED <<serverVars, pending, held, unacked, cache, loaded, mainq, online, drops>>
          /\ calls' = calls /\ made' = made /\ UNCHANGED macVars /\ performed' = performed
      BY <1>4 DEF vars, syncVars, serverVars, clientVars, macVars, remoteVars
    <2>2. RemoteTypeOK' /\ MacTypeOK'
      BY <1>4 DEF SInv, MacTypeOK, RemoteTypeOK, vars, remoteVars, macVars
    <2>3. \A p : Taken(p)' <=> Taken(p)
      BY <2>1, TakenStays
    <2>4. Dispatch(Mac, <<>>) /\ <<>> \in Seq(Write) /\ Range(<<>>) = {}
      BY <2>1, RoomNames, NothingWritten
    <2>5. mainq' \in [Client -> Seq(Job)] /\ Mac \in Client
      BY <2>1, RoomNames DEF SInv, SyncInv, TypeOK
    <2>6. /\ SyncInv' /\ Fits(Holds(made))' /\ MacWritesOK' /\ PhonesOK'
          /\ server' = server
          /\ \A d \in Remote : \A p : Owing(d, p)' <=> Owing(d, p)
      BY <2>1, <2>3, <2>4, <2>5, ApplicationHolds
    <2>7. UNCHANGED Delivery!dvars /\ Delivery!Accounted'
      BY <2>1, <2>3, <2>6, Passive
    <2> QED
      BY <2>2, <2>6, <2>7 DEF SInv
  <1> QED
    BY <1>1, <1>2, <1>3, <1>4 DEF Next

LEMMA InitRests == ASSUME Init PROVE RestInv
PROOF
  <1>1. Filled /\ Abreast
    BY RoomNames DEF Init, SyncInit, Filled, Abreast
  <1>2. MacNeverAsks
    <2>1. PICK first : first = SetSettings(FirstUrl)
      OBVIOUS
    <2>2. calls[Mac] = <<>> /\ pending[Mac] = <<first>>
      BY RoomNames, RoomAssumption, <2>1 DEF Init, SyncInit, RoomFirstWrites
    <2>3. Range(<<>>) = {} /\ Range(<<first>>) = {first}
      <3>1. DOMAIN <<>> = {} /\ DOMAIN <<first>> = {1} /\ <<first>>[1] = first
        OBVIOUS
      <3> QED
        BY <3>1, Zenon DEF Range
    <2>4. first["wants"] # "true"
      BY <2>1, WantsWritten, RoomValues
    <2> QED
      BY <2>2, <2>3, <2>4 DEF MacNeverAsks, Writes
  <1> QED
    BY <1>1, <1>2 DEF RestInv

LEMMA NextRests ==
  ASSUME SInv, RestInv, SInv', [Next]_vars
  PROVE  RestInv'
PROOF
  <1>1. ASSUME NEW c \in Client, Library(c) PROVE RestInv'
    <2>1. SyncStep(c) /\ UNCHANGED <<macVars, remoteVars>>
      BY <1>1 DEF Library, SyncStep
    <2> QED
      BY <2>1, LibraryRests
  <1>2. CASE Receiver
    BY <1>2, MacRests DEF Receiver
  <1>3. ASSUME NEW r \in Remote, Phone(r) PROVE RestInv'
    BY <1>3, PhoneRests DEF Phone
  <1>4. CASE UNCHANGED vars
    <2>1. /\ UNCHANGED <<watching, down, calls, pending, cache, loaded, mainq, dot>>
          /\ View(Mac)' = View(Mac)
      BY <1>4 DEF vars, syncVars, clientVars, serverVars, macVars, View
    <2> QED
      BY <2>1 DEF RestInv, Filled, MacNeverAsks, Writes, Abreast, Settled
  <1> QED
    BY <1>1, <1>2, <1>3, <1>4 DEF Next

\* At the end the Mac sees the room as it is, and has answered to it.
LEMMA QuietAnswered ==
  ASSUME SInv, RestInv, Quiet
  PROVE  Settled /\ calls[Mac] = <<>> /\ \A p \in Leaf : View(Mac)[p] = server[p]
PROOF
  <1>t. Mac \in Client /\ Mac \notin Remote /\ Watched[Mac] = Leaf /\ "wants" \in Leaf
    BY RoomNames, RoomAssumption DEF Setting
  <1>1. /\ watching[Mac] /\ down[Mac] = <<>> /\ calls[Mac] = <<>> /\ pending[Mac] = <<>>
        /\ mainq[Mac] = <<>>
    BY <1>t DEF Quiet, Active, Listens
  <1>2. loaded[Mac]
    <2>1. Range(down[Mac]) = {}
      BY <1>1 DEF Range
    <2> QED
      BY <1>t, <1>1, <2>1 DEF RestInv, Filled
  <1>3. View(Mac) = Under(Mac, server)
    BY <1>t, <1>1, DrainedSeesServer DEF SInv
  <1>4. \A p \in Leaf : View(Mac)[p] = server[p]
    BY <1>t, <1>3 DEF Under
  <1>5. ~TellsLast(mainq[Mac], View(Mac))
    BY <1>1 DEF TellsLast
  <1> QED
    BY <1>1, <1>2, <1>4, <1>5 DEF RestInv, Abreast

THEOREM Invariance == Spec => []SInv
PROOF
  <1>1. Init => SInv
    BY InitHolds
  <1>2. SInv /\ [Next]_vars => SInv'
    BY NextHolds
  <1> QED
    BY <1>1, <1>2, PTL DEF Spec

\* Every variable has its type, however many phones there are and whatever
\* connections are lost: what the callbacks find in their trees is what the
\* applications wrote.
THEOREM TypeCorrect == Spec => []SessionTypeOK
PROOF
  <1>1. SInv => SessionTypeOK
    BY DEF SInv, SyncInv, SessionTypeOK
  <1> QED
    BY <1>1, Invariance, PTL

\* A command that was sent is on its way, or in the room, or in the hands of
\* the Mac.
THEOREM NothingLost == Spec => []NoCommandLost
PROOF
  <1>1. SInv => NoCommandLost
    <2> SUFFICES ASSUME SInv PROVE NoCommandLost
      OBVIOUS
    <2>1. MadePress \subseteq {p \in MadePress : Unsent(p) \/ server[p] # None} \cup {p \in Press : Taken(p)}
      BY DEF SInv, Delivery!Accounted
    <2> QED
      BY <2>1 DEF NoCommandLost
  <1> QED
    BY <1>1, Invariance, PTL

\* The session, with its database, its queues and its lost connections,
\* implements the delivery of commands that CommandDelivery describes.
THEOREM Delivers == Spec => CommandsDelivered
PROOF
  <1>1. Init => Delivery!DeliveryInit
    BY InitHolds
  <1>2. SInv /\ [Next]_vars => [Delivery!DeliveryNext]_(Delivery!dvars)
    BY NextHolds
  <1> QED
    BY <1>1, <1>2, Invariance, PTL DEF Spec, CommandsDelivered, Delivery!DeliverySpec

\* And so every command is accounted for: it leaves the room but in the hands of
\* the Mac, and nothing is carried out that the Mac did not take from the room.
THEOREM CommandsAccounted == Spec => []Delivery!Accounted
PROOF
  <1> DEFINE DInv == Delivery!Accounted /\ performed \in [Press -> Nat]
  <1>1. Delivery!DeliveryInit => DInv
    BY DEF Delivery!DeliveryInit, Delivery!Accounted
  <1>2. DInv /\ [Delivery!DeliveryNext]_(Delivery!dvars) => DInv'
    <2> SUFFICES ASSUME DInv, [Delivery!DeliveryNext]_(Delivery!dvars)
                 PROVE  performed' \in [Press -> Nat]
      BY DeliveryAccounts
    <2>1. ASSUME NEW p \in Press, Delivery!CarryOut(p) PROVE performed' \in [Press -> Nat]
      BY <2>1 DEF Delivery!CarryOut
    <2>2. ASSUME NEW ps \in SUBSET Press, NEW atOnce \in SUBSET ps, Delivery!Take(ps, atOnce)
          PROVE  performed' \in [Press -> Nat]
      BY <2>2 DEF Delivery!Take
    <2>3. CASE UNCHANGED performed
      BY <2>3
    <2> QED
      BY <2>1, <2>2, <2>3
         DEF Delivery!DeliveryNext, Delivery!Submit, Delivery!Close, Delivery!SendAgain, Delivery!dvars
  <1> QED
    BY <1>1, <1>2, Delivers, PTL DEF CommandsDelivered, Delivery!DeliverySpec

\* What the Mac sees is what its callback has answered to, or will be told.
THEOREM Rests == Spec => []RestInv
PROOF
  <1>1. Init => RestInv
    BY InitRests
  <1>2. SInv /\ SInv' /\ RestInv /\ [Next]_vars => RestInv'
    BY NextRests
  <1> QED
    BY <1>1, <1>2, Invariance, PTL DEF Spec

\* When nothing is left to do, no request for a screenshot is left standing:
\* the write that takes it back is in the room, though the Mac's own writes,
\* late answers and lost connections came between.
THEOREM RequestsAnswered == Spec => []NoRequestLeft
PROOF
  <1>1. SInv /\ RestInv => NoRequestLeft
    <2> SUFFICES ASSUME SInv, RestInv, Quiet PROVE server["wants"] # "true"
      BY DEF NoRequestLeft
    <2>1. "wants" \in Leaf /\ Range(<<>>) = {}
      BY RoomNames DEF Setting, Range
    <2> QED
      BY <2>1, QuietAnswered DEF Settled
  <1> QED
    BY <1>1, Invariance, Rests, PTL

\* When nothing is left to do, the red dot is where the room says, though
\* places that came with a request were passed over.
THEOREM DotAtRest == Spec => []DotFollows
PROOF
  <1>1. SInv /\ RestInv => DotFollows
    <2> SUFFICES ASSUME SInv, RestInv, Quiet, server["coord"] # None PROVE dot = server["coord"]
      BY DEF DotFollows
    <2>1. "wants" \in Leaf /\ "coord" \in Leaf /\ Range(<<>>) = {}
      BY RoomNames DEF Setting, Range
    <2> QED
      BY <2>1, QuietAnswered DEF Settled
  <1> QED
    BY <1>1, Invariance, Rests, PTL

=============================================================================
