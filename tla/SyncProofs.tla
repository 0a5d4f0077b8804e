----------------------------- MODULE SyncProofs -----------------------------
(***************************************************************************)
(* Lemmas about FirebaseSync, for whatever application it is part of: its  *)
(* steps keep the types, count every acknowledgement once, and keep every  *)
(* registered listen exact.                                                *)
(***************************************************************************)
EXTENDS FirebaseSync, SequenceTheorems, FiniteSetTheorems, TLAPS

-----------------------------------------------------------------------------
(* Overlay *)

\* Among finitely many numbered writes there is a last one.
LEMMA LastExists ==
  ASSUME NEW n \in Nat, NEW S \in SUBSET (1..n), S # {}
  PROVE  Max(S) \in S /\ \A i \in S : i <= Max(S)
PROOF
  <1> DEFINE Above(i) == {j \in S : j > i}
             T == {Above(i) : i \in S}
  <1>1. IsFiniteSet(S)
    BY FS_Interval, FS_Subset, 1 \in Int, n \in Int
  <1>2. T \subseteq FiniteSubsetsOf(S) /\ T # {}
    <2>1. \A i \in S : Above(i) \in SUBSET S
      OBVIOUS
    <2>2. \A i \in S : IsFiniteSet(Above(i))
      BY <1>1, <2>1, FS_Subset
    <2> QED
      BY <2>1, <2>2, Zenon DEF FiniteSubsetsOf
  <1>3. PICK A \in T : \A B \in T : ~ (<<B, A>> \in StrictSubsetOrdering(S))
    BY <1>1, <1>2, FS_StrictSubsetOrderingWellFounded, WFMin
  <1>4. PICK x \in S : A = Above(x)
    BY <1>3
  <1>5. ASSUME NEW i \in S, i > x PROVE FALSE
    <2>1. Above(i) \subseteq Above(x) /\ i \in Above(x) /\ i \notin Above(i)
      <3>1. x \in Int /\ i \in Int /\ S \subseteq Int
        OBVIOUS
      <3>2. ~ (i > i) /\ \A j \in S : j > i => j > x
        BY <1>5, <3>1, SMT
      <3> QED
        BY <1>5, <3>2, Zenon
    <2>2. <<Above(i), A>> \in StrictSubsetOrdering(S)
      BY <2>1, <1>4 DEF StrictSubsetOrdering
    <2> QED
      BY <2>2, <1>3
  <1>6. \A i \in S : x >= i
    BY <1>5
  <1> QED
    BY <1>6 DEF Max

LEMMA OverlayType ==
  ASSUME NEW tree \in Tree, NEW ws \in Seq(Write)
  PROVE  Overlay(tree, ws) \in Tree
PROOF
  <1>1. ASSUME NEW p \in Leaf, Covering(ws, p) # {}
        PROVE  ws[Max(Covering(ws, p))][p] \in Content
    <2>1. Covering(ws, p) \in SUBSET (1..Len(ws)) /\ Len(ws) \in Nat
      BY DEF Covering
    <2>2. Max(Covering(ws, p)) \in Covering(ws, p)
      BY <1>1, <2>1, LastExists
    <2>3. ws[Max(Covering(ws, p))] \in Write
      BY <2>1, <2>2, ElementOfSeq
    <2> QED
      BY <2>2, <2>3 DEF Covering, Write
  <1>2. \A p \in Leaf : tree[p] \in Content
    BY DEF Tree
  <1> QED
    BY <1>1, <1>2 DEF Overlay, Tree

\* With nothing pending the cache is seen as it is.
LEMMA OverlayNothing ==
  ASSUME NEW tree, NEW p \in Leaf
  PROVE  Overlay(tree, <<>>)[p] = tree[p]
PROOF
  <1>1. Covering(<<>>, p) = {}
    BY DEF Covering
  <1> QED
    BY <1>1 DEF Overlay

\* What a client with this cache and these pending writes sees is a tree.
LEMMA SeenType ==
  ASSUME NEW c \in Client, NEW tree \in Tree, NEW ws \in Seq(Write)
  PROVE  Under(c, Overlay(tree, ws)) \in Tree
PROOF
  BY OverlayType DEF Under, Tree, Content

LEMMA ApplyType ==
  ASSUME NEW tree \in Tree, NEW write \in Write
  PROVE  Apply(tree, write) \in Tree
PROOF
  BY DEF Apply, Tree, Write

-----------------------------------------------------------------------------
(* Types *)

\* Only trees are raised as events.
LEMMA RaiseType ==
  ASSUME TypeOK, NEW c \in Client, Raise(c),
         cache' \in [Client -> Tree], pending' \in [Client -> Seq(Write)]
  PROVE  mainq' \in [Client -> Seq(Job)]
PROOF
  <1>1. View(c)' \in Tree
    BY SeenType DEF View
  <1>2. [kind |-> "event", tree |-> View(c)'] \in Job
    BY <1>1 DEF Job, Event
  <1>3. Append(mainq[c], [kind |-> "event", tree |-> View(c)']) \in Seq(Job)
    BY <1>2 DEF TypeOK
  <1> QED
    BY <1>3 DEF Raise, TypeOK

LEMMA RemoveOldestType ==
  ASSUME TypeOK, NEW c \in Client, RemoveOldest(c), pending[c] # <<>>
  PROVE  /\ pending' \in [Client -> Seq(Write)]
         /\ mainq' \in [Client -> Seq(Job)]
PROOF
  <1>1. Tail(pending[c]) \in Seq(Write)
    BY HeadTailProperties DEF TypeOK
  <1>2. pending' \in [Client -> Seq(Write)]
    BY <1>1 DEF RemoveOldest, TypeOK
  <1>3. cache' \in [Client -> Tree]
    BY DEF RemoveOldest, TypeOK
  <1> QED
    BY <1>2, <1>3, RaiseType DEF RemoveOldest

LEMMA RunWriteType ==
  ASSUME TypeOK, NEW c \in Client, RunWrite(c)
  PROVE  TypeOK'
PROOF
  <1>1. Head(calls[c]) \in Write /\ Tail(calls[c]) \in Seq(Write)
    BY HeadTailProperties DEF TypeOK, RunWrite
  <1>2. Append(pending[c], Head(calls[c])) \in Seq(Write)
    BY <1>1 DEF TypeOK
  <1>3. pending' \in [Client -> Seq(Write)] /\ calls' \in [Client -> Seq(Write)]
    BY <1>1, <1>2 DEF RunWrite, TypeOK
  <1>4. mainq' \in [Client -> Seq(Job)]
    BY <1>3, RaiseType DEF RunWrite, TypeOK
  <1> QED
    BY <1>3, <1>4 DEF RunWrite, TypeOK, serverVars

LEMMA ReceiveDataType ==
  ASSUME TypeOK, NEW c \in Client, ReceiveData(c)
  PROVE  TypeOK'
PROOF
  <1>1. Head(down[c]) \in Message /\ Tail(down[c]) \in Seq(Message)
    BY HeadTailProperties DEF TypeOK, ReceiveData
  <1>2. Head(down[c]).data \in Write
    BY <1>1 DEF ReceiveData, Message
  <1>3. Apply(cache[c], Head(down[c]).data) \in Tree
    BY <1>2, ApplyType DEF TypeOK
  <1>4. cache' \in [Client -> Tree] /\ down' \in [Client -> Seq(Message)]
    BY <1>1, <1>3 DEF ReceiveData, TypeOK
  <1>5. mainq' \in [Client -> Seq(Job)]
    BY <1>4, RaiseType DEF ReceiveData, TypeOK
  <1> QED
    BY <1>4, <1>5 DEF ReceiveData, TypeOK

LEMMA ReceiveAckType ==
  ASSUME TypeOK, AcksCounted, NEW c \in Client, ReceiveAck(c)
  PROVE  TypeOK'
PROOF
  <1>1. down' \in [Client -> Seq(Message)]
    BY HeadTailProperties DEF TypeOK, ReceiveAck
  <1>2. taken' \in [Client -> Nat]
    BY DEF TypeOK, ReceiveAck
  <1>3. CASE unacked[c]
    <2>1. /\ held' = [held EXCEPT ![c] = @ + 1]
          /\ UNCHANGED <<calls, pending, unacked, cache, loaded, mainq>>
      BY <1>3, Zenon DEF ReceiveAck
    <2>2. held' \in [Client -> Nat]
      BY <2>1 DEF TypeOK
    <2> QED
      BY <1>1, <1>2, <2>1, <2>2 DEF TypeOK, ReceiveAck
  <1>4. CASE ~unacked[c]
    <2>1. pending[c] # <<>>
      BY DEF TypeOK, AcksCounted, ReceiveAck
    <2>2. RemoveOldest(c) /\ UNCHANGED held
      BY <1>4 DEF ReceiveAck
    <2>3. pending' \in [Client -> Seq(Write)] /\ mainq' \in [Client -> Seq(Job)]
      BY <2>1, <2>2, RemoveOldestType
    <2> QED
      BY <1>1, <1>2, <2>2, <2>3 DEF TypeOK, ReceiveAck, RemoveOldest
  <1> QED
    BY <1>3, <1>4

LEMMA ReceiveOkType ==
  ASSUME TypeOK, NEW c \in Client, ReceiveOk(c)
  PROVE  TypeOK'
PROOF
  <1>1. down' \in [Client -> Seq(Message)]
    BY HeadTailProperties DEF TypeOK, ReceiveOk
  <1> QED
    BY <1>1 DEF TypeOK, ReceiveOk

LEMMA AckHeldType ==
  ASSUME TypeOK, AcksCounted, NEW c \in Client, AckHeld(c)
  PROVE  TypeOK'
PROOF
  <1>1. pending[c] # <<>> /\ held' \in [Client -> Nat]
    BY DEF TypeOK, AcksCounted, AckHeld, Acking
  <1>2. pending' \in [Client -> Seq(Write)] /\ mainq' \in [Client -> Seq(Job)]
    BY <1>1, RemoveOldestType DEF AckHeld
  <1> QED
    BY <1>1, <1>2 DEF TypeOK, AckHeld, RemoveOldest, serverVars

LEMMA ConnectType ==
  ASSUME TypeOK, NEW c \in Client, Connect(c)
  PROVE  TypeOK'
PROOF
  BY DEF TypeOK, Connect, serverVars, Listens

LEMMA DisconnectType ==
  ASSUME TypeOK, NEW c \in Client, Disconnect(c)
  PROVE  TypeOK'
PROOF
  <1>1. drops' \in 0..MaxDrops
    BY SyncAssumption DEF TypeOK, Disconnect
  <1> QED
    BY <1>1 DEF TypeOK, Disconnect

\* What the server sends is made of messages.
LEMMA PushedType ==
  ASSUME NEW d \in Client, NEW tree \in Tree
  PROVE  Pushed(d, tree) \in Seq(Message)
PROOF
  <1>1. Delta(d, tree) \in Write
    BY DEF Delta, Write, Tree
  <1>2. [kind |-> "data", data |-> Delta(d, tree)] \in Message
    BY <1>1 DEF Message
  <1>3. <<[kind |-> "data", data |-> Delta(d, tree)]>> \in Seq(Message)
        /\ <<>> \in Seq(Message)
    BY <1>2
  <1> QED
    BY <1>3, Zenon DEF Pushed

\* The put the server does next is one of the pending writes.
LEMMA NextPutTyped ==
  ASSUME TypeOK, NEW c \in Client, ServerPut(c)
  PROVE  NextPut(c) \in 1..Len(pending[c]) /\ server' \in Tree
PROOF
  <1>1. NextPut(c) \in 1..Len(pending[c])
    BY DEF TypeOK, ServerPut, NextPut
  <1> QED
    BY <1>1, ApplyType, ElementOfSeq DEF TypeOK, ServerPut

LEMMA ServerPutType ==
  ASSUME TypeOK, NEW c \in Client, ServerPut(c)
  PROVE  TypeOK'
PROOF
  <1>2. server' \in Tree
    BY NextPutTyped
  <1>3. ASSUME NEW d \in Client
        PROVE  down[d] \o (Pushed(d, server')
                 \o (IF d = c THEN <<[kind |-> "ack"]>> ELSE <<>>)) \in Seq(Message)
    <2>1. Pushed(d, server') \in Seq(Message)
      BY <1>2, PushedType
    <2>2. (IF d = c THEN <<[kind |-> "ack"]>> ELSE <<>>) \in Seq(Message)
      <3>1. [kind |-> "ack"] \in Message
        BY DEF Message
      <3>2. <<[kind |-> "ack"]>> \in Seq(Message) /\ <<>> \in Seq(Message)
        BY <3>1
      <3> QED
        BY <3>2, Zenon
    <2> QED
      BY <2>1, <2>2, ConcatProperties DEF TypeOK
  <1>4. down' \in [Client -> Seq(Message)]
    BY <1>3 DEF ServerPut
  <1>5. taken' \in [Client -> Nat]
    BY DEF TypeOK, ServerPut
  <1> QED
    BY <1>2, <1>4, <1>5 DEF TypeOK, ServerPut, clientVars

LEMMA ServerListenType ==
  ASSUME TypeOK, NEW c \in Client, ServerListen(c)
  PROVE  TypeOK'
PROOF
  <1> DEFINE whole == [p \in Leaf |-> IF p \in Watched[c] THEN server[p] ELSE Keep]
  <1>1. whole \in Write
    BY DEF TypeOK, Tree, Write
  <1>2. <<[kind |-> "data", data |-> whole], [kind |-> "ok"]>> \in Seq(Message)
    BY <1>1 DEF Message
  <1>3. down' \in [Client -> Seq(Message)]
    BY <1>2, ConcatProperties DEF TypeOK, ServerListen
  <1>4. watching' \in [Client -> BOOLEAN]
    BY DEF TypeOK, ServerListen
  <1> QED
    BY <1>3, <1>4 DEF TypeOK, ServerListen, clientVars

-----------------------------------------------------------------------------
(* Acknowledgements *)

LEMMA CountedStep ==
  ASSUME TypeOK, AcksCounted, NEW c \in Client, SyncStep(c)
  PROVE  AcksCounted'
PROOF
  <1>1. CASE RunWrite(c)
    <2>1. Len(pending'[c]) = Len(pending[c]) + 1
      BY <1>1, HeadTailProperties DEF RunWrite, TypeOK
    <2> QED
      BY <1>1, <2>1 DEF RunWrite, TypeOK, AcksCounted, serverVars
  <1>2. ASSUME RemoveOldest(c), pending[c] # <<>>
        PROVE  Len(pending'[c]) = Len(pending[c]) - 1
    BY <1>2, HeadTailProperties DEF RemoveOldest, TypeOK
  <1>3. CASE ReceiveAck(c) /\ unacked[c]
    <2>1. held' = [held EXCEPT ![c] = @ + 1] /\ UNCHANGED pending
      BY <1>3, Zenon DEF ReceiveAck
    <2> QED
      BY <1>3, <2>1 DEF ReceiveAck, TypeOK, AcksCounted
  <1>4. CASE ReceiveAck(c) /\ ~unacked[c]
    <2>1. RemoveOldest(c) /\ UNCHANGED held
      BY <1>4 DEF ReceiveAck
    <2>2. pending[c] # <<>>
      BY <1>4 DEF TypeOK, AcksCounted, ReceiveAck
    <2> QED
      BY <1>2, <1>4, <2>1, <2>2 DEF ReceiveAck, RemoveOldest, TypeOK, AcksCounted
  <1>5. CASE AckHeld(c)
    <2>1. pending[c] # <<>>
      BY <1>5 DEF TypeOK, AcksCounted, AckHeld, Acking
    <2> QED
      BY <1>2, <1>5, <2>1 DEF AckHeld, Acking, RemoveOldest, TypeOK, AcksCounted, serverVars
  <1>6. CASE Disconnect(c)
    BY <1>6 DEF Disconnect, TypeOK, AcksCounted
  <1>7. CASE ServerPut(c)
    BY <1>7 DEF ServerPut, NextPut, TypeOK, AcksCounted, clientVars
  <1>8. CASE ReceiveData(c) \/ ReceiveOk(c) \/ ServerListen(c) \/ Connect(c)
    BY <1>8 DEF ReceiveData, ReceiveOk, ServerListen, Connect, AcksCounted, clientVars, serverVars
  <1> QED
    BY <1>1, <1>3, <1>4, <1>5, <1>6, <1>7, <1>8 DEF SyncStep, ClientStep, ServerStep

-----------------------------------------------------------------------------
(* The stream of a listen *)

\* Where the elements of a concatenation come from.
LEMMA ConcatParts ==
  ASSUME NEW s \in Seq(Message), NEW t \in Seq(Message)
  PROVE  /\ Len(s) \in Nat /\ Len(t) \in Nat
         /\ DOMAIN (s \o t) = 1..(Len(s) + Len(t))
         /\ \A k \in 1..Len(t) : (s \o t)[Len(s) + k] = t[k]
         /\ \A i \in DOMAIN (s \o t) :
              i <= Len(s) \/ \E k \in 1..Len(t) : i = Len(s) + k
PROOF
  <1>1. /\ Len(s) \in Nat /\ Len(t) \in Nat
        /\ DOMAIN (s \o t) = 1..(Len(s) + Len(t))
        /\ \A k \in 1..Len(t) : (s \o t)[Len(s) + k] = t[k]
    BY ConcatProperties
  <1>2. ASSUME NEW i \in 1..(Len(s) + Len(t)), ~ (i <= Len(s))
        PROVE  \E k \in 1..Len(t) : i = Len(s) + k
    <2>1. i - Len(s) \in 1..Len(t) /\ i = Len(s) + (i - Len(s))
      BY <1>1, <1>2
    <2> QED
      BY <2>1, Zenon
  <1>3. \A i \in 1..(Len(s) + Len(t)) :
          i <= Len(s) \/ \E k \in 1..Len(t) : i = Len(s) + k
    BY <1>2, Zenon
  <1> QED
    BY <1>1, <1>3, Zenon

\* A client loses the first message on its way, and the cache takes it if it
\* is data: what it will have heard in the end is the same.
LEMMA StreamPop ==
  ASSUME TypeOK, NEW c \in Client, NEW p \in Leaf, LastWord(c, p),
         down[c] # <<>>, down'[c] = Tail(down[c]), UNCHANGED server,
         IF Head(down[c]).kind = "data" /\ Head(down[c]).data[p] # Keep
         THEN cache'[c][p] = Head(down[c]).data[p]
         ELSE cache'[c][p] = cache[c][p]
  PROVE  LastWord(c, p)'
PROOF
  <1> DEFINE s == down[c]
             S == Saying(c, p)
             N == Saying(c, p)'
  <1>1. /\ Len(s) \in Nat /\ Len(s) > 0
        /\ Len(down'[c]) = Len(s) - 1
        /\ \A i \in 1..(Len(s) - 1) : down'[c][i] = s[i + 1]
        /\ Head(s) = s[1]
        /\ DOMAIN s = 1..Len(s) /\ DOMAIN down'[c] = 1..(Len(s) - 1)
    BY HeadTailProperties DEF TypeOK
  <1>2. \A i \in N : i + 1 \in S /\ i \in Nat /\ down'[c][i] = s[i + 1]
    BY <1>1 DEF Saying
  <1>3. \A j \in S : j \in Nat /\ (j = 1 \/ j - 1 \in N)
    BY <1>1 DEF Saying
  <1>4. 1 \in S <=> Head(s).kind = "data" /\ Head(s).data[p] # Keep
    BY <1>1 DEF Saying
  <1>5. ASSUME N = {} PROVE cache'[c][p] = server'[p]
    <2>1. S = {} \/ S = {1}
      BY <1>3, <1>5
    <2>2. CASE S = {}
      BY <1>4, <2>2, Zenon DEF LastWord
    <2>3. CASE S = {1}
      <3>1. s[1].data[p] = server[p]
        BY <2>3 DEF LastWord
      <3> QED
        BY <1>1, <1>4, <2>3, <3>1
    <2> QED
      BY <2>1, <2>2, <2>3
  <1>6. ASSUME NEW i \in N, \A j \in N : j <= i
        PROVE  down'[c][i].data[p] = server'[p]
    <2>1. \A j \in S : j <= i + 1
      BY <1>2, <1>3, <1>6
    <2>2. s[i + 1].data[p] = server[p]
      BY <1>2, <2>1 DEF LastWord
    <2> QED
      BY <1>2, <2>2
  <1> QED
    BY <1>5, <1>6, Zenon DEF LastWord

\* More messages are put on the way to d: either the leaf does not change and
\* none of them speaks of it, or the last that does has the server's value.
LEMMA StreamExtend ==
  ASSUME TypeOK, NEW d \in Client, NEW p \in Leaf, UNCHANGED cache,
         NEW more \in Seq(Message), down'[d] = down[d] \o more,
         \/ /\ LastWord(d, p)
            /\ server'[p] = server[p]
            /\ \A i \in Saying(d, p)' : i <= Len(down[d])
         \/ \E i \in Saying(d, p)' :
              /\ \A j \in Saying(d, p)' : j <= i
              /\ down'[d][i].data[p] = server'[p]
  PROVE  LastWord(d, p)'
PROOF
  <1>1. /\ Len(down[d]) \in Nat /\ Len(more) \in Nat
        /\ DOMAIN down[d] = 1..Len(down[d])
        /\ DOMAIN down'[d] = 1..(Len(down[d]) + Len(more))
        /\ \A i \in 1..Len(down[d]) : down'[d][i] = down[d][i]
    BY ConcatProperties DEF TypeOK
  <1>2. CASE /\ LastWord(d, p)
             /\ server'[p] = server[p]
             /\ \A i \in Saying(d, p)' : i <= Len(down[d])
    <2>1. Saying(d, p)' = Saying(d, p)
      <3>1. ASSUME NEW i \in Saying(d, p) PROVE i \in Saying(d, p)'
        BY <1>1 DEF Saying
      <3>2. ASSUME NEW i \in Saying(d, p)' PROVE i \in Saying(d, p)
        <4>1. i \in 1..Len(down[d])
          BY <1>1, <1>2 DEF Saying
        <4> QED
          BY <1>1, <4>1 DEF Saying
      <3> QED
        BY <3>1, <3>2
    <2>2. \A i \in Saying(d, p) : down'[d][i] = down[d][i]
      BY <1>1 DEF Saying
    <2> QED
      BY <1>2, <2>1, <2>2 DEF LastWord
  <1>3. ASSUME NEW i \in Saying(d, p)',
               \A j \in Saying(d, p)' : j <= i,
               down'[d][i].data[p] = server'[p]
        PROVE  LastWord(d, p)'
    <2>1. \A j \in Saying(d, p)' : j \in Nat
      BY <1>1 DEF Saying
    <2>2. \A k \in Saying(d, p)' : (\A j \in Saying(d, p)' : j <= k) => k = i
      BY <1>3, <2>1
    <2> QED
      BY <1>3, <2>2 DEF LastWord
  <1> QED
    BY <1>2, <1>3

\* Taking one message off the way to c keeps every listen exact.
LEMMA PopExact ==
  ASSUME TypeOK, StreamExact, NEW c \in Client,
         down[c] # <<>>, down' = [down EXCEPT ![c] = Tail(@)],
         UNCHANGED <<server, watching>>,
         \A d \in Client \ {c} : cache'[d] = cache[d],
         \A p \in Leaf :
           IF Head(down[c]).kind = "data" /\ Head(down[c]).data[p] # Keep
           THEN cache'[c][p] = Head(down[c]).data[p]
           ELSE cache'[c][p] = cache[c][p]
  PROVE  StreamExact'
PROOF
  <1> SUFFICES ASSUME NEW d \in Client, watching'[d], NEW p \in Watched[d]
               PROVE  LastWord(d, p)'
    BY DEF StreamExact
  <1>1. p \in Leaf /\ LastWord(d, p)
    BY SyncAssumption DEF StreamExact
  <1>2. CASE d = c
    BY <1>1, <1>2, StreamPop DEF TypeOK
  <1>3. CASE d # c
    BY <1>1, <1>3 DEF LastWord, Saying, TypeOK
  <1> QED
    BY <1>2, <1>3

\* What ServerPut puts on the way to a listening client speaks of the leaves
\* that change, and of no other.
LEMMA PutExact ==
  ASSUME TypeOK, StreamExact, NEW c \in Client, ServerPut(c),
         NEW d \in Client, watching[d], NEW p \in Watched[d]
  PROVE  LastWord(d, p)'
PROOF
  <1> DEFINE ack == IF d = c THEN <<[kind |-> "ack"]>> ELSE <<>>
             more == Pushed(d, server') \o ack
             push == [kind |-> "data", data |-> Delta(d, server')]
  <1>1. p \in Leaf /\ LastWord(d, p)
    BY SyncAssumption DEF StreamExact
  <1>2. server' \in Tree
    BY NextPutTyped
  <1>3. Pushed(d, server') \in Seq(Message) /\ ack \in Seq(Message)
    <2>1. [kind |-> "ack"] \in Message
      BY DEF Message
    <2>2. <<[kind |-> "ack"]>> \in Seq(Message) /\ <<>> \in Seq(Message)
      BY <2>1
    <2> QED
      BY <1>2, <2>2, PushedType, Zenon
  <1>4. down'[d] = down[d] \o more /\ more \in Seq(Message)
    BY <1>3, ConcatProperties DEF ServerPut
  <1>5. UNCHANGED cache
    BY DEF ServerPut, clientVars
  <1>6. Len(ack) \in {0, 1} /\ \A i \in 1..Len(ack) : ack[i].kind = "ack"
    BY DEF ServerPut
  <1>7. CASE server'[p] = server[p]
    <2>1. Delta(d, server')[p] = Keep
      BY <1>1, <1>7 DEF Delta
    <2>2. \A i \in 1..Len(more) :
            ~ (more[i].kind = "data" /\ more[i].data[p] # Keep)
      <3>1. CASE Pushed(d, server') = <<>>
        BY <1>3, <1>6, <3>1, ConcatEmptySeq
      <3>2. CASE Pushed(d, server') = <<push>>
        <4>1. \A i \in 1..Len(more) : i = 1 \/ (i - 1 \in 1..Len(ack) /\ more[i] = ack[i - 1])
          BY <1>3, <3>2, ConcatProperties
        <4>2. more[1] = push
          BY <1>3, <3>2, ConcatProperties
        <4> QED
          BY <1>6, <2>1, <4>1, <4>2
      <3> QED
        BY <3>1, <3>2 DEF Pushed
    <2> HIDE DEF more
    <2>3. ASSUME NEW i \in Saying(d, p)' PROVE i <= Len(down[d])
      <3>1. i \in DOMAIN (down[d] \o more)
        BY <1>4 DEF Saying
      <3>2. ASSUME NEW k \in 1..Len(more), i = Len(down[d]) + k PROVE FALSE
        <4>1. down'[d][i] = more[k]
          BY <1>4, <3>2, ConcatParts DEF TypeOK
        <4> QED
          BY <2>2, <4>1 DEF Saying
      <3> QED
        BY <1>4, <3>1, <3>2, ConcatParts DEF TypeOK
    <2> QED
      BY <1>1, <1>4, <1>5, <1>7, <2>3, StreamExtend
  <1>8. CASE server'[p] # server[p]
    <2>1. Delta(d, server')[p] = server'[p] /\ server'[p] # Keep
      BY <1>1, <1>2, <1>8, SyncAssumption DEF Delta, Tree, Content
    <2>2. Pushed(d, server') = <<push>>
      BY <1>1, <2>1, Zenon DEF Pushed, Silence
    <2>3. /\ Len(more) = 1 + Len(ack) /\ more[1] = push
          /\ \A i \in 2..Len(more) : more[i].kind = "ack"
      BY <1>3, <1>6, <2>2, ConcatProperties
    <2>4. push.kind = "data" /\ push.data = Delta(d, server')
      OBVIOUS
    <2> HIDE DEF more, push, ack
    <2>a. /\ Len(down[d]) \in Nat /\ Len(more) \in Nat
          /\ DOMAIN (down[d] \o more) = 1..(Len(down[d]) + Len(more))
          /\ \A k \in 1..Len(more) : (down[d] \o more)[Len(down[d]) + k] = more[k]
          /\ \A i \in DOMAIN (down[d] \o more) :
               i <= Len(down[d]) \/ \E k \in 1..Len(more) : i = Len(down[d]) + k
      <3>1. down[d] \in Seq(Message) /\ more \in Seq(Message)
        BY <1>4 DEF TypeOK
      <3> HIDE DEF more
      <3> QED
        BY <3>1, ConcatParts
    <2>b. down'[d] = down[d] \o more
      BY <1>4
    <2>c. 1 \in 1..Len(more)
      BY <1>6, <2>3, <2>a
    <2>5. /\ Len(down[d]) + 1 \in DOMAIN down'[d]
          /\ down'[d][Len(down[d]) + 1] = push
      BY <2>3, <2>a, <2>b, <2>c
    <2>6. /\ Len(down[d]) + 1 \in Saying(d, p)'
          /\ down'[d][Len(down[d]) + 1].data[p] = server'[p]
      BY <2>1, <2>4, <2>5 DEF Saying
    <2>7. ASSUME NEW j \in Saying(d, p)' PROVE j <= Len(down[d]) + 1
      <3>1. j \in DOMAIN (down[d] \o more)
        BY <2>b DEF Saying
      <3>2. CASE j <= Len(down[d])
        BY <2>a, <3>1, <3>2
      <3>3. ASSUME NEW k \in 1..Len(more), j = Len(down[d]) + k
            PROVE  j <= Len(down[d]) + 1
        <4>1. down'[d][j] = more[k]
          BY <2>a, <2>b, <3>3
        <4>2. more[k].kind # "ack"
          BY <4>1 DEF Saying
        <4>3. k = 1
          <5>1. ASSUME k # 1 PROVE k \in 2..Len(more)
            BY <2>a, <5>1
          <5> QED
            BY <2>3, <4>2, <5>1
        <4> QED
          BY <2>a, <3>3, <4>3
      <3>4. j <= Len(down[d]) \/ \E k \in 1..Len(more) : j = Len(down[d]) + k
        BY <2>a, <3>1, Zenon
      <3> QED
        BY <3>2, <3>3, <3>4, Zenon
    <2> QED
      BY <1>1, <1>4, <1>5, <2>6, <2>7, StreamExtend
  <1> QED
    BY <1>7, <1>8

\* ServerListen puts the whole node on the way, then the answer.
LEMMA ListenExact ==
  ASSUME TypeOK, NEW c \in Client, ServerListen(c), NEW p \in Watched[c]
  PROVE  LastWord(c, p)'
PROOF
  <1> DEFINE whole == [q \in Leaf |-> IF q \in Watched[c] THEN server[q] ELSE Keep]
             more == <<[kind |-> "data", data |-> whole], [kind |-> "ok"]>>
  <1>1. p \in Leaf /\ server[p] # Keep /\ UNCHANGED <<cache, server>>
    BY SyncAssumption DEF TypeOK, Tree, Content, ServerListen, clientVars
  <1>2. whole \in Write /\ whole[p] = server[p]
    BY <1>1 DEF TypeOK, Tree, Write
  <1>3. more \in Seq(Message) /\ down'[c] = down[c] \o more
    BY <1>2 DEF Message, ServerListen, TypeOK
  <1>4. /\ Len(more) = 2
        /\ more[1].kind = "data" /\ more[1].data = whole /\ more[2].kind = "ok"
    OBVIOUS
  <1> HIDE DEF more, whole
  <1> DEFINE s == down[c]
  <1>parts. /\ Len(s) \in Nat /\ DOMAIN (s \o more) = 1..(Len(s) + 2)
        /\ \A k \in 1..2 : (s \o more)[Len(s) + k] = more[k]
        /\ down'[c] = s \o more
    <2>1. s \in Seq(Message)
      BY DEF TypeOK
    <2> QED
      BY <1>3, <1>4, <2>1, ConcatParts
  <1>5. Len(down[c]) + 1 \in DOMAIN down'[c] /\ down'[c][Len(down[c]) + 1] = more[1]
    BY <1>parts
  <1>6. /\ Len(down[c]) + 1 \in Saying(c, p)'
        /\ down'[c][Len(down[c]) + 1].data[p] = server'[p]
    BY <1>1, <1>2, <1>4, <1>5 DEF Saying
  <1>7. ASSUME NEW j \in Saying(c, p)' PROVE j <= Len(down[c]) + 1
    <2>1. j \in DOMAIN (down[c] \o more)
      BY <1>3 DEF Saying
    <2>2. /\ Len(down[c]) \in Nat
          /\ j \in 1..(Len(down[c]) + 2)
      BY <1>parts, <2>1
    <2>3. ASSUME j = Len(down[c]) + 2 PROVE FALSE
      <3>1. down'[c][j] = more[2]
        BY <1>parts, <2>3
      <3> QED
        BY <1>4, <3>1 DEF Saying
    <2> QED
      BY <2>2, <2>3
  <1> QED
    BY <1>1, <1>3, <1>6, <1>7, StreamExtend

\* A registered listen stays exact through every step.
LEMMA StreamStep ==
  ASSUME TypeOK, AcksCounted, StreamExact, NEW c \in Client, SyncStep(c)
  PROVE  StreamExact'
PROOF
  <1>1. ASSUME UNCHANGED <<server, down, cache>>, \A d \in Client : watching'[d] => watching[d]
        PROVE  StreamExact'
    BY <1>1 DEF StreamExact, LastWord, Saying
  <1>2. CASE RunWrite(c) \/ Connect(c)
    BY <1>1, <1>2 DEF RunWrite, Connect, serverVars
  <1>3. CASE AckHeld(c)
    BY <1>1, <1>3 DEF AckHeld, RemoveOldest, serverVars
  <1>4. CASE ReceiveData(c)
    <2>1. /\ down[c] # <<>> /\ down' = [down EXCEPT ![c] = Tail(@)]
          /\ UNCHANGED <<server, watching>> /\ Head(down[c]).kind = "data"
          /\ cache' = [cache EXCEPT ![c] = Apply(@, Head(down[c]).data)]
      BY <1>4 DEF ReceiveData
    <2>2. ASSUME NEW p \in Leaf
          PROVE  IF Head(down[c]).kind = "data" /\ Head(down[c]).data[p] # Keep
                 THEN cache'[c][p] = Head(down[c]).data[p]
                 ELSE cache'[c][p] = cache[c][p]
      BY <2>1 DEF Apply, TypeOK
    <2>3. \A d \in Client \ {c} : cache'[d] = cache[d]
      BY <2>1 DEF TypeOK
    <2> QED
      BY <2>1, <2>2, <2>3, PopExact
  <1>5. CASE ReceiveAck(c) \/ ReceiveOk(c)
    <2>1. /\ down[c] # <<>> /\ down' = [down EXCEPT ![c] = Tail(@)]
          /\ UNCHANGED <<server, watching>> /\ Head(down[c]).kind # "data"
      BY <1>5 DEF ReceiveAck, ReceiveOk
    <2>2. UNCHANGED cache
      <3>1. CASE ReceiveOk(c)
        BY <3>1 DEF ReceiveOk
      <3>2. CASE ReceiveAck(c) /\ unacked[c]
        BY <3>2, Zenon DEF ReceiveAck
      <3>3. CASE ReceiveAck(c) /\ ~unacked[c]
        BY <3>3 DEF ReceiveAck, RemoveOldest
      <3> QED
        BY <1>5, <3>1, <3>2, <3>3
    <2> QED
      BY <2>1, <2>2, PopExact
  <1>6. CASE Disconnect(c)
    <2> SUFFICES ASSUME NEW d \in Client, watching'[d], NEW p \in Watched[d]
                 PROVE  LastWord(d, p)'
      BY DEF StreamExact
    <2>1. d # c /\ watching[d] /\ down'[d] = down[d] /\ UNCHANGED <<server, cache>>
      BY <1>6 DEF Disconnect, TypeOK
    <2> QED
      BY <2>1 DEF StreamExact, LastWord, Saying
  <1>7. CASE ServerPut(c)
    BY <1>7, PutExact DEF StreamExact, ServerPut
  <1>8. CASE ServerListen(c)
    <2> SUFFICES ASSUME NEW d \in Client, watching'[d], NEW p \in Watched[d]
                 PROVE  LastWord(d, p)'
      BY DEF StreamExact
    <2>1. CASE d = c
      BY <1>8, <2>1, ListenExact
    <2>2. CASE d # c
      <3>1. watching[d] /\ down'[d] = down[d] /\ UNCHANGED <<server, cache>>
        BY <1>8, <2>2 DEF ServerListen, clientVars, TypeOK
      <3> QED
        BY <3>1 DEF StreamExact, LastWord, Saying
    <2> QED
      BY <2>1, <2>2
  <1> QED
    BY <1>2, <1>3, <1>4, <1>5, <1>6, <1>7, <1>8 DEF SyncStep, ClientStep, ServerStep

-----------------------------------------------------------------------------
(* Together *)

\* The inductive invariant of the library: StreamExact needs the types,
\* and removing the oldest write needs the count.
SyncInv == TypeOK /\ AcksCounted /\ StreamExact

LEMMA SyncInitHolds == ASSUME SyncInit PROVE SyncInv
PROOF
  <1>1. FirstWrites \in [Client -> Seq(Write)] /\ EmptyTree \in Tree
    BY SyncAssumption DEF Write, Tree, Content, EmptyTree
  <1>2. TypeOK
    BY <1>1, SyncAssumption DEF SyncInit, TypeOK
  <1>3. AcksCounted
    BY <1>1 DEF SyncInit, AcksCounted
  <1>4. StreamExact
    BY DEF SyncInit, StreamExact
  <1> QED
    BY <1>2, <1>3, <1>4 DEF SyncInv

LEMMA SyncStepHolds == ASSUME SyncInv, NEW c \in Client, SyncStep(c) PROVE SyncInv'
PROOF
  <1>1. TypeOK'
    BY RunWriteType, ReceiveDataType, ReceiveAckType, ReceiveOkType, AckHeldType,
       ConnectType, DisconnectType, ServerPutType, ServerListenType
       DEF SyncInv, SyncStep, ClientStep, ServerStep
  <1>2. AcksCounted' /\ StreamExact'
    BY CountedStep, StreamStep DEF SyncInv
  <1> QED
    BY <1>1, <1>2 DEF SyncInv

\* What an application does, a dispatched call or an event taken, leaves alone
\* all that the count and the streams depend on.
LEMMA ApplicationStepHolds ==
  ASSUME AcksCounted, StreamExact,
         UNCHANGED <<server, watching, taken, down, pending, held, cache>>
  PROVE  AcksCounted' /\ StreamExact'
PROOF
  BY DEF AcksCounted, StreamExact, LastWord, Saying

\* A client with nothing on its way and nothing outstanding sees the tree of
\* the server.
LEMMA DrainedSeesServer ==
  ASSUME SyncInv, NEW c \in Client,
         watching[c], down[c] = <<>>, pending[c] = <<>>
  PROVE  View(c) = Under(c, server)
PROOF
  <1> SUFFICES ASSUME NEW p \in Leaf
               PROVE  View(c)[p] = Under(c, server)[p]
    BY DEF View, Under
  <1>1. CASE p \in Watched[c]
    <2>1. LastWord(c, p)
      BY <1>1 DEF SyncInv, StreamExact
    <2>2. Saying(c, p) = {}
      BY DEF Saying
    <2>3. Overlay(cache[c], <<>>)[p] = server[p]
      BY <2>1, <2>2, OverlayNothing DEF LastWord
    <2> QED
      BY <2>3 DEF View, Under
  <1>2. CASE p \notin Watched[c]
    BY <1>2 DEF View, Under
  <1> QED
    BY <1>1, <1>2
-----------------------------------------------------------------------------
(* What passes through a client *)

\* The writes of c that are not yet acknowledged.
Writes(c) == Range(calls[c]) \cup Range(pending[c])

\* F tells what each leaf may hold.
FitsTree(F, tree) == \A p \in Leaf : tree[p] \in F[p]
FitsWrite(F, write) == \A p \in Leaf : write[p] \in F[p] \cup {Keep}

FitsMessage(F, m) == m.kind = "data" => FitsWrite(F, m.data)
FitsJob(F, job) == job.kind = "event" => FitsTree(F, job.tree)

\* All that is written, stored, sent and told is what the leaves may hold.
Fits(F) ==
  /\ FitsTree(F, server)
  /\ \A c \in Client :
       /\ FitsTree(F, cache[c])
       /\ \A write \in Writes(c) : FitsWrite(F, write)
       /\ \A m \in Range(down[c]) : FitsMessage(F, m)
       /\ \A job \in Range(mainq[c]) : FitsJob(F, job)

LEMMA RangeOfTail ==
  ASSUME NEW S, NEW s \in Seq(S), s # <<>>
  PROVE  /\ Range(Tail(s)) \subseteq Range(s) /\ Head(s) \in Range(s)
         /\ Range(s) = {Head(s)} \cup Range(Tail(s))
PROOF
  <1>1. /\ Len(s) \in Nat /\ Len(s) > 0 /\ DOMAIN s = 1..Len(s)
        /\ DOMAIN Tail(s) = 1..(Len(s) - 1) /\ Head(s) = s[1]
        /\ \A i \in 1..(Len(s) - 1) : Tail(s)[i] = s[i + 1]
    BY HeadTailProperties
  <1>2. \A i \in 1..(Len(s) - 1) : i + 1 \in 1..Len(s)
    BY <1>1
  <1>3. \A i \in 1..Len(s) : i = 1 \/ (i - 1 \in 1..(Len(s) - 1) /\ s[i] = Tail(s)[i - 1])
    BY <1>1
  <1>4. 1 \in 1..Len(s)
    BY <1>1
  <1>5. /\ \A x : x \in Range(s) <=> \E i \in 1..Len(s) : x = s[i]
        /\ \A x : x \in Range(Tail(s)) <=> \E i \in 1..(Len(s) - 1) : x = Tail(s)[i]
    BY <1>1, Zenon DEF Range
  <1>6. ASSUME NEW x \in Range(Tail(s)) PROVE x \in Range(s)
    BY <1>1, <1>2, <1>5, <1>6, Zenon
  <1>7. ASSUME NEW x \in Range(s) PROVE x = Head(s) \/ x \in Range(Tail(s))
    <2>1. PICK i \in 1..Len(s) : x = s[i]
      BY <1>5, <1>7, Zenon
    <2>2. CASE i = 1
      BY <2>1, <2>2, <1>1
    <2>3. CASE i # 1
      <3>1. i - 1 \in 1..(Len(s) - 1) /\ s[i] = Tail(s)[i - 1]
        BY <1>3, <2>3
      <3> QED
        BY <1>5, <2>1, <3>1, Zenon
    <2> QED
      BY <2>2, <2>3
  <1>8. Head(s) \in Range(s)
    BY <1>1, <1>4, <1>5, Zenon
  <1> QED
    BY <1>6, <1>7, <1>8, Zenon

LEMMA RangeOfAppend ==
  ASSUME NEW S, NEW s \in Seq(S), NEW e
  PROVE  Range(Append(s, e)) = Range(s) \cup {e}
PROOF
  <1>1. /\ Len(s) \in Nat /\ DOMAIN s = 1..Len(s)
        /\ DOMAIN Append(s, e) = 1..(Len(s) + 1)
        /\ \A i \in 1..Len(s) : i \in 1..(Len(s) + 1) /\ Append(s, e)[i] = s[i]
        /\ Len(s) + 1 \in 1..(Len(s) + 1) /\ Append(s, e)[Len(s) + 1] = e
        /\ \A i \in 1..(Len(s) + 1) : i \in 1..Len(s) \/ i = Len(s) + 1
    OBVIOUS
  <1> QED
    BY <1>1, Zenon DEF Range

\* The library writes nothing of its own.
LEMMA WritesStep ==
  ASSUME SyncInv, NEW c \in Client, SyncStep(c), NEW d \in Client
  PROVE  Writes(d)' \subseteq Writes(d)
PROOF
  <1>t. calls[c] \in Seq(Write) /\ pending[c] \in Seq(Write) /\ TypeOK /\ AcksCounted
    BY DEF SyncInv, TypeOK
  <1>1. CASE RunWrite(c)
    <2>1. CASE d = c
      <3>1. calls'[c] = Tail(calls[c]) /\ pending'[c] = Append(pending[c], Head(calls[c]))
        BY <1>1, <1>t DEF RunWrite, TypeOK
      <3>2. Range(Tail(calls[c])) \subseteq Range(calls[c]) /\ Head(calls[c]) \in Range(calls[c])
        BY <1>1, <1>t, RangeOfTail DEF RunWrite
      <3>3. Range(Append(pending[c], Head(calls[c]))) = Range(pending[c]) \cup {Head(calls[c])}
        BY <1>t, RangeOfAppend
      <3> QED
        BY <2>1, <3>1, <3>2, <3>3 DEF Writes
    <2>2. CASE d # c
      BY <1>1, <1>t, <2>2 DEF RunWrite, TypeOK, Writes
    <2> QED
      BY <2>1, <2>2
  <1>2. ASSUME RemoveOldest(c), pending[c] # <<>> PROVE Writes(d)' \subseteq Writes(d)
    <2>1. CASE d = c
      <3>1. pending'[c] = Tail(pending[c]) /\ UNCHANGED calls
        BY <1>2, <1>t DEF RemoveOldest, TypeOK
      <3>2. Range(Tail(pending[c])) \subseteq Range(pending[c])
        BY <1>2, <1>t, RangeOfTail
      <3> QED
        BY <2>1, <3>1, <3>2 DEF Writes
    <2>2. CASE d # c
      BY <1>2, <1>t, <2>2 DEF RemoveOldest, TypeOK, Writes
    <2> QED
      BY <2>1, <2>2
  <1>3. CASE ReceiveAck(c)
    <2>1. CASE unacked[c]
      BY <1>3, <2>1 DEF ReceiveAck, Writes
    <2>2. CASE ~unacked[c]
      <3>1. pending[c] # <<>>
        BY <1>3, <1>t DEF ReceiveAck, TypeOK, AcksCounted
      <3> QED
        BY <1>2, <1>3, <2>2, <3>1 DEF ReceiveAck
    <2> QED
      BY <2>1, <2>2
  <1>4. CASE AckHeld(c)
    <2>1. pending[c] # <<>>
      BY <1>4, <1>t DEF AckHeld, Acking, TypeOK, AcksCounted
    <2> QED
      BY <1>2, <1>4, <2>1 DEF AckHeld
  <1>5. CASE ReceiveData(c) \/ ReceiveOk(c) \/ ServerStep(c) \/ Connect(c) \/ Disconnect(c)
    BY <1>5 DEF ReceiveData, ReceiveOk, ServerStep, ServerPut, ServerListen, Connect,
                Disconnect, clientVars, Writes
  <1> QED
    BY <1>1, <1>3, <1>4, <1>5 DEF SyncStep, ClientStep

\* Who listens is told of every change in what is seen, by one event at the
\* end of the main queue, and of nothing else.
LEMMA RaiseStep ==
  ASSUME SyncInv, NEW c \in Client, SyncStep(c), NEW d \in Client
  PROVE  \/ /\ mainq'[d] = mainq[d]
            /\ loaded'[d] => loaded[d] /\ View(d)' = View(d)
         \/ mainq'[d] = Append(mainq[d], [kind |-> "event", tree |-> View(d)'])
PROOF
  <1>t. TypeOK /\ mainq \in [Client -> Seq(Job)]
    BY DEF SyncInv, TypeOK
  <1>1. CASE d # c
    <2>1. mainq'[d] = mainq[d] \/ Raise(c)
      BY <1>1, <1>t DEF SyncStep, ClientStep, ServerStep, RunWrite, ReceiveData, ReceiveAck, ReceiveOk,
           AckHeld, RemoveOldest, Connect, Disconnect, ServerPut, ServerListen, clientVars
    <2>2. mainq'[d] = mainq[d]
      BY <1>1, <1>t, <2>1 DEF Raise
    <2>3. cache'[d] = cache[d] /\ pending'[d] = pending[d] /\ loaded'[d] = loaded[d]
      BY <1>1, <1>t DEF SyncStep, ClientStep, ServerStep, RunWrite, ReceiveData, ReceiveAck, ReceiveOk,
           AckHeld, RemoveOldest, Connect, Disconnect, ServerPut, ServerListen, clientVars, TypeOK
    <2> QED
      BY <2>2, <2>3 DEF View
  <1>2. CASE d = c
    <2>1. ASSUME Raise(c) PROVE
            \/ /\ mainq'[d] = mainq[d]
               /\ loaded'[d] => loaded[d] /\ View(d)' = View(d)
            \/ mainq'[d] = Append(mainq[d], [kind |-> "event", tree |-> View(d)'])
      BY <1>2, <1>t, <2>1 DEF Raise
    <2>2. CASE RunWrite(c) \/ ReceiveData(c) \/ AckHeld(c) \/ (ReceiveAck(c) /\ ~unacked[c])
      BY <2>1, <2>2 DEF RunWrite, ReceiveData, AckHeld, ReceiveAck, RemoveOldest
    <2>3. CASE \/ ReceiveAck(c) /\ unacked[c]
               \/ ReceiveOk(c) \/ ServerStep(c) \/ Connect(c) \/ Disconnect(c)
      <3>1. mainq' = mainq /\ loaded' = loaded /\ cache' = cache /\ pending' = pending
        BY <2>3 DEF ReceiveAck, ReceiveOk, ServerStep, ServerPut, ServerListen, Connect, Disconnect,
                    clientVars
      <3> QED
        BY <3>1 DEF View
    <2> QED
      BY <2>2, <2>3 DEF SyncStep, ClientStep
  <1> QED
    BY <1>1, <1>2

\* The library puts nothing on a main queue but events, at the end.
LEMMA JobsStep ==
  ASSUME SyncInv, NEW c \in Client, SyncStep(c), NEW d \in Client
  PROVE  \/ mainq'[d] = mainq[d]
         \/ mainq'[d] = Append(mainq[d], [kind |-> "event", tree |-> View(d)'])
PROOF
  BY RaiseStep

\* A complete cache is on its way to every registered listen, or there.
Filled ==
  \A c \in Client : watching[c] /\ ~loaded[c] =>
    \E m \in Range(down[c]) : m.kind = "data"

\* A put adds to what is on its way, and takes nothing away.
LEMMA PutAppends ==
  ASSUME TypeOK, NEW c \in Client, ServerPut(c), NEW d \in Client
  PROVE  \E more \in Seq(Message) : down'[d] = down[d] \o more
PROOF
  <1> DEFINE ack == IF d = c THEN <<[kind |-> "ack"]>> ELSE <<>>
             more == Pushed(d, server') \o ack
  <1>1. server' \in Tree
    BY NextPutTyped
  <1>2. Pushed(d, server') \in Seq(Message) /\ ack \in Seq(Message)
    <2>1. [kind |-> "ack"] \in Message
      BY DEF Message
    <2>2. <<[kind |-> "ack"]>> \in Seq(Message) /\ <<>> \in Seq(Message)
      BY <2>1
    <2> QED
      BY <1>1, <2>2, PushedType, Zenon
  <1>3. more \in Seq(Message)
    BY <1>2, ConcatProperties
  <1>4. down'[d] = down[d] \o more
    BY DEF ServerPut
  <1> QED
    BY <1>3, <1>4, Zenon

LEMMA FilledStep ==
  ASSUME SyncInv, Filled, NEW c \in Client, SyncStep(c)
  PROVE  Filled'
PROOF
  <1>t. TypeOK /\ down \in [Client -> Seq(Message)]
    BY DEF SyncInv, TypeOK
  <1> SUFFICES ASSUME NEW d \in Client, watching'[d], ~loaded'[d]
               PROVE  \E m \in Range(down'[d]) : m.kind = "data"
    BY DEF Filled
  <1> DEFINE Coming == \E m \in Range(down[d]) : m.kind = "data"
  <1>f. watching[d] /\ ~loaded[d] => Coming
    BY DEF Filled
  <1>p. \A s \in Seq(Message) : \A u \in Seq(Message) : Range(s \o u) = Range(s) \cup Range(u)
    BY RangeConcatenation
  <1>1. CASE ServerPut(c)
    <2>1. UNCHANGED <<watching, loaded>>
      BY <1>1 DEF ServerPut, clientVars
    <2>2. Coming
      BY <1>f, <2>1
    <2>3. PICK more \in Seq(Message) : down'[d] = down[d] \o more
      BY <1>1, <1>t, PutAppends
    <2>4. Range(down'[d]) = Range(down[d]) \cup Range(more)
      BY <2>3, <1>p, <1>t
    <2> QED
      BY <2>2, <2>4
  <1>2. CASE ~ServerPut(c) /\ d # c
    <2>1. watching'[d] = watching[d] /\ loaded'[d] = loaded[d] /\ down'[d] = down[d]
      BY <1>2, <1>t DEF SyncStep, ClientStep, ServerStep, RunWrite, ReceiveData, ReceiveAck,
           ReceiveOk, AckHeld, RemoveOldest, Connect, Disconnect, ServerListen, clientVars,
           serverVars, TypeOK
    <2> QED
      BY <2>1, <1>f
  <1>3. CASE d = c /\ (RunWrite(c) \/ AckHeld(c) \/ Connect(c))
    <2>1. watching'[d] = watching[d] /\ loaded'[d] = loaded[d] /\ down'[d] = down[d]
      BY <1>3 DEF RunWrite, AckHeld, RemoveOldest, Connect, serverVars
    <2> QED
      BY <2>1, <1>f
  <1>4. CASE d = c /\ (ReceiveAck(c) \/ ReceiveOk(c))
    <2>1. /\ watching'[d] = watching[d] /\ loaded'[d] = loaded[d] /\ down'[d] = Tail(down[d])
          /\ down[d] # <<>> /\ Head(down[d]).kind # "data"
      BY <1>4, <1>t DEF ReceiveAck, ReceiveOk, RemoveOldest
    <2>2. Range(down[d]) = {Head(down[d])} \cup Range(Tail(down[d]))
      BY <2>1, <1>t, RangeOfTail
    <2> QED
      BY <2>1, <2>2, <1>f
  <1>5. CASE d = c /\ ReceiveData(c)
    BY <1>5, <1>t DEF ReceiveData, TypeOK
  <1>6. CASE d = c /\ Disconnect(c)
    BY <1>6, <1>t DEF Disconnect, TypeOK
  <1>7. CASE d = c /\ ServerListen(c)
    <2>1. PICK whole : whole = [p \in Leaf |-> IF p \in Watched[c] THEN server[p] ELSE Keep]
      OBVIOUS
    <2>2. whole \in Write
      BY <2>1, <1>t DEF TypeOK, Tree, Write
    <2>3. PICK first : first = [kind |-> "data", data |-> whole]
      OBVIOUS
    <2>4. PICK more : more = <<first, [kind |-> "ok"]>>
      OBVIOUS
    <2>5. more \in Seq(Message) /\ first \in Range(more) /\ first.kind = "data"
      <3>1. first \in Message /\ [kind |-> "ok"] \in Message
        BY <2>2, <2>3 DEF Message
      <3>2. more \in Seq(Message) /\ 1 \in DOMAIN more /\ more[1] = first
        BY <2>4, <3>1
      <3> QED
        BY <2>3, <3>2 DEF Range
    <2>6. down'[d] = down[d] \o more
      BY <1>7, <1>t, <2>1, <2>3, <2>4 DEF ServerListen
    <2>7. Range(down'[d]) = Range(down[d]) \cup Range(more)
      BY <2>5, <2>6, <1>p, <1>t
    <2> QED
      BY <2>5, <2>7
  <1> QED
    BY <1>1, <1>2, <1>3, <1>4, <1>5, <1>6, <1>7 DEF SyncStep, ClientStep, ServerStep

LEMMA SeqOfOne ==
  ASSUME NEW S, NEW x \in S
  PROVE  <<x>> \in Seq(S) /\ <<>> \in Seq(S)
PROOF
  OBVIOUS

LEMMA ElementInRange ==
  ASSUME NEW S, NEW s \in Seq(S), NEW i \in DOMAIN s
  PROVE  s[i] \in Range(s) /\ s[i] \in S
PROOF
  <1>1. s[i] \in Range(s)
    BY Zenon DEF Range
  <1>2. s[i] \in S
    OBVIOUS
  <1> QED
    BY <1>1, <1>2

LEMMA OverlayFits ==
  ASSUME NEW F, NEW tree, FitsTree(F, tree), NEW ws \in Seq(Write),
         \A write \in Range(ws) : FitsWrite(F, write)
  PROVE  FitsTree(F, Overlay(tree, ws))
PROOF
  <1> SUFFICES ASSUME NEW p \in Leaf PROVE Overlay(tree, ws)[p] \in F[p]
    BY DEF FitsTree
  <1>1. CASE Covering(ws, p) = {}
    BY <1>1 DEF Overlay, FitsTree
  <1>2. CASE Covering(ws, p) # {}
    <2> DEFINE i == Max(Covering(ws, p))
    <2>1. Covering(ws, p) \in SUBSET (1..Len(ws)) /\ Len(ws) \in Nat
      BY DEF Covering
    <2>2. i \in Covering(ws, p)
      BY <1>2, <2>1, LastExists
    <2>3. i \in DOMAIN ws /\ ws[i][p] # Keep
      BY <2>2 DEF Covering
    <2>4. ws[i] \in Range(ws)
      BY <2>3, ElementInRange, Zenon
    <2>5. ws[i][p] \in F[p]
      BY <2>3, <2>4 DEF FitsWrite
    <2> QED
      BY <1>2, <2>5 DEF Overlay
  <1> QED
    BY <1>1, <1>2

LEMMA ViewFits ==
  ASSUME NEW F, \A p \in Leaf : None \in F[p], NEW d \in Client,
         FitsTree(F, cache[d]), pending[d] \in Seq(Write),
         \A write \in Range(pending[d]) : FitsWrite(F, write)
  PROVE  FitsTree(F, View(d))
PROOF
  BY OverlayFits DEF View, Under, FitsTree

\* The library invents nothing: what is written, stored, sent and told stays
\* what the leaves may hold.
LEMMA FitsStep ==
  ASSUME NEW F, \A p \in Leaf : None \in F[p],
         SyncInv, Fits(F), NEW c \in Client, SyncStep(c)
  PROVE  Fits(F)'
PROOF
  <1>t. TypeOK /\ AcksCounted /\ SyncInv'
    BY SyncStepHolds DEF SyncInv
  <1>s. ASSUME NEW d \in Client, NEW i \in DOMAIN pending[d]
        PROVE  FitsWrite(F, pending[d][i])
    BY <1>t, ElementInRange DEF TypeOK, Fits, Writes
  <1>m. ASSUME NEW d \in Client, down[d] # <<>>
        PROVE  /\ FitsMessage(F, Head(down[d]))
               /\ Range(Tail(down[d])) \subseteq Range(down[d])
    BY <1>m, <1>t, RangeOfTail DEF TypeOK, Fits
  <1>1. FitsTree(F, server')
    <2>1. CASE ServerPut(c)
      <3>1. NextPut(c) \in DOMAIN pending[c]
        <4>1. pending[c] \in Seq(Write) /\ NextPut(c) \in 1..Len(pending[c])
          BY <2>1, <1>t, NextPutTyped DEF TypeOK
        <4> QED
          BY <4>1
      <3> QED
        BY <2>1, <3>1, <1>s DEF ServerPut, Apply, FitsWrite, FitsTree, Fits
    <2>2. CASE ~ServerPut(c)
      BY <2>2 DEF SyncStep, ClientStep, ServerStep, RunWrite, ReceiveData, ReceiveAck, ReceiveOk,
                  AckHeld, Connect, Disconnect, ServerListen, Fits, serverVars
    <2> QED
      BY <2>1, <2>2
  <1>2. ASSUME NEW d \in Client PROVE FitsTree(F, cache'[d])
    <2>1. CASE ReceiveData(c)
      <3>1. FitsWrite(F, Head(down[c]).data)
        BY <2>1, <1>m DEF ReceiveData, FitsMessage
      <3>2. cache'[d] = IF d = c THEN Apply(cache[c], Head(down[c]).data) ELSE cache[d]
        BY <2>1, <1>t DEF ReceiveData, TypeOK
      <3> QED
        BY <3>1, <3>2 DEF Apply, FitsWrite, FitsTree, Fits
    <2>2. CASE ~ReceiveData(c)
      <3>1. cache' = cache
        BY <2>2 DEF SyncStep, ClientStep, ServerStep, RunWrite, ReceiveAck, ReceiveOk, RemoveOldest,
                    AckHeld, Connect, Disconnect, ServerListen, ServerPut, clientVars
      <3> QED
        BY <3>1 DEF Fits
    <2> QED
      BY <2>1, <2>2
  <1>3. ASSUME NEW d \in Client, NEW write \in Writes(d)' PROVE FitsWrite(F, write)
    BY <1>3, WritesStep DEF Fits
  <1>4. ASSUME NEW d \in Client, NEW m \in Range(down[d])' PROVE FitsMessage(F, m)
    <2>1. CASE ServerPut(c)
      <3> DEFINE answer == IF d = c THEN <<[kind |-> "ack"]>> ELSE <<>>
                 news == Pushed(d, server')
      <3>1. down'[d] = down[d] \o (news \o answer)
        BY <2>1 DEF ServerPut
      <3>2. FitsWrite(F, Delta(d, server'))
        BY <1>1 DEF Delta, FitsWrite, FitsTree
      <3> DEFINE push == [kind |-> "data", data |-> Delta(d, server')]
      <3>3. news = <<>> \/ news = <<push>>
        BY DEF Pushed
      <3> DEFINE U == {push, [kind |-> "ack"]}
      <3>4. answer \in Seq(U) /\ news \in Seq(U)
        <4>2. <<push>> \in Seq(U) /\ <<[kind |-> "ack"]>> \in Seq(U) /\ <<>> \in Seq(U)
          BY SeqOfOne, Zenon
        <4> HIDE DEF U, news, push
        <4> QED
          BY <3>3, <4>2, Zenon
      <3>5. \A u \in U : FitsMessage(F, u)
        BY <3>2 DEF FitsMessage
      <3> HIDE DEF answer, news, U
      <3>6. Range(news \o answer) \subseteq U /\ news \o answer \in Seq(U)
        <4>1. news \o answer \in Seq(U)
          BY <3>4
        <4>2. \A i \in DOMAIN (news \o answer) : (news \o answer)[i] \in U
          BY <4>1, ElementOfSeq
        <4> QED
          BY <4>1, <4>2, Zenon DEF Range
      <3>7. Range(down'[d]) = Range(down[d]) \cup Range(news \o answer)
        <4>1. down[d] \in Seq(Message \cup U)
          BY <1>t DEF TypeOK
        <4>2. news \o answer \in Seq(Message \cup U)
          BY <3>6, SeqMonotonic, U \subseteq Message \cup U, Zenon
        <4> DEFINE T == Message \cup U
        <4>3. \A s \in Seq(T) : \A t \in Seq(T) : Range(s \o t) = Range(s) \cup Range(t)
          BY RangeConcatenation
        <4> QED
          BY <4>1, <4>2, <4>3, <3>1, Zenon
      <3> QED
        BY <3>5, <3>6, <3>7, <1>4 DEF Fits
    <2>2. CASE ServerListen(c)
      <3> DEFINE node == [p \in Leaf |-> IF p \in Watched[c] THEN server[p] ELSE Keep]
                 said == <<[kind |-> "data", data |-> node], [kind |-> "ok"]>>
      <3>1. CASE d # c
        BY <2>2, <3>1, <1>4, <1>t DEF ServerListen, TypeOK, Fits
      <3>2. CASE d = c
        <4>1. down'[d] = down[d] \o said
          BY <2>2, <3>2, <1>t DEF ServerListen, TypeOK
        <4>2. FitsWrite(F, node)
          BY DEF Fits, FitsTree, FitsWrite
        <4>3. ASSUME NEW x \in Range(said)
              PROVE  x = [kind |-> "data", data |-> node] \/ x = [kind |-> "ok"]
          BY DEF Range
        <4>4. \A x \in Range(said) : FitsMessage(F, x)
          BY <4>2, <4>3 DEF FitsMessage
        <4> DEFINE U == {[kind |-> "data", data |-> node], [kind |-> "ok"]}
        <4>5. said \in Seq(Message \cup U) /\ down[d] \in Seq(Message \cup U)
          BY <1>t DEF TypeOK
        <4> HIDE DEF said
        <4>6. Range(down'[d]) = Range(down[d]) \cup Range(said)
          BY <4>1, <4>5, RangeConcatenation
        <4> QED
          BY <4>4, <4>6, <1>4 DEF Fits
      <3> QED
        BY <3>1, <3>2
    <2>3. CASE Disconnect(c)
      BY <2>3, <1>4, <1>t DEF Disconnect, TypeOK, Fits, Range
    <2>4. CASE ReceiveData(c) \/ ReceiveAck(c) \/ ReceiveOk(c)
      <3>1. down[c] # <<>> /\ down' = [down EXCEPT ![c] = Tail(@)]
        BY <2>4 DEF ReceiveData, ReceiveAck, ReceiveOk
      <3> QED
        BY <3>1, <1>4, <1>m, <1>t DEF TypeOK, Fits
    <2>5. CASE RunWrite(c) \/ AckHeld(c) \/ Connect(c)
      BY <2>5, <1>4 DEF RunWrite, AckHeld, Connect, serverVars, Fits
    <2> QED
      BY <2>1, <2>2, <2>3, <2>4, <2>5 DEF SyncStep, ClientStep, ServerStep
  <1>5. ASSUME NEW d \in Client, NEW job \in Range(mainq[d])' PROVE FitsJob(F, job)
    <2>1. FitsTree(F, View(d)')
      <3>1. \A write \in Range(pending'[d]) : FitsWrite(F, write)
        BY <1>3 DEF Writes
      <3>2. pending'[d] \in Seq(Write)
        BY <1>t DEF SyncInv, TypeOK
      <3>3. FitsTree(F, Overlay(cache'[d], pending'[d]))
        BY <1>2, <3>1, <3>2, OverlayFits
      <3> QED
        BY <3>3 DEF View, Under, FitsTree
    <2>2. CASE mainq'[d] = mainq[d]
      BY <2>2, <1>5 DEF Fits
    <2>3. CASE mainq'[d] = Append(mainq[d], [kind |-> "event", tree |-> View(d)'])
      <3>1. Range(mainq'[d]) = Range(mainq[d]) \cup {[kind |-> "event", tree |-> View(d)']}
        BY <2>3, <1>t, RangeOfAppend DEF TypeOK
      <3> QED
        BY <2>1, <3>1, <1>5 DEF Fits, FitsJob
    <2> QED
      BY <2>2, <2>3, JobsStep
  <1> QED
    BY <1>1, <1>2, <1>3, <1>4, <1>5 DEF Fits

\* What may be held may be held when more is allowed.
LEMMA FitsMore ==
  ASSUME NEW F, NEW G, \A p \in Leaf : F[p] \subseteq G[p], Fits(F)
  PROVE  Fits(G)
PROOF
  <1>1. ASSUME NEW tree, FitsTree(F, tree) PROVE FitsTree(G, tree)
    BY <1>1 DEF FitsTree
  <1>2. ASSUME NEW write, FitsWrite(F, write) PROVE FitsWrite(G, write)
    BY <1>2 DEF FitsWrite
  <1> QED
    BY <1>1, <1>2 DEF Fits, FitsMessage, FitsJob

-----------------------------------------------------------------------------
(* What a client has still to do on its connection *)

\* d has dispatched, or has outstanding, a write of leaf p.
Owing(d, p) ==
  \/ \E i \in DOMAIN calls[d] : calls[d][i][p] # Keep
  \/ \E i \in DOMAIN pending[d] : i >= NextPut(d) /\ pending[d][i][p] # Keep

\* The oldest acknowledged write leaves nothing more or less to do.
LEMMA PopOwing ==
  ASSUME NEW n \in Nat \ {0}, NEW s \in Seq(Write), s # <<>>, NEW p
  PROVE  (\E i \in DOMAIN s : i >= n + 1 /\ s[i][p] # Keep)
           <=> (\E i \in DOMAIN Tail(s) : i >= n /\ Tail(s)[i][p] # Keep)
PROOF
  <1>1. /\ Len(s) \in Nat /\ DOMAIN s = 1..Len(s)
        /\ DOMAIN Tail(s) = 1..(Len(s) - 1)
        /\ \A i \in 1..(Len(s) - 1) : Tail(s)[i] = s[i + 1]
    BY HeadTailProperties
  <1>2. ASSUME NEW i \in 1..Len(s), i >= n + 1
        PROVE  /\ i - 1 \in 1..(Len(s) - 1) /\ i - 1 >= n /\ s[i] = Tail(s)[i - 1]
    BY <1>1, <1>2
  <1>3. ASSUME NEW i \in 1..(Len(s) - 1), i >= n
        PROVE  i + 1 \in 1..Len(s) /\ i + 1 >= n + 1 /\ Tail(s)[i] = s[i + 1]
    BY <1>1, <1>3
  <1>4. ASSUME NEW i \in DOMAIN s, i >= n + 1, s[i][p] # Keep
        PROVE  \E j \in DOMAIN Tail(s) : j >= n /\ Tail(s)[j][p] # Keep
    BY <1>1, <1>2, <1>4, Zenon
  <1>5. ASSUME NEW i \in DOMAIN Tail(s), i >= n, Tail(s)[i][p] # Keep
        PROVE  \E j \in DOMAIN s : j >= n + 1 /\ s[j][p] # Keep
    BY <1>1, <1>3, <1>5, Zenon
  <1> QED
    BY <1>4, <1>5, Zenon

\* A write that begins to run moves from one place to the other.
LEMMA RunOwing ==
  ASSUME NEW n \in Nat, NEW t \in Seq(Write), t # <<>>, NEW s \in Seq(Write),
         n <= Len(s) + 1, NEW p
  PROVE  (\/ \E i \in DOMAIN Tail(t) : Tail(t)[i][p] # Keep
          \/ \E i \in DOMAIN Append(s, Head(t)) :
               i >= n /\ Append(s, Head(t))[i][p] # Keep)
         <=> (\/ \E i \in DOMAIN t : t[i][p] # Keep
              \/ \E i \in DOMAIN s : i >= n /\ s[i][p] # Keep)
PROOF
  <1> DEFINE q == Append(s, Head(t))
             u == Tail(t)
  <1>1. /\ Len(t) \in Nat /\ DOMAIN t = 1..Len(t) /\ Len(t) > 0
        /\ DOMAIN u = 1..(Len(t) - 1)
        /\ \A i \in 1..(Len(t) - 1) : u[i] = t[i + 1]
    BY HeadTailProperties
  <1>2. /\ Len(s) \in Nat /\ DOMAIN s = 1..Len(s)
        /\ DOMAIN q = 1..(Len(s) + 1) /\ q[Len(s) + 1] = t[1]
        /\ \A i \in 1..Len(s) : q[i] = s[i]
    OBVIOUS
  <1> HIDE DEF q, u
  <1>3. ASSUME NEW i \in 1..Len(t)
        PROVE  \/ i = 1
               \/ i - 1 \in 1..(Len(t) - 1) /\ t[i] = u[i - 1]
    BY <1>1
  <1>4. ASSUME NEW i \in 1..(Len(t) - 1)
        PROVE  i + 1 \in 1..Len(t) /\ u[i] = t[i + 1]
    BY <1>1
  <1>5. 1 \in 1..Len(t) /\ Len(s) + 1 \in 1..(Len(s) + 1) /\ Len(s) + 1 >= n
    BY <1>1, <1>2
  <1>6. ASSUME NEW i \in 1..(Len(s) + 1) PROVE i = Len(s) + 1 \/ i \in 1..Len(s)
    BY <1>2
  <1>7. \A i \in 1..Len(s) : i \in 1..(Len(s) + 1)
    BY <1>2
  <1>8. ASSUME NEW i \in DOMAIN t, t[i][p] # Keep
        PROVE  \/ \E j \in DOMAIN u : u[j][p] # Keep
               \/ \E j \in DOMAIN q : j >= n /\ q[j][p] # Keep
    <2>1. CASE i = 1
      BY <2>1, <1>2, <1>5, <1>8, Zenon
    <2>2. CASE i # 1
      <3>1. i - 1 \in DOMAIN u /\ t[i] = u[i - 1]
        BY <2>2, <1>1, <1>3
      <3> QED
        BY <1>8, <3>1, Zenon
    <2> QED
      BY <2>1, <2>2
  <1>9. ASSUME NEW i \in DOMAIN s, i >= n, s[i][p] # Keep
        PROVE  \E j \in DOMAIN q : j >= n /\ q[j][p] # Keep
    BY <1>2, <1>7, <1>9, Zenon
  <1>10. ASSUME NEW i \in DOMAIN u, u[i][p] # Keep
         PROVE  \E j \in DOMAIN t : t[j][p] # Keep
    BY <1>1, <1>4, <1>10, Zenon
  <1>11. ASSUME NEW i \in DOMAIN q, i >= n, q[i][p] # Keep
         PROVE  \/ \E j \in DOMAIN t : t[j][p] # Keep
                \/ \E j \in DOMAIN s : j >= n /\ s[j][p] # Keep
    <2>1. CASE i = Len(s) + 1
      BY <2>1, <1>1, <1>2, <1>5, <1>11, Zenon
    <2>2. CASE i \in 1..Len(s)
      BY <2>2, <1>2, <1>11, Zenon
    <2> QED
      BY <2>1, <2>2, <1>2, <1>6, Zenon
  <1> QED
    BY <1>8, <1>9, <1>10, <1>11, Zenon DEF q, u

\* A put that the server does is the only thing that takes from what a client
\* owes, and a lost connection the only thing that adds to it.
LEMMA OwingStep ==
  ASSUME SyncInv, NEW c \in Client, SyncStep(c), NEW d \in Client, NEW p \in Leaf
  PROVE  \/ Owing(d, p)' <=> Owing(d, p)
         \/ /\ ServerPut(c) /\ d = c
            /\ Owing(d, p) /\ pending[c][NextPut(c)][p] # Keep
         \/ Disconnect(c) /\ d = c /\ (Owing(d, p) => Owing(d, p)')
PROOF
  <1>t. /\ TypeOK /\ AcksCounted
        /\ held[c] \in Nat /\ taken[c] \in Nat /\ held[c] + taken[c] <= Len(pending[c])
        /\ pending[c] \in Seq(Write) /\ calls[c] \in Seq(Write)
    BY DEF SyncInv, TypeOK, AcksCounted
  <1>1. CASE d # c
    <2>1. calls'[d] = calls[d] /\ pending'[d] = pending[d] /\ held'[d] = held[d] /\ taken'[d] = taken[d]
      BY <1>1, <1>t DEF SyncStep, ClientStep, ServerStep, RunWrite, ReceiveData, ReceiveAck, ReceiveOk,
           AckHeld, RemoveOldest, Connect, Disconnect, ServerPut, ServerListen, clientVars, serverVars, TypeOK
    <2> QED
      BY <2>1 DEF Owing, NextPut
  <1>2. CASE d = c
    <2>1. CASE RunWrite(c)
      <3>1. /\ calls'[c] = Tail(calls[c]) /\ pending'[c] = Append(pending[c], Head(calls[c]))
            /\ NextPut(c)' = NextPut(c) /\ calls[c] # <<>>
        BY <2>1, <1>t DEF RunWrite, TypeOK, NextPut, serverVars
      <3>2. NextPut(c) \in Nat /\ NextPut(c) <= Len(pending[c]) + 1
        BY <1>t DEF NextPut
      <3> DEFINE n == NextPut(c)
                 t == calls[c]
                 s == pending[c]
      <3>3. (\/ \E i \in DOMAIN Tail(t) : Tail(t)[i][p] # Keep
             \/ \E i \in DOMAIN Append(s, Head(t)) :
                  i >= n /\ Append(s, Head(t))[i][p] # Keep)
            <=> (\/ \E i \in DOMAIN t : t[i][p] # Keep
                 \/ \E i \in DOMAIN s : i >= n /\ s[i][p] # Keep)
        <4>1. t # <<>> /\ n \in Nat /\ n <= Len(s) + 1 /\ t \in Seq(Write) /\ s \in Seq(Write)
          BY <1>t, <3>1, <3>2
        <4> HIDE DEF n, t, s
        <4> QED
          BY <4>1, RunOwing, Zenon
      <3> QED
        BY <1>2, <3>1, <3>3, Zenon DEF Owing
    <2>2. ASSUME pending[c] # <<>>, pending'[c] = Tail(pending[c]), calls' = calls,
                 held'[c] + taken'[c] = held[c] + taken[c] - 1, held[c] + taken[c] > 0
          PROVE  Owing(d, p)' <=> Owing(d, p)
      <3>1. NextPut(c)' = held[c] + taken[c] /\ NextPut(c) = held[c] + taken[c] + 1
        <4>1. held'[c] + taken'[c] + 1 = held[c] + taken[c]
          BY <1>t, <2>2
        <4> QED
          BY <4>1 DEF NextPut
      <3> DEFINE n == held[c] + taken[c]
                 s == pending[c]
      <3>2. (\E i \in DOMAIN s : i >= n + 1 /\ s[i][p] # Keep)
              <=> (\E i \in DOMAIN Tail(s) : i >= n /\ Tail(s)[i][p] # Keep)
        <4>1. n \in Nat \ {0} /\ s \in Seq(Write) /\ s # <<>>
          BY <1>t, <2>2
        <4> HIDE DEF n, s
        <4> QED
          BY <4>1, PopOwing, Zenon
      <3> QED
        BY <1>2, <2>2, <3>1, <3>2, Zenon DEF Owing
    <2>3. CASE ReceiveAck(c) /\ unacked[c]
      <3>1. NextPut(c)' = NextPut(c) /\ calls' = calls /\ pending' = pending
        BY <2>3, <1>t DEF ReceiveAck, TypeOK, NextPut
      <3> QED
        BY <1>2, <3>1, Zenon DEF Owing
    <2>4. CASE ReceiveAck(c) /\ ~unacked[c]
      <3>1. /\ calls' = calls /\ pending'[c] = Tail(pending[c])
            /\ held'[c] = held[c] /\ taken'[c] = taken[c] - 1 /\ taken[c] > 0
        BY <2>4, <1>t DEF ReceiveAck, RemoveOldest, TypeOK
      <3>2. pending[c] # <<>>
        BY <3>1, <1>t
      <3>3. held'[c] + taken'[c] = held[c] + taken[c] - 1 /\ held[c] + taken[c] > 0
        BY <3>1, <1>t
      <3> QED
        BY <2>2, <3>1, <3>2, <3>3
    <2>5. CASE AckHeld(c)
      <3>1. /\ calls' = calls /\ pending'[c] = Tail(pending[c])
            /\ held'[c] = held[c] - 1 /\ taken'[c] = taken[c] /\ held[c] > 0
        BY <2>5, <1>t DEF AckHeld, Acking, RemoveOldest, TypeOK, serverVars
      <3>2. pending[c] # <<>>
        BY <3>1, <1>t
      <3>3. held'[c] + taken'[c] = held[c] + taken[c] - 1 /\ held[c] + taken[c] > 0
        BY <3>1, <1>t
      <3> QED
        BY <2>2, <3>1, <3>2, <3>3
    <2>6. CASE ServerPut(c)
      <3>1. /\ calls' = calls /\ pending' = pending /\ NextPut(c)' = NextPut(c) + 1
            /\ NextPut(c) \in DOMAIN pending[c]
        <4>1. calls' = calls /\ pending' = pending /\ held' = held /\ taken'[c] = taken[c] + 1
          BY <2>6, <1>t DEF ServerPut, TypeOK, clientVars
        <4>2. NextPut(c) \in 1..Len(pending[c])
          BY <2>6, <1>t, NextPutTyped
        <4> QED
          BY <4>1, <4>2, <1>t DEF NextPut
      <3>2. \A i \in DOMAIN pending[c] : i >= NextPut(c) <=> (i >= NextPut(c) + 1 \/ i = NextPut(c))
        BY <1>t DEF NextPut
      <3>3. CASE pending[c][NextPut(c)][p] # Keep
        <4>1. NextPut(c) >= NextPut(c)
          BY <1>t DEF NextPut
        <4> QED
          BY <1>2, <2>6, <3>1, <3>3, <4>1, Zenon DEF Owing
      <3>4. CASE pending[c][NextPut(c)][p] = Keep
        BY <1>2, <3>1, <3>2, <3>4, Zenon DEF Owing
      <3> QED
        BY <3>3, <3>4
    <2>7. CASE ReceiveData(c) \/ ReceiveOk(c) \/ Connect(c) \/ ServerListen(c)
      <3>1. calls' = calls /\ pending' = pending /\ held' = held /\ taken' = taken
        BY <2>7 DEF ReceiveData, ReceiveOk, Connect, ServerListen, clientVars, serverVars
      <3> QED
        BY <3>1, Zenon DEF Owing, NextPut
    <2>8. CASE Disconnect(c)
      <3>1. calls' = calls /\ pending' = pending /\ held' = held /\ taken'[c] = 0
        BY <2>8, <1>t DEF Disconnect, TypeOK
      <3>2. NextPut(c)' = held[c] + 1 /\ NextPut(c) = held[c] + taken[c] + 1
        BY <1>t, <3>1 DEF NextPut
      <3>3. \A i \in DOMAIN pending[c] : i >= NextPut(c) => i >= NextPut(c)'
        BY <1>t, <3>2
      <3> QED
        BY <1>2, <2>8, <3>1, <3>3, Zenon DEF Owing
    <2> QED
      BY <1>2, <2>1, <2>3, <2>4, <2>5, <2>6, <2>7, <2>8 DEF SyncStep, ClientStep, ServerStep
  <1> QED
    BY <1>1, <1>2

\* A connection is not lost while the server does a put.
LEMMA PutNotDrop ==
  ASSUME SyncInv, NEW c \in Client, ServerPut(c)
  PROVE  ~ Disconnect(c)
PROOF
  BY DEF SyncInv, TypeOK, ServerPut, Disconnect

\* The server's tree changes by the puts of the clients only.
LEMMA ServerStepPuts ==
  ASSUME SyncInv, NEW c \in Client, SyncStep(c)
  PROVE  \/ server' = server
         \/ /\ ServerPut(c)
            /\ NextPut(c) \in DOMAIN pending[c]
            /\ server' = Apply(server, pending[c][NextPut(c)])
            /\ pending[c][NextPut(c)] \in Range(pending[c])
PROOF
  <1>1. CASE ServerPut(c)
    <2>1. pending[c] \in Seq(Write) /\ NextPut(c) \in 1..Len(pending[c])
      BY <1>1, NextPutTyped DEF SyncInv, TypeOK
    <2>2. NextPut(c) \in DOMAIN pending[c]
      BY <2>1
    <2> QED
      BY <1>1, <2>1, <2>2, ElementInRange DEF ServerPut
  <1>2. CASE ~ServerPut(c)
    BY <1>2 DEF SyncStep, ClientStep, ServerStep, RunWrite, ReceiveData, ReceiveAck, ReceiveOk,
                AckHeld, Connect, Disconnect, ServerListen, serverVars
  <1> QED
    BY <1>1, <1>2

-----------------------------------------------------------------------------
(* What an application does *)

\* Dispatched calls are the only thing that adds to the writes of a client.
LEMMA DispatchAdds ==
  ASSUME TypeOK, NEW c \in Client, NEW ws \in Seq(Write), Dispatch(c, ws),
         UNCHANGED <<pending, held, taken>>
  PROVE  /\ calls' \in [Client -> Seq(Write)]
         /\ \A d \in Client :
              Writes(d)' = IF d = c THEN Writes(d) \cup Range(ws) ELSE Writes(d)
         /\ \A d \in Client : \A p :
              Owing(d, p)' <=> \/ Owing(d, p)
                               \/ d = c /\ \E write \in Range(ws) : write[p] # Keep
PROOF
  <1>1. calls[c] \in Seq(Write) /\ calls[c] \o ws \in Seq(Write)
    BY ConcatProperties DEF TypeOK
  <1>2. calls'[c] = calls[c] \o ws /\ \A d \in Client : d # c => calls'[d] = calls[d]
    BY DEF Dispatch, TypeOK
  <1>3. Range(calls[c] \o ws) = Range(calls[c]) \cup Range(ws)
    BY <1>1, RangeConcatenation
  <1>4. calls' \in [Client -> Seq(Write)]
    BY <1>1 DEF Dispatch, TypeOK
  <1>5. \A d \in Client :
          Writes(d)' = IF d = c THEN Writes(d) \cup Range(ws) ELSE Writes(d)
    BY <1>2, <1>3 DEF Writes
  <1>6. \A d \in Client : \A p :
          Owing(d, p) <=> \/ \E write \in Range(calls[d]) : write[p] # Keep
                          \/ \E i \in DOMAIN pending[d] :
                               i >= NextPut(d) /\ pending[d][i][p] # Keep
    BY Zenon DEF Owing, Range
  <1>7. \A d \in Client : \A p :
          Owing(d, p)' <=> \/ \E write \in Range(calls'[d]) : write[p] # Keep
                           \/ \E i \in DOMAIN pending[d] :
                                i >= NextPut(d) /\ pending[d][i][p] # Keep
    BY Zenon DEF Owing, Range, NextPut
  <1>8. \A d \in Client : Range(calls'[d]) =
          IF d = c THEN Range(calls[d]) \cup Range(ws) ELSE Range(calls[d])
    BY <1>2, <1>3
  <1> QED
    BY <1>4, <1>5, <1>6, <1>7, <1>8, Zenon
=============================================================================
