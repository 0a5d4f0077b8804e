--------------------------- MODULE SyncClientsProofs ---------------------------
(***************************************************************************)
(* Proofs about SyncClients, for any number of clients, leaves and writes, *)
(* and any listens: its types, that a client with nothing outstanding sees the *)
(* server's tree, and that no callback is left with an old one.            *)
(***************************************************************************)
EXTENDS SyncClients, SyncProofs

IInv == ClientsTypeOK /\ SyncInv

LEMMA InitHolds == ASSUME Init PROVE IInv
PROOF
  <1>1. SyncInv
    BY SyncInitHolds DEF Init
  <1>2. issued \in 0..MaxWrites /\ told \in [Client -> Tree]
    BY ClientsAssumption DEF Init, Tree, Content, EmptyTree
  <1> QED
    BY <1>1, <1>2 DEF IInv, SyncInv, ClientsTypeOK

LEMMA AppWriteType ==
  ASSUME ClientsTypeOK, NEW c \in Client, AppWrite(c)
  PROVE  ClientsTypeOK'
PROOF
  <1>1. issued' \in 1..MaxWrites
    BY ClientsAssumption DEF ClientsTypeOK, AppWrite
  <1>2. PICK target \in Targets[c] :
          Dispatch(c, <<[p \in Leaf |-> IF p \in target THEN issued' ELSE Keep]>>)
    BY DEF AppWrite
  <1>3. [p \in Leaf |-> IF p \in target THEN issued' ELSE Keep] \in Write
    BY <1>1, ClientsAssumption DEF Write, Content
  <1>4. calls[c] \o <<[p \in Leaf |-> IF p \in target THEN issued' ELSE Keep]>> \in Seq(Write)
    BY <1>3, ConcatProperties DEF ClientsTypeOK, TypeOK
  <1>5. calls' \in [Client -> Seq(Write)]
    BY <1>2, <1>4 DEF Dispatch, ClientsTypeOK, TypeOK
  <1> QED
    BY <1>1, <1>5 DEF AppWrite, ClientsTypeOK, TypeOK, serverVars

LEMMA TakeEventType ==
  ASSUME ClientsTypeOK, NEW c \in Client, TakeEvent(c)
  PROVE  ClientsTypeOK'
PROOF
  <1>1. Head(mainq[c]) \in Job /\ Tail(mainq[c]) \in Seq(Job)
    BY HeadTailProperties DEF ClientsTypeOK, TypeOK, TakeEvent
  <1>2. Head(mainq[c]).tree \in Tree
    <2>1. Head(mainq[c]).kind = "event"
      BY DEF TakeEvent
    <2>2. Head(mainq[c]) \in Event
      BY <1>1, <2>1, SyncAssumption DEF Job
    <2> QED
      BY <2>2 DEF Event
  <1> QED
    BY <1>1, <1>2 DEF TakeEvent, ClientsTypeOK, TypeOK, serverVars

LEMMA NextHolds == ASSUME IInv, [Next]_vars PROVE IInv'
PROOF
  <1>1. ASSUME NEW c \in Client, Library(c) PROVE IInv'
    BY <1>1, SyncStepHolds DEF IInv, SyncInv, ClientsTypeOK, Library
  <1>2. ASSUME NEW c \in Client, AppWrite(c) PROVE IInv'
    BY <1>2, AppWriteType, ApplicationStepHolds
       DEF IInv, SyncInv, ClientsTypeOK, AppWrite, serverVars
  <1>3. ASSUME NEW c \in Client, TakeEvent(c) PROVE IInv'
    BY <1>3, TakeEventType, ApplicationStepHolds
       DEF IInv, SyncInv, ClientsTypeOK, TakeEvent, serverVars
  <1>4. CASE UNCHANGED vars
    <2>1. ClientsTypeOK'
      BY <1>4 DEF IInv, ClientsTypeOK, TypeOK, vars, syncVars, serverVars, clientVars
    <2> QED
      BY <1>4, <2>1, ApplicationStepHolds
         DEF IInv, SyncInv, ClientsTypeOK, vars, syncVars, serverVars, clientVars
  <1> QED
    BY <1>1, <1>2, <1>3, <1>4 DEF Next

THEOREM Invariance == Spec => []IInv
PROOF
  <1>1. Init => IInv
    BY InitHolds
  <1>2. IInv /\ [Next]_vars => IInv'
    BY NextHolds
  <1> QED
    BY <1>1, <1>2, PTL DEF Spec

\* Every variable has its type, for all clients, trees and listens.
THEOREM TypeCorrect == Spec => []ClientsTypeOK
PROOF
  <1>1. IInv => ClientsTypeOK
    BY DEF IInv, SyncInv
  <1> QED
    BY <1>1, Invariance, PTL

\* The acknowledgements on the way and those held in putsToAck are never more
\* than the writes that wait for one: removing the oldest is always possible.
THEOREM Counted == Spec => []AcksCounted
PROOF
  <1>1. IInv => AcksCounted
    BY DEF IInv, SyncInv
  <1> QED
    BY <1>1, Invariance, PTL

\* A registered listen and the messages on its way make up the server's tree.
THEOREM Exact == Spec => []StreamExact
PROOF
  <1>1. IInv => StreamExact
    BY DEF IInv, SyncInv
  <1> QED
    BY <1>1, Invariance, PTL

\* A client with nothing on its way and nothing outstanding sees the tree of
\* the server, however its connections were lost before.
THEOREM Convergence == Spec => []Converged
PROOF
  <1>1. IInv => Converged
    BY DrainedSeesServer DEF IInv, Converged, Drained
  <1> QED
    BY <1>1, Invariance, PTL

-----------------------------------------------------------------------------
(* Events *)

LEMMA LastOfAppend ==
  ASSUME NEW S, NEW s \in Seq(S), NEW e
  PROVE  Append(s, e) # <<>> /\ Append(s, e)[Len(Append(s, e))] = e
PROOF
  <1>1. Len(Append(s, e)) = Len(s) + 1 /\ Append(s, e)[Len(s) + 1] = e /\ Len(s) \in Nat
    OBVIOUS
  <1> QED
    BY <1>1

LEMMA LastOfTail ==
  ASSUME NEW S, NEW s \in Seq(S), s # <<>>
  PROVE  /\ Tail(s) = <<>> => Head(s) = s[Len(s)]
         /\ Tail(s) # <<>> => Tail(s)[Len(Tail(s))] = s[Len(s)]
PROOF
  <1>1. /\ Len(s) \in Nat /\ Len(s) > 0 /\ Head(s) = s[1] /\ Len(Tail(s)) = Len(s) - 1
        /\ \A i \in 1..(Len(s) - 1) : Tail(s)[i] = s[i + 1]
    BY HeadTailProperties
  <1>2. Tail(s) \in Seq(S)
    BY HeadTailProperties
  <1>3. CASE Tail(s) = <<>>
    <2>1. Len(s) - 1 = 0
      <3>1. Len(<<>>) = 0
        OBVIOUS
      <3> QED
        BY <1>1, <1>3, <3>1, Zenon
    <2>2. Len(s) = 1
      <3>1. \A n \in Nat : n - 1 = 0 => n = 1
        OBVIOUS
      <3> QED
        BY <1>1, <2>1, <3>1, Zenon
    <2> QED
      BY <1>1, <1>3, <2>2
  <1>4. CASE Tail(s) # <<>>
    <2>1. Len(Tail(s)) \in 1..(Len(s) - 1)
      BY <1>1, <1>2, <1>4
    <2> QED
      BY <1>1, <1>4, <2>1
  <1> QED
    BY <1>3, <1>4

LEMMA LibraryTells ==
  ASSUME IInv, NothingMissed, NEW c \in Client, Library(c)
  PROVE  NothingMissed'
PROOF
  <1>t. SyncInv /\ mainq \in [Client -> Seq(Job)]
    BY DEF IInv, SyncInv, TypeOK
  <1> SUFFICES ASSUME NEW d \in Client, loaded'[d]
               PROVE  LastTold(d)' = View(d)'
    BY DEF NothingMissed
  <1>1. CASE mainq'[d] = mainq[d] /\ (loaded'[d] => loaded[d] /\ View(d)' = View(d))
    BY <1>1 DEF NothingMissed, LastTold, Library
  <1>2. CASE mainq'[d] = Append(mainq[d], [kind |-> "event", tree |-> View(d)'])
    <2>1. PICK told1 : told1 = [kind |-> "event", tree |-> View(d)']
      OBVIOUS
    <2>2. mainq'[d] # <<>> /\ mainq'[d][Len(mainq'[d])] = told1
      <3>1. \A s \in Seq(Job) : Append(s, told1) # <<>> /\ Append(s, told1)[Len(Append(s, told1))] = told1
        BY LastOfAppend
      <3>2. mainq'[d] = Append(mainq[d], told1) /\ mainq[d] \in Seq(Job)
        BY <1>2, <1>t, <2>1
      <3> QED
        BY <3>1, <3>2, Zenon
    <2> QED
      BY <2>1, <2>2 DEF LastTold
  <1> QED
    BY <1>1, <1>2, <1>t, RaiseStep DEF Library

LEMMA TakeEventTells ==
  ASSUME IInv, NothingMissed, NEW c \in Client, TakeEvent(c)
  PROVE  NothingMissed'
PROOF
  <1>t. mainq \in [Client -> Seq(Job)] /\ told \in [Client -> Tree]
    BY DEF IInv, SyncInv, ClientsTypeOK, TypeOK
  <1> SUFFICES ASSUME NEW d \in Client PROVE LastTold(d)' = LastTold(d)
    BY DEF NothingMissed, TakeEvent, View
  <1>1. CASE d # c
    BY <1>1, <1>t DEF TakeEvent, LastTold
  <1>2. CASE d = c
    <2>1. mainq'[c] = Tail(mainq[c]) /\ told'[c] = Head(mainq[c]).tree /\ mainq[c] # <<>>
      BY <1>t DEF TakeEvent
    <2>2. /\ Tail(mainq[c]) = <<>> => Head(mainq[c]) = mainq[c][Len(mainq[c])]
          /\ Tail(mainq[c]) # <<>> =>
               Tail(mainq[c])[Len(Tail(mainq[c]))] = mainq[c][Len(mainq[c])]
      BY <2>1, <1>t, LastOfTail
    <2> QED
      BY <1>2, <2>1, <2>2 DEF LastTold
  <1> QED
    BY <1>1, <1>2

LEMMA Tells == ASSUME IInv, NothingMissed, [Next]_vars PROVE NothingMissed'
PROOF
  <1>1. ASSUME NEW c \in Client, AppWrite(c) PROVE NothingMissed'
    BY <1>1 DEF AppWrite, NothingMissed, LastTold, View
  <1>2. CASE UNCHANGED vars
    BY <1>2 DEF NothingMissed, LastTold, View, vars, syncVars, clientVars
  <1> QED
    BY <1>1, <1>2, LibraryTells, TakeEventTells DEF Next

\* The callback of a listener is never left with an old tree: once its data
\* is complete, what it was told last, or will be told last by the events on
\* the main queue, is what the client sees (FViewProcessor, FEventRaiser).
THEOREM CallbackUpToDate == Spec => []NothingMissed
PROOF
  <1>1. Init => NothingMissed
    BY DEF Init, SyncInit, NothingMissed
  <1>2. IInv /\ NothingMissed /\ [Next]_vars => NothingMissed'
    BY Tells
  <1> QED
    BY <1>1, <1>2, Invariance, PTL DEF Spec
=============================================================================
