----------------------------- MODULE SyncClients ----------------------------
(***************************************************************************)
(* Any applications over FirebaseSync: each client writes what it likes to *)
(* the leaves it may write, and takes the events raised for it one by one. *)
(* Every write carries a serial number as its value, so that what a client *)
(* is told can be compared with what was written, and when.                *)
(***************************************************************************)
EXTENDS FirebaseSync

CONSTANTS
  Targets,    \* Targets[c]: the sets of leaves c may write in one call
  MaxWrites   \* bound: calls in a behaviour

ASSUME ClientsAssumption ==
  /\ Targets \in [Client -> SUBSET (SUBSET Leaf)]
  /\ MaxWrites \in Nat
  /\ Value = 1..MaxWrites

VARIABLES
  issued,   \* how many calls were made
  told      \* told[c]: the last tree the callback of c was given

vars == <<syncVars, issued, told>>

-----------------------------------------------------------------------------
\* A call of the application, from the main queue.
AppWrite(c) ==
  /\ issued < MaxWrites
  /\ issued' = issued + 1
  /\ \E target \in Targets[c] :
       Dispatch(c, <<[p \in Leaf |-> IF p \in target THEN issued' ELSE Keep]>>)
  /\ UNCHANGED <<serverVars, pending, held, unacked, cache, loaded, mainq>>
  /\ UNCHANGED <<online, drops, told>>

\* The main queue runs the callback of the listener.
TakeEvent(c) ==
  /\ mainq[c] # <<>>
  /\ Head(mainq[c]).kind = "event"
  /\ told' = [told EXCEPT ![c] = Head(mainq[c]).tree]
  /\ mainq' = [mainq EXCEPT ![c] = Tail(@)]
  /\ UNCHANGED <<serverVars, calls, pending, held, unacked, cache, loaded>>
  /\ UNCHANGED <<online, drops, issued>>

Init ==
  /\ SyncInit
  /\ issued = 0
  /\ told = [c \in Client |-> EmptyTree]

Library(c) == SyncStep(c) /\ UNCHANGED <<issued, told>>

Next == \E c \in Client : Library(c) \/ AppWrite(c) \/ TakeEvent(c)

Spec == Init /\ [][Next]_vars

-----------------------------------------------------------------------------
(* Properties *)

\* The variables of the applications, beside those of FirebaseSync, have
\* their types: the type invariant of this module.
ClientsTypeOK ==
  /\ TypeOK
  /\ issued \in 0..MaxWrites
  /\ told \in [Client -> Tree]

\* A client whose listen is registered, with nothing on its way to it and no
\* write of its own outstanding, sees exactly the server's tree, whatever was
\* lost, sent again or answered late before (FSyncTree, FPersistentConnection).
Drained(c) == watching[c] /\ down[c] = <<>> /\ pending[c] = <<>>

Converged == \A c \in Client : Drained(c) => View(c) = Under(c, server)

\* The callback is never left with an old tree: the last event on its way to
\* it, or the last it was given, is what the client sees (FViewProcessor
\* raises on every change, FEventRaiser keeps the order).
LastTold(c) ==
  IF mainq[c] = <<>> THEN told[c] ELSE mainq[c][Len(mainq[c])].tree

NothingMissed == \A c \in Client : loaded[c] => LastTold(c) = View(c)

\* A leaf that only c writes, seen by c itself, never goes back to an older
\* write or to nothing: not when an acknowledgement overtakes the data of a
\* listen that was sent again (putsToAck), and not when writes the server has
\* already done are sent a second time after a reconnection.
Own(c) ==
  {p \in Leaf : \A d \in Client \ {c} : \A target \in Targets[d] : p \notin target}

Newer(old, new) == old = None \/ (new # None /\ old <= new)

OwnWritesStay ==
  [][\A c \in Client : \A p \in Own(c) : Newer(View(c)[p], View(c)'[p])]_vars
=============================================================================
