---------------------------- MODULE FirebaseSync ----------------------------
(***************************************************************************)
(* The Firebase Realtime Database client, as both applications embed it,   *)
(* around one room of the database.                                        *)
(*                                                                         *)
(* A room is a tree of leaves.  Every client keeps the last data the       *)
(* server told it (cache) and its own writes that the server has not yet   *)
(* acknowledged (pending, the FWriteTree); what its listeners are told is  *)
(* the cache overlaid with those writes.  Everything of a client runs on   *)
(* one serial dispatch queue, except the callbacks of the application,     *)
(* which run on the main queue.                                            *)
(*                                                                         *)
(* The server and the network are external: the server takes the puts of   *)
(* a connection in order and pushes each change to the clients listening   *)
(* before it answers the put, but it may answer a listen late.  A          *)
(* connection is lost with everything in flight on it.                     *)
(***************************************************************************)
EXTENDS Naturals, Sequences, FiniteSetsExt

CONSTANTS
  Client,      \* the devices holding the room open
  Leaf,        \* the leaves of the room's tree
  Value,       \* what a leaf can hold
  None,        \* the leaf does not exist
  Keep,        \* in a write: the leaf is not touched
  Watched,     \* Watched[c]: the leaves under the path client c listens to
  Block,       \* the blocks the application itself puts on its main queue
  FirstWrites, \* FirstWrites[c]: what c has written when it begins to listen
  Flaky,       \* the clients whose connection may be lost
  MaxDrops     \* bound: connections lost in a behaviour

ASSUME SyncAssumption ==
  /\ None \notin Value
  /\ Keep \notin Value
  /\ None # Keep
  /\ Watched \in [Client -> SUBSET Leaf]
  /\ FirstWrites \in [Client -> Seq([Leaf -> Value \cup {None, Keep}])]
  /\ \A job \in Block : job.kind # "event"
  /\ Flaky \subseteq Client
  /\ MaxDrops \in Nat

VARIABLES
  server,   \* the room's tree at the server
  online,   \* online[c]: the connection of c is established
  watching, \* watching[c]: the server has registered the listen of this connection
  taken,    \* taken[c]: puts of this connection the server has done, not yet answered at c
  down,     \* down[c]: messages from the server to c, in order
  calls,    \* calls[c]: writes dispatched to the serial queue of c, not yet run
  pending,  \* pending[c]: the FWriteTree of c, oldest write first
  held,     \* held[c]: how many of them are answered and wait in putsToAck
  unacked,  \* unacked[c]: unackedListensCount of c is not zero
  cache,    \* cache[c]: server data known to c
  loaded,   \* loaded[c]: the cache is complete
  mainq,    \* mainq[c]: the main queue of c
  drops     \* how many connections were lost

serverVars == <<server, watching, taken, down>>
clientVars == <<calls, pending, held, unacked, cache, loaded, mainq>>
syncVars   == <<serverVars, clientVars, online, drops>>

Content == Value \cup {None}
Tree    == [Leaf -> Content]
Write   == [Leaf -> Content \cup {Keep}]
Event   == [kind : {"event"}, tree : Tree]
Job     == Event \cup Block
Message == [kind : {"data"}, data : Write] \cup [kind : {"ack", "ok"}]

EmptyTree == [p \in Leaf |-> None]

-----------------------------------------------------------------------------
(* Trees and writes *)

\* Fault: the write is taken for the whole tree.
ApplyReplaces(tree, write) == write

\* A write replaces the leaves it names and leaves the others alone.
Apply(tree, write) ==
  [p \in Leaf |-> IF write[p] = Keep THEN tree[p] ELSE write[p]]

\* The writes of ws that name leaf p.
Covering(ws, p) == {i \in DOMAIN ws : ws[i][p] # Keep}

\* The tree seen through a list of writes: for each leaf the last write that
\* names it shadows the others and the tree.
Overlay(tree, ws) ==
  [p \in Leaf |-> IF Covering(ws, p) = {} THEN tree[p]
                  ELSE ws[Max(Covering(ws, p))][p]]

\* The part of a tree under the path c listens to, the rest not looked at.
Under(c, tree) == [p \in Leaf |-> IF p \in Watched[c] THEN tree[p] ELSE None]

\* A client that looks at nothing has no listen to send.
Listens(c) == Watched[c] # {}

\* The node the listeners of c are told.
View(c) == Under(c, Overlay(cache[c], pending[c]))

\* The writes of c that the server has still to do on this connection.
NextPut(c) == held[c] + taken[c] + 1

\* Inside ackPuts: the last listen is answered, held acks are run one by one.
Acking(c) == online[c] /\ ~unacked[c] /\ held[c] > 0

-----------------------------------------------------------------------------
(* The serial queue of a client *)

\* An application call (setValue, updateChildValues, removeValue) only
\* dispatches the write to the serial queue.
Dispatch(c, writes) == calls' = [calls EXCEPT ![c] = @ \o writes]

\* Fault: only server data is worth an event.
RaiseOnData(c) ==
  mainq' = [mainq EXCEPT ![c] =
              IF loaded'[c] /\ (~loaded[c] \/ cache'[c] # cache[c])
              THEN Append(@, [kind |-> "event", tree |-> View(c)'])
              ELSE @]

\* Listeners are told, on the main queue and with the node as it is now, if
\* what they see has changed or has just become complete.
Raise(c) ==
  mainq' = [mainq EXCEPT ![c] =
              IF loaded'[c] /\ (~loaded[c] \/ View(c)' # View(c))
              THEN Append(@, [kind |-> "event", tree |-> View(c)'])
              ELSE @]

\* A dispatched write runs: it enters the write tree, the listeners are told,
\* and it is an outstanding put from now on.
RunWrite(c) ==
  /\ calls[c] # <<>>
  /\ ~Acking(c)
  /\ calls' = [calls EXCEPT ![c] = Tail(@)]
  /\ pending' = [pending EXCEPT ![c] = Append(@, Head(calls[c]))]
  /\ UNCHANGED <<held, unacked, cache, loaded>>
  /\ Raise(c)
  /\ UNCHANGED <<serverVars, online, drops>>

\* Fault: data that arrives under a pending write is thrown away.
ReceiveDataShadowed(c) ==
  /\ down[c] # <<>>
  /\ Head(down[c]).kind = "data"
  /\ ~Acking(c)
  /\ down' = [down EXCEPT ![c] = Tail(@)]
  /\ cache' = [cache EXCEPT ![c] =
                 IF pending[c] = <<>> THEN Apply(@, Head(down[c]).data) ELSE @]
  /\ loaded' = [loaded EXCEPT ![c] = TRUE]
  /\ UNCHANGED <<calls, pending, held, unacked>>
  /\ Raise(c)
  /\ UNCHANGED <<server, watching, taken, online, drops>>

\* Server data for the listen: the cache takes it.
ReceiveData(c) ==
  /\ down[c] # <<>>
  /\ Head(down[c]).kind = "data"
  /\ ~Acking(c)
  /\ down' = [down EXCEPT ![c] = Tail(@)]
  /\ cache' = [cache EXCEPT ![c] = Apply(@, Head(down[c]).data)]
  /\ loaded' = [loaded EXCEPT ![c] = TRUE]
  /\ UNCHANGED <<calls, pending, held, unacked>>
  /\ Raise(c)
  /\ UNCHANGED <<server, watching, taken, online, drops>>

\* Fault: the newest write is taken for the acknowledged one.
RemoveNewest(c) ==
  /\ pending' = [pending EXCEPT ![c] = SubSeq(@, 1, Len(@) - 1)]
  /\ UNCHANGED <<calls, unacked, cache, loaded>>
  /\ Raise(c)

\* The oldest acknowledged write leaves the write tree.
RemoveOldest(c) ==
  /\ pending' = [pending EXCEPT ![c] = Tail(@)]
  /\ UNCHANGED <<calls, unacked, cache, loaded>>
  /\ Raise(c)

\* Fault: acknowledgements are not held back.
ReceiveAckAtOnce(c) ==
  /\ down[c] # <<>>
  /\ Head(down[c]).kind = "ack"
  /\ taken[c] > 0
  /\ down' = [down EXCEPT ![c] = Tail(@)]
  /\ taken' = [taken EXCEPT ![c] = @ - 1]
  /\ RemoveOldest(c)
  /\ UNCHANGED <<server, watching, held, online, drops>>

\* The answer to a put. With a listen unanswered the acknowledgement is held.
ReceiveAck(c) ==
  /\ down[c] # <<>>
  /\ Head(down[c]).kind = "ack"
  /\ taken[c] > 0
  /\ ~Acking(c)
  /\ down' = [down EXCEPT ![c] = Tail(@)]
  /\ taken' = [taken EXCEPT ![c] = @ - 1]
  /\ IF unacked[c]
     THEN /\ held' = [held EXCEPT ![c] = @ + 1]
          /\ UNCHANGED <<calls, pending, unacked, cache, loaded, mainq>>
     ELSE RemoveOldest(c) /\ UNCHANGED held
  /\ UNCHANGED <<server, watching, online, drops>>

\* Fault: the listen is never counted as answered.
ReceiveOkHolding(c) ==
  /\ down[c] # <<>>
  /\ Head(down[c]).kind = "ok"
  /\ down' = [down EXCEPT ![c] = Tail(@)]
  /\ UNCHANGED <<calls, pending, held, unacked, cache, loaded, mainq>>
  /\ UNCHANGED <<server, watching, taken, online, drops>>

\* The answer to the listen: the held acknowledgements may run.
ReceiveOk(c) ==
  /\ down[c] # <<>>
  /\ Head(down[c]).kind = "ok"
  /\ down' = [down EXCEPT ![c] = Tail(@)]
  /\ unacked' = [unacked EXCEPT ![c] = FALSE]
  /\ UNCHANGED <<calls, pending, held, cache, loaded, mainq>>
  /\ UNCHANGED <<server, watching, taken, online, drops>>

\* Fault: putsToAck is not emptied.
AckHeldAgain(c) ==
  /\ Acking(c)
  /\ RemoveOldest(c)
  /\ UNCHANGED <<serverVars, held, online, drops>>

\* The held acknowledgements run one after the other.
AckHeld(c) ==
  /\ Acking(c)
  /\ held' = [held EXCEPT ![c] = @ - 1]
  /\ RemoveOldest(c)
  /\ UNCHANGED <<serverVars, online, drops>>

-----------------------------------------------------------------------------
(* Connection *)

\* A connection is established: the listen is sent again, then the puts that
\* are still outstanding, in order.
Connect(c) ==
  /\ ~online[c]
  /\ online' = [online EXCEPT ![c] = TRUE]
  /\ unacked' = [unacked EXCEPT ![c] = Listens(c)]
  /\ UNCHANGED <<serverVars, calls, pending, held, cache, loaded, mainq, drops>>

\* Fault: the listen of the lost connection stays registered.
DisconnectListening(c) ==
  /\ c \in Flaky
  /\ online[c]
  /\ ~Acking(c)
  /\ drops < MaxDrops
  /\ drops' = drops + 1
  /\ online' = [online EXCEPT ![c] = FALSE]
  /\ unacked' = [unacked EXCEPT ![c] = FALSE]
  /\ taken' = [taken EXCEPT ![c] = 0]
  /\ down' = [down EXCEPT ![c] = <<>>]
  /\ UNCHANGED <<server, watching, calls, pending, held, cache, loaded, mainq>>

\* The connection is lost with the answers on their way: every put without an
\* answer is outstanding again, even if the server has done it.
Disconnect(c) ==
  /\ c \in Flaky
  /\ online[c]
  /\ ~Acking(c)
  /\ drops < MaxDrops
  /\ drops' = drops + 1
  /\ online' = [online EXCEPT ![c] = FALSE]
  /\ unacked' = [unacked EXCEPT ![c] = FALSE]
  /\ watching' = [watching EXCEPT ![c] = FALSE]
  /\ taken' = [taken EXCEPT ![c] = 0]
  /\ down' = [down EXCEPT ![c] = <<>>]
  /\ UNCHANGED <<server, calls, pending, held, cache, loaded, mainq>>

-----------------------------------------------------------------------------
(* The server *)

\* What the server pushes to client d when its tree becomes tree.
Delta(d, tree) ==
  [p \in Leaf |-> IF p \in Watched[d] /\ tree[p] # server[p] THEN tree[p] ELSE Keep]

Silence == [p \in Leaf |-> Keep]

Pushed(d, tree) ==
  IF watching[d] /\ Delta(d, tree) # Silence
  THEN <<[kind |-> "data", data |-> Delta(d, tree)]>> ELSE <<>>

\* The server does the next put of c: whoever listens is told, then c is answered.
ServerPut(c) ==
  /\ online[c]
  /\ NextPut(c) <= Len(pending[c])
  /\ server' = Apply(server, pending[c][NextPut(c)])
  /\ down' = [d \in Client |->
                down[d] \o (Pushed(d, server') \o
                            (IF d = c THEN <<[kind |-> "ack"]>> ELSE <<>>))]
  /\ taken' = [taken EXCEPT ![c] = @ + 1]
  /\ UNCHANGED <<watching, clientVars, online, drops>>

\* The server answers the listen: first the whole node, then the answer.
ServerListen(c) ==
  /\ Listens(c)
  /\ online[c]
  /\ ~watching[c]
  /\ watching' = [watching EXCEPT ![c] = TRUE]
  /\ down' = [down EXCEPT ![c] = @ \o
                <<[kind |-> "data",
                   data |-> [p \in Leaf |-> IF p \in Watched[c] THEN server[p] ELSE Keep]],
                  [kind |-> "ok"]>>]
  /\ UNCHANGED <<server, taken, clientVars, online, drops>>

-----------------------------------------------------------------------------
SyncInit ==
  /\ server = EmptyTree
  /\ online = [c \in Client |-> FALSE]
  /\ watching = [c \in Client |-> FALSE]
  /\ taken = [c \in Client |-> 0]
  /\ down = [c \in Client |-> <<>>]
  /\ calls = [c \in Client |-> <<>>]
  /\ pending = FirstWrites
  /\ held = [c \in Client |-> 0]
  /\ unacked = [c \in Client |-> FALSE]
  /\ cache = [c \in Client |-> EmptyTree]
  /\ loaded = [c \in Client |-> FALSE]
  /\ mainq = [c \in Client |-> <<>>]
  /\ drops = 0

\* What the library, the network and the server do by themselves.
ClientStep(c) ==
  RunWrite(c) \/ ReceiveData(c) \/ ReceiveAck(c) \/ ReceiveOk(c) \/ AckHeld(c)

ServerStep(c) == ServerPut(c) \/ ServerListen(c)

SyncStep(c) == ClientStep(c) \/ ServerStep(c) \/ Connect(c) \/ Disconnect(c)

-----------------------------------------------------------------------------
TypeOK ==
  /\ server \in Tree
  /\ online \in [Client -> BOOLEAN]
  /\ watching \in [Client -> BOOLEAN]
  /\ taken \in [Client -> Nat]
  /\ down \in [Client -> Seq(Message)]
  /\ calls \in [Client -> Seq(Write)]
  /\ pending \in [Client -> Seq(Write)]
  /\ held \in [Client -> Nat]
  /\ unacked \in [Client -> BOOLEAN]
  /\ cache \in [Client -> Tree]
  /\ loaded \in [Client -> BOOLEAN]
  /\ mainq \in [Client -> Seq(Job)]
  /\ drops \in 0..MaxDrops

-----------------------------------------------------------------------------
(* What the protocol keeps true; see SyncClients for what follows from it. *)

\* The writes answered on the way and the acknowledgements held back are the
\* oldest pending writes of c, each counted once.
AcksCounted == \A c \in Client : held[c] + taken[c] <= Len(pending[c])

\* The messages on their way to c that say something of leaf p.
Saying(c, p) ==
  {i \in DOMAIN down[c] : down[c][i].kind = "data" /\ down[c][i].data[p] # Keep}

\* The last thing c will have heard of leaf p is what the server holds.
LastWord(c, p) ==
  /\ Saying(c, p) = {} => cache[c][p] = server[p]
  /\ \A i \in Saying(c, p) :
       (\A j \in Saying(c, p) : j <= i) => down[c][i].data[p] = server[p]

\* For a registered listen the cache and the messages on their way to it make
\* up the server's tree, through every push, late answer and reconnection.
StreamExact ==
  \A c \in Client : watching[c] => \A p \in Watched[c] : LastWord(c, p)
=============================================================================
