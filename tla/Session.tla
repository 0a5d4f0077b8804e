------------------------------ MODULE Session -------------------------------
(***************************************************************************)
(* A presentation: the Mac and the phones of one room, each with its       *)
(* Firebase client, and the server between them.                           *)
(***************************************************************************)
EXTENDS MacReceiver, RemoteControl

ASSUME SessionAssumption == Block = MacBlock

vars == <<syncVars, macVars, remoteVars>>

Init == SyncInit /\ MacInit /\ NothingDone /\ RemoteInit

Active(c) == c \in Remote => joined[c]

\* The libraries, the network and the server.  A phone listens to the room
\* only from the time its slide screen is open.
Library(c) ==
  /\ \/ ClientStep(c) \/ ServerStep(c) \/ Disconnect(c)
     \/ Active(c) /\ Connect(c)
  /\ UNCHANGED <<macVars, remoteVars>>

Receiver == MacStep /\ UNCHANGED remoteVars

Phone(r) == (UserStep(r) \/ PhoneStep(r)) /\ UNCHANGED macVars

Next ==
  \/ \E c \in Client : Library(c)
  \/ Receiver
  \/ \E r \in Remote : Phone(r)

Spec == Init /\ [][Next]_vars

\* Queues and timers run, the server and the storage answer, clients
\* reconnect, and downloads end.  The user owes nothing, and no connection
\* has to fail.
Fairness ==
  /\ \A c \in Client :
       /\ WF_vars(ClientStep(c) /\ UNCHANGED <<macVars, remoteVars>>)
       /\ WF_vars(ServerPut(c) /\ UNCHANGED <<macVars, remoteVars>>)
       /\ WF_vars(ServerListen(c) /\ UNCHANGED <<macVars, remoteVars>>)
       /\ WF_vars(Active(c) /\ Connect(c) /\ UNCHANGED <<macVars, remoteVars>>)
  /\ WF_vars(MacMain /\ UNCHANGED remoteVars)
  /\ WF_vars(TimerFires /\ UNCHANGED remoteVars)
  /\ WF_vars(StorageAnswers /\ UNCHANGED remoteVars)
  /\ \A r \in Remote : WF_vars(PhoneStep(r) /\ UNCHANGED macVars)

FairSpec == Spec /\ Fairness

-----------------------------------------------------------------------------
(* Commands on their way *)

MadePress == {PressIds[i] : i \in 1..made}

\* The Mac has carried p out, or has put a block that will on its main queue.
Taken(p) ==
  \/ performed[p] > 0
  \/ \E i \in DOMAIN mainq[Mac] :
       mainq[Mac][i].kind = "perform" /\ mainq[Mac][i].press = p

\* A phone has written p and the server has not done the write on this
\* connection.
Unsent(p) ==
  \E r \in Remote :
    \/ \E i \in DOMAIN calls[r] : calls[r][i][p] # Keep
    \/ \E i \in DOMAIN pending[r] : i >= NextPut(r) /\ pending[r][i][p] # Keep

\* What CommandDelivery speaks of: a command is open from the call that sends
\* it until its child is gone from the server.
Delivery == INSTANCE CommandDelivery WITH
  Command <- Press,
  Resending <- Flaky \cap Remote # {},
  made <- MadePress,
  open <- {p \in MadePress : Unsent(p) \/ server[p] # None},
  taken <- {p \in Press : Taken(p)},
  performed <- performed

\* Nothing is left to do but for the users.
Quiet ==
  /\ \A c \in Client :
       Active(c) => /\ watching[c] = Listens(c) /\ down[c] = <<>>
                    /\ calls[c] = <<>> /\ pending[c] = <<>> /\ mainq[c] = <<>>
  /\ timers = 0 /\ uploads = 0
  /\ \A r \in Remote : \A url \in Address : downloads[r][url] = 0

-----------------------------------------------------------------------------
(* Properties *)

SessionTypeOK == TypeOK /\ MacTypeOK /\ RemoteTypeOK

\* No command is lost: it is on its way from the phone, or in the room, or
\* the Mac has taken it.  Neither the Mac's removals, nor its replacing of
\* the settings, nor lost connections destroy a command nobody carried out.
NoCommandLost ==
  \A p \in MadePress : Unsent(p) \/ server[p] # None \/ Taken(p)

\* The room delivers commands as CommandDelivery says: the Mac takes up no
\* command that has left the room, unless from an event raised before, and
\* none leaves the room that it has not taken.
CommandsDelivered == Delivery!DeliverySpec

\* When nothing is left to do, no request for a screenshot is left standing:
\* the Mac has seen it, or has replaced the settings after it was made.
NoRequestLeft == Quiet => server["wants"] # "true"

\* When nothing is left to do and the room holds a place of the pointer, the
\* red dot is there, though places that come with a request are passed over.
DotFollows == Quiet /\ server["coord"] # None => dot = server["coord"]

\* The commands that the Mac has taken and no longer sees.
Gone == LET seen == View(Mac) IN {p \in MadePress : seen[p] = None /\ Taken(p)}

\* A command the Mac has taken and no longer sees stays away: what it has
\* removed does not come back from the server, while phones stay connected.
NoCommandReturns ==
  [][LET seen == View(Mac)' IN \A p \in Gone : seen[p] = None]_vars

\* The Mac hears its own writes, and its answers to them end: the room comes
\* to rest when the users do.
EventuallyQuiet == <>[]Quiet

\* Every command is carried out, provided the settings come last in the loop.
EveryCommandPerformed ==
  \A p \in Press : (p \in MadePress) ~> (performed[p] > 0)

\* The address the room comes to rest at is downloaded by every phone that does
\* not show it already, whatever addresses came and went before it.
LastAddressFetched ==
  \A url \in Range(Urls) : \A r \in Remote :
    <>[](server["url"] = url) => <>(downloads[r][url] > 0 \/ image[r] = url)

\* README.md: a remote clicker.  One press of a button is one action.
PerformedOnce == \A p \in Press : performed[p] <= 1
=============================================================================
