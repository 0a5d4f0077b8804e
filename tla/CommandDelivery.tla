-------------------------- MODULE CommandDelivery --------------------------
(***************************************************************************)
(* What the room promises of the commands, without the database: a command *)
(* stays open in the room until the Mac has taken it, only an open command *)
(* is taken up for the first time, and a command taken may be taken again  *)
(* and be carried out several times.  A phone that lost its connection may *)
(* send a command again that was taken.  Session implements this.          *)
(***************************************************************************)
EXTENDS Naturals

CONSTANTS
  Command,
  Resending  \* senders may lose their connections

VARIABLES
  made,       \* the commands that were sent
  open,       \* the commands on their way to the room, or in it
  taken,      \* the commands the receiver has undertaken to carry out
  performed   \* performed[p]: how often p was carried out

dvars == <<made, open, taken, performed>>

DeliveryInit ==
  /\ made = {}
  /\ open = {}
  /\ taken = {}
  /\ performed = [p \in Command |-> 0]

Submit(p) ==
  /\ p \notin made
  /\ made' = made \cup {p}
  /\ open' = open \cup {p}
  /\ UNCHANGED <<taken, performed>>

\* The receiver takes a set of commands, new ones or not, and carries some of
\* them out at once.
Take(ps, atOnce) ==
  /\ ps \ taken \subseteq open
  /\ taken' = taken \cup ps
  /\ performed' = [p \in Command |-> IF p \in atOnce THEN performed[p] + 1 ELSE performed[p]]
  /\ UNCHANGED <<made, open>>

CarryOut(p) ==
  /\ p \in taken
  /\ performed' = [performed EXCEPT ![p] = @ + 1]
  /\ UNCHANGED <<made, open, taken>>

Close(p) ==
  /\ p \in open \cap taken
  /\ open' = open \ {p}
  /\ UNCHANGED <<made, taken, performed>>

\* A sender has lost its connection: what it has no answer for is on its way
\* again, though the receiver may have taken it out of the room.
SendAgain(ps) ==
  /\ Resending
  /\ ps \subseteq taken
  /\ open' = open \cup ps
  /\ UNCHANGED <<made, taken, performed>>

DeliveryNext ==
  \/ \E p \in Command : Submit(p) \/ CarryOut(p) \/ Close(p)
  \/ \E ps \in SUBSET Command :
       SendAgain(ps) \/ \E atOnce \in SUBSET ps : Take(ps, atOnce)

DeliverySpec == DeliveryInit /\ [][DeliveryNext]_dvars

-----------------------------------------------------------------------------
(* Properties *)

\* A command leaves the room only in the hands of the receiver, nothing is
\* taken that was not sent, and what was carried out was taken first.
Accounted ==
  /\ open \subseteq made /\ taken \subseteq made
  /\ made \subseteq open \cup taken
  /\ \A p \in Command : performed[p] > 0 => p \in taken
=============================================================================
