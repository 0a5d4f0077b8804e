--------------------------- MODULE MCSyncClients ---------------------------
(* Two clients and two leaves: one leaf both write, one only c1 writes, and *)
(* c2 listens to both while c1 listens to both.                             *)
EXTENDS SyncClients

CONSTANTS c1, c2

MCLeaf == {"shared", "own"}
MCWatched == [c \in Client |-> MCLeaf]
MCTargets ==
  [c \in Client |-> IF c = c1 THEN {{"own"}, {"shared", "own"}} ELSE {{"shared"}}]
MCFirstWrites == [c \in Client |-> <<>>]
MCValue == 1..MaxWrites
=============================================================================
