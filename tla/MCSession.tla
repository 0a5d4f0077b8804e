----------------------------- MODULE MCSession ------------------------------
(* Values for the constants of Session that a .cfg cannot write down. *)
EXTENDS Session

CONSTANTS phone, Presses, Addresses, PhoneWatches

MCPressIds == SubSeq(<<"p1", "p2", "p3">>, 1, Presses)
MCUrls == SubSeq(<<"u1", "u2", "u3">>, 1, Addresses)
MCWatched == [c \in Client |-> IF c = Mac THEN Leaf ELSE PhoneWatches]
MCLeaf == RoomLeaf
MCValue == RoomValue
MCFirstWrites == RoomFirstWrites
MCBlock == MacBlock

(* A room that is up: the Mac has written its first settings and heard of   *)
(* them, the phones have their screens open and their requests answered.    *)
UpTree(url) == Under(Mac, [EmptyTree EXCEPT !["url"] = url])

\* n screenshots are still to be made.
Up(url, n) ==
  /\ server = UpTree(url)
  /\ online = [c \in Client |-> TRUE]
  /\ watching = [c \in Client |-> Listens(c)]
  /\ taken = [c \in Client |-> 0]
  /\ down = [c \in Client |-> <<>>]
  /\ calls = [c \in Client |-> <<>>]
  /\ pending = [c \in Client |-> <<>>]
  /\ held = [c \in Client |-> 0]
  /\ unacked = [c \in Client |-> FALSE]
  /\ cache = [c \in Client |-> Under(c, UpTree(url))]
  /\ loaded = [c \in Client |-> Listens(c)]
  /\ mainq = [c \in Client |-> <<>>]
  /\ timers = n /\ uploads = 0 /\ dot = None /\ black = FALSE
  /\ joined = [r \in Remote |-> TRUE]
  /\ ScreenInit

UpInit == Up(FirstUrl, 0) /\ drops = 0 /\ NothingDone /\ Untouched

(* The same with one trouble at a time: the screenshot of a command before is *)
(* made and replaces the settings, or a connection is lost.                   *)
Storing ==
  /\ Up(FirstUrl, 1) /\ drops = MaxDrops /\ NothingDone /\ Untouched

Losing == UpInit

TroubleSpec == (Storing \/ Losing) /\ [][Next]_vars

UpSpec == UpInit /\ [][Next]_vars
FairUpSpec == UpSpec /\ Fairness

(* Four stories in one run: in each, the users and the network do what they  *)
(* may in one respect, and have done so before in the others.                *)
Pressed(n) == made = n /\ performed = [p \in Press |-> IF n = 0 THEN 0 ELSE 1]
Touched(n, m) == touches = n /\ toggles = m
Shown(n) ==
  /\ stored = n
  /\ image = [r \in Remote |-> IF n = 0 THEN None ELSE Urls[n]]

Commands ==
  /\ Up(FirstUrl, 0) /\ Shown(0) /\ drops = 0
  /\ Pressed(0) /\ Touched(MaxTouches, MaxToggles) /\ requests = MaxRequests

Pointing ==
  /\ Up(Urls[1], 0) /\ Shown(1) /\ drops = MaxDrops
  /\ Pressed(Presses) /\ Touched(0, 0) /\ requests = MaxRequests - 1

Refreshing ==
  /\ Up(FirstUrl, 0) /\ Shown(0) /\ drops = MaxDrops
  /\ Pressed(Presses) /\ Touched(MaxTouches, MaxToggles) /\ requests = 0

Opening ==
  /\ SyncInit /\ MacInit /\ Shown(0)
  /\ joined = [r \in Remote |-> FALSE] /\ ScreenInit
  /\ Pressed(Presses) /\ Touched(MaxTouches, MaxToggles) /\ requests = MaxRequests

StorySpec ==
  (Opening \/ Commands \/ Pointing \/ Refreshing)
  /\ [][Next]_vars /\ Fairness
=============================================================================
