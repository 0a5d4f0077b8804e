-------------------------------- MODULE Room --------------------------------
(***************************************************************************)
(* One room of the database: the leaves the two applications use, and the  *)
(* writes they make.  A room holds interactive_settings, with the address  *)
(* of the last screenshot, the request for a new one and the place of the  *)
(* pointer, and one child for every command sent and not yet removed.      *)
(***************************************************************************)
EXTENDS FirebaseSync

CONSTANTS
  Mac,       \* the receiver
  Remote,    \* the phones in the room
  PressIds,  \* the keys childByAutoId gives to the commands, oldest first
  Action,    \* the commands the phones send, of AllActions
  Point,     \* places of the pointer on the slide
  Urls       \* addresses the storage gives to the screenshots, in order

Off     == "off"     \* the place (-1, -1), beyond the screen
FirstUrl == "http://google.com"
AllActions == {"keyup", "keydown", "space", "blank", "volumeup", "volumedown"}

Press    == Range(PressIds)
Setting  == {"url", "wants", "coord"}
RoomLeaf == Setting \cup Press
Address  == {FirstUrl} \cup Range(Urls)
RoomValue == Action \cup {"true", "false", Off} \cup Point \cup Address

NoWrite == [p \in Leaf |-> Keep]

\* setValue(["screenshot_url": url]) on interactive_settings: the node is
\* replaced, so the request and the place of the pointer go with it.
SetSettings(url) ==
  [NoWrite EXCEPT !["url"] = url, !["wants"] = None, !["coord"] = None]

SetWants(flag) == [NoWrite EXCEPT !["wants"] = flag]

\* updateChildValues(["x": .., "y": ..]) on highlight_coordinates.
MergeCoord(place) == [NoWrite EXCEPT !["coord"] = place]

\* childByAutoId().setValue(["action": .., ..]), and removeValue() on it.
SetAction(press, action) == [NoWrite EXCEPT ![press] = action]
Remove(press) == [NoWrite EXCEPT ![press] = None]

\* What each device has written when it begins to listen: the Mac, in
\* viewDidLoad, the first settings of its room.
RoomFirstWrites ==
  [c \in Client |-> IF c = Mac THEN <<SetSettings(FirstUrl)>> ELSE <<>>]

ASSUME RoomAssumption ==
  /\ Client = {Mac} \cup Remote
  /\ Mac \notin Remote
  /\ PressIds \in Seq(Press) /\ IsInjective(PressIds)
  /\ Press \cap (Setting \cup {"settings"}) = {}
  /\ Urls \in Seq(Range(Urls))
  /\ Leaf = RoomLeaf
  /\ Value = RoomValue
  /\ Watched[Mac] = Leaf
  /\ \A r \in Remote : Watched[r] \subseteq {"url"}
  /\ FirstWrites = RoomFirstWrites
  /\ Action \subseteq AllActions
  /\ Off \notin Point
=============================================================================
