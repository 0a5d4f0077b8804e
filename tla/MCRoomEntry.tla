---------------------------- MODULE MCRoomEntry -----------------------------
(* Two digits, and Macs that may have two of the codes over them. *)
EXTENDS RoomEntry

MCRoom == {<<1, 1, 1, 1>>, <<1, 1, 1, 2>>}
=============================================================================
