---------------------------- MODULE MCRoomHistory ----------------------------
(* RoomHistory for TLC, with the kinds of request of MCRoomProtocol.        *)
EXTENDS RoomHistory, MCRoomProtocol
=============================================================================
