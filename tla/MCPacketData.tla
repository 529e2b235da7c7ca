---------------------------- MODULE MCPacketData ----------------------------
(* PacketData for TLC: a lobby of three, one packet, two requests.          *)
EXTENDS PacketData

CONSTANTS ann, bob, cat, pk1, noOne

MCPlayers == {ann, bob, cat}
MCPackets == {pk1}
MCSymmetry == Permutations(MCPlayers)
=============================================================================
