----------------------------- MODULE MCSendPath -----------------------------
(***************************************************************************)
(* SendPath with model values for players, packets, messages and threads.  *)
(***************************************************************************)
EXTENDS SendPath

CONSTANTS p1, p2, k1, k2, k3, k4, m1, m2, handlers, heartbeat, noOne

MCPlayers == {p1, p2}
MCOnePlayer == {p1}
MCPackets == {k1, k2, k3, k4}
MCThreePackets == {k1, k2, k3}
MCMessages == {m1, m2}
MCOneMessage == {m1}
MCProducers == {handlers, heartbeat}
MCOneProducer == {handlers}
MCNobody == {}

Symmetry == Permutations(MCPackets) \cup Permutations(MCMessages)
             \cup Permutations(MCProducers)
=============================================================================
