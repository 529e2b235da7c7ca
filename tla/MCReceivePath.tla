--------------------------- MODULE MCReceivePath ---------------------------
(***************************************************************************)
(* ReceivePath with model values for players and workers.                  *)
(***************************************************************************)
EXTENDS ReceivePath

CONSTANTS p1, p2, w1, w2, noOne

MCPlayers == {p1, p2}
MCOnePlayer == {p1}
MCWorkers == {w1, w2}
MCLengths == {2, 3}
MCTheOther == {p2}
=============================================================================
