------------------------------ MODULE MCServer ------------------------------
(* Server for TLC: two passwords for one id, an id that the code page       *)
(* cannot represent, and one sender.                                        *)
EXTENDS Server

CONSTANT nobody

MCAccounts == {[id |-> "ann", password |-> "x"], [id |-> "ann", password |-> "y"],
               [id |-> "chloe", password |-> "x"]}
MCAnsi == [s \in {"ann", "chloe", "x", "y"} |-> IF s = "chloe" THEN "?" ELSE s]
MCSenders == <<"sender">>
=============================================================================
