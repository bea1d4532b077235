---------------------------- MODULE MCConnection ----------------------------
(* Small instances of Connection.                                          *)
EXTENDS Connection, TLC

CONSTANTS r1, r2, r3, c1, c2

\* Two commands: the first request carries a transaction.
MCCommand == [c \in Calls |-> IF c = r1 THEN "TRANSACTION2" ELSE "ECHO"]
=============================================================================
