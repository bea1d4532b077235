------------------------------ MODULE MCClient ------------------------------
(* Small instances of Client.                                              *)
EXTENDS Client, TLC

CONSTANTS k1, k2

\* The tasks do the same things.
Interchangeable == Permutations(Callers)
=============================================================================
