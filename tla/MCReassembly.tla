---------------------------- MODULE MCReassembly ----------------------------
(* Small instances of Reassembly.                                          *)
EXTENDS Reassembly

MCAsked == [parameter |-> 1, data |-> 3]
=============================================================================
