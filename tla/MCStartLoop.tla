------------------------------ MODULE MCStartLoop ------------------------------
(***************************************************************************)
(* StartLoop for TLC, with its proofs.  The loop needs no definitions: its *)
(* only constant is the set of callers of stop.                            *)
(***************************************************************************)
EXTENDS StartLoopProofs
===============================================================================
