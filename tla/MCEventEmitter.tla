----------------------------- MODULE MCEventEmitter -----------------------------
(***************************************************************************)
(* EventEmitter for TLC: the listeners are interchangeable.                *)
(***************************************************************************)
EXTENDS EventEmitter, TLC

HandlerSymmetry == Permutations(Handlers)
===============================================================================
