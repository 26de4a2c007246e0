------------------------------ MODULE MCRecorder ------------------------------
(***************************************************************************)
(* An instance of Recorder for TLC: a transaction in round 1, which the    *)
(* program is to leave out, three in rounds 2 and 3, one of them of other  *)
(* accounts only, and one in round 4.                                      *)
(***************************************************************************)
EXTENDS Recorder, TLC

CONSTANTS t1, t2a, t2b, t3, t4

MCTxns == {t1, t2a, t2b, t3, t4}
MCRoundOf == (t1 :> 1) @@ (t2a :> 2) @@ (t2b :> 2) @@ (t3 :> 3) @@ (t4 :> 4)
MCChanges ==
    (t1 :> <<"tracked">>) @@ (t2a :> <<"other", "tracked">>) @@ (t2b :> <<"other">>)
        @@ (t3 :> <<"tracked">>) @@ (t4 :> <<"tracked", "other">>)
===============================================================================
