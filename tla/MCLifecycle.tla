------------------------------ MODULE MCLifecycle ------------------------------
(***************************************************************************)
(* An instance of Lifecycle for TLC: three rounds, a transaction in each  *)
(* of the first two.                                                       *)
(***************************************************************************)
EXTENDS Lifecycle, TLC

CONSTANTS t1, t2

MCTxns == {t1, t2}
MCRoundOf == (t1 :> 1) @@ (t2 :> 2)

MCFilters == <<[name |-> "pay", matches |-> {t1, t2}]>>
MCNames == <<"pay">>

Conf(behaviour, rounds, indexerRounds) ==
    [syncBehaviour |-> behaviour, maxRoundsToSync |-> rounds,
     maxIndexerRoundsToSync |-> indexerRounds]

\* A poll that reads one round, one that jumps, one that catches up, and one
\* that refuses to.
MCConfigs ==
    {Conf("sync-oldest", 1, 0), Conf("skip-sync-newest", 1, 0),
     Conf("catchup-with-indexer", 1, 1), Conf("fail", 1, 0)}
===============================================================================
