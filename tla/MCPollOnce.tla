------------------------------ MODULE MCPollOnce ------------------------------
(***************************************************************************)
(* Instances of PollOnce for TLC: a transaction in each of rounds 1, 3     *)
(* and 4, two in round 2, and a round without any.                         *)
(***************************************************************************)
EXTENDS PollOnceProofs, TLC

CONSTANTS t1, t2a, t2b, t3, t4

MCTxns == {t1, t2a, t2b, t3, t4}
MCRoundOf == (t1 :> 1) @@ (t2a :> 2) @@ (t2b :> 2) @@ (t3 :> 3) @@ (t4 :> 4)

\* Two filters that share a name, and one with a name of its own that
\* overlaps the first.
ThreeFilters == <<[name |-> "pay", matches |-> {t1, t2a, t4}],
                  [name |-> "app", matches |-> {t2a, t3}],
                  [name |-> "pay", matches |-> {t3}]>>
TwoNames == <<"pay", "app">>

OneFilter == <<[name |-> "pay", matches |-> {t1, t2a, t3, t4}]>>
OneName == <<"pay">>

Conf(behaviour, rounds, indexerRounds) ==
    [syncBehaviour |-> behaviour, maxRoundsToSync |-> rounds,
     maxIndexerRoundsToSync |-> indexerRounds]

\* Every behaviour with one and two rounds to a poll, the catchup with and
\* without a limit on the indexer's rounds, and a poll that may read nothing.
EveryConfig ==
    {Conf(b, rounds, 0) : b \in SyncBehaviour, rounds \in 1..2}
        \cup {Conf("catchup-with-indexer", 1, i) : i \in 1..2}
        \cup {Conf(b, 0, 0) : b \in {"sync-oldest", "skip-sync-newest"}}

\* Behaviours that two pollers may mix.
MixedConfigs ==
    {Conf("sync-oldest", 1, 0), Conf("catchup-with-indexer", 1, 1),
     Conf("skip-sync-newest", 2, 0)}

\* A poller that catches up with everything but the newest round from the
\* indexer.
CatchupConfigs == {Conf("catchup-with-indexer", 1, 0)}
===============================================================================
