-------------------------------- MODULE TxnTree --------------------------------
(***************************************************************************)
(* Transactions with inner transactions, as trees [facts, inner] of what   *)
(* the indexer says of each, and what the subscriber makes of them: the    *)
(* transactions of a block of algod, numbered and converted, and the flat  *)
(* list of a transaction and all its inner transactions, with the ids and  *)
(* numbers patched up, that it makes of a transaction from either source.  *)
(* Away from the chain the inner transactions of all levels are one list,  *)
(* each with the number of those that follow because they are below it.    *)
(***************************************************************************)
EXTENDS Transactions, FiniteSetsExt

CONSTANT Levels     \* Levels[d]: the trees with less than d levels of inner transactions

ASSUME LevelsAssumption ==
    /\ Levels \in Seq(Range(Levels))
    /\ \A d \in DOMAIN Levels : \A t \in Levels[d] :
           t.inner \in Seq(UNION {Levels[e] : e \in 1..(d - 1)})

Trees == UNION Range(Levels)

\* An inner transaction has no genesis id or hash.
ASSUME TreesAssumption ==
    \A t \in Trees :
        /\ t \in [facts : {t.facts}, inner : {t.inner}]
        /\ IsTransaction(t.facts) /\ IsSigned(t.facts)
        /\ \A u \in Range(t.inner) : u.facts.genesis = <<>>

\* The nodes of a forest from left to right, each with what is below it.
Expanded(forest, below) ==
    Joined([i \in DOMAIN forest |-> <<forest[i]>> \o below[forest[i]]])

\* _expand_inner_txns: the inner transactions of a transaction, those of all
\* levels, each before its own.
Below[t \in Trees] == Expanded(t.inner, Below)

Size(forest) == Len(Expanded(forest, Below))

\* A count that stops at the inner transactions of the roots.
CountTwoLevels(forest) ==
    SumFunction([i \in DOMAIN forest |-> Len(forest[i].inner)]) + Len(forest)

\* count_all_transactions, for the inner transactions of one and for a list.
CountInner[t \in Trees] ==
    SumFunction([i \in DOMAIN t.inner |-> CountInner[t.inner[i]]]) + Len(t.inner)

CountAll(forest) ==
    SumFunction([i \in DOMAIN forest |-> CountInner[forest[i]]]) + Len(forest)

\* What a transaction has below it, in one list: the facts of each, and the
\* number of those below it, which follow it.
Sized(nodes) == [k \in DOMAIN nodes |-> [facts |-> nodes[k].facts, size |-> Len(Below[nodes[k]])]]

Inner(t) == Sized(Below[t])

\* Transaction j of a block, converted with its inner transactions.  One
\* counter numbers the transactions of a block, the inner ones included, each
\* before its inner ones.
Numbered(payset, j) ==
    LET inner == Inner(payset[j])
    IN  [facts |-> Converted(Normalized(Encoded(payset[j].facts))),
         offset |-> Size(SubSeq(payset, 1, j - 1)),
         inner |-> [k \in DOMAIN inner |->
                       [inner[k] EXCEPT !.facts = Converted(Encoded(@))]]]

HasPayout(header) == header.payout # 0 /\ header.proposer # None

\* get_block_transactions: the payout comes last.
BlockTransactions(block) ==
    [j \in DOMAIN block.payset |-> Numbered(block.payset, j)]
        \o IF HasPayout(block.header)
           THEN <<[facts |-> Payout(block.header), offset |-> Size(block.payset), inner |-> <<>>]>>
           ELSE <<>>

\* A certificate says the hash of the block, or nothing of use.
BlockHash(cert) == IF Given(cert) THEN OrElse(cert[1].digest, None) ELSE None

\* What a poll says of a block; a default takes the place of what is missing,
\* the hash of the previous block and a proposed protocol excepted.
BlockRewards == [feeSink : Texts, pool : Texts, level : Nat]
BlockUpgradeState == [currentProtocol : Texts, nextProtocol : Texts]
BlockMetadata ==
    [round : Nat, hash : Texts, previousHash : Texts, genesisId : Texts, proposer : Texts,
     rewards : BlockRewards, upgrade : BlockUpgradeState, counter : Nat, parents : Nat, all : Nat]

\* block_data_to_block_metadata.  The other hashes and numbers of the header
\* are copied with the same two kinds of defaults.
Metadata(block) ==
    LET header == block.header
    IN  [round |-> header.round, hash |-> BlockHash(block.cert),
         previousHash |-> OrElse(header.previous, None),
         genesisId |-> OrElse(header.genesisId, ""), proposer |-> header.proposer,
         rewards |-> [feeSink |-> FeeSink(header),
                      pool |-> IF header.pool = None THEN ZeroAddress ELSE header.pool,
                      level |-> OrElse(header.level, 0)],
         upgrade |-> [currentProtocol |-> OrElse(header.protocol, ""),
                      nextProtocol |-> OrElse(header.nextProtocol, None)],
         counter |-> OrElse(header.counter, 0),
         parents |-> Len(block.payset), all |-> CountAll(block.payset)]

\* A counter that is copied for the inner transactions instead of shared.
MapInnerCopiedCounter(root) ==
    LET inside(i, j) == i <= j + root.inner[j].size
        number(k) ==
            Cardinality({i \in 1..k : \A j \in 1..(i - 1) : inside(i, j) => inside(k, j)})
    IN  [k \in DOMAIN root.inner |->
            [id |-> <<root.id, number(k)>>, round |-> root.round,
             offset |-> root.offset + number(k),
             facts |-> root.inner[k].facts, size |-> root.inner[k].size]]

\* _map_inner_txns: inner transactions have no id of their own and get the
\* root's, with the number that the counter of the root has for them; it counts
\* each before its inner ones.
MapInner(root) ==
    [k \in DOMAIN root.inner |->
        [id |-> <<root.id, k>>, round |-> root.round, offset |-> root.offset + k,
         facts |-> root.inner[k].facts, size |-> root.inner[k].size]]

\* SubscribedTransaction, with no filter matched yet.
SubscribedTransaction(txn, inner) ==
    [id |-> txn.id, round |-> txn.round, offset |-> txn.offset, facts |-> txn.facts,
     matched |-> <<>>, inner |-> inner]

\* A root and its inner transactions, each with those below it.
WithInner(root) ==
    LET all == <<[id |-> <<root.id, 0>>, round |-> root.round, offset |-> root.offset,
                  facts |-> root.facts, size |-> Len(root.inner)]>> \o MapInner(root)
        below(i) == [k \in 1..all[i].size |-> SubscribedTransaction(all[i + k], <<>>)]
    IN  [i \in DOMAIN all |-> SubscribedTransaction(all[i], below(i))]

\* _map_txn_and_inner_txns_to_subscribed_txn.
SubscribedTxns(roots) == Joined([j \in DOMAIN roots |-> WithInner(roots[j])])
===============================================================================
