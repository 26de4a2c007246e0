-------------------------------- MODULE Catchup --------------------------------
(***************************************************************************)
(* One call of get_subscribed_transactions: it gets its transactions from  *)
(* the indexer, filter by filter and page by page, for the rounds far      *)
(* behind the tip, and from the blocks of algod for the others.  The two   *)
(* sources give different shapes of the same chain, and the result must    *)
(* not tell which rounds came from where.                                  *)
(***************************************************************************)
EXTENDS SyncWindow, Filters, TxnTree

CONSTANTS
    Chains,     \* chains: per round a block [header, payset, cert], payset a sequence of trees
    FilterSets, \* values of config.filters: non-empty sequences of [name, filter]
    GroupSets,  \* values of config.arc28_events: sequences of groups
    Windows,    \* <<configuration, watermark, current_round>>
    PageLimit   \* pagination_limit

\* What a block may leave out is a sequence of at most one value.
BlockHeaders(r) ==
    [round : {r}, proposer : Texts, payout : Nat, feeSink : Texts, pool : Texts,
     level : Seq(Nat), genesisId : Seq(Texts), previous : Seq(Texts), protocol : Seq(Texts),
     nextProtocol : Seq(Texts), counter : Seq(Nat)]

\* A payout comes from somewhere.
Blocks(r) ==
    [header : {header \in BlockHeaders(r) : HasPayout(header) => header.feeSink # None},
     payset : Seq({t \in Trees : t.facts.genesis # <<>>}), cert : Seq([digest : Seq(Texts)])]

ASSUME PageLimitAssumption == PageLimit \in Nat \ {0}
ASSUME FilterSetsAssumption ==
    \A fs \in FilterSets :
        fs # <<>> /\ fs \in Seq(Range(fs)) /\ \A f \in Range(fs) : IsFilter(f.filter)
ASSUME GroupSetsAssumption ==
    \A gs \in GroupSets :
        /\ gs \in Seq(Range(gs))
        /\ \A g \in Range(gs) : g.events \in Seq(Range(g.events)) /\ g.continueOnError \in BOOLEAN
ASSUME WindowsAssumption == \A w \in Windows : w \in SyncConfig \X Nat \X Nat
ASSUME ChainsAssumption ==
    \A c \in Chains, w \in Windows : \A r \in 1..w[3] : r \in DOMAIN c /\ c[r] \in Blocks(r)

VARIABLES
    chain, filters, groups, window,     \* what the poll is given
    pc,         \* the next statement
    current,    \* the number of the filter that is searched for
    token,      \* next_token, as the number of transactions before it; -1: None
    rows,       \* results of the paginated request
    catchup,    \* catchup_transactions
    blocks,     \* the blocks read so far
    result      \* what the call returns

given == <<chain, filters, groups, window>>
vars == <<given, pc, current, token, rows, catchup, blocks, result>>

Searched == IndexerRounds(window[1], window[2], window[3])
Read == AlgodRounds(window[1], window[2], window[3])

Init ==
    /\ chain \in Chains
    /\ filters \in FilterSets
    /\ groups \in GroupSets
    /\ window \in Windows
    /\ pc = "begin"
    /\ current = 1
    /\ token = -1
    /\ rows = <<>>
    /\ catchup = <<>>
    /\ blocks = <<>>
    /\ result = None

TransactionSubscriptionResult(range, newWatermark, txns, metadata) ==
    [syncedRoundRange |-> range, currentRound |-> window[3], startingWatermark |-> window[2],
     newWatermark |-> newWatermark, subscribedTransactions |-> txns, blockMetadata |-> metadata]

\* Nothing to sync: the result names the reported round as its range, although
\* none was read.
ReturnAtTip ==
    /\ pc = "begin"
    /\ AtTip(window[2], window[3])
    /\ result' = TransactionSubscriptionResult(<<window[3], window[3]>>, window[2], <<>>, <<>>)
    /\ pc' = "done"
    /\ UNCHANGED <<given, current, token, rows, catchup, blocks>>

Begin ==
    /\ pc = "begin"
    /\ ~AtTip(window[2], window[3])
    /\ pc' = IF Refuses(window[1], window[2], window[3]) THEN "raised"
             ELSE IF CatchesUp(window[1], window[2], window[3]) THEN "request" ELSE "blocks"
    /\ UNCHANGED <<given, current, token, rows, catchup, blocks, result>>

-------------------------------------------------------------------------------
\* The payout to the proposer as the indexer has it.
IndexedPayout(header) ==
    IF ~HasPayout(header) THEN <<>>
    ELSE <<[inner |-> <<>>,
            facts |-> [type |-> "pay", sender |-> header.feeSink, fee |-> 0, note |-> <<"payout">>,
                       genesis |-> <<"id", "hash">>, sig |-> "empty", createdAsset |-> 0,
                       createdApp |-> 0, logs |-> <<>>, globals |-> <<>>, locals |-> <<>>,
                       body |-> [receiver |-> header.proposer, amount |-> header.payout,
                                 closeTo |-> None, closeAmount |-> 0]]]>>

\* The roots of round r, with their inner transactions.
Roots(r) ==
    LET payset == chain[r].payset
    IN  [j \in DOMAIN payset |-> [facts |-> payset[j].facts, inner |-> Inner(payset[j])]]
            \o IndexedPayout(chain[r].header)

\* The indexer's transactions of round r: it keeps a root with its inner
\* transactions, and numbers it by what comes before it in the block.
IndexedTxns(r) ==
    LET roots == Roots(r)
    IN  [j \in DOMAIN roots |->
            [id |-> <<r, j>>, round |-> r, offset |-> Size(SubSeq(chain[r].payset, 1, j - 1)),
             facts |-> roots[j].facts, inner |-> roots[j].inner]]

\* The transactions of a block with their ids.
Identified(round, txns) ==
    [j \in DOMAIN txns |->
        [id |-> <<round, j>>, round |-> round,
         offset |-> txns[j].offset, facts |-> txns[j].facts, inner |-> txns[j].inner]]

AlgodTxns(block) == Identified(block.header.round, BlockTransactions(block))

OfRounds(txns(_), rounds) ==
    Joined([i \in 1..Cardinality(rounds) |-> txns(Min(rounds) + i - 1)])

\* The answer of the indexer to a search, page after page: the roots that
\* match, or have an inner transaction that does, in the order of the chain.
Answer(f) ==
    LET roots == OfRounds(IndexedTxns, Searched)
        hits == {i \in DOMAIN roots : \E txn \in {roots[i]} \cup Range(roots[i].inner) :
                     IndexerMatches(PreFilter(f.filter), txn.facts)}
    IN  Selected(roots, hits)

-------------------------------------------------------------------------------
(* The search for one filter. *)

Returned == IF token = -1 THEN 0 ELSE token

\* What is left of an answer, and a first page of it: empty only when nothing is
\* left.  The indexer may send a token with the last page as well.
Remaining(answer) == SubSeq(answer, Returned + 1, Len(answer))

FirstPages(rest) ==
    LET sizes == IF rest = <<>> THEN {0} ELSE 1..Min({PageLimit, Len(rest)})
    IN  {page \in [items : {SubSeq(rest, 1, n) : n \in sizes}, more : BOOLEAN] :
            ~page.more => page.items = rest}

Pages == FirstPages(Remaining(Answer(filters[current])))

\* A loop that sends each request without the token of the last one.
RequestPageRestarts ==
    /\ pc = "request"
    /\ \E page \in Pages :
          /\ rows' = rows \o page.items
          /\ token' = -1
          /\ pc' = IF page.items = <<>> \/ ~page.more THEN "map" ELSE "request"
    /\ UNCHANGED <<given, current, catchup, blocks, result>>

\* One round of the loop of execute_paginated_request.
RequestPage ==
    /\ pc = "request"
    /\ \E page \in Pages :
          /\ rows' = rows \o page.items
          /\ token' = Returned + Len(page.items)
          /\ pc' = IF page.items = <<>> \/ ~page.more THEN "map" ELSE "request"
    /\ UNCHANGED <<given, current, catchup, blocks, result>>

\* The names of the filters, of the sequence fs, that accept a transaction.
NamesMatched(fs, facts) ==
    Selected([i \in DOMAIN fs |-> fs[i].name],
             {i \in DOMAIN fs : PostFilter(fs[i].filter, groups, facts)})

\* The same objects are listed and nested, so both get the names.
WithNames(txn, fs) ==
    [txn EXCEPT !.matched = NamesMatched(fs, txn.facts),
                !.inner = [i \in DOMAIN txn.inner |->
                    [txn.inner[i] EXCEPT !.matched = NamesMatched(fs, txn.inner[i].facts)]]]

\* The transactions that some filter accepts, with filters_matched.
Filtered(txns, fs) ==
    Selected([i \in DOMAIN txns |-> WithNames(txns[i], fs)],
             {i \in DOMAIN txns : NamesMatched(fs, txns[i].facts) # <<>>})

MapAndFilter ==
    /\ pc = "map"
    /\ catchup' = catchup \o Filtered(SubscribedTxns(rows), <<filters[current]>>)
    /\ rows' = <<>>
    /\ token' = -1
    /\ current' = current + 1
    /\ pc' = IF current = Len(filters) THEN "merge" ELSE "request"
    /\ UNCHANGED <<given, blocks, result>>

-------------------------------------------------------------------------------
(* The merge, the blocks and the result. *)

\* list.sort is stable.
SortedTxns(txns) ==
    LET before(i, j) ==
            \/ txns[i].round < txns[j].round
            \/ txns[i].round = txns[j].round /\ txns[i].offset < txns[j].offset
            \/ txns[i].round = txns[j].round /\ txns[i].offset = txns[j].offset /\ i < j
        place(i) == 1 + Cardinality({j \in DOMAIN txns : before(j, i)})
    IN  [k \in DOMAIN txns |-> txns[CHOOSE i \in DOMAIN txns : place(i) = k]]

\* The places of the first transaction of each id.
Firsts(txns) == {i \in DOMAIN txns : \A j \in 1..(i - 1) : txns[j].id # txns[i].id}

\* A merge that drops what the others of an id matched.
KeepFirst(txns) == Selected(txns, Firsts(txns))

\* _deduplicate_subscribed_transactions: the first of each id stays, with what
\* all of them matched.
Deduplicated(txns) ==
    LET names(id) ==
            Joined([i \in DOMAIN txns |-> IF txns[i].id = id THEN txns[i].matched ELSE <<>>])
    IN  Selected([i \in DOMAIN txns |-> [txns[i] EXCEPT !.matched = names(txns[i].id)]],
                 Firsts(txns))

Merge ==
    /\ pc = "merge"
    /\ catchup' = Deduplicated(SortedTxns(catchup))
    /\ pc' = "blocks"
    /\ UNCHANGED <<given, current, token, rows, blocks, result>>

ReadBlock ==
    /\ pc = "blocks"
    /\ Len(blocks) < Cardinality(Read)
    /\ blocks' = Append(blocks, chain[Min(Read) + Len(blocks)])
    /\ UNCHANGED <<given, pc, current, token, rows, catchup, result>>

\* _process_extra_fields, for a transaction and those nested in it.
WithExtraFields(txn) ==
    LET extra(t) == [id |-> t.id, round |-> t.round, offset |-> t.offset, facts |-> t.facts,
                     matched |-> t.matched, inner |-> t.inner,
                     events |-> EventsOf(groups, t.facts), changes |-> BalanceChangesOf(t.facts)]
    IN  [extra(txn) EXCEPT !.inner = [i \in DOMAIN @ |-> extra(txn.inner[i])]]

\* A check that leaves out the nested transactions.
RaisesAtTop(txn) == Undecodable(groups, txn.facts)

Raises(txn) ==
    \E t \in {txn} \cup Range(txn.inner) : Undecodable(groups, t.facts)

\* The blocks are converted and filtered once they are all there.  An event
\* that cannot be decoded takes the whole poll with it.
Finish ==
    /\ pc = "blocks"
    /\ Len(blocks) = Cardinality(Read)
    /\ LET read == [i \in DOMAIN blocks |-> AlgodTxns(blocks[i])]
           subscribed == catchup \o Filtered(SubscribedTxns(Joined(read)), filters)
       IN  \/ /\ \E txn \in Range(subscribed) : Raises(txn)
              /\ pc' = "raised"
              /\ UNCHANGED result
           \/ /\ \A txn \in Range(subscribed) : ~Raises(txn)
              /\ pc' = "done"
              /\ result' = TransactionSubscriptionResult(
                     <<StartRound(window[1], window[2], window[3]),
                       EndRound(window[1], window[2], window[3])>>,
                     EndRound(window[1], window[2], window[3]),
                     [i \in DOMAIN subscribed |-> WithExtraFields(subscribed[i])],
                     [i \in DOMAIN blocks |-> Metadata(blocks[i])])
    /\ UNCHANGED <<given, current, token, rows, catchup, blocks>>

Done == pc \in {"done", "raised"} /\ UNCHANGED vars

Next ==
    \/ ReturnAtTip \/ Begin
    \/ RequestPage \/ MapAndFilter \/ Merge \/ ReadBlock \/ Finish \/ Done

Spec == Init /\ [][Next]_vars

-------------------------------------------------------------------------------
(* Properties. *)

Subscribed == IF pc = "done" THEN result.subscribedTransactions ELSE <<>>

\* Each kept transaction has an id of its own and matches some filter.
TypeOK ==
    /\ pc \in {"begin", "request", "map", "merge", "blocks", "done", "raised"}
    /\ current \in 1..(Len(filters) + 1)
    /\ token \in -1..Len(OfRounds(IndexedTxns, Searched))
    /\ pc = "done" => result.blockMetadata \in Seq(BlockMetadata)
    /\ \A i \in DOMAIN Subscribed : Subscribed[i].matched # <<>>
    /\ \A i, j \in DOMAIN Subscribed : Subscribed[i].id = Subscribed[j].id => i = j

\* The pages of a search, however the indexer cuts them, bring every root
\* with a transaction that the filter accepts: what the search leaves out the
\* filter would not have accepted.
SearchFindsAll ==
    pc = "map" =>
        \A r \in Searched : \A j \in DOMAIN Roots(r) :
            (\E txn \in {Roots(r)[j]} \cup Range(Roots(r)[j].inner) :
                PostFilter(filters[current].filter, groups, txn.facts))
                => \E k \in DOMAIN rows : rows[k].id = <<r, j>>

\* What a poll should return of the rounds from the first that it says it
\* synced to its new watermark, those up to its old one left out: each root
\* and inner transaction that a filter accepts, once, in the order of the
\* chain, numbered by its place in its block, with the names of the filters it
\* matches in their order, and with the inner transactions below it.
Wanted ==
    LET ofRoot(r, j) ==
            LET root == Roots(r)[j]
                nodes == <<[facts |-> root.facts, size |-> Len(root.inner)]>> \o root.inner
                id(i) == << <<r, j>>, i - 1>>
            IN  [i \in DOMAIN nodes |->
                    [id |-> id(i), round |-> r,
                     offset |-> Size(SubSeq(chain[r].payset, 1, j - 1)) + i - 1,
                     facts |-> nodes[i].facts, matched |-> NamesMatched(filters, nodes[i].facts),
                     inner |-> [k \in 1..nodes[i].size |-> id(i + k)]]]
        ofRound(r) == Joined([j \in DOMAIN Roots(r) |-> ofRoot(r, j)])
        rounds == {r \in result.syncedRoundRange[1]..result.newWatermark :
                      r > result.startingWatermark}
        all == OfRounds(ofRound, rounds)
    IN  Selected(all, {i \in DOMAIN all : all[i].matched # <<>>})

\* The result does not depend on which rounds came from the indexer: both
\* sources give the same transactions, field by field, with the same ids,
\* numbers, order and filter names.
SourcesAgree ==
    pc = "done" =>
        Wanted = [i \in DOMAIN Subscribed |->
            [id |-> Subscribed[i].id, round |-> Subscribed[i].round, offset |-> Subscribed[i].offset,
             facts |-> Subscribed[i].facts, matched |-> Subscribed[i].matched,
             inner |-> [k \in DOMAIN Subscribed[i].inner |-> Subscribed[i].inner[k].id]]]

\* The movements of value in a transaction: what leaves and enters which
\* accounts, in which roles.  A fee goes to a sink and a new asset comes from
\* nowhere; neither is an account that the subscriber reports on.
Moves(t) ==
    LET move(from, fromRole, to, toRole, asset, amount) ==
            {[address |-> from, asset |-> asset, amount |-> -amount, role |-> fromRole],
             [address |-> to, asset |-> asset, amount |-> amount, role |-> toRole]}
        close(asset) == IF t.body.closeTo = None THEN {}
                        ELSE move(t.sender, "Sender", t.body.closeTo, "CloseTo", asset,
                                  t.body.closeAmount)
        from == IF t.type = "axfer" /\ t.body.from # None THEN t.body.from ELSE t.sender
    IN  <<IF t.fee = 0 THEN {} ELSE move(t.sender, "Sender", None, None, 0, t.fee),
          IF t.type \in {"pay", "axfer"}
          THEN move(from, "Sender", t.body.receiver, "Receiver",
                    IF t.type = "pay" THEN 0 ELSE t.body.asset, t.body.amount)
          ELSE {},
          IF t.type \in {"pay", "axfer"} THEN close(IF t.type = "pay" THEN 0 ELSE t.body.asset)
          ELSE {},
          IF t.createdAsset # 0
          THEN move(None, None, t.sender, "AssetCreator", t.createdAsset,
                    IF Given(t.body.params) THEN t.body.params[1].total ELSE 0)
          ELSE IF t.type = "acfg" /\ ~Given(t.body.params)
          THEN move(None, None, t.sender, "AssetDestroyer", t.body.asset, 0) ELSE {}>>

\* The reported changes of a transaction are what it does to the ledger: for
\* each account and asset in it one change, with the difference of all that
\* enters and leaves and with every role of the account.
ChangesMatchLedger ==
    \A i \in DOMAIN Subscribed :
        LET moves == Moves(Subscribed[i].facts)
            ends == UNION {{<<m, e>> : e \in {x \in moves[m] : x.address # None}} : m \in DOMAIN moves}
            of(key) == {end \in ends : <<end[2].address, end[2].asset>> = key}
        IN  Subscribed[i].changes =
                {[address |-> key[1], asset |-> key[2],
                  amount |-> SumFunction([end \in of(key) |-> end[2].amount]),
                  roles |-> {end[2].role : end \in of(key)}] :
                    key \in {<<end[2].address, end[2].asset>> : end \in ends}}

\* The logs of a transaction that carry the prefix of an event of a group that
\* applies to it.
EventLogs(t) ==
    {x \in (DOMAIN t.logs) \X (DOMAIN groups)
                \X UNION {DOMAIN group.events : group \in Range(groups)} :
        /\ GroupApplies(groups[x[2]], t)
        /\ x[3] \in DOMAIN groups[x[2]].events
        /\ t.logs[x[1]].prefix = groups[x[2]].events[x[3]].signature}

\* A poll that returns has decoded every event of its transactions and of the
\* ones nested in them, but for those of groups that go on after errors.
NoEventDropped ==
    pc = "done" =>
        \A i \in DOMAIN Subscribed : \A t \in {Subscribed[i]} \cup Range(Subscribed[i].inner) :
            LET decodable == {x \in EventLogs(t.facts) : t.facts.logs[x[1]].decodable}
            IN  /\ Len(t.events) = Cardinality(decodable)
                /\ \A x \in EventLogs(t.facts) \ decodable : groups[x[2]].continueOnError

\* A transaction that a filter on events accepts reports one of these events,
\* or has a log that should be one and cannot be decoded, in a group that goes
\* on after errors.  Groups of one name have to have the same conditions: the
\* filter takes those of the last of them, and the extraction those of each.
EventsBehindFilter ==
    pc = "done" /\ SameConditions(groups) =>
        \A i \in DOMAIN Subscribed : \A f \in Range(filters) :
            LET t == Subscribed[i].facts
                wanted(x) ==
                    <<groups[x[2]].name, groups[x[2]].events[x[3]].name>> \in f.filter.events
            IN  f.filter.events # {} /\ PostFilter(f.filter, groups, t) =>
                    \/ \E e \in Range(Subscribed[i].events) : <<e.group, e.event>> \in f.filter.events
                    \/ \E x \in EventLogs(t) :
                          wanted(x) /\ ~t.logs[x[1]].decodable /\ groups[x[2]].continueOnError

\* The metadata is that of the blocks read from algod, in their order, and its
\* two counts agree with the transactions made of the block, the payout counted
\* in neither: the parents with those of the block itself, all with those and
\* their inner transactions.
MetadataAgrees ==
    pc = "done" =>
        LET metadata == result.blockMetadata
        IN  /\ [i \in DOMAIN metadata |-> metadata[i].round] =
                   [i \in 1..Cardinality(Read) |-> Min(Read) + i - 1]
            /\ \A i \in DOMAIN metadata :
                  LET txns == AlgodTxns(blocks[i])
                      payouts == IF HasPayout(blocks[i].header) THEN 1 ELSE 0
                  IN  /\ Len(txns) = metadata[i].parents + payouts
                      /\ Len(SubscribedTxns(txns)) = metadata[i].all + payouts

\* An inner transaction has the same filter names wherever it shows.
NestedNamesAgree ==
    \A i \in DOMAIN Subscribed : \A k \in DOMAIN Subscribed[i].inner :
        Subscribed[i].inner[k].matched = NamesMatched(filters, Subscribed[i].inner[k].facts)

\* The loop of a search ends: a request that is followed by another one of
\* the same search brought a transaction, none of them brings one again, and
\* the next one asks for what comes after them.
SearchAdvances ==
    [][pc = "request" /\ pc' = "request" /\ current' = current =>
          /\ Len(rows') > Len(rows) /\ token' = Len(rows')
          /\ \A k, l \in DOMAIN rows' : rows'[k].id = rows'[l].id => k = l]_vars
===============================================================================
