-------------------------------- MODULE Filters --------------------------------
(***************************************************************************)
(* The filters of a subscriber: what compile_filters makes of a filter for *)
(* the indexer (the pre-filter) and for the transactions themselves (the   *)
(* post-filter).                                                           *)
(***************************************************************************)
EXTENDS BalanceChanges, Arc28

\* A field that takes a value or a list of values.  None, an empty list, an
\* empty string and 0 are all false to the code, and no criterion.
Criterion(values, list) == [values |-> values, list |-> list]
Absent == Criterion({}, FALSE)
One(v) == Criterion({v}, FALSE)
Many(values) == Criterion(values, TRUE)

\* TransactionFilter without criteria.  A note prefix is a sequence, an amount
\* of 0 is none, events are pairs of names of a group and an event, and the
\* two predicates are the arguments and the notes that they accept.
NoFilter == [sender |-> Absent, receiver |-> Absent, type |-> Absent, notePrefix |-> <<>>,
             app |-> Absent, asset |-> Absent, minAmount |-> 0, maxAmount |-> 0,
             assetCreate |-> <<>>, appCreate |-> <<>>, onComplete |-> Absent,
             method |-> Absent, events |-> {}, arguments |-> <<>>,
             changes |-> <<>>, custom |-> <<>>]

\* A criterion as the code gets it: a value that is no list is one value.
IsCriterion(c) ==
    /\ c.list \in BOOLEAN
    /\ ~c.list => \A v, w \in c.values : v = w

IsFilter(f) ==
    /\ IsCriterion(f.sender) /\ IsCriterion(f.receiver) /\ IsCriterion(f.type)
    /\ IsCriterion(f.app) /\ IsCriterion(f.asset)

Wants(c) == c.values # {}

\* A pre-filter that takes some value of a list for the only one.
SingleOrFirst(c) == Wants(c)

Single(c) == Wants(c) /\ ~c.list
Only(c) == CHOOSE v \in c.values : TRUE

\* A search without arguments.
IndexerTransactionFilter ==
    [address |-> None, role |-> None, type |-> None, notePrefix |-> <<>>, app |-> NoId,
     asset |-> NoId]

\* _create_indexer_pre_filter: only single values become arguments of the
\* search, and a receiver takes the place of a sender.  It has min_amount and
\* max_amount as well, which search_transactions does not send.
PreFilter(f) ==
    [IndexerTransactionFilter EXCEPT
        !.address = IF Single(f.receiver) THEN Only(f.receiver)
                    ELSE IF Single(f.sender) THEN Only(f.sender) ELSE @,
        !.role    = IF Single(f.receiver) THEN "receiver"
                    ELSE IF Single(f.sender) THEN "sender" ELSE @,
        !.type    = IF Single(f.type) THEN Only(f.type) ELSE @,
        !.notePrefix = f.notePrefix,
        !.app     = IF Single(f.app) THEN Only(f.app) ELSE @,
        !.asset   = IF Single(f.asset) THEN Only(f.asset) ELSE @]

\* What the filter asks of the fields of a transaction.
FieldsMatch(f, t) ==
    /\ Wants(f.sender) => t.sender \in f.sender.values
    /\ Wants(f.receiver) => TxnReceiver(t) \in f.receiver.values
    /\ Wants(f.type) => t.type \in f.type.values
    /\ IsPrefix(f.notePrefix, t.note)
    /\ Wants(f.app) => TxnAppId(t) \in f.app.values
    /\ Wants(f.asset) => TxnAssetId(t) \in f.asset.values
    /\ f.minAmount # 0 => TxnAmount(t) >= f.minAmount
    /\ f.maxAmount # 0 => TxnAmount(t) <= f.maxAmount
    /\ Given(f.assetCreate) => (t.createdAsset # 0) = f.assetCreate[1]
    /\ Given(f.appCreate) => (t.createdApp # 0) = f.appCreate[1]
    /\ Wants(f.onComplete) => TxnOnComplete(t) \in f.onComplete.values
    /\ Wants(f.method) => TxnMethodSelector(t) \in f.method.values

\* _create_transaction_filter.
PostFilter(f, groups, t) ==
    /\ FieldsMatch(f, t)
    /\ f.events # {} => EventsMatch(groups, f.events, t)
    /\ Given(f.arguments) => TxnAppArgs(t) \in f.arguments[1]
    /\ f.changes # <<>> => ChangesMatch(f.changes, t)
    /\ Given(f.custom) => t.note \in f.custom[1]

\* What the indexer does with the arguments; to it the account that a payment
\* or transfer closes to is a receiver as well.
IndexerMatches(query, t) ==
    /\ query.role = "sender" => t.sender = query.address
    /\ query.role = "receiver" =>
          \/ TxnReceiver(t) = query.address
          \/ t.type \in {"pay", "axfer"} /\ t.body.closeTo = query.address
    /\ query.type # None => t.type = query.type
    /\ IsPrefix(query.notePrefix, t.note)
    /\ query.app # NoId => TxnAppId(t) = query.app
    /\ query.asset # NoId => TxnAssetId(t) = query.asset
===============================================================================
