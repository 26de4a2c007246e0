---------------------------- MODULE BalanceChanges ----------------------------
(***************************************************************************)
(* The balance changes of a transaction, and the filter on them.  Asset 0  *)
(* is the Algo.  The parts of a transaction (its fee, payment, transfer,   *)
(* close-out, asset configuration) give one change each for an account;    *)
(* the changes of one account in one asset are then made one.              *)
(***************************************************************************)
EXTENDS Transactions, FiniteSets, FiniteSetsExt

Change(address, asset, amount, role) ==
    [address |-> address, asset |-> asset, amount |-> amount, role |-> role]

FeeChanges(t) ==
    IF t.fee = 0 THEN <<>> ELSE <<Change(t.sender, 0, -t.fee, "Sender")>>

\* What is closed out, if anything is, leaves the sender as well.
CloseChanges(t, asset) ==
    IF t.body.closeTo = None THEN <<>>
    ELSE <<Change(t.sender, asset, -t.body.closeAmount, "Sender"),
           Change(t.body.closeTo, asset, t.body.closeAmount, "CloseTo")>>

PaymentChanges(t) ==
    IF t.type # "pay" THEN <<>>
    ELSE <<Change(t.sender, 0, -t.body.amount, "Sender"),
           Change(t.body.receiver, 0, t.body.amount, "Receiver")>>
         \o CloseChanges(t, 0)

\* A clawback takes the amount from another account than the sender.
TransferChanges(t) ==
    IF t.type # "axfer" THEN <<>>
    ELSE <<Change(IF t.body.from # None THEN t.body.from ELSE t.sender,
                  t.body.asset, -t.body.amount, "Sender"),
           Change(t.body.receiver, t.body.asset, t.body.amount, "Receiver")>>
         \o CloseChanges(t, t.body.asset)

\* A created asset is all its creator's; a destroyed one is reported with 0.
ConfigChanges(t) ==
    IF t.type # "acfg" THEN <<>>
    ELSE IF t.body.asset \in {0, NoId} /\ t.createdAsset # 0
         THEN <<Change(t.sender, t.createdAsset,
                       IF Given(t.body.params) THEN t.body.params[1].total ELSE 0, "AssetCreator")>>
    ELSE IF t.body.asset \notin {0, NoId} /\ ~Given(t.body.params)
         THEN <<Change(t.sender, t.body.asset, 0, "AssetDestroyer")>>
    ELSE <<>>

RawChanges(t) == FeeChanges(t) \o PaymentChanges(t) \o TransferChanges(t) \o ConfigChanges(t)

\* The entries of a sequence of changes for one account and asset.
Entries(changes, key) == {i \in DOMAIN changes : <<changes[i].address, changes[i].asset>> = key}

Keys(changes) == {<<changes[i].address, changes[i].asset>> : i \in DOMAIN changes}

\* A consolidation that keeps the amount of the first change.
KeepFirstAmount(changes) ==
    {[address |-> key[1], asset |-> key[2],
      amount |-> changes[Min(Entries(changes, key))].amount,
      roles |-> {changes[i].role : i \in Entries(changes, key)}] : key \in Keys(changes)}

\* One change for each account and asset, with the sum of the amounts and all
\* the roles.
Consolidated(changes) ==
    {[address |-> key[1], asset |-> key[2],
      amount |-> SumFunction([i \in Entries(changes, key) |-> changes[i].amount]),
      roles |-> {changes[i].role : i \in Entries(changes, key)}] : key \in Keys(changes)}

\* _extract_balance_changes_from_indexer_transaction, without the order.
BalanceChangesOf(t) == Consolidated(RawChanges(t))

-------------------------------------------------------------------------------
(* The filter. *)

\* BalanceChangeFilter: addresses, assets and roles are the values accepted;
\* the amounts may be missing.
AnyChange ==
    [addresses |-> <<>>, assets |-> <<>>, roles |-> <<>>,
     minAbsolute |-> <<>>, maxAbsolute |-> <<>>, minimum |-> <<>>, maximum |-> <<>>]

Absolute(n) == IF n < 0 THEN -n ELSE n

\* The absolute minimum counts by its truth value, the others when given.
HasCriterion(f) ==
    \/ Given(f.addresses) \/ Given(f.assets) \/ Given(f.roles)
    \/ OrElse(f.minAbsolute, 0) # 0
    \/ Given(f.maxAbsolute) \/ Given(f.minimum) \/ Given(f.maximum)

\* One change has to meet all criteria of a filter.
ChangeMatches(f, change) ==
    /\ Given(f.addresses) => change.address \in f.addresses[1]
    /\ Given(f.assets) => change.asset \in f.assets[1]
    /\ Given(f.roles) => change.roles \cap f.roles[1] # {}
    /\ OrElse(f.minAbsolute, 0) # 0 => Absolute(change.amount) >= f.minAbsolute[1]
    /\ Given(f.maxAbsolute) => Absolute(change.amount) <= f.maxAbsolute[1]
    /\ Given(f.minimum) => change.amount >= f.minimum[1]
    /\ Given(f.maximum) => change.amount <= f.maximum[1]

\* _create_balance_changes_filter: a filter without criteria is dropped, and
\* accepts nothing instead of everything.
ChangesMatch(fs, t) ==
    \E change \in BalanceChangesOf(t) : \E i \in DOMAIN fs :
        HasCriterion(fs[i]) /\ ChangeMatches(fs[i], change)
===============================================================================
