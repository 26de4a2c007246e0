------------------------------- MODULE MCCatchup -------------------------------
(***************************************************************************)
(* Instances of Catchup for TLC: chains of four rounds with transactions   *)
(* of every type and inner transactions up to two levels deep.             *)
(***************************************************************************)
EXTENDS Catchup, TLC

MCTexts == STRING

Txn(type, sender, body) ==
    [type |-> type, sender |-> sender, fee |-> 0, note |-> <<>>, genesis |-> <<>>, sig |-> None,
     createdAsset |-> 0, createdApp |-> 0, logs |-> <<>>, globals |-> <<>>, locals |-> <<>>,
     body |-> body]

Pay(sender, receiver, amount) ==
    Txn("pay", sender, [receiver |-> receiver, amount |-> amount, closeTo |-> None, closeAmount |-> 0])
Move(sender, receiver, amount) ==
    Txn("axfer", sender, [asset |-> 7, receiver |-> receiver, amount |-> amount, closeTo |-> None,
                          closeAmount |-> 0, from |-> None])
Close(t, to, amount) == [t EXCEPT !.body.closeTo = to, !.body.closeAmount = amount]
Clawback == [Move("alice", "bob", 2) EXCEPT !.body.from = "carol"]
Config(asset, params) == Txn("acfg", "alice", [asset |-> asset, params |-> params])
Create(total) ==
    [Config(0, <<[total |-> total, manager |-> "alice"]>>) EXCEPT !.createdAsset = 7]
Destroy == Config(7, <<>>)
Call(app, args) ==
    Txn("appl", "alice", [app |-> app, onComplete |-> "noop", args |-> args, accounts |-> <<"bob">>,
                          boxes |-> <<[app |-> 0, name |-> "box"], [app |-> 3, name |-> "box"]>>,
                          access |-> <<[account |-> "bob", box |-> <<>>],
                                       [account |-> None, box |-> <<[app |-> 0, name |-> "box"]>>]>>])
CreateCall == [Call(0, <<>>) EXCEPT !.createdApp = 9]
Freeze == Txn("afrz", "alice", [asset |-> 7, target |-> "bob", frozen |-> TRUE])
Keyreg(out) == Txn("keyreg", "bob", [nonParticipation |-> out])
Proof(reveals) == [Txn("stpf", "carol", [type |-> 0, reveals |-> reveals]) EXCEPT !.sig = "empty"]
Heartbeat(address) == Txn("hb", "carol", [address |-> address])

Log(event, decodable) == [prefix |-> event, decodable |-> decodable]
Logging(t, logs) == [t EXCEPT !.logs = logs]

Root(t) == [t EXCEPT !.fee = 1, !.genesis = <<"id", "hash">>, !.sig = IF @ = None THEN "sig" ELSE @]
Leaf(t) == [facts |-> t, inner |-> <<>>]
Node(t, inner) == [facts |-> t, inner |-> inner]
Sent(t) == Leaf(Root(t))
SentWith(t, inner) == Node(Root(t), inner)

\* An app call with an inner app call, between two inner transfers.
Nested ==
    SentWith([Logging(Call(9, <<"swap", "x">>), <<Log("swap", TRUE)>>)
                 EXCEPT !.locals = <<"alice", "bob", "carol">>,
                        !.globals = <<[key |-> "k", uint |-> 0], [key |-> "l", uint |-> 3]>>],
             <<Leaf(Move("bob", "carol", 2)),
               Node(Logging(Call(5, <<"mint">>), <<Log("mint", TRUE), Log("swap", TRUE)>>),
                    <<Leaf(Pay("alice", "bob", 2)), Leaf(Move("bob", "carol", 1))>>),
               Leaf(Close(Pay("bob", "alice", 0), "carol", 3))>>)

\* A call whose inner call has a log that nothing can decode.
Garbled ==
    SentWith(Logging(Call(9, <<"swap">>), <<Log("swap", TRUE), Log("mint", TRUE)>>),
             <<Leaf(Logging(Call(5, <<>>), <<Log("mint", FALSE)>>))>>)

Header(round, payout) ==
    [round |-> round, proposer |-> "carol", payout |-> payout, feeSink |-> "sink",
     pool |-> None, level |-> Omit(round - 1, 0), genesisId |-> <<"id">>,
     previous |-> IF round = 1 THEN <<>> ELSE << <<"h1", "h2", "h3">>[round - 1] >>,
     protocol |-> <<"v40">>, nextProtocol |-> IF round < 3 THEN <<>> ELSE <<"v41">>,
     counter |-> Omit(round - 1, 0)]
Chain(paysets, payouts) ==
    [r \in 1..4 |-> [header |-> Header(r, payouts[r]), payset |-> paysets[r],
                     cert |-> <<[digest |-> << <<"h1", "h2", "h3", "h4">>[r]>>]>>]]

MCChains ==
    {Chain(<< <<Sent(Pay("alice", "bob", 1)), Nested, Sent(Move("bob", "carol", 2))>>,
              <<Sent(Close(Pay("bob", "alice", 1), "carol", 4)), Sent(Pay("alice", "alice", 2))>>,
              <<Nested, Sent(CreateCall)>>,
              <<Sent(Pay("alice", "bob", 2)), Sent(Clawback)>> >>, <<0, 0, 0, 2>>),
     Chain(<< <<SentWith(Call(9, <<"swap">>), <<Leaf(Pay("alice", "bob", 1))>>),
                Sent([Pay("alice", "bob", 2) EXCEPT !.note = <<"a", "b">>])>>,
              <<>>,
              <<Nested, Sent(Close(Move("bob", "alice", 1), "carol", 3))>>,
              <<Sent(Move("alice", "bob", 0))>> >>, <<1, 1, 2, 0>>),
     Chain(<< <<Sent(Create(5)), Sent(Freeze)>>,
              <<Garbled>>,
              <<Sent(Create(0)), Sent(Keyreg(TRUE)), Sent(Keyreg(FALSE)),
                Sent(Heartbeat("bob")), Sent(Heartbeat(ZeroAddress))>>,
              <<Sent(Destroy), Sent(Config(7, <<[total |-> 0, manager |-> "bob"]>>)),
                Sent(Proof(<<>>)), Sent(Proof(<< <<[position |-> 1, weight |-> 0]>> >>))>> >>,
           <<0, 2, 0, 0>>)}

\* The trees of a forest with less than d levels of inner transactions.
RECURSIVE Nodes(_)
Nodes(forest) == Range(forest) \cup UNION {Nodes(t.inner) : t \in Range(forest)}
RECURSIVE Depth(_)
Depth(t) == 1 + Max({0} \cup {Depth(u) : u \in Range(t.inner)})
MCTrees == UNION {Nodes(c[r].payset) : <<c, r>> \in MCChains \X (1..4)}
MCLevels == [d \in 1..3 |-> {t \in MCTrees : Depth(t) <= d}]

Lenient(name, events) == [Arc28EventGroup(name, events) EXCEPT !.continueOnError = TRUE]

\* No definitions; two groups of one name that take everything; a strict one
\* beside another; and two groups of one name with conditions of their own.
MCGroupSets ==
    {<<>>,
     <<Lenient("dex", <<Arc28Event("Mint", "mint")>>),
       Lenient("dex", <<Arc28Event("Swap", "swap"), Arc28Event("Mint", "mint")>>)>>,
     <<[Lenient("dex", <<Arc28Event("Swap", "swap")>>) EXCEPT !.apps = {9}],
       Arc28EventGroup("nft", <<Arc28Event("Mint", "mint")>>)>>,
     <<[Lenient("dex", <<Arc28Event("Swap", "swap")>>) EXCEPT !.apps = {5}],
       [Lenient("dex", <<Arc28Event("Mint", "mint")>>) EXCEPT !.senders = << {"alice"} >>]>>}

Named(n, f) == [name |-> n, filter |-> f]

MCFilters ==
    {NoFilter,
     [NoFilter EXCEPT !.sender = One("bob"), !.receiver = One("carol")],
     [NoFilter EXCEPT !.receiver = Many({"alice", "bob"}), !.type = One("pay")],
     [NoFilter EXCEPT !.app = One(9), !.appCreate = <<FALSE>>],
     [NoFilter EXCEPT !.type = Many({"pay", "axfer"}), !.maxAmount = 1],
     [NoFilter EXCEPT !.asset = One(7), !.minAmount = 2],
     [NoFilter EXCEPT !.events = {Arc28EventFilter("dex", "Swap"), Arc28EventFilter("nft", "Mint")}],
     [NoFilter EXCEPT !.sender = One("alice"), !.changes = <<
        [AnyChange EXCEPT !.assets = << {0} >>, !.roles = << {"Receiver", "CloseTo"} >>,
                          !.minimum = <<2>>],
        [AnyChange EXCEPT !.addresses = << {"carol"} >>, !.maxAbsolute = <<3>>]>>]}

\* Filters for what the pairs above leave out.
MCSpecialFilters ==
    {[NoFilter EXCEPT !.notePrefix = <<"a">>],
     [NoFilter EXCEPT !.assetCreate = <<TRUE>>],
     [NoFilter EXCEPT !.appCreate = <<TRUE>>, !.onComplete = Many({"noop", "optin"})],
     [NoFilter EXCEPT !.method = Many({"swap", "mint"})],
     [NoFilter EXCEPT !.events = {Arc28EventFilter("dex", "Swap")}],
     [NoFilter EXCEPT !.arguments = << { <<"swap", "x">>, <<>> } >>],
     [NoFilter EXCEPT !.changes = <<[AnyChange EXCEPT !.minAbsolute = <<3>>],
                                    [AnyChange EXCEPT !.minAbsolute = <<0>>]>>],
     [NoFilter EXCEPT !.custom = << { <<"payout">>, <<"a", "b">> } >>],
     [NoFilter EXCEPT !.receiver = One("carol"), !.asset = One(7)]}

\* One or two filters, of one name or of two.
MCFilterSets ==
    {<<Named("a", f)>> : f \in MCFilters \cup MCSpecialFilters}
        \cup {<<Named("a", f), Named(n, g)>> : f \in MCFilters, g \in MCFilters, n \in {"a", "b"}}

\* A filter that accepts everything, and one that accepts an inner transaction.
MCNestedFilterSets ==
    {<<Named("a", NoFilter), Named("b", [NoFilter EXCEPT !.sender = One("bob")])>>}

Conf(rounds, indexerRounds) ==
    [syncBehaviour |-> "catchup-with-indexer", maxRoundsToSync |-> rounds,
     maxIndexerRoundsToSync |-> indexerRounds]

\* Four rounds behind: all of them from the indexer, some, some within the
\* limit on the indexer's rounds, and none; three behind; at the tip as a node
\* that lags sees it; and a poll that jumps, one that syncs the oldest rounds
\* and one that refuses.
MCWindows ==
    {<<Conf(0, 0), 0, 4>>, <<Conf(2, 0), 0, 4>>, <<Conf(1, 2), 0, 4>>, <<Conf(4, 0), 0, 4>>,
     <<Conf(1, 2), 1, 4>>, <<Conf(1, 0), 3, 2>>,
     <<[Conf(2, 0) EXCEPT !.syncBehaviour = "skip-sync-newest"], 0, 4>>,
     <<[Conf(2, 0) EXCEPT !.syncBehaviour = "sync-oldest"], 1, 4>>,
     <<[Conf(2, 0) EXCEPT !.syncBehaviour = "fail"], 1, 4>>}
===============================================================================
