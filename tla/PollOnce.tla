------------------------------- MODULE PollOnce -------------------------------
(***************************************************************************)
(* AlgorandSubscriber.poll_once and the get_subscribed_transactions it     *)
(* calls, run again and again by one or more pollers that persist their    *)
(* watermark in one store (threads of one process, or instances that       *)
(* overlap during a deployment).  One action per call that reads or writes *)
(* something a poller shares with the outside: the watermark store, algod, *)
(* the indexer, the listeners.                                             *)
(*                                                                         *)
(* A transaction is an element of Txns; RoundOf is its confirmed_round.    *)
(* The set matches of a filter holds the transactions that its post_filter *)
(* accepts, whether they come from algod or from the indexer.  Mappers are *)
(* user code and taken one to one.                                         *)
(***************************************************************************)
EXTENDS SyncWindow, Sequences

CONSTANTS
    Pollers,            \* the pollers that share the watermark store
    Configs,            \* the configurations a poller may have been given
    Txns, RoundOf,      \* the transactions of the chain, and the round of each
    Filters,            \* config.filters: a sequence of [name, matches]
    Names,              \* the keys of _filters_by_name, in insertion order
    Durable,            \* is the watermark kept across a restart of the process?
    InitialWatermark,   \* what the store returns before the first set
    InitialTip, MaxTip, \* the chain's first and last round here
    NodeLag,            \* rounds the algod that answers may be behind the chain
    IndexerLag,         \* rounds the indexer may be behind the chain
    MaxFailures         \* bound on exceptions and crashes

FilterNames == {Filters[i].name : i \in DOMAIN Filters}

ASSUME PollersAssumption == Pollers # {}
ASSUME ConfigsAssumption == Configs \subseteq SyncConfig
ASSUME TxnsAssumption == RoundOf \in [Txns -> Nat \ {0}]
ASSUME FiltersAssumption ==
    /\ Filters \in Seq([name : STRING, matches : SUBSET Txns])
    /\ Names \in Seq(STRING)
    /\ FilterNames = {Names[j] : j \in DOMAIN Names}
    /\ \A j, k \in DOMAIN Names : Names[j] = Names[k] => j = k
ASSUME BoundsAssumption ==
    /\ Durable \in BOOLEAN
    /\ InitialWatermark \in Nat
    /\ InitialTip \in Nat /\ MaxTip \in Nat /\ InitialTip <= MaxTip
    /\ NodeLag \in Nat /\ IndexerLag \in Nat /\ MaxFailures \in Nat

VARIABLES
    \* The outside world.
    tip,        \* the newest round of the chain
    indexed,    \* the newest round the indexer has ingested
    watermark,  \* the value in the watermark store
    config,     \* each poller's configuration, fixed when it is constructed
    \* The local variables of each poller's call of poll_once.
    pc,         \* the next statement
    wm,         \* watermark
    cur,        \* current_round
    found,      \* <<transaction, filter name>> pairs: filters_matched so far
    idx,        \* filters searched, then names emitted
    queue,      \* transactions of the current name not emitted yet
    \* What happened, for the properties.
    batched,    \* per name, the transactions a batch event delivered
    delivered,  \* per name, the transactions an event of their own delivered
    skipped,    \* the rounds that a jump to the newest rounds left out
    failures    \* exceptions and crashes so far, up to MaxFailures

chain == <<tip, indexed>>
locals == <<pc, wm, cur, found, idx, queue>>
history == <<batched, delivered, skipped, failures>>
vars == <<chain, watermark, config, locals, history>>

-------------------------------------------------------------------------------
\* Rounds a status() call may return: the node may lag behind the chain, and
\* two calls may be answered by two nodes.
NodeRounds == {c \in 0..tip : c + NodeLag >= tip}

Pairs(i, rounds) ==
    {<<t, Filters[i].name>> : t \in {u \in Filters[i].matches : RoundOf[u] \in rounds}}

Matched(p, n) == {t \in Txns : <<t, n>> \in found[p]}

CurrentName(p) == Names[idx[p] + 1]

InitConfig == config \in [Pollers -> Configs]

Init ==
    /\ tip = InitialTip
    /\ indexed \in {r \in 0..InitialTip : r + IndexerLag >= InitialTip}
    /\ watermark = InitialWatermark
    /\ InitConfig
    /\ pc = [p \in Pollers |-> "get"]
    /\ wm = [p \in Pollers |-> 0]
    /\ cur = [p \in Pollers |-> 0]
    /\ found = [p \in Pollers |-> {}]
    /\ idx = [p \in Pollers |-> 0]
    /\ queue = [p \in Pollers |-> {}]
    /\ batched = [n \in FilterNames |-> {}]
    /\ delivered = [n \in FilterNames |-> {}]
    /\ skipped = 1..InitialWatermark
    /\ failures = 0

-------------------------------------------------------------------------------
(* The chain grows, the indexer follows it. *)

NewBlock ==
    /\ tip < MaxTip
    /\ indexed + IndexerLag >= tip + 1
    /\ tip' = tip + 1
    /\ UNCHANGED <<indexed, watermark, config, locals, history>>

IndexBlock ==
    /\ indexed < tip
    /\ indexed' = indexed + 1
    /\ UNCHANGED <<tip, watermark, config, locals, history>>

-------------------------------------------------------------------------------
(* One poll. *)

Goto(p, label) == pc' = [pc EXCEPT ![p] = label]

\* Leaving poll_once, by its return or by an exception, drops its locals.
Leave(p) ==
    /\ Goto(p, "get")
    /\ wm' = [wm EXCEPT ![p] = 0]
    /\ cur' = [cur EXCEPT ![p] = 0]
    /\ found' = [found EXCEPT ![p] = {}]
    /\ idx' = [idx EXCEPT ![p] = 0]
    /\ queue' = [queue EXCEPT ![p] = {}]

\* A poll that starts from the watermark that the subscriber started with.
GetInitialWatermark(p) ==
    /\ pc[p] = "get"
    /\ wm' = [wm EXCEPT ![p] = InitialWatermark]
    /\ Goto(p, "status")
    /\ UNCHANGED <<chain, watermark, config, cur, found, idx, queue, history>>

GetWatermark(p) ==
    /\ pc[p] = "get"
    /\ wm' = [wm EXCEPT ![p] = watermark]
    /\ Goto(p, "status")
    /\ UNCHANGED <<chain, watermark, config, cur, found, idx, queue, history>>

GetStatus(p) ==
    /\ pc[p] = "status"
    /\ \E c \in NodeRounds : cur' = [cur EXCEPT ![p] = c]
    /\ Goto(p, "plan")
    /\ UNCHANGED <<chain, watermark, config, wm, found, idx, queue, history>>

\* The before:poll event, and get_subscribed_transactions up to its first
\* request.  A reported round of 0 is falsy, so the function asks algod again.
Plan(p) ==
    /\ pc[p] = "plan"
    /\ \E c \in IF cur[p] = 0 THEN NodeRounds ELSE {cur[p]} :
          /\ ~Refuses(config[p], wm[p], c)
          /\ cur' = [cur EXCEPT ![p] = c]
          /\ Goto(p, IF AtTip(wm[p], c) THEN "batch"
                     ELSE IF CatchesUp(config[p], wm[p], c) THEN "search" ELSE "fetch")
    /\ UNCHANGED <<chain, watermark, config, wm, found, idx, queue, history>>

\* A refusal raises ValueError out of the poll.
Refuse(p) ==
    /\ pc[p] = "plan"
    /\ \E c \in IF cur[p] = 0 THEN NodeRounds ELSE {cur[p]} : Refuses(config[p], wm[p], c)
    /\ Leave(p)
    /\ UNCHANGED <<chain, watermark, config, history>>

\* One filter's search of the indexer.  Rounds the indexer has not ingested
\* yet have no transactions to it.
Search(p) ==
    /\ pc[p] = "search"
    /\ idx[p] < Len(Filters)
    /\ found' = [found EXCEPT ![p] = @ \cup
           Pairs(idx[p] + 1, {r \in IndexerRounds(config[p], wm[p], cur[p]) : r <= indexed})]
    /\ idx' = [idx EXCEPT ![p] = @ + 1]
    /\ UNCHANGED <<chain, watermark, config, pc, wm, cur, queue, history>>

SearchDone(p) ==
    /\ pc[p] = "search"
    /\ idx[p] = Len(Filters)
    /\ Goto(p, "fetch")
    /\ UNCHANGED <<chain, watermark, config, wm, cur, found, idx, queue, history>>

\* Blocks never change once they exist, and a failing request drops every
\* block read before it, so reading the range is one step.
FetchBlocks(p) ==
    /\ pc[p] = "fetch"
    /\ found' = [found EXCEPT ![p] = @ \cup
           UNION {Pairs(i, AlgodRounds(config[p], wm[p], cur[p])) : i \in DOMAIN Filters}]
    /\ idx' = [idx EXCEPT ![p] = 0]
    /\ Goto(p, "batch")
    /\ UNCHANGED <<chain, watermark, config, wm, cur, queue, history>>

EmitBatch(p) ==
    /\ pc[p] = "batch"
    /\ idx[p] < Len(Names)
    /\ batched' = [batched EXCEPT ![CurrentName(p)] = @ \cup Matched(p, CurrentName(p))]
    /\ queue' = [queue EXCEPT ![p] = Matched(p, CurrentName(p))]
    /\ Goto(p, "each")
    /\ UNCHANGED <<chain, watermark, config, wm, cur, found, idx,
                   delivered, skipped, failures>>

\* The transactions in the order the searches returned them, unsorted.
NextTxnsUnsorted(p) == queue[p]

\* The transactions of a poll come in the order of their rounds.
NextTxns(p) == {t \in queue[p] : \A u \in queue[p] : RoundOf[t] <= RoundOf[u]}

EmitTransaction(p) ==
    /\ pc[p] = "each"
    /\ \E t \in NextTxns(p) :
          /\ queue' = [queue EXCEPT ![p] = @ \ {t}]
          /\ delivered' = [delivered EXCEPT ![CurrentName(p)] = @ \cup {t}]
    /\ UNCHANGED <<chain, watermark, config, pc, wm, cur, found, idx,
                   batched, skipped, failures>>

NextName(p) ==
    /\ pc[p] = "each"
    /\ queue[p] = {}
    /\ idx' = [idx EXCEPT ![p] = @ + 1]
    /\ Goto(p, "batch")
    /\ UNCHANGED <<chain, watermark, config, wm, cur, found, queue, history>>

EmitPoll(p) ==
    /\ pc[p] = "batch"
    /\ idx[p] = Len(Names)
    /\ Goto(p, "set")
    /\ UNCHANGED <<chain, watermark, config, wm, cur, found, idx, queue, history>>

\* The rounds a completed poll leaves out between its watermarks.
LeftOut(p) ==
    IF AtTip(wm[p], cur[p]) THEN {}
    ELSE (wm[p] + 1)..(StartRound(config[p], wm[p], cur[p]) - 1)

\* A poll that adds the rounds it read to whatever the store holds by now.
SetWatermarkByIncrement(p) ==
    /\ pc[p] = "set"
    /\ watermark' = watermark + (NewWatermark(config[p], wm[p], cur[p]) - wm[p])
    /\ skipped' = skipped \cup LeftOut(p)
    /\ Leave(p)
    /\ UNCHANGED <<chain, config, batched, delivered, failures>>

SetWatermark(p) ==
    /\ pc[p] = "set"
    /\ watermark' = NewWatermark(config[p], wm[p], cur[p])
    /\ skipped' = skipped \cup LeftOut(p)
    /\ Leave(p)
    /\ UNCHANGED <<chain, config, batched, delivered, failures>>

-------------------------------------------------------------------------------
(* Failures: any call of a poll may raise, and the process may stop. *)

\* An exception that persists the watermark on its way out, as a finally
\* clause around the events would.
AbortPersists(p) ==
    /\ failures < MaxFailures
    /\ failures' = failures + 1
    /\ watermark' = IF pc[p] \in {"batch", "each", "set"}
                    THEN NewWatermark(config[p], wm[p], cur[p]) ELSE watermark
    /\ Leave(p)
    /\ UNCHANGED <<chain, config, batched, delivered, skipped>>

\* An exception out of the store, algod, the indexer, the ARC-28 decoding or
\* a listener, or the end of the poller's process when the store survives it.
\* Every listener that ran keeps what it did.
Abort(p) ==
    /\ failures < MaxFailures
    /\ failures' = failures + 1
    /\ Leave(p)
    /\ UNCHANGED <<chain, watermark, config, batched, delivered, skipped>>

\* A restart of the process whose memory is the store: every poller goes, and
\* the watermark is what the store was created with.
Restart ==
    /\ ~Durable
    /\ failures < MaxFailures
    /\ failures' = failures + 1
    /\ watermark' = InitialWatermark
    /\ pc' = [p \in Pollers |-> "get"]
    /\ wm' = [p \in Pollers |-> 0]
    /\ cur' = [p \in Pollers |-> 0]
    /\ found' = [p \in Pollers |-> {}]
    /\ idx' = [p \in Pollers |-> 0]
    /\ queue' = [p \in Pollers |-> {}]
    /\ UNCHANGED <<chain, config, batched, delivered, skipped>>

-------------------------------------------------------------------------------
PollStep(p) ==
    \/ GetWatermark(p) \/ GetStatus(p) \/ Plan(p)
    \/ Search(p) \/ SearchDone(p) \/ FetchBlocks(p)
    \/ EmitBatch(p) \/ EmitTransaction(p) \/ NextName(p) \/ EmitPoll(p)
    \/ SetWatermark(p)

FailStep(p) == Refuse(p) \/ Abort(p)

Next ==
    \/ NewBlock \/ IndexBlock \/ Restart
    \/ \E p \in Pollers : PollStep(p) \/ FailStep(p)

Spec == Init /\ [][Next]_vars

\* start() polls again whenever a poll has ended, and every call a poll makes
\* returns or raises.  Nothing obliges the chain to grow or the indexer to
\* ingest, and nothing obliges a call to fail.
FairSpec == Spec /\ \A p \in Pollers : WF_vars(PollStep(p))

-------------------------------------------------------------------------------
(* Properties. *)

Labels == {"get", "status", "plan", "search", "fetch", "batch", "each", "set"}

\* Every variable keeps its type.
TypeOK ==
    /\ tip \in Nat /\ indexed \in Nat /\ watermark \in Nat
    /\ config \in [Pollers -> Configs]
    /\ pc \in [Pollers -> Labels]
    /\ wm \in [Pollers -> Nat] /\ cur \in [Pollers -> Nat]
    /\ found \in [Pollers -> SUBSET (Txns \X FilterNames)]
    /\ idx \in [Pollers -> Nat]
    /\ queue \in [Pollers -> SUBSET Txns]
    /\ batched \in [FilterNames -> SUBSET Txns]
    /\ delivered \in [FilterNames -> SUBSET Txns]
    /\ skipped \in SUBSET Nat
    /\ failures \in Nat

\* The transactions that the listeners of name n are to see.
Wanted(n) == UNION {Filters[i].matches : i \in {j \in DOMAIN Filters : Filters[j].name = n}}

\* Every transaction that the persisted watermark has passed was delivered,
\* in a batch and on its own, under every name it matches, unless its round
\* was left out by a jump.  poll_once persists the watermark only after every
\* event of the poll was handled, so no exception, crash or second poller can
\* put the watermark ahead of an undelivered transaction.
NoLoss ==
    \A n \in FilterNames : \A t \in Wanted(n) :
        RoundOf[t] <= watermark /\ RoundOf[t] \notin skipped
            => t \in batched[n] /\ t \in delivered[n]

MayJump(p) == config[p].syncBehaviour \in {"skip-sync-newest", "sync-oldest-start-now"}

\* Where no poller may jump, the listeners of a name have always seen its
\* transactions from the first round after the initial watermark on without
\* a hole, whatever failed in between: a transaction is never emitted while
\* one of an earlier round has not been.
NoHoles ==
    (\A p \in Pollers : ~MayJump(p)) =>
        \A n \in FilterNames : \A t \in delivered[n], u \in Wanted(n) :
            InitialWatermark < RoundOf[u] /\ RoundOf[u] < RoundOf[t] => u \in delivered[n]

\* The watermark never passes the chain, so no future round can be missed:
\* it is the initial one or names a round that exists.
WatermarkExists == watermark = InitialWatermark \/ watermark <= tip

\* Rounds are left out only by a poller whose behaviour jumps, and only ones
\* at least maxRoundsToSync behind the round algod reported to it.
LeavesOutOldRoundsOnly ==
    [][\A r \in skipped' \ skipped : \E p \in Pollers :
          MayJump(p) /\ r + config[p].maxRoundsToSync <= cur[p]]_vars

SinglePoller == \A p, q \in Pollers : p = q

\* A lone poller that still has a transaction to emit has not acknowledged
\* its round yet: without a failure nothing is delivered twice.
NothingTwice ==
    SinglePoller => \A p \in Pollers : \A t \in queue[p] : RoundOf[t] > watermark

\* A lone poller whose store survives restarts never moves its watermark
\* back, not even when a lagging node reports a round before the watermark.
NoRewind == [][SinglePoller /\ Durable => watermark' >= watermark]_vars

\* Configurations under which every poll may read something and none refuses.
AlwaysPolls == \A p \in Pollers :
    config[p].maxRoundsToSync > 0 /\ config[p].syncBehaviour # "fail"

\* However far behind, and with pollers that overwrite each other's watermark,
\* the watermark ends up as close to the tip as the nodes that answer.
CatchesUpEventually == AlwaysPolls => <>[](watermark + NodeLag >= tip)

\* The indexer is never further behind than the rounds that every catchup
\* leaves to algod: what NoLoss needs of the indexer.
IndexerLagCovered ==
    \A cfg \in Configs :
        cfg.syncBehaviour = "catchup-with-indexer" => IndexerLag <= cfg.maxRoundsToSync

-------------------------------------------------------------------------------
\* The delivery that a subscriber promises.
Promise == INSTANCE AtLeastOnce WITH
    WantedBy <- [n \in FilterNames |-> Wanted(n)],
    InitialRound <- InitialWatermark,
    acked <- watermark, seen <- delivered, forgone <- skipped,
    jumps <- \E p \in Pollers : MayJump(p)

\* Polling keeps the promise: each step of a poll, a failure or a restart is
\* a step of AtLeastOnce or changes nothing there.
KeepsPromise == Promise!Spec
===============================================================================
