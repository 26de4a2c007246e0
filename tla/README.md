# Formal model of the Algorand subscriber

This directory holds TLA+ modules that model `algokit_subscriber`
(`src/src/algokit_subscriber/` here) and one program built on it, the TLC
configurations that check them on small instances, and TLAPS proofs of the
results that hold for every instance. `PROJECT.json` is the index: components,
runs, mutants, the map from each definition to the lines it models, findings,
hazards and theorems.

    tlc -workers 2 -config PollOnceSingle.cfg MCPollOnce   # one run
    tlapm PollOnceProofs.tla                               # one module's proofs

## 1. The system

A subscriber follows the Algorand chain. `AlgorandSubscriber.poll_once` reads
a *watermark* (the last round it is done with), asks algod for the newest
round, retrieves the transactions of some of the rounds in between, matches
them against filters, emits events to listeners, and persists a new watermark.
`start` repeats that until `stop`.

| Component | Source | State | Operations | Module |
|---|---|---|---|---|
| `poll_once` | `_subscriber.py` | locals of the call | get watermark, status, subscribe, emit, set watermark | `PollOnce` |
| `start`, `stop` | `_subscriber.py` | `started`, `stop_requested` | the loop, its error branch, its pause; stop from anywhere | `StartLoop`, with its polls `Lifecycle` |
| Sync window | `_subscription.py` 155-222 | none | which rounds a poll reads, and its new watermark | `SyncWindow` |
| Retrieval | `_subscription.py` | `catchup_transactions` and the lists of the call | search per filter, map inner transactions, filter, sort, deduplicate, read blocks, extra fields | `Catchup`, `TxnTree` |
| Filters | `_subscription.py`, `types/subscription.py` | none | `compile_filters`: pre-filter for the indexer, post-filter in memory | `Filters` |
| Balance changes | `_subscription.py` | none | the changes of a transaction, made one per account and asset; the filter on them | `BalanceChanges` |
| ARC-28 events | `_subscription.py`, `types/arc28.py` | none | the filter on events, the extraction from logs, errors of the decoder | `Arc28` |
| Indexer lookup | `_indexer_lookup.py` | `next_token`, `results` | `search_transactions`, `execute_paginated_request` | `Catchup` |
| Block retrieval | `_block.py` | none | `get_blocks_bulk` | `Catchup`, one step in `PollOnce` |
| Transformation of blocks | `_transform.py`, `_internal_types.py` | a counter | number the transactions of a block, payout included; convert each type | `Transactions`, `TxnTree` |
| Block metadata | `_transform.py` | none | the header's fields, the counts of transactions | `TxnTree`, `Catchup` |
| Watermark persistence | `_watermark.py` | the watermark | get, set, in memory or supplied by the user | `PollOnce` |
| Event emitter | `types/event_emitter.py`, the `on_*` methods | `_listeners`, `_one_time_listeners` | `emit`, `on`, `once`, `remove_listener`, `on_error` | `EventEmitter` |
| Package surface, types | `types/`, `__init__.py` | none | configuration | what behaviour depends on |
| Example: recording | `examples/transaction_recording` | watermark file, CSV file, a list in memory | start, poll, record, append, write the watermark | `Recorder` |
| Example: lifecycle hooks | `examples/subscriber/15_lifecycle_hooks.py` | `retry_count` | the error listener that gives up (part C) | `StartLoop` |
| Other examples | `examples/` | none | straight-line scripts | not modelled |

How they interact. `start` calls `poll_once`, which calls
`get_subscribed_transactions` (window, retrieval, filters, transformation) and
then the emitter. Listeners are user code that runs synchronously inside the
emission, so they may raise out of the poll, call `stop`, register, remove and
emit. The watermark store and the chain are shared with other processes.

What is hard in it:

- **Failure between effects.** Listeners act on the outside world before the
  watermark is persisted. An exception or a crash anywhere in a poll must
  repeat the work, never acknowledge it. A program that keeps the watermark in
  one file and its rows in another has more places to crash.
- **Stale reads.** The watermark and the reported round are read early and
  used late; another poller, a lagging node or a lagging indexer may have made
  them stale.
- **Boundaries.** Five sync behaviours, two data sources with a
  border between them, limits of zero.
- **Two representations of one chain.** A poll that catches up must return
  what it would have returned from algod: same transactions, field by field,
  same ids, order, names. A block leaves out what is zero, and counts inner
  transactions differently from the indexer.
- **Stop against start.** `stop` runs in other threads, in signal handlers, or
  inside a listener, between any two statements of `start` or of a poll.
- **Re-entrancy.** The emitter iterates over live lists that the listeners
  change.

What makes each component correct is stated as properties in its module
(section 4). `PROJECT.json` lists every hazard at its line, with the
properties that cover it or the reason why none does.

## 2. Modules

Each module names the source's own definitions where TLA+ allows it. Operators
that are plausible bugs of the definition after them (`StartAtWatermark`,
`KeepFirst`, `AbortPersists`, ...) are used by no specification: each is put in
the place of that definition to confirm that a property notices.

### Polling

**`SyncWindow`**: the arithmetic of `get_subscribed_transactions` as
operators of the configuration `cfg`, the watermark `w` and the reported round
`c`: `StartRound`, `EndRound`, `IndexerRounds`, `AlgodRounds`, `NewWatermark`.
`PollOnce`, `Catchup` and `Recorder` EXTEND it.

**`PollOnce`**: any number of pollers over one watermark store. Each call of
`poll_once` that touches something shared is an action, in the order of the
code: `GetWatermark`, `GetStatus`, `Plan` or `Refuse` (up to the first request),
`Search` per filter, `FetchBlocks`, then `EmitBatch`, `EmitTransaction`,
`NextName` per filter name, `EmitPoll`, `SetWatermark`. `NewBlock` and
`IndexBlock` move the outside world, `Abort` is an exception or the end of a
process at any of these points, and `Restart` takes the store with it when the
store is `in_memory_watermark`. A transaction is an element of a set with a
round; a filter is a name and the set of transactions its post-filter accepts.
`batched`, `delivered` and `skipped` record what happened, for the properties.

**`AtLeastOnce`**: the abstract specification: an acknowledged round, and for
each name the transactions seen. A transaction may be seen once everything
earlier was; a round may be acknowledged once everything up to it was seen or
given up on purpose. `PollOnce` implements it with `acked <- watermark`,
`seen <- delivered`, `forgone <- skipped` (`KeepsPromise`), and `Recorder` with
the rows of its CSV file as what was seen (`RecordsAsPromised`).

**`StartLoop`**: `start` and `stop` statement by statement: the guard, the two
assignments at the head, the loop's test, the poll (which returns or raises),
`inspect`, the test for a stop made by a handler, the sleep or the wait for a
block, the error branch, the reset at the end. `StopTests` and `StopSets` are
the two statements of `stop`, of any number of callers. The error listener is
the default one, which re-raises, one that returns, or the one of the lifecycle
hooks example, which counts the errors and calls `stop` after `MaxRetries`.

**`Lifecycle`** composes the two: the only poller of `PollOnce` is the thread
in `start`. It takes a step of a poll only while the loop is at its poll; the
poll's last step is the loop's `PollReturns`, and the result (`reported` and
the new watermark) decides `behind`, which `StartLoop` leaves open; a failed
poll is the loop's `PollRaises`. A stop may come at any of these steps.
`StartLoop` is also the abstract specification of it (`RunsAsStartLoop`).

### What a poll returns

**`Transactions`**: a transaction as the indexer shows it, the shape in which a
block of algod holds it (`EncodedBody`, `ApplyData`, `Encoded`: zero, empty and
false are left out), and the conversion back, type by type, as in
`_transform.py`. The check is that the conversion undoes the encoding wherever
the subscriber promises it does.

**`TxnTree`**: transactions with inner ones, as trees; `Levels` gives them by
their depth, which is what makes the recursion of the code end. `Below` (the
inner transactions of all levels, each before its own) and `CountInner` are
recursive functions on them. Away from the chain the inner transactions are one
list, each with the number of those below it that follow. `BlockTransactions`
numbers and converts the transactions of a block and appends the payout;
`SubscribedTxns` flattens a transaction from either source, with ids and
numbers patched up; `BlockMetadata` and the two counts are of the same block.

**`BalanceChanges`**: the changes of the fee, payment, transfer, close-out and
asset configuration parts, their consolidation per account and asset, and the
filter on them. **`Arc28`**: groups of events, the filter on events and the
extraction, with the conditions of a group and `continue_on_error`.

**`Filters`** EXTENDS both: `PreFilter` and `PostFilter` of a filter with all
its criteria, and `IndexerMatches`, what a search with a pre-filter finds.
Only criteria with a single value reach the indexer, and a receiver displaces a
sender.

**`Catchup`**: a call of `get_subscribed_transactions`, with its result as the
record that it returns. `ReturnAtTip` is the early return; `RequestPage` is one round of the
pagination loop, and the indexer cuts pages as it likes; `MapAndFilter` ends a
filter's search; `Merge` sorts and deduplicates; `ReadBlock` reads one block;
`Finish` filters the blocks and joins both parts with the extra fields, or
raises when an event cannot be decoded.

### Listeners and programs

**`EventEmitter`**: the two lists and a stack of emissions in progress. `On`,
`Once`, `Off`, `OnError` and `Emit` are what user code may call, at the top
level or inside a listener; `CallListener`, `ListenerReturns`, `RemoveCalled`
(the removal that `emit` does after a call), `ListenerRaises` and `EmitReturns`
are the loop of `emit`, with the index into the live list.

**`Recorder`**: the recording example, from its start to its end at any point
and its next start. Writing the watermark file is two steps (`Truncate`,
`WriteWatermark`), an append is one step per row, with the newlines where the
program puts them. `Crash` keeps the two files and nothing else.

`SyncWindowProofs`, `PollOnceProofs`, `StartLoopProofs`, `LifecycleProofs`,
`TransactionsProofs`, `CatchupProofs`, `RecorderProofs` and `EmitterProofs` hold
the proofs;
`MCPollOnce`, `MCStartLoop`, `MCLifecycle`, `MCCatchup`, `MCRecorder` and
`MCEventEmitter` the instances.

## 3. Runs

| Run | Asks | Bounds | States |
|---|---|---|---|
| `poll_once_single` | one poller, all behaviours, failures | 5 rounds, 5 transactions, 3 filters with 2 names, 14 configurations, lags 1, 1 failure | 119,192 |
| `poll_once_shared` | two pollers, a store that a restart resets; liveness; refinement | 3 rounds, 1 filter, 3 configurations to mix, indexer lag 1, 1 failure | 403,430 |
| `start_stop` | stops from anywhere, all three error listeners | 2 callers of `stop`, 2 retries | 3,140 |
| `lifecycle` | stops inside polls, idling, catching up; implements `StartLoop` | 3 rounds, 2 transactions, 4 configurations, lags 1, 1 failure, 1 caller of `stop` | 327,944 |
| `catchup_parity` | both sources agree; changes, events, metadata | 3 chains, 145 lists of filters, 4 lists of event groups, 9 windows, pages of up to 2 | 145,932 |
| `recorder` | ends of the program at any step | 4 rounds, 5 transactions, 2 ends, 2 rounds to a poll | 19,238 |
| `event_emitter` | re-entrant use of the emitter | 1 event and the error event, 2 listeners, 2 registrations, depth 2 | 60,494 |
| `indexer_behind` | the indexer is further behind than the code allows for | lag 2, `max_rounds_to_sync` 1 | violation |
| `stop_lost`, `started_stuck` | what the docs say of `stop` and `start` | 1 caller | violation |
| `emitter_skips` | what a docstring says of `emit` | 1 event, 2 listeners | violation |
| `nested_names` | what a docstring says of nested transactions | 1 pair of filters | violation |

Why the bounds are enough. With rounds 1 to 5 and windows of one and two rounds
a poller goes through several polls, with a tip that moves between them, and
every boundary case (far behind, exactly `max_rounds_to_sync` behind, one
behind, at the tip, beyond a lagging node's tip) is met. Round 2 has two
transactions, and rounds 2 and 3 transactions of several filters, so an exception
can fall inside a batch, between two names and between two transactions of one
round. Two pollers show every way of overwriting a watermark, a third adds no
new pair; one failure falls at each step of each of them. In `lifecycle` the
four configurations read one round at a time, jump, catch up and refuse; two
transactions in different rounds show a stop with one delivered and one not.
The theorems remove these bounds for the safety properties, in all modules.

In `catchup_parity` the chains have every transaction type, inner transactions
two levels deep with siblings after them, an empty block, payouts, logs that
decode and one that does not; the windows put the border between indexer
and algod before, inside and after the chain, jump, sync the oldest rounds,
refuse, and are at the tip of a lagging node; all pairs of eight filters cover
single values, lists, a receiver with a sender, amounts, events, balance changes
and criteria that only the post-filter has, and nine more filters the rest of
the criteria one by one. In `recorder` a second end of the program
falls on the traces of the first: an empty watermark file, an open last line.
The emitter's index and lists are as small as a skip, a nested removal and a
registration during an emission need. `StartLoop` has no bound beyond the
number of callers; `pollsAfterStop` stops counting at two, one more than the
property allows, and `retries` at one more than `MaxRetries`.

Named bounds: `MaxTip`, `MaxFailures`, `NodeLag`, `IndexerLag` in `PollOnce`
and `Lifecycle`; `MaxTip`, `MaxCrashes` in `Recorder`; `MaxListeners`,
`MaxDepth` in `EventEmitter`. `PageLimit` in `Catchup` and `MaxRetries` in
`StartLoop` are limits of the code. Deadlock is checked in every run; `Done` in
`Catchup` is the end of the poll.

Fairness. `PollOnce!FairSpec` lets each poller go on (`WF` of the steps of a
poll): every call of a poll returns or raises, and a poll is followed by
another one. No block is obliged to appear, the indexer is not obliged to
ingest, and nothing is obliged to fail; the number of failures is finite by
`MaxFailures`, which is what "ends up at the tip" means in a system where every
poll may fail. `StartLoop!FairSpec` lets the thread in `start` go on, because
algod itself bounds `status_after_block`, and lets a `stop` that has begun
finish; nobody is obliged to call `start` or `stop`. `Lifecycle!FairLifecycleSpec`
asks the same of the thread with its polls in full. There the assumption that a
poll is followed by another one is not made but shown: `LoopCatchesUp` needs
only that the loop runs on unstopped. The other specifications have no fairness
and no liveness property.

## 4. Properties

| Property | Says |
|---|---|
| `NoLoss` | every transaction up to the persisted watermark was delivered under every name it matches, in its batch and on its own, unless its round was left out by a jump |
| `NoHoles` | where no poller may jump, no transaction is delivered while an earlier one of its name is not |
| `WatermarkExists` | the watermark never passes the chain |
| `NothingTwice` | a lone poller has nothing to emit from a round it has acknowledged |
| `LeavesOutOldRoundsOnly` | only jumping behaviours leave rounds out, and only rounds `max_rounds_to_sync` old |
| `NoRewind` | a lone poller's watermark in a durable store never goes back |
| `CatchesUpEventually` | pollers that may read and do not refuse end up at the tip, although they overwrite each other's watermark |
| `KeepsPromise` | polling implements `AtLeastOnce` |
| `OnePollAfterStop` | at most one poll ends after a requested stop |
| `NoIdlingAfterStop` | a stop made during a poll is not followed by a sleep or a wait |
| `StartedIsTrue` | with an error listener that returns, `started` is set exactly while the loop runs |
| `StopEndsLoop`, `KeepsPolling` | a requested stop ends the loop; without one the loop polls again, whatever fails |
| `GivesUp` | errors that go on for ever end a loop whose error listener gives up, whatever polls succeed in between |
| `StopsCleanly` | outside a poll, and as long as none failed, the listeners have seen exactly what the watermark acknowledges, however deep inside a poll a stop came |
| `WaitsAtTip` | the thread waits for a block only when the round it was told of is done |
| `LoopCatchesUp` | a loop that runs on unstopped ends up at the tip, whichever listener handles its errors |
| `RunsAsStartLoop` | the loop with its polls in full implements `StartLoop`, fairness included |
| `SearchFindsAll` | the pages of a search bring every root with a transaction the filter accepts: the pre-filter is never stricter than the post-filter |
| `SourcesAgree` | the result has all there is between its two watermarks, in the range it names, and the same, field by field, wherever the border between indexer and algod falls |
| `ChangesMatchLedger` | the balance changes reported are what a ledger that books every movement says, one per account and asset, with all roles |
| `NoEventDropped` | a poll that returns has decoded every event of its logs, but for groups that go on after errors |
| `EventsBehindFilter` | a transaction that a filter on events accepts reports one of them, or has a log that should be one and cannot be decoded, in a group that goes on after errors; for groups of one name only when their conditions are the same |
| `MetadataAgrees` | the metadata is that of the blocks read, in order; without the payout, its parents are the transactions made of the block, and all are those and their inner ones |
| `SearchAdvances` | each further request of a search brings something new |
| `NoRowMissing` | every row of the tracked account up to the watermark that was written is in the CSV file |
| `BrokenLinesFromCrashes` | at most as many broken lines as ends of the program |
| `CopiesFromCrashes` | a row is repeated only as often as the program ended |
| `NothingAcknowledgedAgain` | no row of a round once acknowledged is written again, not even after the watermark file was left empty |
| `RecordsAsPromised` | the program implements `AtLeastOnce` |
| `OneTimeIsRegistered` | the list of one-time listeners never gets ahead of the list of listeners |
| `EmitsInOrder` | an emission whose list lost nothing calls every listener, in order, those registered meanwhile too |
| `ErrorHeard` | the error event has the default listener until the first `on_error`, and the listener of that call alone ever after |

## 5. Findings

Five statements of the documentation do not hold of the code. Each has a run
whose counterexample shows it; `PROJECT.json` quotes the lines.

1. `stop_lost`: `start` sets `started` and then resets `stop_requested`. A stop
   between the two statements is wiped out, and the loop goes on.
2. `started_stuck`: the default error listener raises out of `start`, past the
   reset of `started`; every later `start` returns at once.
3. `indexer_behind`: the catchup acknowledges what it asked the indexer for
   without asking how far the indexer is. `IndexerLagCovered` (the indexer is
   never more than `max_rounds_to_sync` behind) is exactly what the other
   results need.
4. `emitter_skips`: `emit` removes a one-time listener from the list it iterates
   over and so passes over the next one.
5. `nested_names`: in a catchup the names of the filters are merged on a copy,
   and a transaction nested in its parent keeps those of the first search.

Remarks without a run:

- The second call of `on_error` raises `ValueError`, as the default listener it
  removes is gone (`_subscriber.py:222`), although `guide/subscriber.md:362`
  says that several error listeners can be added. `OnError` models it.
- A docstring has the two cases of `sync-oldest-start-now` the wrong way round
  (`types/subscription.py:452`).
- At the tip the result is made without a window (`_subscription.py:162-170`):
  with a lagging node `new_watermark` is the watermark and not
  `synced_round_range[1]`, which `types/subscription.py:268` says it equals.
- In the recording example an end of the program inside `write_text` leaves an
  empty watermark file, and every later start fails to read it; an end inside an
  append leaves a line without its newline, which the next row joins. The rows
  it writes are all the balance changes of each transaction, not only those "of
  our tracked address" (`transaction_recording.py:32`).
- The pre-filter carries `min_amount` and `max_amount`, which
  `search_transactions` does not send (harmless: the post-filter applies them).

## 6. Proofs

**`SyncWindowProofs`**: for every configuration, watermark and reported round, the
window lies between them (`WindowBounds`), the indexer's and algod's rounds
are disjoint and together the whole window (`WindowIsCovered`), a poll's size
is bounded (`PollIsBounded`), and it moves forward (`PollMakesProgress`).

**`PollOnceProofs`**: for every set of pollers, configurations, transactions,
filters and bounds that satisfies the named assumptions of `PollOnce`:

- `TypeCorrect`.
- `PollInv` is inductive without a hypothesis. It says of a poll in progress
  that the round it works with exists, that its watermark was one the store may
  hold (and, for a lone poller, still holds), that it is not refused, and that
  all it holds lies in its window. `WatermarkAlwaysExists`,
  `NothingDeliveredTwice`, `NeverRewinds` and `OnlyOldRoundsLeftOut` follow.
- `DeliveryInv` is inductive under `IndexerLagCovered`. `NoLoss` alone is not:
  a state in which a poll is about to set its watermark with half of its
  events emitted satisfies it. What has to be added is, per poll and statement:
  everything up to the watermark it *read* is settled (true although the store
  may hold something else by now, since the history only grows); the filters
  searched so far have brought all they match of the indexer's rounds; from the
  fetch on all of the window is there; and of the names before the current one everything is
  delivered, of the current one everything but the queue. At `SetWatermark` this
  adds up to `NoLoss` for the new watermark. `NothingLost`, `NoHolesEver` and
  `PollingKeepsPromise` (each step of `PollOnce` is a step of `AtLeastOnce` or
  a stutter) follow. `IndexerLagCovered` enters at one place, `Search`: the rounds
  it asks for are ingested.

**`StartLoopProofs`**: for every set of callers of `stop` and number of retries.
`LoopInv` adds to the properties that a poll begins with no poll counted after a
stop, and that a stop made during the poll is still there when the loop tests it.
`AtMostOnePollAfterStop`, `NeverIdlesAfterStop`, `StartedTellsTruth` follow.

**`LifecycleProofs`**: every step of `Lifecycle` is a step of `PollOnce` and a
step of `StartLoop`, or changes nothing in one of them (`LoopPolls`,
`LoopIsStartLoop`). So the theorems above hold of a subscriber that is started
and stopped; `AlwaysNoLoss` is one of them spelled out. `AlwaysStopsCleanly`
needs more than both: `CleanInv` says that a poll is in progress only while the
loop polls, and that what the listeners have seen beyond the watermark lies
in the window of that poll, or a poll failed. `WaitInv` ties `behind` to the two rounds
that the result carried while the loop still uses it (`AlwaysWaitsAtTip`).

**`TransactionsProofs`**: about the operators, for every value of their
arguments that a chain and a configuration can hold.

- `ConversionIsExact`: converting what a block holds of a transaction gives back
  the transaction as the indexer shows it. One lemma per type says it of the
  body; those about accounts referenced by position, boxes, access lists, deltas
  and reveals are where leaving out zero could lose something.
- `BelowIsNested`: in the list of the transactions below a root each is followed
  by those below it, so a position and a size are enough to find a subtree.
  `Below` is a recursive function; what is said of every tree is proved by
  induction over levels. The library's induction theorems take an operator as a
  parameter, which the installed provers cannot instantiate, so `NatInductionSet`
  and `TreeInduction` state induction for sets, from the well-foundedness of
  the natural numbers. With `WithInnerIs` follows `ListIsNested`, of what the
  subscriber makes of a tree: one transaction for each node, with different ids,
  which shows below it what the tree has there, under the ids and numbers that
  the list of all has for the same.
- `PreFilterIsSound`: what the post-filter accepts the search with the
  pre-filter returns. `MatchHasCandidate`: the filter on events accepts exactly
  the transactions for which the extraction tries a wanted event, as soon as
  groups of one name have the same conditions (`SameConditions`). The filter
  asks the last group of a name about all of them, the extraction each.
- Lists: `Joined`, `Selected`, sorting and sums, with what the proofs about a
  poll need of them (the parts of a joined list, the order of a selection, a
  sorted list without repetition is determined by its elements, a sum over a
  partition).

**`CatchupProofs`**: for every chain, list of filters, list of groups, window
and limit of a page.

- The search. `SearchInv`: what a search has (`rows`) is the part of the
  indexer's answer before `token`, and all of it at `map`. `SearchIsComplete`
  follows with `PreFilterIsSound`; `SearchGoesOn` because a page is empty only
  when nothing is left.
- The two sources. `BlockIsAsIndexed`: the transactions made of a block are
  those the indexer has of the round, payout included.
- The poll. `PollInv` adds what `catchup` and `blocks` hold at each statement:
  after `n` searches what the first `n` filters accept, search by search
  (`Found`); after the merge `Merged`; the blocks of the first rounds to read; at
  the end, a result made of both. `SourcesAgree` alone is not inductive, since it
  says nothing before the end. The hard step is `Merge`: a stable sort
  followed by the deduplication of `n` lists, each in the order of the chain
  already, is the one list that has each transaction once, with the names of all
  filters in their order: `MergeIs` and `MergedIsKept`. Two lists that ascend
  strictly by round and number and have the same elements are equal
  (`SortedUnique`), here and for the result as a whole.
- From `PollInv`: `ResultIsExact` (`SourcesAgree`), `ChangesAreExact` (the
  consolidated changes are those of the ledger, by a bijection between the raw
  changes and the ends of the movements; `ChangesBalance` says what they come
  to: in any asset what the transaction creates of it, in the Algo minus its
  fee), `EventsAreAllReported`,
  `FilterShowsItsEvent`, `MetadataIsExact` (`CountAllIsSize`: counting a forest
  by recursion gives the length of its list), `TypeCorrect`.

**`RecorderProofs`**: for any chain and any number of ends of the program.
`RecorderInv` says where each row of the poll's window is: not emitted yet, in
the list in memory, or in the file. `NoRowEverMissing` and
`RecordingKeepsPromise` follow, the second because the list is sorted by round,
so that an append that is cut off leaves no hole. `BrokenInv` counts an
open last line as one that may still be broken, `CopiesInv` the copies of a row
that the poll in progress may still write (`BrokenOnlyByCrashes`,
`CopiesOnlyByCrashes`, `NeverAgain`).

**`EmitterProofs`**: for any events, listeners and depth. `EmitterInv` says of
every emission in progress, not only the last, that it has called a prefix of
its list unless the list lost an entry since. A removal from the two lists is a
count that goes down by one in each, which gives `OneTimeAlwaysRegistered`;
`AlwaysEmitsInOrder` and `ErrorAlwaysHeard` follow from the rest.

Only model-checked: the liveness properties (`CatchesUpEventually`,
`StopEndsLoop`, `KeepsPolling`, `GivesUp`, `LoopCatchesUp`, the fairness in
`RunsAsStartLoop`), because TLAPS has no proof rules here for fairness. Every
invariant and every safety property of a step that a passing run checks is a
theorem.

## 7. Assumptions, and what is not modelled

- One thread at a time calls `start`. Two at once would both find `started`
  unset (a hazard in the list); two loops are two pollers of `PollOnce`.
- The chain is final: a block never changes. algod is a set of nodes that may be
  `NodeLag` behind; `status` may be answered by another node than the block requests.
- External: the indexer's search (an address with role receiver also finds
  close-to accounts; a root is returned when it or an inner transaction
  matches; its numbering counts inner transactions); whether it sends a token
  with its last page is left open. How it paginates is free.
- External: the encoding of a block, which leaves out zero, empty and false.
  A creation of an asset may come without parameters. An index of a local delta
  is within the accounts it may name.
- The predicates of a user (`custom_filter`, those on arguments and of groups)
  are sets of values. A mapper is user code, taken one to one; it is the one of
  the first filter of each name. A poll delivers the transactions of one round
  in any order in `PollOnce`; `Catchup` settles their order.
- Names of filters differ from the names of the subscriber's own events.
- A chain has for each round up to the reported one a block (`ChainsAssumption`);
  what a header may leave out is there or not, and a block with a payout names
  its fee sink. Its transactions are trees with finitely many levels
  (`LevelsAssumption`), inner ones without genesis id and hash.
- A transaction has a sender and, if it is a payment or a transfer, a receiver;
  a configuration creates an asset exactly when it names none (`IsTransaction`).
- There is at least one filter, and a page holds at least one transaction
  (`FilterSetsAssumption`, `PageLimitAssumption`). Names of filters may repeat.
- An exception that is not an `Exception` (an interrupt) leaves `start` without
  the error event. The end of a process is `Abort` and `Restart` in `PollOnce` and
  `Crash` in `Recorder`; in `Lifecycle` failures are the exceptions that
  the loop handles.
- The recording program is started again by someone, and one at a time; its CSV
  file's header line is left out.
- A number that is missing is 0, as the code asks for its truth value; only the
  asset that is configured, where the indexer has 0 for a new one, is `NoId` when
  it is missing. Of the metadata `MetadataAgrees` ties the rounds and the two
  counts to other state; hash, rewards and upgrade state are translated and
  have their type only.
- Two groups of one name with different conditions are modelled as they are, and
  so is a balance change filter without criteria, which is dropped. No
  property is about them: nothing says what they should mean.
- A log is decodable as an event or not; the values that come out are not told
  apart. The hash of a method signature is an opaque value.
- Fields copied without a decision (keys, programs, proofs, rewards, schemas,
  hashes) stand behind the ones that are kept.

Not modelled, and why:

- The lookups of applications and asset holdings (`_indexer_lookup.py:13-65`):
  nothing in the package or its tests calls them, and they run the loop that
  `search_transactions` runs.
- The re-exports and data classes of `types/` beyond what behaviour depends on.
- The examples that call the library in straight lines and print the result
  (`examples/subscriber` but for part C of the lifecycle hooks, governance,
  payments, live monitoring, usdc): they have no state of their own besides
  what they hand to the library.
- Asynchronous use, threads inside a poll and persistence of anything but the
  watermark do not exist in the library.

## 8. Plan

Done, in this order: `SyncWindow`, `PollOnce` with `AtLeastOnce` and its
proofs, `StartLoop` and its proofs, `EventEmitter`, `Catchup` with `Filters`
and `TxnTree`; then `Transactions`, `BalanceChanges` and `Arc28` under
`Catchup`, `Recorder`, `Lifecycle`, the proofs about filters, recorder,
emitter and lifecycle, and those about trees, the conversion and the whole of
`Catchup`. What is left:

1. `PollOnce` takes the transactions of its window as a set, `Catchup` makes the
   list of them. That the second gives the first, once a transaction of
   `PollOnce` is an id of `Catchup`, is argued here (`ResultIsExact` says that
   the list is all there is in the window) and not stated as a theorem.
2. Two threads in `start` at once, should the documentation ever allow it.
