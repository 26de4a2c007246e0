------------------------------ MODULE SyncWindow ------------------------------
(***************************************************************************)
(* Which rounds one poll reads, from where, and what watermark it leaves:  *)
(* the arithmetic of get_subscribed_transactions, as pure operators of the *)
(* configuration cfg, the watermark w read at the start of the poll and    *)
(* the round c that algod reported.  The operators are meant for c > w;    *)
(* NewWatermark also covers the early return at the tip.                   *)
(***************************************************************************)
EXTENDS Integers

SyncBehaviour == {"fail", "skip-sync-newest", "sync-oldest",
                  "sync-oldest-start-now", "catchup-with-indexer"}

\* The part of AlgorandSubscriberConfig the window depends on.  Zero stands
\* for max_indexer_rounds_to_sync = None: the code tests it for truth, so a
\* configured 0 means "no limit" as well.
SyncConfig == [syncBehaviour            : SyncBehaviour,
               maxRoundsToSync          : Nat,
               maxIndexerRoundsToSync   : Nat]

\* Nothing to sync: the watermark is at, or beyond, the reported round.
AtTip(w, c) == c <= w

TooFarBehind(cfg, w, c) == c - w > cfg.maxRoundsToSync

Refuses(cfg, w, c) ==
    /\ cfg.syncBehaviour = "fail"
    /\ TooFarBehind(cfg, w, c)

\* The behaviours that jump to the newest rounds instead of the oldest ones.
SkipsToNewest(cfg, w, c) ==
    /\ TooFarBehind(cfg, w, c)
    /\ \/ cfg.syncBehaviour = "skip-sync-newest"
       \/ cfg.syncBehaviour = "sync-oldest-start-now" /\ w = 0

\* A window that ends maxRoundsToSync on even where the tip comes earlier.
SyncsOldestAlways(cfg, w, c) ==
    \/ cfg.syncBehaviour = "sync-oldest"
    \/ cfg.syncBehaviour = "sync-oldest-start-now" /\ w # 0

SyncsOldest(cfg, w, c) ==
    /\ TooFarBehind(cfg, w, c)
    /\ \/ cfg.syncBehaviour = "sync-oldest"
       \/ cfg.syncBehaviour = "sync-oldest-start-now" /\ w # 0

CatchesUp(cfg, w, c) ==
    /\ TooFarBehind(cfg, w, c)
    /\ cfg.syncBehaviour = "catchup-with-indexer"

\* A poll that forgets to step over the round the watermark names.
StartAtWatermark(cfg, w, c) ==
    IF SkipsToNewest(cfg, w, c) THEN c - cfg.maxRoundsToSync + 1 ELSE w

\* A jump to the reported round itself.
StartAtTip(cfg, w, c) == IF SkipsToNewest(cfg, w, c) THEN c ELSE w + 1

StartRound(cfg, w, c) ==
    IF SkipsToNewest(cfg, w, c) THEN c - cfg.maxRoundsToSync + 1 ELSE w + 1

\* More than maxIndexerRoundsToSync rounds to get from the indexer: this poll
\* gets that many and does not touch algod.
IndexerCapped(cfg, w, c) ==
    /\ CatchesUp(cfg, w, c)
    /\ cfg.maxIndexerRoundsToSync # 0
    /\ (c - cfg.maxRoundsToSync) - (w + 1) + 1 > cfg.maxIndexerRoundsToSync

\* indexer_sync_to_round_number, for a poll that catches up.
IndexerTo(cfg, w, c) ==
    IF IndexerCapped(cfg, w, c) THEN (w + 1) + cfg.maxIndexerRoundsToSync - 1
    ELSE c - cfg.maxRoundsToSync

IndexerRounds(cfg, w, c) ==
    IF CatchesUp(cfg, w, c) THEN (w + 1)..IndexerTo(cfg, w, c) ELSE {}

\* A window one round short of maxRoundsToSync.
EndRoundOneShort(cfg, w, c) ==
    IF SyncsOldest(cfg, w, c) THEN w + cfg.maxRoundsToSync - 1
    ELSE IF IndexerCapped(cfg, w, c) THEN IndexerTo(cfg, w, c)
    ELSE c

EndRound(cfg, w, c) ==
    IF SyncsOldest(cfg, w, c) THEN (w + 1) + cfg.maxRoundsToSync - 1
    ELSE IF IndexerCapped(cfg, w, c) THEN IndexerTo(cfg, w, c)
    ELSE c

\* An algod range that starts after the round following the indexer's last.
AlgodFromOneLate(cfg, w, c) ==
    IF CatchesUp(cfg, w, c) THEN IndexerTo(cfg, w, c) + 2
    ELSE StartRound(cfg, w, c)

\* algod_sync_from_round_number, for a poll that reads from algod.
AlgodFrom(cfg, w, c) ==
    IF CatchesUp(cfg, w, c) THEN IndexerTo(cfg, w, c) + 1
    ELSE StartRound(cfg, w, c)

AlgodRounds(cfg, w, c) ==
    IF IndexerCapped(cfg, w, c) THEN {}
    ELSE AlgodFrom(cfg, w, c)..EndRound(cfg, w, c)

\* A poll at the tip that reports the round it saw instead of the watermark.
NewWatermarkRewinds(cfg, w, c) == IF AtTip(w, c) THEN c ELSE EndRound(cfg, w, c)

\* A catchup that acknowledges what it asked of the indexer, also when it is
\* near enough to the tip to ask nothing of it.
NewWatermarkOfIndexer(cfg, w, c) ==
    IF AtTip(w, c) THEN w
    ELSE IF cfg.syncBehaviour = "catchup-with-indexer" THEN c - cfg.maxRoundsToSync
    ELSE EndRound(cfg, w, c)

\* new_watermark of the result, for every outcome that is not an error.
NewWatermark(cfg, w, c) == IF AtTip(w, c) THEN w ELSE EndRound(cfg, w, c)
===============================================================================
