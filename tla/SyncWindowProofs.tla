--------------------------- MODULE SyncWindowProofs ---------------------------
(***************************************************************************)
(* Facts about the window of one poll, for every configuration, watermark  *)
(* and reported round.                                                     *)
(***************************************************************************)
EXTENDS SyncWindow, TLAPS

\* Whatever is not an error reads a window that ends between the old
\* watermark and the reported round, and that starts right after the old
\* watermark unless the behaviour is one that jumps to the newest rounds.
LEMMA WindowBounds ==
    ASSUME NEW cfg \in SyncConfig, NEW w \in Nat, NEW c \in Nat, ~AtTip(w, c),
           ~Refuses(cfg, w, c)
    PROVE  /\ EndRound(cfg, w, c) \in w..c
           /\ StartRound(cfg, w, c) \in (w + 1)..(c + 1)
           /\ ~SkipsToNewest(cfg, w, c) => StartRound(cfg, w, c) = w + 1
           /\ SkipsToNewest(cfg, w, c) => EndRound(cfg, w, c) = c
  BY DEF SyncConfig, SyncBehaviour, AtTip, Refuses, EndRound, StartRound, SkipsToNewest,
         SyncsOldest, IndexerCapped, CatchesUp, TooFarBehind, IndexerTo

\* The indexer's rounds and algod's rounds are disjoint and together are the
\* whole window: a poll that uses both neither reads a round twice nor leaves
\* one out between them.
LEMMA WindowIsCovered ==
    ASSUME NEW cfg \in SyncConfig, NEW w \in Nat, NEW c \in Nat, ~AtTip(w, c),
           ~Refuses(cfg, w, c)
    PROVE  /\ IndexerRounds(cfg, w, c) \cup AlgodRounds(cfg, w, c)
                  = StartRound(cfg, w, c)..EndRound(cfg, w, c)
           /\ IndexerRounds(cfg, w, c) \cap AlgodRounds(cfg, w, c) = {}
  BY DEF SyncConfig, SyncBehaviour, AtTip, Refuses, EndRound, StartRound, SkipsToNewest,
         SyncsOldest, IndexerCapped, CatchesUp, TooFarBehind, IndexerTo, IndexerRounds,
         AlgodRounds, AlgodFrom

\* One poll asks algod for maxRoundsToSync rounds at most, and the indexer
\* for maxIndexerRoundsToSync rounds at most when that limit is set.
THEOREM PollIsBounded ==
    ASSUME NEW cfg \in SyncConfig, NEW w \in Nat, NEW c \in Nat, ~AtTip(w, c),
           ~Refuses(cfg, w, c)
    PROVE  /\ \A a, b \in AlgodRounds(cfg, w, c) : b - a < cfg.maxRoundsToSync
           /\ cfg.maxIndexerRoundsToSync # 0 =>
                  \A a, b \in IndexerRounds(cfg, w, c) : b - a < cfg.maxIndexerRoundsToSync
  BY DEF SyncConfig, SyncBehaviour, AtTip, Refuses, EndRound, StartRound, SkipsToNewest,
         SyncsOldest, IndexerCapped, CatchesUp, TooFarBehind, IndexerTo, IndexerRounds,
         AlgodRounds, AlgodFrom

\* A poll that may read at least one round from algod, and that is not
\* refused, moves the watermark forward: repeated polls cannot stand still.
THEOREM PollMakesProgress ==
    ASSUME NEW cfg \in SyncConfig, NEW w \in Nat, NEW c \in Nat, ~AtTip(w, c),
           ~Refuses(cfg, w, c), cfg.maxRoundsToSync > 0
    PROVE  NewWatermark(cfg, w, c) > w
  BY DEF SyncConfig, SyncBehaviour, AtTip, Refuses, NewWatermark, EndRound, SkipsToNewest,
         SyncsOldest, IndexerCapped, CatchesUp, TooFarBehind, IndexerTo

\* The rounds a jump leaves out are all at least maxRoundsToSync behind the
\* reported round: jumping never costs a round of the newest window.
LEMMA JumpKeepsNewest ==
    ASSUME NEW cfg \in SyncConfig, NEW w \in Nat, NEW c \in Nat, SkipsToNewest(cfg, w, c),
           NEW r \in Nat, r < StartRound(cfg, w, c)
    PROVE  r <= c - cfg.maxRoundsToSync
  BY DEF SyncConfig, StartRound

\* What is asked of the indexer lies maxRoundsToSync behind the reported
\* round: the distance that gives the indexer the time to catch up itself.
LEMMA IndexerKeepsDistance ==
    ASSUME NEW cfg \in SyncConfig, NEW w \in Nat, NEW c \in Nat, CatchesUp(cfg, w, c),
           NEW r \in IndexerRounds(cfg, w, c)
    PROVE  r <= c - cfg.maxRoundsToSync
  BY DEF SyncConfig, IndexerRounds, IndexerTo, IndexerCapped, CatchesUp, TooFarBehind
===============================================================================
