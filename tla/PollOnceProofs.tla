---------------------------- MODULE PollOnceProofs ----------------------------
(***************************************************************************)
(* Theorems about PollOnce, for every number of pollers, every set of      *)
(* configurations, every chain and every bound.                            *)
(*                                                                         *)
(* PollInv says what a poll in progress knows of the rounds it works on;   *)
(* DeliveryInv adds what it has found and delivered so far, and that all   *)
(* up to the watermark it read is settled already.  Both are inductive     *)
(* because nothing they say of one poller is undone by another one: the    *)
(* history only grows.  Delivery needs IndexerLagCovered.                  *)
(***************************************************************************)
EXTENDS PollOnce, SyncWindowProofs

-------------------------------------------------------------------------------
(* The operators of the model. *)

\* A poller's configuration is one of AlgorandSubscriberConfig.
LEMMA ConfigType ==
    ASSUME NEW p \in Pollers, config \in [Pollers -> Configs] PROVE config[p] \in SyncConfig
  BY ConfigsAssumption DEF ConfigsAssumption

\* config.filters is a sequence, each of its filters has a name and
\* matches transactions of the chain.
LEMMA FiltersType ==
    /\ Len(Filters) \in Nat
    /\ DOMAIN Filters = 1..Len(Filters)
    /\ \A i \in 1..Len(Filters) :
          Filters[i].matches \in SUBSET Txns /\ Filters[i].name \in FilterNames
<1> DEFINE Filter == [name : STRING, matches : SUBSET Txns]
<1>1. Filters \in Seq(Filter)
  BY FiltersAssumption DEF FiltersAssumption
<1>2. \A i \in 1..Len(Filters) : Filters[i] \in Filter
  <2> HIDE DEF Filter
  <2> QED
    BY <1>1
<1> QED
  BY <1>1, <1>2 DEF FilterNames

\* _filters_by_name has each name of a filter as a key, and no other.
LEMMA NamesType ==
    /\ Len(Names) \in Nat
    /\ DOMAIN Names = 1..Len(Names)
    /\ \A j \in 1..Len(Names) : Names[j] \in FilterNames
    /\ \A n \in FilterNames : \E j \in 1..Len(Names) : Names[j] = n
  BY FiltersAssumption DEF FiltersAssumption

\* The window is made of rounds.
LEMMA WindowType ==
    ASSUME NEW cfg \in SyncConfig, NEW w \in Nat, NEW c \in Nat
    PROVE  /\ EndRound(cfg, w, c) \in Nat
           /\ NewWatermark(cfg, w, c) \in Nat
           /\ StartRound(cfg, w, c) \in Nat
  BY DEF SyncConfig, SyncBehaviour, EndRound, StartRound, NewWatermark, AtTip, SkipsToNewest,
         SyncsOldest, IndexerCapped, CatchesUp, TooFarBehind, IndexerTo

\* A search or a block finds transactions of the chain, under filters' names.
LEMMA PairsType ==
    ASSUME NEW i \in DOMAIN Filters, NEW rounds
    PROVE  Pairs(i, rounds) \subseteq Txns \X FilterNames
  BY FiltersType DEF Pairs

\* What a search of filter i over some rounds finds, and nothing else.
LEMMA PairsMembers ==
    ASSUME NEW i \in DOMAIN Filters, NEW rounds, NEW t, NEW n
    PROVE  <<t, n>> \in Pairs(i, rounds) <=>
               t \in Filters[i].matches /\ RoundOf[t] \in rounds /\ n = Filters[i].name
  BY DEF Pairs

-------------------------------------------------------------------------------
(* Type correctness. *)

\* The first state of the store, the pollers and the history is well typed.
LEMMA InitTypeOK == Init => TypeOK
  BY BoundsAssumption DEF Init, InitConfig, TypeOK, Labels, BoundsAssumption

\* No statement of poll_once, failure or block breaks a type.
LEMMA NextTypeOK == TypeOK /\ [Next]_vars => TypeOK'
<1> SUFFICES ASSUME TypeOK, [Next]_vars PROVE TypeOK'
  OBVIOUS
<1> USE DEF TypeOK, Labels, chain, locals, history
<1>1. CASE NewBlock
  BY <1>1 DEF NewBlock
<1>2. CASE IndexBlock
  BY <1>2 DEF IndexBlock
<1>3. CASE Restart
  BY <1>3, BoundsAssumption DEF Restart, BoundsAssumption
<1>4. ASSUME NEW p \in Pollers, PollStep(p) \/ FailStep(p) PROVE TypeOK'
  <2>0. config[p] \in SyncConfig
    BY ConfigType
  <2>1. CASE GetWatermark(p)
    BY <2>1 DEF GetWatermark, Goto
  <2>2. CASE GetStatus(p)
    BY <2>2 DEF GetStatus, Goto, NodeRounds
  <2>3. CASE Plan(p)
    <3>1. PICK c \in IF cur[p] = 0 THEN NodeRounds ELSE {cur[p]} :
              cur' = [cur EXCEPT ![p] = c]
      BY <2>3 DEF Plan
    <3>2. c \in Nat
      BY DEF NodeRounds
    <3> QED
      BY <2>3, <3>1, <3>2 DEF Plan, Goto
  <2>4. CASE Refuse(p)
    BY <2>4 DEF Refuse, Leave, Goto
  <2>5. CASE Search(p)
    <3>1. idx[p] + 1 \in DOMAIN Filters
      BY <2>5, FiltersType DEF Search
    <3> QED
      BY <2>5, <3>1, PairsType DEF Search
  <2>6. CASE SearchDone(p)
    BY <2>6 DEF SearchDone, Goto
  <2>7. CASE FetchBlocks(p)
    <3> DEFINE F == UNION {Pairs(i, AlgodRounds(config[p], wm[p], cur[p])) : i \in DOMAIN Filters}
    <3>1. F \subseteq Txns \X FilterNames
      BY PairsType
    <3>2. found' = [found EXCEPT ![p] = @ \cup F]
      BY <2>7 DEF FetchBlocks
    <3> HIDE DEF F
    <3>3. found' \in [Pollers -> SUBSET (Txns \X FilterNames)]
      BY <3>1, <3>2
    <3> QED
      BY <2>7, <3>3 DEF FetchBlocks, Goto
  <2>8. CASE EmitBatch(p)
    <3>1. CurrentName(p) \in FilterNames
      BY <2>8, NamesType DEF EmitBatch, CurrentName
    <3> QED
      BY <2>8, <3>1 DEF EmitBatch, Goto, Matched
  <2>9. CASE EmitTransaction(p)
    <3>1. PICK t \in queue[p] :
            /\ queue' = [queue EXCEPT ![p] = @ \ {t}]
            /\ delivered' = [delivered EXCEPT ![CurrentName(p)] = @ \cup {t}]
      BY <2>9 DEF EmitTransaction, NextTxns
    <3>2. /\ queue' \in [Pollers -> SUBSET Txns]
          /\ delivered' \in [FilterNames -> SUBSET Txns]
      BY <3>1
    <3> QED
      BY <2>9, <3>2 DEF EmitTransaction
  <2>10. CASE NextName(p)
    BY <2>10 DEF NextName, Goto
  <2>11. CASE EmitPoll(p)
    BY <2>11 DEF EmitPoll, Goto
  <2>12. CASE SetWatermark(p)
    <3>1. NewWatermark(config[p], wm[p], cur[p]) \in Nat /\ LeftOut(p) \subseteq Nat
      BY <2>0, WindowType DEF LeftOut
    <3> QED
      BY <2>12, <3>1 DEF SetWatermark, Leave, Goto
  <2>13. CASE Abort(p)
    BY <2>13 DEF Abort, Leave, Goto
  <2> QED
    BY <1>4, <2>1, <2>2, <2>3, <2>4, <2>5, <2>6, <2>7, <2>8, <2>9, <2>10, <2>11, <2>12, <2>13
    DEF PollStep, FailStep
<1>5. CASE UNCHANGED vars
  BY <1>5 DEF vars
<1> QED
  BY <1>1, <1>2, <1>3, <1>4, <1>5 DEF Next

\* Every variable keeps its type in every behaviour: the watermark is always a
\* round, and what the listeners saw are transactions of the chain.
THEOREM TypeCorrect == Spec => []TypeOK
  BY InitTypeOK, NextTypeOK, PTL DEF Spec

-------------------------------------------------------------------------------
(* Frame: what a step leaves alone. *)

\* A step of one poller does not touch the locals of another, nor the chain.
LEMMA OthersUntouched ==
    ASSUME TypeOK, NEW p \in Pollers, PollStep(p) \/ FailStep(p)
    PROVE  /\ \A q \in Pollers : q # p =>
                 /\ pc'[q] = pc[q] /\ wm'[q] = wm[q] /\ cur'[q] = cur[q]
                 /\ found'[q] = found[q] /\ idx'[q] = idx[q] /\ queue'[q] = queue[q]
           /\ tip' = tip /\ indexed' = indexed /\ config' = config
<1> USE DEF TypeOK, chain, locals, history, Goto, Leave
<1>1. CASE GetWatermark(p) \/ GetStatus(p) \/ Plan(p)
  BY <1>1 DEF GetWatermark, GetStatus, Plan
<1>2. CASE Search(p) \/ SearchDone(p) \/ FetchBlocks(p)
  BY <1>2 DEF Search, SearchDone, FetchBlocks
<1>3. CASE EmitBatch(p) \/ EmitTransaction(p) \/ NextName(p) \/ EmitPoll(p)
  BY <1>3 DEF EmitBatch, EmitTransaction, NextName, EmitPoll
<1>4. CASE SetWatermark(p) \/ Refuse(p) \/ Abort(p)
  BY <1>4 DEF SetWatermark, Refuse, Abort
<1> QED
  BY <1>1, <1>2, <1>3, <1>4 DEF PollStep, FailStep

\* What listeners saw and what was left out only grows.
LEMMA HistoryGrows ==
    ASSUME TypeOK, [Next]_vars
    PROVE  /\ \A n \in FilterNames : batched[n] \subseteq batched'[n]
                                  /\ delivered[n] \subseteq delivered'[n]
           /\ skipped \subseteq skipped'
           /\ config' = config
<1> USE DEF TypeOK, chain, locals, history
<1>1. CASE NewBlock \/ IndexBlock \/ Restart
  BY <1>1 DEF NewBlock, IndexBlock, Restart
<1>2. ASSUME NEW p \in Pollers, PollStep(p) \/ FailStep(p)
      PROVE  /\ \A n \in FilterNames : batched[n] \subseteq batched'[n]
                                    /\ delivered[n] \subseteq delivered'[n]
             /\ skipped \subseteq skipped'
             /\ config' = config
  <2>1. CASE GetWatermark(p) \/ GetStatus(p) \/ Plan(p) \/ Search(p) \/ SearchDone(p)
             \/ FetchBlocks(p)
    BY <2>1 DEF GetWatermark, GetStatus, Plan, Search, SearchDone, FetchBlocks
  <2>2. CASE EmitBatch(p)
    BY <2>2 DEF EmitBatch
  <2>3. CASE EmitTransaction(p)
    BY <2>3 DEF EmitTransaction
  <2>4. CASE NextName(p) \/ EmitPoll(p) \/ SetWatermark(p) \/ Refuse(p) \/ Abort(p)
    BY <2>4 DEF NextName, EmitPoll, SetWatermark, Refuse, Abort
  <2> QED
    BY <1>2, <2>1, <2>2, <2>3, <2>4 DEF PollStep, FailStep
<1>3. CASE UNCHANGED vars
  BY <1>3 DEF vars
<1> QED
  BY <1>1, <1>2, <1>3 DEF Next

-------------------------------------------------------------------------------
(* What a poll knows, whatever the indexer returns. *)

\* A wanted transaction of a round the poll reads.
InWindow(p, x) ==
    /\ x[1] \in Wanted(x[2])
    /\ RoundOf[x[1]] \in (wm[p] + 1)..EndRound(config[p], wm[p], cur[p])

\* The reported round exists; the watermark read was one the store may hold,
\* and the one it holds if nobody else writes it; a poll that got past its
\* planning was not refused; and it only ever holds wanted transactions of
\* rounds after the watermark it read.
PollFacts(p) ==
    /\ cur[p] <= tip
    /\ pc[p] # "get" => wm[p] = InitialWatermark \/ wm[p] <= tip
    /\ pc[p] # "get" /\ SinglePoller => wm[p] = watermark
    /\ pc[p] \in {"search", "fetch"} => ~AtTip(wm[p], cur[p])
    /\ pc[p] = "search" => CatchesUp(config[p], wm[p], cur[p])
    /\ pc[p] \in {"search", "fetch", "batch", "each", "set"} =>
           ~Refuses(config[p], wm[p], cur[p])
    /\ pc[p] \in {"get", "status", "plan"} => found[p] = {}
    /\ AtTip(wm[p], cur[p]) => found[p] = {}
    /\ pc[p] # "each" => queue[p] = {}
    /\ \A x \in found[p] : InWindow(p, x)
    /\ \A t \in queue[p] : RoundOf[t] > wm[p]

PollInv == TypeOK /\ WatermarkExists /\ \A p \in Pollers : PollFacts(p)

\* What a filter finds is wanted by the listeners of its name.
LEMMA PairsWanted ==
    ASSUME NEW i \in DOMAIN Filters, NEW rounds, NEW x \in Pairs(i, rounds)
    PROVE  x[1] \in Wanted(x[2]) /\ RoundOf[x[1]] \in rounds
  BY DEF Pairs, Wanted

\* Every round a poll reads comes after the watermark it read.
LEMMA RoundsAreNew ==
    ASSUME NEW cfg \in SyncConfig, NEW w \in Nat, NEW c \in Nat, ~AtTip(w, c),
           ~Refuses(cfg, w, c)
    PROVE  /\ \A r \in IndexerRounds(cfg, w, c) : r \in (w + 1)..EndRound(cfg, w, c)
           /\ \A r \in AlgodRounds(cfg, w, c) : r \in (w + 1)..EndRound(cfg, w, c)
<1>1. StartRound(cfg, w, c) \in (w + 1)..(c + 1)
  BY WindowBounds
<1>2. EndRound(cfg, w, c) \in w..c
  BY WindowBounds
<1>3. \A r \in IndexerRounds(cfg, w, c) \cup AlgodRounds(cfg, w, c) :
         r \in StartRound(cfg, w, c)..EndRound(cfg, w, c)
  BY WindowIsCovered
<1> QED
  BY <1>1, <1>2, <1>3

\* Before any poll the facts about polls hold.
LEMMA InitPollInv == Init => PollInv
  BY InitTypeOK DEF Init, PollInv, PollFacts, WatermarkExists, TypeOK

\* Each statement of poll_once keeps the facts about its own poll, and
\* another poller's statements keep them too.
LEMMA NextPollInv == PollInv /\ [Next]_vars => PollInv'
<1> SUFFICES ASSUME PollInv, [Next]_vars PROVE PollInv'
  OBVIOUS
<1>0. TypeOK /\ TypeOK'
  BY NextTypeOK DEF PollInv
<1> USE DEF chain, locals, history
<1>1. CASE NewBlock
  BY <1>0, <1>1, BoundsAssumption
  DEF PollInv, PollFacts, WatermarkExists, TypeOK, NewBlock, InWindow, Wanted, SinglePoller, BoundsAssumption
<1>2. CASE IndexBlock
  BY <1>0, <1>2 DEF PollInv, PollFacts, WatermarkExists, IndexBlock, InWindow, Wanted, SinglePoller
<1>3. CASE Restart
  BY <1>0, <1>3 DEF PollInv, PollFacts, WatermarkExists, TypeOK, Restart, InWindow, Wanted, SinglePoller
<1>4. ASSUME NEW p \in Pollers, PollStep(p) \/ FailStep(p) PROVE PollInv'
  <2>0. config[p] \in SyncConfig /\ wm[p] \in Nat /\ cur[p] \in Nat /\ tip \in Nat /\ watermark \in Nat
    BY <1>0, ConfigType DEF TypeOK
  <2>1. PollFacts(p) /\ WatermarkExists
    BY DEF PollInv
  <2>2. WatermarkExists'
    <3>1. CASE SetWatermark(p)
      <4>1. pc[p] = "set" /\ watermark' = NewWatermark(config[p], wm[p], cur[p]) /\ tip' = tip
        BY <3>1 DEF SetWatermark
      <4>2. CASE AtTip(wm[p], cur[p])
        BY <2>1, <4>1, <4>2 DEF PollFacts, NewWatermark, WatermarkExists
      <4>3. CASE ~AtTip(wm[p], cur[p])
        <5>1. EndRound(config[p], wm[p], cur[p]) \in wm[p]..cur[p]
          BY <2>0, <2>1, <4>1, <4>3, WindowBounds DEF PollFacts
        <5> QED
          BY <2>0, <2>1, <4>1, <4>3, <5>1 DEF PollFacts, NewWatermark, WatermarkExists
      <4> QED
        BY <4>2, <4>3
    <3>2. CASE ~SetWatermark(p)
      <4>1. watermark' = watermark
        BY <1>4, <3>2
        DEF PollStep, FailStep, GetWatermark, GetStatus, Plan, Search, SearchDone, FetchBlocks,
            EmitBatch, EmitTransaction, NextName, EmitPoll, Refuse, Abort
      <4> QED
        BY <1>4, <2>1, <4>1, <1>0, OthersUntouched DEF WatermarkExists
    <3> QED
      BY <3>1, <3>2
  <2>3. ASSUME NEW q \in Pollers, q # p PROVE PollFacts(q)'
    <3>1. ~SinglePoller
      BY <2>3 DEF SinglePoller
    <3> QED
      BY <1>0, <1>4, <2>3, <3>1, OthersUntouched DEF PollInv, PollFacts, InWindow, Wanted, SinglePoller
  <2>4. PollFacts(p)'
    <3> USE <1>0, <2>0, <2>1 DEF PollFacts, TypeOK, Goto, Leave, InWindow, Wanted, SinglePoller
    <3>1. CASE GetWatermark(p)
      BY <3>1 DEF GetWatermark, WatermarkExists
    <3>2. CASE GetStatus(p)
      BY <3>2 DEF GetStatus, NodeRounds
    <3>3. CASE Plan(p)
      <4>1. PICK c \in IF cur[p] = 0 THEN NodeRounds ELSE {cur[p]} :
              /\ ~Refuses(config[p], wm[p], c)
              /\ cur' = [cur EXCEPT ![p] = c]
              /\ pc' = [pc EXCEPT ![p] = IF AtTip(wm[p], c) THEN "batch"
                     ELSE IF CatchesUp(config[p], wm[p], c) THEN "search" ELSE "fetch"]
        BY <3>3 DEF Plan
      <4>2. c \in Nat /\ c <= tip
        BY DEF NodeRounds
      <4> QED
        BY <3>3, <4>1, <4>2 DEF Plan
    <3>4. CASE Refuse(p)
      BY <3>4 DEF Refuse
    <3>5. CASE Search(p)
      <4> DEFINE R == {r \in IndexerRounds(config[p], wm[p], cur[p]) : r <= indexed}
      <4>1. \A x \in Pairs(idx[p] + 1, R) : InWindow(p, x)
        <5>1. idx[p] + 1 \in DOMAIN Filters
          BY <3>5, FiltersType DEF Search
        <5>2. \A r \in R : r \in (wm[p] + 1)..EndRound(config[p], wm[p], cur[p])
          BY <3>5, RoundsAreNew DEF Search
        <5> QED
          BY <5>1, <5>2, PairsWanted DEF InWindow
      <4>2. found'[p] = found[p] \cup Pairs(idx[p] + 1, R)
        BY <3>5 DEF Search
      <4> HIDE DEF R
      <4>3. \A x \in found'[p] : InWindow(p, x)
        BY <4>1, <4>2
      <4> QED
        BY <3>5, <4>3 DEF Search, InWindow
    <3>6. CASE SearchDone(p)
      BY <3>6 DEF SearchDone
    <3>7. CASE FetchBlocks(p)
      <4> DEFINE R == AlgodRounds(config[p], wm[p], cur[p])
                 F == UNION {Pairs(i, R) : i \in DOMAIN Filters}
      <4>1. \A x \in F : InWindow(p, x)
        <5>1. \A r \in R : r \in (wm[p] + 1)..EndRound(config[p], wm[p], cur[p])
          BY <3>7, RoundsAreNew DEF FetchBlocks
        <5> QED
          BY <5>1, PairsWanted DEF InWindow
      <4>2. found'[p] = found[p] \cup F
        BY <3>7 DEF FetchBlocks
      <4> HIDE DEF F
      <4>3. \A x \in found'[p] : InWindow(p, x)
        BY <4>1, <4>2
      <4> QED
        BY <3>7, <4>3 DEF FetchBlocks, InWindow
    <3>8. CASE EmitBatch(p)
      BY <3>8 DEF EmitBatch, Matched
    <3>9. CASE EmitTransaction(p)
      BY <3>9 DEF EmitTransaction
    <3>10. CASE NextName(p)
      BY <3>10 DEF NextName
    <3>11. CASE EmitPoll(p)
      BY <3>11 DEF EmitPoll
    <3>12. CASE SetWatermark(p)
      BY <3>12 DEF SetWatermark
    <3>13. CASE Abort(p)
      BY <3>13 DEF Abort
    <3> QED
      BY <1>4, <3>1, <3>2, <3>3, <3>4, <3>5, <3>6, <3>7, <3>8, <3>9, <3>10, <3>11, <3>12, <3>13
      DEF PollStep, FailStep
  <2> QED
    BY <1>0, <2>2, <2>3, <2>4 DEF PollInv
<1>5. CASE UNCHANGED vars
  BY <1>0, <1>5 DEF PollInv, PollFacts, WatermarkExists, vars, InWindow, Wanted, SinglePoller
<1> QED
  BY <1>1, <1>2, <1>3, <1>4, <1>5 DEF Next

\* The facts about polls hold throughout.
LEMMA PollInvHolds == Spec => []PollInv
  BY InitPollInv, NextPollInv, PTL DEF Spec

\* The watermark never passes the chain, whatever lags, fails or interleaves.
THEOREM WatermarkAlwaysExists == Spec => []WatermarkExists
<1>1. PollInv => WatermarkExists
  BY DEF PollInv
<1> QED
  BY <1>1, PollInvHolds, PTL

\* A lone poller never emits a transaction whose round it has acknowledged.
THEOREM NothingDeliveredTwice == Spec => []NothingTwice
<1>1. PollInv => NothingTwice
  BY DEF PollInv, PollFacts, NothingTwice
<1> QED
  BY <1>1, PollInvHolds, PTL

\* A lone poller over a store that survives restarts moves its watermark
\* forward only.
THEOREM NeverRewinds == Spec => NoRewind
<1>1. PollInv /\ [Next]_vars => [SinglePoller /\ Durable => watermark' >= watermark]_vars
  <2> SUFFICES ASSUME PollInv, Next, SinglePoller, Durable PROVE watermark' >= watermark
    BY DEF vars
  <2>0. watermark \in Nat
    BY DEF PollInv, TypeOK
  <2>1. CASE watermark' = watermark
    BY <2>0, <2>1
  <2>2. ASSUME NEW p \in Pollers, SetWatermark(p) PROVE watermark' >= watermark
    <3>0. config[p] \in SyncConfig /\ wm[p] \in Nat /\ cur[p] \in Nat
      BY ConfigType DEF PollInv, TypeOK
    <3>1. wm[p] = watermark /\ ~Refuses(config[p], wm[p], cur[p])
      BY <2>2 DEF PollInv, PollFacts, SetWatermark
    <3>2. CASE AtTip(wm[p], cur[p])
      BY <2>0, <2>2, <3>1, <3>2 DEF SetWatermark, NewWatermark
    <3>3. CASE ~AtTip(wm[p], cur[p])
      <4>1. EndRound(config[p], wm[p], cur[p]) \in wm[p]..cur[p]
        BY <3>0, <3>1, <3>3, WindowBounds
      <4> QED
        BY <2>0, <2>2, <3>0, <3>1, <3>3, <4>1 DEF SetWatermark, NewWatermark
    <3> QED
      BY <3>2, <3>3
  <2> QED
    BY <2>1, <2>2
    DEF Next, NewBlock, IndexBlock, Restart, PollStep, FailStep, GetWatermark, GetStatus, Plan,
        Search, SearchDone, FetchBlocks, EmitBatch, EmitTransaction, NextName, EmitPoll,
        Refuse, Abort
<1> QED
  BY <1>1, PollInvHolds, PTL DEF Spec, NoRewind

\* What a completed poll leaves out.
LEMMA LeftOutFacts ==
    ASSUME PollInv, NEW p \in Pollers, pc[p] = "set", NEW r \in LeftOut(p)
    PROVE  MayJump(p) /\ r + config[p].maxRoundsToSync <= cur[p]
<1>0. config[p] \in SyncConfig /\ wm[p] \in Nat /\ cur[p] \in Nat
  BY ConfigType DEF PollInv, TypeOK
<1>1. ~AtTip(wm[p], cur[p]) /\ ~Refuses(config[p], wm[p], cur[p])
  BY DEF PollInv, PollFacts, LeftOut
<1>2. r \in (wm[p] + 1)..(StartRound(config[p], wm[p], cur[p]) - 1)
  BY <1>1 DEF LeftOut
<1>3. StartRound(config[p], wm[p], cur[p]) \in Nat
  BY <1>0, WindowType
<1>4. SkipsToNewest(config[p], wm[p], cur[p])
  BY <1>0, <1>1, <1>2, WindowBounds
<1>5. r \in Nat /\ r < StartRound(config[p], wm[p], cur[p])
  BY <1>0, <1>2, <1>3
<1>6. r <= cur[p] - config[p].maxRoundsToSync
  BY <1>0, <1>4, <1>5, JumpKeepsNewest
<1> QED
  BY <1>0, <1>4, <1>5, <1>6 DEF MayJump, SkipsToNewest, SyncConfig

\* Only a jump leaves rounds out, and none of the newest maxRoundsToSync.
THEOREM OnlyOldRoundsLeftOut == Spec => LeavesOutOldRoundsOnly
<1>1. PollInv /\ [Next]_vars =>
        [\A r \in skipped' \ skipped : \E p \in Pollers :
            MayJump(p) /\ r + config[p].maxRoundsToSync <= cur[p]]_vars
  <2> SUFFICES ASSUME PollInv, Next, NEW r \in skipped' \ skipped
               PROVE  \E p \in Pollers : MayJump(p) /\ r + config[p].maxRoundsToSync <= cur[p]
    BY DEF vars
  <2>1. PICK p \in Pollers : SetWatermark(p)
    BY DEF Next, history, NewBlock, IndexBlock, Restart, PollStep, FailStep, GetWatermark,
           GetStatus, Plan, Search, SearchDone, FetchBlocks, EmitBatch, EmitTransaction,
           NextName, EmitPoll, Refuse, Abort
  <2> QED
    BY <2>1, LeftOutFacts DEF SetWatermark
<1> QED
  BY <1>1, PollInvHolds, PTL DEF Spec, LeavesOutOldRoundsOnly
-------------------------------------------------------------------------------
(* Delivery, given an indexer that is never too far behind. *)

Passed(t, n) == t \in batched[n] /\ t \in delivered[n]

\* Every wanted transaction up to round r was delivered or left out.
SettledUpTo(r) ==
    \A n \in FilterNames : \A t \in Wanted(n) :
        RoundOf[t] <= r /\ RoundOf[t] \notin skipped => Passed(t, n)

\* The poll holds everything that filter i matches in these rounds.
FoundAll(p, i, rounds) ==
    \A t \in Filters[i].matches :
        RoundOf[t] \in rounds => <<t, Filters[i].name>> \in found[p]

\* What a poll in progress is owed by the past (all up to the watermark it
\* read is settled), what it has found so far, and what it has delivered.
DeliveryFacts(p) ==
    /\ pc[p] # "get" => SettledUpTo(wm[p])
    /\ pc[p] \in {"get", "status", "plan"} => idx[p] = 0
    /\ pc[p] = "search" =>
           /\ idx[p] <= Len(Filters)
           /\ \A i \in 1..idx[p] : FoundAll(p, i, IndexerRounds(config[p], wm[p], cur[p]))
    /\ pc[p] = "fetch" /\ CatchesUp(config[p], wm[p], cur[p]) =>
           \A i \in 1..Len(Filters) : FoundAll(p, i, IndexerRounds(config[p], wm[p], cur[p]))
    /\ pc[p] \in {"batch", "each", "set"} =>
           /\ ~AtTip(wm[p], cur[p]) =>
                 \A i \in 1..Len(Filters) :
                     FoundAll(p, i, StartRound(config[p], wm[p], cur[p])
                                        ..EndRound(config[p], wm[p], cur[p]))
           /\ idx[p] <= Len(Names)
           /\ \A j \in 1..idx[p] : \A t \in Matched(p, Names[j]) : Passed(t, Names[j])
    /\ pc[p] = "each" =>
           /\ idx[p] < Len(Names)
           /\ queue[p] \subseteq Matched(p, CurrentName(p))
           /\ \A t \in Matched(p, CurrentName(p)) :
                 /\ t \in batched[CurrentName(p)]
                 /\ t \notin queue[p] => t \in delivered[CurrentName(p)]
    /\ pc[p] = "set" => idx[p] = Len(Names)

JumpFree == \A p \in Pollers : ~MayJump(p)

DeliveryInv ==
    /\ PollInv
    /\ indexed + IndexerLag >= tip
    /\ 1..InitialWatermark \subseteq skipped
    /\ JumpFree => skipped = 1..InitialWatermark
    /\ NoLoss
    /\ NoHoles
    /\ \A p \in Pollers : DeliveryFacts(p)

\* What was settled stays settled.
LEMMA SettledStays ==
    ASSUME TypeOK, [Next]_vars, NEW r \in Nat, SettledUpTo(r)
    PROVE  SettledUpTo(r)'
  BY HistoryGrows DEF SettledUpTo, Passed, Wanted

\* Before any poll nothing is delivered and nothing owed.
LEMMA InitDeliveryInv == Init => DeliveryInv
<1> SUFFICES ASSUME Init PROVE DeliveryInv
  OBVIOUS
<1>1. PollInv
  BY InitPollInv
<1>2. \A n \in FilterNames : \A t \in Wanted(n) : RoundOf[t] \in Nat \ {0}
  BY TxnsAssumption, FiltersType DEF Wanted, TxnsAssumption
<1>3. NoLoss
  BY <1>2, BoundsAssumption DEF Init, NoLoss, BoundsAssumption
<1>4. NoHoles
  BY DEF Init, NoHoles
<1>5. \A p \in Pollers : DeliveryFacts(p)
  BY DEF Init, DeliveryFacts
<1>6. indexed + IndexerLag >= tip /\ skipped = 1..InitialWatermark
  BY DEF Init
<1> QED
  BY <1>1, <1>3, <1>4, <1>5, <1>6 DEF DeliveryInv

\* The poll that persists its watermark has settled everything up to it.
LEMMA CommitIsSettled ==
    ASSUME DeliveryInv, NEW p \in Pollers, SetWatermark(p)
    PROVE  \A n \in FilterNames : \A t \in Wanted(n) :
               RoundOf[t] <= watermark' /\ RoundOf[t] \notin skipped' => Passed(t, n)
<1> SUFFICES ASSUME NEW n \in FilterNames, NEW t \in Wanted(n),
                    RoundOf[t] <= watermark', RoundOf[t] \notin skipped'
             PROVE  Passed(t, n)
  OBVIOUS
<1>0. config[p] \in SyncConfig /\ wm[p] \in Nat /\ cur[p] \in Nat /\ RoundOf[t] \in Nat
  BY ConfigType, TxnsAssumption, FiltersType
  DEF DeliveryInv, PollInv, TypeOK, TxnsAssumption, Wanted
<1>1. /\ pc[p] = "set"
      /\ watermark' = NewWatermark(config[p], wm[p], cur[p])
      /\ RoundOf[t] \notin skipped
      /\ RoundOf[t] \notin LeftOut(p)
  BY DEF SetWatermark
<1>2. DeliveryFacts(p) /\ PollFacts(p)
  BY DEF DeliveryInv, PollInv
<1>3. CASE RoundOf[t] <= wm[p]
  BY <1>1, <1>2, <1>3 DEF DeliveryFacts, SettledUpTo
<1>4. CASE RoundOf[t] > wm[p]
  <2>1. ~AtTip(wm[p], cur[p])
    BY <1>0, <1>1, <1>4 DEF NewWatermark
  <2>2. /\ StartRound(config[p], wm[p], cur[p]) \in Nat
        /\ EndRound(config[p], wm[p], cur[p]) \in Nat
    BY <1>0, WindowType
  <2>3. RoundOf[t] \in StartRound(config[p], wm[p], cur[p])..EndRound(config[p], wm[p], cur[p])
    BY <1>0, <1>1, <1>4, <2>1, <2>2 DEF NewWatermark, LeftOut
  <2>4. PICK i \in 1..Len(Filters) : t \in Filters[i].matches /\ Filters[i].name = n
    BY FiltersType DEF Wanted
  <2>5. <<t, n>> \in found[p]
    BY <1>1, <1>2, <2>1, <2>3, <2>4 DEF DeliveryFacts, FoundAll
  <2>6. t \in Matched(p, n)
    BY <2>4, <2>5, FiltersType DEF Matched
  <2>7. PICK j \in 1..Len(Names) : Names[j] = n
    BY NamesType
  <2> QED
    BY <1>1, <1>2, <2>6, <2>7 DEF DeliveryFacts
<1> QED
  BY <1>0, <1>3, <1>4

\* Where no poller jumps, a transaction about to be emitted comes after every
\* wanted transaction of an earlier round.
LEMMA EmittedInOrder ==
    ASSUME DeliveryInv, JumpFree, NEW p \in Pollers, pc[p] = "each", NEW t \in NextTxns(p),
           NEW u \in Wanted(CurrentName(p)),
           InitialWatermark < RoundOf[u], RoundOf[u] < RoundOf[t]
    PROVE  u \in delivered[CurrentName(p)]
<1> DEFINE n == CurrentName(p)
<1>1. DeliveryFacts(p) /\ PollFacts(p)
  BY DEF DeliveryInv, PollInv
<1>2. n \in FilterNames
  BY <1>1, NamesType DEF CurrentName, DeliveryFacts, DeliveryInv, PollInv, TypeOK
<1>3. t \in Txns /\ u \in Txns /\ t \in queue[p]
  BY FiltersType DEF NextTxns, DeliveryInv, PollInv, TypeOK, Wanted
<1>0. /\ config[p] \in SyncConfig /\ wm[p] \in Nat /\ cur[p] \in Nat
      /\ RoundOf[t] \in Nat /\ RoundOf[u] \in Nat /\ InitialWatermark \in Nat
  BY <1>3, ConfigType, TxnsAssumption, BoundsAssumption
  DEF DeliveryInv, PollInv, TypeOK, TxnsAssumption, BoundsAssumption
<1>4. CASE RoundOf[u] <= wm[p]
  <2>1. RoundOf[u] \notin skipped
    BY <1>0 DEF DeliveryInv
  <2> QED
    BY <1>1, <1>2, <1>4, <2>1 DEF DeliveryFacts, SettledUpTo, Passed
<1>5. CASE RoundOf[u] > wm[p]
  <2>1. PICK i \in 1..Len(Filters) : u \in Filters[i].matches /\ Filters[i].name = n
    BY FiltersType DEF Wanted
  <2>2. <<t, n>> \in found[p]
    BY <1>1, <1>3 DEF DeliveryFacts, Matched
  <2>3. RoundOf[t] <= EndRound(config[p], wm[p], cur[p]) /\ ~AtTip(wm[p], cur[p])
    BY <1>0, <1>1, <2>2, WindowType DEF PollFacts, InWindow
  <2>4. StartRound(config[p], wm[p], cur[p]) = wm[p] + 1
    BY <1>0, <1>1, <2>3, WindowBounds DEF JumpFree, MayJump, SkipsToNewest, PollFacts
  <2>5. EndRound(config[p], wm[p], cur[p]) \in Nat
    BY <1>0, WindowType
  <2>6. RoundOf[u] \in StartRound(config[p], wm[p], cur[p])..EndRound(config[p], wm[p], cur[p])
    BY <1>0, <1>5, <2>3, <2>4, <2>5
  <2>7. u \in Matched(p, n)
    BY <1>1, <1>3, <2>1, <2>3, <2>6 DEF DeliveryFacts, FoundAll, Matched
  <2>8. u \notin queue[p]
    BY <1>0, <1>3 DEF NextTxns
  <2> QED
    BY <1>1, <2>7, <2>8 DEF DeliveryFacts
<1> QED
  BY <1>0, <1>4, <1>5
\* A poll adds to the listeners' view only what it holds.
LEMMA NextNoHoles ==
    ASSUME DeliveryInv, [Next]_vars
    PROVE  NoHoles'
<1>1. CASE delivered' = delivered /\ config' = config
  BY <1>1 DEF DeliveryInv, NoHoles, MayJump, Wanted
<1>2. ASSUME NEW p \in Pollers, EmitTransaction(p) PROVE NoHoles'
  <2>1. PICK t \in NextTxns(p) :
           delivered' = [delivered EXCEPT ![CurrentName(p)] = @ \cup {t}]
    BY <1>2 DEF EmitTransaction
  <2>2. CASE JumpFree
    <3> SUFFICES ASSUME NEW n \in FilterNames, NEW s \in delivered'[n], NEW u \in Wanted(n),
                        InitialWatermark < RoundOf[u], RoundOf[u] < RoundOf[s]
                 PROVE  u \in delivered'[n]
      BY DEF NoHoles, Wanted
    <3>1. n \in DOMAIN delivered
      BY DEF DeliveryInv, PollInv, TypeOK
    <3>2. CASE s \in delivered[n]
      <4>1. u \in delivered[n]
        BY <2>2, <3>2 DEF DeliveryInv, NoHoles, JumpFree
      <4> QED
        BY <2>1, <3>1, <4>1
    <3>3. CASE s \notin delivered[n]
      <4>1. n = CurrentName(p) /\ s = t
        BY <2>1, <3>1, <3>3
      <4>2. u \in delivered[n]
        BY <1>2, <2>2, <4>1, EmittedInOrder DEF EmitTransaction
      <4> QED
        BY <2>1, <3>1, <4>2
    <3> QED
      BY <3>2, <3>3
  <2>3. CASE ~JumpFree
    BY <1>2, <2>3 DEF JumpFree, MayJump, NoHoles, EmitTransaction
  <2> QED
    BY <2>2, <2>3
<1>3. CASE ~(delivered' = delivered /\ config' = config)
  <2>1. PICK p \in Pollers : EmitTransaction(p)
    BY <1>3 DEF Next, vars, chain, locals, history, NewBlock, IndexBlock, Restart, PollStep,
        FailStep, GetWatermark, GetStatus, Plan, Search, SearchDone, FetchBlocks, EmitBatch,
        NextName, EmitPoll, SetWatermark, Refuse, Abort
  <2> QED
    BY <1>2, <2>1
<1> QED
  BY <1>1, <1>3

\* Only a jump adds to the rounds left out.
LEMMA NextJumpFree ==
    ASSUME DeliveryInv, [Next]_vars
    PROVE  (JumpFree => skipped = 1..InitialWatermark)'
<1>1. config' = config
  BY HistoryGrows DEF DeliveryInv, PollInv
<1>2. CASE skipped' = skipped
  BY <1>1, <1>2 DEF DeliveryInv, JumpFree, MayJump
<1>3. CASE skipped' # skipped
  <2>1. PICK p \in Pollers : SetWatermark(p)
    BY <1>3 DEF Next, vars, chain, locals, history, NewBlock, IndexBlock, Restart, PollStep,
        FailStep, GetWatermark, GetStatus, Plan, Search, SearchDone, FetchBlocks, EmitBatch,
        EmitTransaction, NextName, EmitPoll, Refuse, Abort
  <2>2. PICK r \in LeftOut(p) : TRUE
    BY <1>3, <2>1 DEF SetWatermark
  <2>3. MayJump(p)
    BY <2>1, <2>2, LeftOutFacts DEF DeliveryInv, SetWatermark
  <2> QED
    BY <1>1, <2>3 DEF JumpFree, MayJump
<1> QED
  BY <1>2, <1>3

\* No step puts the watermark past a transaction that was not delivered:
\* the only one that moves it forward comes after all events of its poll.
LEMMA NextNoLoss ==
    ASSUME DeliveryInv, [Next]_vars
    PROVE  NoLoss'
<1>0. \A n \in FilterNames : batched[n] \subseteq batched'[n]
                          /\ delivered[n] \subseteq delivered'[n]
  BY HistoryGrows DEF DeliveryInv, PollInv
<1>1. skipped \subseteq skipped'
  BY HistoryGrows DEF DeliveryInv, PollInv
<1>2. CASE watermark' = watermark
  BY <1>0, <1>1, <1>2 DEF DeliveryInv, NoLoss, Wanted
<1>3. ASSUME NEW p \in Pollers, SetWatermark(p) PROVE NoLoss'
  BY <1>0, <1>3, CommitIsSettled DEF NoLoss, Passed, Wanted
<1>4. CASE Restart
  <2> SUFFICES ASSUME NEW n \in FilterNames, NEW t \in Wanted(n),
                      RoundOf[t] <= InitialWatermark, RoundOf[t] \notin skipped
               PROVE  FALSE
    BY <1>4 DEF Restart, NoLoss, Wanted
  <2>1. RoundOf[t] \in Nat \ {0} /\ InitialWatermark \in Nat
    BY FiltersType, TxnsAssumption, BoundsAssumption
    DEF Wanted, TxnsAssumption, BoundsAssumption
  <2> QED
    BY <2>1 DEF DeliveryInv
<1>5. CASE ~(watermark' = watermark)
  BY <1>3, <1>4, <1>5
  DEF Next, vars, chain, locals, history, NewBlock, IndexBlock, PollStep, FailStep,
      GetWatermark, GetStatus, Plan, Search, SearchDone, FetchBlocks, EmitBatch,
      EmitTransaction, NextName, EmitPoll, Refuse, Abort
<1> QED
  BY <1>2, <1>5

\* What a poller that does not move is owed and has done stays so.
LEMMA OthersDeliveryFacts ==
    ASSUME DeliveryInv, [Next]_vars, NEW q \in Pollers,
           pc'[q] = pc[q], wm'[q] = wm[q], cur'[q] = cur[q], found'[q] = found[q],
           idx'[q] = idx[q], queue'[q] = queue[q]
    PROVE  DeliveryFacts(q)'
<1>0. DeliveryFacts(q) /\ TypeOK /\ wm[q] \in Nat /\ config' = config
  BY HistoryGrows DEF DeliveryInv, PollInv, TypeOK
<1>1. /\ \A n \in FilterNames : batched[n] \subseteq batched'[n]
                             /\ delivered[n] \subseteq delivered'[n]
      /\ skipped \subseteq skipped'
  BY <1>0, HistoryGrows
<1>2. (pc[q] # "get" => SettledUpTo(wm[q]))'
  BY <1>0, <1>1 DEF DeliveryFacts, SettledUpTo, Passed, Wanted
<1>3. (pc[q] = "search" =>
           /\ idx[q] <= Len(Filters)
           /\ \A i \in 1..idx[q] : FoundAll(q, i, IndexerRounds(config[q], wm[q], cur[q])))'
  BY <1>0 DEF DeliveryFacts, FoundAll
<1>4. (pc[q] = "fetch" /\ CatchesUp(config[q], wm[q], cur[q]) =>
           \A i \in 1..Len(Filters) : FoundAll(q, i, IndexerRounds(config[q], wm[q], cur[q])))'
  BY <1>0 DEF DeliveryFacts, FoundAll
<1>5. (pc[q] \in {"batch", "each", "set"} =>
           /\ ~AtTip(wm[q], cur[q]) =>
                 \A i \in 1..Len(Filters) :
                     FoundAll(q, i, StartRound(config[q], wm[q], cur[q])
                                        ..EndRound(config[q], wm[q], cur[q]))
           /\ idx[q] <= Len(Names)
           /\ \A j \in 1..idx[q] : \A t \in Matched(q, Names[j]) : Passed(t, Names[j]))'
  <2>1. ASSUME pc[q] \in {"batch", "each", "set"}, NEW j \in 1..idx[q],
               NEW t \in Matched(q, Names[j])
        PROVE  t \in batched'[Names[j]] /\ t \in delivered'[Names[j]]
    <3>1. idx[q] \in Nat /\ Names[j] \in FilterNames
      BY <1>0, <2>1, NamesType DEF DeliveryFacts, TypeOK
    <3> QED
      BY <1>0, <1>1, <2>1, <3>1 DEF DeliveryFacts, Passed
  <2> QED
    BY <1>0, <2>1 DEF DeliveryFacts, FoundAll, Matched, Passed
<1>6. (pc[q] = "each" =>
           /\ idx[q] < Len(Names)
           /\ queue[q] \subseteq Matched(q, CurrentName(q))
           /\ \A t \in Matched(q, CurrentName(q)) :
                 /\ t \in batched[CurrentName(q)]
                 /\ t \notin queue[q] => t \in delivered[CurrentName(q)])'
  <2>1. pc[q] = "each" => CurrentName(q) \in FilterNames
    BY <1>0, NamesType DEF DeliveryFacts, TypeOK, CurrentName
  <2> QED
    BY <1>0, <1>1, <2>1 DEF DeliveryFacts, Matched, CurrentName
<1>7. (pc[q] = "set" => idx[q] = Len(Names))'
  BY <1>0 DEF DeliveryFacts
<1>8. (pc[q] \in {"get", "status", "plan"} => idx[q] = 0)'
  BY <1>0 DEF DeliveryFacts
<1> QED
  BY <1>2, <1>3, <1>4, <1>5, <1>6, <1>7, <1>8 DEF DeliveryFacts
\* What the acting poller is owed and has done, after each statement.
LEMMA OwnDeliveryFacts ==
    ASSUME IndexerLagCovered, DeliveryInv, PollInv', NEW p \in Pollers,
           PollStep(p) \/ FailStep(p), [Next]_vars
    PROVE  DeliveryFacts(p)'
<1>0. /\ DeliveryFacts(p) /\ PollFacts(p) /\ TypeOK /\ TypeOK'
      /\ config' = config
      /\ config[p] \in SyncConfig /\ config[p] \in Configs /\ wm[p] \in Nat /\ cur[p] \in Nat
      /\ idx[p] \in Nat
  BY HistoryGrows, ConfigType DEF DeliveryInv, PollInv, TypeOK
<1>h. /\ \A n \in FilterNames : batched[n] \subseteq batched'[n]
                             /\ delivered[n] \subseteq delivered'[n]
      /\ skipped \subseteq skipped'
  BY <1>0, HistoryGrows
<1>s. ASSUME pc[p] # "get", wm'[p] = wm[p] PROVE SettledUpTo(wm[p])'
  BY <1>0, <1>h, <1>s DEF DeliveryFacts, SettledUpTo, Passed, Wanted
<1> USE DEF Goto, Leave, TypeOK
<1>1. CASE GetWatermark(p)
  <2>1. SettledUpTo(watermark)
    BY DEF DeliveryInv, NoLoss, SettledUpTo, Passed
  <2>2. (SettledUpTo(wm[p]))'
    BY <1>0, <1>1, <2>1 DEF GetWatermark, SettledUpTo, Passed, Wanted, history
  <2> QED
    BY <1>0, <1>1, <2>2 DEF GetWatermark, DeliveryFacts
<1>2. CASE GetStatus(p)
  BY <1>0, <1>2, <1>s DEF GetStatus, DeliveryFacts
<1>3. CASE Plan(p)
  <2>1. found[p] = {} /\ idx[p] = 0 /\ idx' = idx /\ found' = found /\ pc[p] = "plan" /\ wm' = wm
    BY <1>0, <1>3 DEF Plan, PollFacts, DeliveryFacts
  <2>2. PICK c \in IF cur[p] = 0 THEN NodeRounds ELSE {cur[p]} :
            /\ cur' = [cur EXCEPT ![p] = c]
            /\ pc' = [pc EXCEPT ![p] = IF AtTip(wm[p], c) THEN "batch"
                     ELSE IF CatchesUp(config[p], wm[p], c) THEN "search" ELSE "fetch"]
    BY <1>3 DEF Plan
  <2> QED
    BY <1>0, <1>s, <2>1, <2>2, FiltersType, NamesType DEF DeliveryFacts
<1>4. CASE Search(p)
  <2> DEFINE R == IndexerRounds(config[p], wm[p], cur[p])
             N == Pairs(idx[p] + 1, {r \in R : r <= indexed})
  <2>1. /\ pc[p] = "search" /\ pc' = pc /\ wm' = wm /\ cur' = cur /\ idx[p] < Len(Filters)
        /\ found'[p] = found[p] \cup N /\ idx'[p] = idx[p] + 1
    BY <1>0, <1>4 DEF Search
  <2>2. idx[p] + 1 \in 1..Len(Filters) /\ Len(Filters) \in Nat
    BY <1>0, <2>1, FiltersType
  <2>3. \A r \in R : r <= indexed
    <3>1. CatchesUp(config[p], wm[p], cur[p]) /\ cur[p] <= tip
      BY <1>0, <2>1 DEF PollFacts
    <3>2. IndexerLag <= config[p].maxRoundsToSync
      BY <1>0, <3>1 DEF IndexerLagCovered, CatchesUp
    <3>3. \A r \in R : r <= cur[p] - config[p].maxRoundsToSync /\ r \in Nat
      BY <1>0, <2>1, <3>1, IndexerKeepsDistance, RoundsAreNew DEF PollFacts
    <3>4. indexed + IndexerLag >= tip /\ IndexerLag \in Nat /\ config[p].maxRoundsToSync \in Nat
      BY <1>0, BoundsAssumption DEF DeliveryInv, BoundsAssumption, SyncConfig
    <3> QED
      BY <1>0, <3>1, <3>2, <3>3, <3>4
  <2>4. \A t \in Filters[idx[p] + 1].matches :
            RoundOf[t] \in R => <<t, Filters[idx[p] + 1].name>> \in N
    BY <2>2, <2>3, PairsMembers, FiltersType
  <2> HIDE DEF R, N
  <2>5. \A i \in 1..idx'[p] : \A t \in Filters[i].matches :
            RoundOf[t] \in R => <<t, Filters[i].name>> \in found'[p]
    <3>1. \A i \in 1..idx[p] : \A t \in Filters[i].matches :
              RoundOf[t] \in R => <<t, Filters[i].name>> \in found[p]
      BY <1>0, <2>1 DEF DeliveryFacts, FoundAll, R
    <3>2. \A i \in 1..idx'[p] : i \in 1..idx[p] \/ i = idx[p] + 1
      BY <1>0, <2>1
    <3> QED
      BY <2>1, <2>4, <3>1, <3>2
  <2> QED
    BY <1>0, <1>s, <2>1, <2>2, <2>5 DEF DeliveryFacts, FoundAll, R
<1>5. CASE SearchDone(p)
  BY <1>0, <1>5, <1>s DEF SearchDone, DeliveryFacts, FoundAll
<1>6. CASE FetchBlocks(p)
  <2> DEFINE I == IndexerRounds(config[p], wm[p], cur[p])
             A == AlgodRounds(config[p], wm[p], cur[p])
             F == UNION {Pairs(i, A) : i \in DOMAIN Filters}
             W == StartRound(config[p], wm[p], cur[p])..EndRound(config[p], wm[p], cur[p])
  <2>1. /\ pc[p] = "fetch" /\ pc'[p] = "batch" /\ wm' = wm /\ cur' = cur
        /\ found'[p] = found[p] \cup F /\ idx'[p] = 0
    BY <1>0, <1>6 DEF FetchBlocks
  <2>2. I \cup A = W
    BY <1>0, <2>1, WindowIsCovered DEF PollFacts
  <2>3. \A i \in 1..Len(Filters) : \A t \in Filters[i].matches :
            RoundOf[t] \in A => <<t, Filters[i].name>> \in F
    BY PairsMembers, FiltersType
  <2>4. \A i \in 1..Len(Filters) : \A t \in Filters[i].matches :
            RoundOf[t] \in I => <<t, Filters[i].name>> \in found[p]
    BY <1>0, <2>1 DEF DeliveryFacts, FoundAll, IndexerRounds
  <2> HIDE DEF I, A, F, W
  <2>5. \A i \in 1..Len(Filters) : \A t \in Filters[i].matches :
            RoundOf[t] \in W => <<t, Filters[i].name>> \in found'[p]
    BY <2>1, <2>2, <2>3, <2>4
  <2>6. \A i \in 1..Len(Filters) :
            FoundAll(p, i, StartRound(config[p], wm[p], cur[p])
                               ..EndRound(config[p], wm[p], cur[p]))'
    BY <1>0, <2>1, <2>5 DEF FoundAll, W
  <2>7. (SettledUpTo(wm[p]))' /\ Len(Names) \in Nat
    BY <1>s, <2>1, NamesType
  <2>8. (idx[p] <= Len(Names) /\ 1..idx[p] = {})'
    BY <2>1, <2>7
  <2> QED
    BY <2>1, <2>6, <2>7, <2>8 DEF DeliveryFacts
<1>7. CASE EmitBatch(p)
  <2> DEFINE n == CurrentName(p)
  <2>1. /\ pc[p] = "batch" /\ pc'[p] = "each" /\ idx[p] < Len(Names)
        /\ batched' = [batched EXCEPT ![n] = @ \cup Matched(p, n)]
        /\ queue'[p] = Matched(p, n) /\ delivered' = delivered
        /\ wm' = wm /\ cur' = cur /\ found' = found /\ idx' = idx
    BY <1>0, <1>7 DEF EmitBatch
  <2>2. n \in FilterNames
    BY <1>0, <2>1, NamesType DEF CurrentName
  <2>3. \A j \in 1..idx[p] : Names[j] \in FilterNames
    BY <1>0, <2>1, NamesType
  <2>4. \A t \in Matched(p, n) : t \in batched'[n]
    BY <1>0, <2>1, <2>2
  <2>5. \A j \in 1..idx[p] : \A t \in Matched(p, Names[j]) :
            t \in batched'[Names[j]] /\ t \in delivered'[Names[j]]
    BY <1>0, <1>h, <2>1, <2>3 DEF DeliveryFacts, Passed
  <2> QED
    BY <1>0, <1>s, <2>1, <2>4, <2>5 DEF DeliveryFacts, FoundAll, Matched, CurrentName, Passed
<1>8. CASE EmitTransaction(p)
  <2> DEFINE n == CurrentName(p)
  <2>1. PICK t \in queue[p] :
          /\ queue' = [queue EXCEPT ![p] = @ \ {t}]
          /\ delivered' = [delivered EXCEPT ![n] = @ \cup {t}]
    BY <1>8 DEF EmitTransaction, NextTxns
  <2>2. /\ pc[p] = "each" /\ pc' = pc /\ batched' = batched
        /\ wm' = wm /\ cur' = cur /\ found' = found /\ idx' = idx
    BY <1>8 DEF EmitTransaction
  <2>3. n \in FilterNames
    BY <1>0, <2>2, NamesType DEF CurrentName, DeliveryFacts
  <2>4. \A u \in Matched(p, n) : u \in batched'[n] /\ (u \notin queue'[p] => u \in delivered'[n])
    BY <1>0, <2>1, <2>2, <2>3 DEF DeliveryFacts
  <2>5. \A j \in 1..idx[p] : \A u \in Matched(p, Names[j]) :
            u \in batched'[Names[j]] /\ u \in delivered'[Names[j]]
    BY <1>0, <1>h, <2>2, NamesType DEF DeliveryFacts, Passed
  <2>6. queue'[p] \subseteq Matched(p, n)
    BY <1>0, <2>1, <2>2 DEF DeliveryFacts
  <2> QED
    BY <1>0, <1>s, <2>2, <2>4, <2>5, <2>6
    DEF DeliveryFacts, FoundAll, Matched, CurrentName, Passed
<1>9. CASE NextName(p)
  <2>1. /\ pc[p] = "each" /\ pc'[p] = "batch" /\ queue[p] = {} /\ idx'[p] = idx[p] + 1
        /\ batched' = batched /\ delivered' = delivered
        /\ wm' = wm /\ cur' = cur /\ found' = found
    BY <1>0, <1>9 DEF NextName, history
  <2>2. \A t \in Matched(p, Names[idx[p] + 1]) : Passed(t, Names[idx[p] + 1])
    BY <1>0, <2>1 DEF DeliveryFacts, CurrentName, Passed
  <2>3. \A j \in 1..idx'[p] : \A t \in Matched(p, Names[j]) : Passed(t, Names[j])
    <3>1. \A j \in 1..idx'[p] : j \in 1..idx[p] \/ j = idx[p] + 1
      BY <1>0, <2>1
    <3>2. \A j \in 1..idx[p] : \A t \in Matched(p, Names[j]) : Passed(t, Names[j])
      BY <1>0, <2>1 DEF DeliveryFacts
    <3> QED
      BY <2>2, <3>1, <3>2
  <2>4. idx'[p] <= Len(Names)
    BY <1>0, <2>1, NamesType DEF DeliveryFacts
  <2> QED
    BY <1>0, <1>s, <2>1, <2>3, <2>4 DEF DeliveryFacts, FoundAll, Matched, Passed
<1>10. CASE EmitPoll(p)
  BY <1>0, <1>10, <1>s DEF EmitPoll, DeliveryFacts, FoundAll, Matched, Passed, history
<1>11. CASE SetWatermark(p) \/ Refuse(p) \/ Abort(p)
  BY <1>0, <1>11 DEF SetWatermark, Refuse, Abort, DeliveryFacts
<1> QED
  BY <1>1, <1>2, <1>3, <1>4, <1>5, <1>6, <1>7, <1>8, <1>9, <1>10, <1>11 DEF PollStep, FailStep
\* Every step keeps the delivery invariant while the indexer keeps up.
LEMMA NextDeliveryInv ==
    ASSUME IndexerLagCovered, DeliveryInv, [Next]_vars PROVE DeliveryInv'
<1>1. PollInv'
  BY NextPollInv DEF DeliveryInv
<1>2. NoLoss' /\ NoHoles' /\ (JumpFree => skipped = 1..InitialWatermark)'
  BY NextNoLoss, NextNoHoles, NextJumpFree
<1>3. (1..InitialWatermark \subseteq skipped)'
  BY HistoryGrows DEF DeliveryInv, PollInv
<1>4. (indexed + IndexerLag >= tip)'
  <2>1. tip \in Nat /\ indexed \in Nat /\ IndexerLag \in Nat
    BY BoundsAssumption DEF DeliveryInv, PollInv, TypeOK, BoundsAssumption
  <2>2. CASE NewBlock \/ IndexBlock \/ Restart \/ UNCHANGED vars
    BY <2>1, <2>2 DEF DeliveryInv, NewBlock, IndexBlock, Restart, vars, chain
  <2>3. ASSUME NEW p \in Pollers, PollStep(p) \/ FailStep(p) PROVE (indexed + IndexerLag >= tip)'
    BY <2>3, OthersUntouched DEF DeliveryInv, PollInv
  <2> QED
    BY <2>2, <2>3 DEF Next
<1>5. ASSUME NEW q \in Pollers PROVE DeliveryFacts(q)'
  <2>1. CASE NewBlock \/ IndexBlock \/ UNCHANGED vars
    <3>1. /\ pc'[q] = pc[q] /\ wm'[q] = wm[q] /\ cur'[q] = cur[q] /\ found'[q] = found[q]
          /\ idx'[q] = idx[q] /\ queue'[q] = queue[q]
      BY <2>1 DEF NewBlock, IndexBlock, vars, locals
    <3> QED
      BY <3>1, OthersDeliveryFacts
  <2>2. CASE Restart
    BY <2>2 DEF Restart, DeliveryFacts
  <2>3. ASSUME NEW p \in Pollers, PollStep(p) \/ FailStep(p) PROVE DeliveryFacts(q)'
    <3>1. CASE q = p
      BY <1>1, <2>3, <3>1, OwnDeliveryFacts
    <3>2. CASE q # p
      <4>1. /\ pc'[q] = pc[q] /\ wm'[q] = wm[q] /\ cur'[q] = cur[q] /\ found'[q] = found[q]
            /\ idx'[q] = idx[q] /\ queue'[q] = queue[q]
        BY <2>3, <3>2, OthersUntouched DEF DeliveryInv, PollInv
      <4> QED
        BY <4>1, OthersDeliveryFacts
    <3> QED
      BY <3>1, <3>2
  <2> QED
    BY <2>1, <2>2, <2>3 DEF Next
<1> QED
  BY <1>1, <1>2, <1>3, <1>4, <1>5 DEF DeliveryInv

\* The delivery invariant holds while the indexer keeps up.
THEOREM DeliveryInvHolds ==
    ASSUME IndexerLagCovered PROVE Spec => []DeliveryInv
<1>1. DeliveryInv /\ [Next]_vars => DeliveryInv'
  BY NextDeliveryInv
<1> QED
  BY <1>1, InitDeliveryInv, PTL DEF Spec

\* At least once: with an indexer that is never further behind than the
\* rounds a catchup leaves to algod, the persisted watermark never passes a
\* transaction that was not delivered, for every number of pollers, failure
\* and restart.
THEOREM NothingLost ==
    ASSUME IndexerLagCovered PROVE Spec => []NoLoss
<1>1. DeliveryInv => NoLoss
  BY DEF DeliveryInv
<1> QED
  BY <1>1, DeliveryInvHolds, PTL

\* In order: where no poller jumps, what the listeners of a name have seen
\* never has a hole.
THEOREM NoHolesEver ==
    ASSUME IndexerLagCovered PROVE Spec => []NoHoles
<1>1. DeliveryInv => NoHoles
  BY DEF DeliveryInv
<1> QED
  BY <1>1, DeliveryInvHolds, PTL

-------------------------------------------------------------------------------
(* The abstract promise. *)

\* A subscriber that has not polled yet is in the promise's first state.
LEMMA InitKeepsPromise == Init => Promise!Init
  BY BoundsAssumption DEF Init, Promise!Init, BoundsAssumption

\* Each step of PollOnce is a step of AtLeastOnce or leaves its state alone.
LEMMA NextKeepsPromise ==
    ASSUME IndexerLagCovered, DeliveryInv, DeliveryInv', [Next]_vars
    PROVE  [Promise!Next]_Promise!vars
<1> DEFINE J == \E p \in Pollers : MayJump(p)
<1>0. config' = config /\ TypeOK /\ TypeOK'
  BY HistoryGrows DEF DeliveryInv, PollInv
<1>j. J' = J
  BY <1>0 DEF MayJump
<1>1. ASSUME NEW p \in Pollers, EmitTransaction(p) PROVE Promise!Next
  <2> DEFINE n == CurrentName(p)
  <2>1. PICK t \in NextTxns(p) :
           delivered' = [delivered EXCEPT ![n] = @ \cup {t}]
    BY <1>1 DEF EmitTransaction
  <2>2. /\ pc[p] = "each" /\ watermark' = watermark /\ skipped' = skipped
    BY <1>1 DEF EmitTransaction
  <2>3. DeliveryFacts(p) /\ PollFacts(p)
    BY DEF DeliveryInv, PollInv
  <2>4. n \in FilterNames
    BY <2>2, <2>3, <1>0, NamesType DEF DeliveryFacts, CurrentName, TypeOK
  <2>5. t \in Txns /\ <<t, n>> \in found[p]
    BY <2>2, <2>3, <1>0 DEF DeliveryFacts, NextTxns, Matched, TypeOK
  <2>6. t \in Wanted(n)
    BY <2>3, <2>5 DEF PollFacts, InWindow
  <2>7. ~J => \A u \in Wanted(n) :
                 InitialWatermark < RoundOf[u] /\ RoundOf[u] < RoundOf[t] => u \in delivered[n]
    BY <2>2, EmittedInOrder DEF JumpFree
  <2> HIDE DEF J, n
  <2>8. Promise!See(n, t)
    BY <1>j, <2>1, <2>2, <2>4, <2>6, <2>7 DEF Promise!See, J
  <2> QED
    BY <2>4, <2>5, <2>8 DEF Promise!Next
<1>2. CASE delivered' = delivered
  <2>1. Promise!Covered(watermark', delivered, skipped')
    BY <1>2, <1>0 DEF DeliveryInv, NoLoss, Promise!Covered, Wanted
  <2>2. watermark' \in Nat /\ skipped \subseteq skipped'
    BY <1>0, HistoryGrows DEF TypeOK
  <2>3. ~J => skipped' = skipped
    BY <1>0, <1>j DEF DeliveryInv, JumpFree, MayJump
  <2> HIDE DEF J
  <2>4. Promise!Acknowledge
    BY <1>2, <1>j, <2>1, <2>2, <2>3 DEF Promise!Acknowledge, J
  <2> QED
    BY <2>4 DEF Promise!Next
<1>3. CASE delivered' # delivered
  <2>1. PICK p \in Pollers : EmitTransaction(p)
    BY <1>3 DEF Next, vars, history, NewBlock, IndexBlock, Restart, PollStep, FailStep,
        GetWatermark, GetStatus, Plan, Search, SearchDone, FetchBlocks, EmitBatch, NextName,
        EmitPoll, SetWatermark, Refuse, Abort
  <2> QED
    BY <1>1, <2>1
<1> QED
  BY <1>2, <1>3

\* Polling implements the abstract at-least-once subscription.
THEOREM PollingKeepsPromise ==
    ASSUME IndexerLagCovered PROVE Spec => KeepsPromise
<1>1. DeliveryInv /\ DeliveryInv' /\ [Next]_vars => [Promise!Next]_Promise!vars
  BY NextKeepsPromise
<1> QED
  BY <1>1, InitKeepsPromise, DeliveryInvHolds, PTL DEF Spec, KeepsPromise, Promise!Spec
===============================================================================
