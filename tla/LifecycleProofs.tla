---------------------------- MODULE LifecycleProofs ----------------------------
(***************************************************************************)
(* Theorems about the loop with its polls in full, for every chain, filter *)
(* and configuration, any callers of stop and any bounds.                  *)
(*                                                                         *)
(* Each step of Lifecycle is a step of PollOnce and one of StartLoop, or   *)
(* changes nothing in one of them, so what is proved of the two holds of   *)
(* the whole.  What neither can say alone is StopsCleanly: CleanInv adds   *)
(* that no poll is in progress outside the loop's poll, and that what the  *)
(* listeners have seen beyond the watermark is in the window of the poll.  *)
(***************************************************************************)
EXTENDS Lifecycle, PollOnceProofs

-------------------------------------------------------------------------------
(* The two parts. *)

\* A step of the subscriber is one of its polls, or leaves them alone.
LEMMA StepPolls == [NextLifecycle]_lifecycle => [Next]_vars
<1> SUFFICES ASSUME [NextLifecycle]_lifecycle PROVE [Next]_vars
  OBVIOUS
<1>1. CASE (NewBlock \/ IndexBlock) /\ UNCHANGED <<loop, reported>>
  BY <1>1 DEF Next
<1>2. CASE LoopStep \/ CallsStart \/ (\E s \in Stoppers : CallsStop(s)) \/ UNCHANGED lifecycle
  BY <1>2 DEF LoopStep, CallsStart, CallsStop, lifecycle
<1>3. ASSUME NEW p \in Pollers, PollGoesOn(p) \/ PollReturns(p) \/ PollRaises(p) PROVE Next
  BY <1>3 DEF PollGoesOn, PollReturns, PollRaises, Next, PollStep
<1> QED
  BY <1>1, <1>2, <1>3 DEF NextLifecycle, ThreadStep

\* What the loop of start does is polling: all that is proved of a poller
\* holds of a subscriber that is started and stopped.
THEOREM LoopPolls == LifecycleSpec => Spec
<1>1. InitLifecycle => Init
  BY DEF InitLifecycle
<1> QED
  BY <1>1, StepPolls, PTL DEF LifecycleSpec, Spec

\* A step of the subscriber is one of its loop, or leaves it alone.
LEMMA StepLoops == [NextLifecycle]_lifecycle => [Loop!Next]_Loop!vars
<1> SUFFICES ASSUME [NextLifecycle]_lifecycle PROVE [Loop!Next]_Loop!vars
  OBVIOUS
<1>1. CASE UNCHANGED loop
  BY <1>1 DEF loop, Loop!vars, Loop!loop, Loop!settings
<1>2. CASE LoopStep \/ CallsStart \/ (\E s \in Stoppers : CallsStop(s))
  BY <1>2 DEF LoopStep, CallsStart, CallsStop, Loop!Next
<1>3. ASSUME NEW p \in Pollers, PollReturns(p) \/ PollRaises(p) PROVE Loop!Next
  BY <1>3 DEF PollReturns, PollRaises, Loop!Next, Loop!LoopStep
<1>4. CASE \/ (NewBlock \/ IndexBlock) /\ UNCHANGED <<loop, reported>>
           \/ UNCHANGED lifecycle \/ \E p \in Pollers : PollGoesOn(p)
  BY <1>1, <1>4 DEF PollGoesOn, lifecycle
<1> QED
  BY <1>2, <1>3, <1>4 DEF NextLifecycle, ThreadStep

\* The loop with its polls is the loop of StartLoop, step by step.
THEOREM LoopIsStartLoop == LifecycleSpec => Loop!Spec
<1>1. InitLifecycle => Loop!Init
  BY DEF InitLifecycle
<1> QED
  BY <1>1, StepLoops, PTL DEF LifecycleSpec, Loop!Spec

-------------------------------------------------------------------------------
(* What the listeners have seen. *)

\* A transaction that a poll has found lies in the rounds that it reads.
FoundInWindow(p) ==
    \A x \in found[p] :
        /\ ~AtTip(wm[p], cur[p])
        /\ RoundOf[x[1]] \in StartRound(config[p], wm[p], cur[p])
                                 ..EndRound(config[p], wm[p], cur[p])

\* Past the watermark the listeners have seen only what the poll is about to
\* acknowledge.
SeenIsDone(n, t) ==
    \/ RoundOf[t] \in (1..watermark) \ skipped
    \/ \E p \in Pollers : pc[p] \in {"batch", "each", "set"} /\ <<t, n>> \in found[p]

CleanFacts ==
    /\ skipped \subseteq 1..watermark
    /\ \A p \in Pollers : FoundInWindow(p)
    /\ failures = 0 => \A n \in FilterNames : \A t \in delivered[n] :
           t \in Wanted(n) /\ SeenIsDone(n, t)

PollsInLoop == loopPc # "poll" => \A p \in Pollers : pc[p] = "get"

CleanInv == CleanFacts /\ PollsInLoop

\* Nothing has failed and nothing is delivered at the start.
LEMMA InitCleanInv == InitLifecycle => CleanInv
<1> SUFFICES ASSUME InitLifecycle PROVE CleanInv
  OBVIOUS
<1>1. CleanFacts
  BY DEF InitLifecycle, Init, CleanFacts, FoundInWindow
<1>2. PollsInLoop
  BY DEF InitLifecycle, Init, PollsInLoop
<1> QED
  BY <1>1, <1>2 DEF CleanInv

\* What a poll finds, in whichever way, is in its window.
LEMMA NextFoundInWindow ==
    ASSUME DeliveryInv, \A q \in Pollers : FoundInWindow(q), NEW p \in Pollers,
           PollStep(p) \/ FailStep(p)
    PROVE  FoundInWindow(p)'
<1>1. TypeOK /\ PollFacts(p)
  BY DEF DeliveryInv, PollInv
<1>2. /\ config' = config /\ config[p] \in SyncConfig
      /\ wm[p] \in Nat /\ cur[p] \in Nat
  <2>1. config' = config
    BY DEF PollStep, FailStep, GetWatermark, GetStatus, Plan, Search, SearchDone, FetchBlocks,
       EmitBatch, EmitTransaction, NextName, EmitPoll, SetWatermark, Refuse, Abort
  <2> QED
    BY <1>1, <2>1, ConfigType DEF TypeOK
<1> DEFINE window == StartRound(config[p], wm[p], cur[p])..EndRound(config[p], wm[p], cur[p])
<1>3. CASE GetWatermark(p) \/ GetStatus(p) \/ Plan(p)
  <2>1. found[p] = {} /\ found' = found
    BY <1>1, <1>3 DEF PollFacts, GetWatermark, GetStatus, Plan
  <2> QED
    BY <2>1 DEF FoundInWindow
<1>4. CASE Search(p)
  <2>1. /\ wm' = wm /\ cur' = cur /\ idx[p] + 1 \in DOMAIN Filters
        /\ ~AtTip(wm[p], cur[p]) /\ ~Refuses(config[p], wm[p], cur[p])
    BY <1>1, <1>4, FiltersType DEF Search, PollFacts, TypeOK
  <2> DEFINE rounds == {r \in IndexerRounds(config[p], wm[p], cur[p]) : r <= indexed}
  <2>2. rounds \subseteq window
    BY <1>2, <2>1, WindowIsCovered
  <2>3. found'[p] = found[p] \cup Pairs(idx[p] + 1, rounds)
    BY <1>1, <1>4 DEF Search, TypeOK
  <2> HIDE DEF rounds
  <2>4. \A x \in Pairs(idx[p] + 1, rounds) : RoundOf[x[1]] \in window
    BY <2>1, <2>2, PairsWanted
  <2> QED
    BY <1>2, <2>1, <2>3, <2>4 DEF FoundInWindow
<1>5. CASE FetchBlocks(p)
  <2>1. /\ wm' = wm /\ cur' = cur
        /\ ~AtTip(wm[p], cur[p]) /\ ~Refuses(config[p], wm[p], cur[p])
    BY <1>1, <1>5 DEF FetchBlocks, PollFacts
  <2> DEFINE rounds == AlgodRounds(config[p], wm[p], cur[p])
  <2>2. rounds \subseteq window
    BY <1>2, <2>1, WindowIsCovered
  <2>3. found'[p] = found[p] \cup UNION {Pairs(i, rounds) : i \in DOMAIN Filters}
    BY <1>1, <1>5 DEF FetchBlocks, TypeOK
  <2> HIDE DEF rounds
  <2>4. \A i \in DOMAIN Filters : \A x \in Pairs(i, rounds) : RoundOf[x[1]] \in window
    BY <2>2, PairsWanted
  <2> QED
    BY <1>2, <2>1, <2>3, <2>4 DEF FoundInWindow
<1>6. CASE SearchDone(p) \/ EmitBatch(p) \/ EmitTransaction(p) \/ NextName(p) \/ EmitPoll(p)
  <2>1. found' = found /\ wm' = wm /\ cur' = cur
    BY <1>6 DEF SearchDone, EmitBatch, EmitTransaction, NextName, EmitPoll
  <2> QED
    BY <1>2, <2>1 DEF FoundInWindow
<1>7. CASE SetWatermark(p) \/ FailStep(p)
  <2>1. found'[p] = {}
    BY <1>1, <1>7 DEF TypeOK, SetWatermark, FailStep, Refuse, Abort, Leave
  <2> QED
    BY <2>1 DEF FoundInWindow
<1> QED
  BY <1>3, <1>4, <1>5, <1>6, <1>7 DEF PollStep

\* The poll that acknowledges.
LEMMA CommitIsClean ==
    ASSUME DeliveryInv, CleanFacts, NEW p \in Pollers, SetWatermark(p)
    PROVE  /\ (skipped \subseteq 1..watermark)'
           /\ \A n \in FilterNames : \A t \in Wanted(n) :
                  SeenIsDone(n, t) => RoundOf[t] \in (1..watermark') \ skipped'
<1> DEFINE cfg == config[p]
           w == wm[p]
           c == cur[p]
<1>1. /\ cfg \in SyncConfig /\ w \in Nat /\ c \in Nat /\ watermark = w
      /\ ~Refuses(cfg, w, c)
  BY OneThreadAssumption, ConfigType
  DEF DeliveryInv, PollInv, PollFacts, TypeOK, SetWatermark
<1>2. watermark' = NewWatermark(cfg, w, c) /\ skipped' = skipped \cup LeftOut(p)
  BY DEF SetWatermark
<1>3. CASE AtTip(w, c)
  <2>1. watermark' = watermark /\ skipped' = skipped
    BY <1>1, <1>2, <1>3 DEF NewWatermark, LeftOut
  <2>2. found[p] = {}
    BY <1>3 DEF CleanFacts, FoundInWindow
  <2> QED
    BY <2>1, <2>2, OneThreadAssumption DEF CleanFacts, SeenIsDone, SinglePoller
<1>4. CASE ~AtTip(w, c)
  <2> DEFINE start == StartRound(cfg, w, c)
             end == EndRound(cfg, w, c)
  <2>1. /\ end \in w..c /\ start \in (w + 1)..(c + 1)
        /\ start - 1 <= end
    BY <1>1, <1>4, WindowBounds
  <2>2. watermark' = end /\ LeftOut(p) = (w + 1)..(start - 1)
    BY <1>2, <1>4 DEF NewWatermark, LeftOut
  <2>3. \A x \in found[p] : RoundOf[x[1]] \in start..end
    BY DEF CleanFacts, FoundInWindow
  <2> HIDE DEF start, end, cfg, w, c
  <2>4. skipped \subseteq 1..w
    BY <1>1 DEF CleanFacts
  <2>5. (skipped \subseteq 1..watermark)'
    BY <1>1, <1>2, <2>1, <2>2, <2>4
  <2>6. ASSUME NEW r \in ((1..w) \ skipped) \cup (start..end)
        PROVE  r \in (1..watermark') \ skipped'
    BY <1>1, <1>2, <2>1, <2>2, <2>4, <2>6
  <2>7. \A n \in FilterNames : \A t \in Wanted(n) :
           SeenIsDone(n, t) => RoundOf[t] \in ((1..w) \ skipped) \cup (start..end)
    BY <1>1, <2>3, OneThreadAssumption DEF SeenIsDone, SinglePoller
  <2> QED
    BY <2>5, <2>6, <2>7
<1> QED
  BY <1>3, <1>4

\* A step of a poll delivers only what is wanted, and keeps what it needs for
\* that.
LEMMA NextCleanFacts ==
    ASSUME DeliveryInv, CleanFacts, NEW p \in Pollers, PollStep(p) \/ FailStep(p)
    PROVE  CleanFacts'
<1>1. TypeOK /\ PollFacts(p) /\ DeliveryFacts(p)
  BY DEF DeliveryInv, PollInv
<1>2. \A q \in Pollers : FoundInWindow(q)'
  BY NextFoundInWindow, OneThreadAssumption DEF CleanFacts, SinglePoller
<1>3. CASE SetWatermark(p)
  <2>1. delivered' = delivered /\ failures' = failures
    BY <1>3 DEF SetWatermark
  <2>2. (skipped \subseteq 1..watermark)'
    BY <1>3, CommitIsClean
  <2>3. ASSUME failures' = 0, NEW n \in FilterNames, NEW t \in delivered'[n]
        PROVE  t \in Wanted(n) /\ SeenIsDone(n, t)'
    <3>1. t \in Wanted(n) /\ SeenIsDone(n, t)
      BY <2>1, <2>3 DEF CleanFacts
    <3> QED
      BY <1>3, <3>1, CommitIsClean DEF SeenIsDone
  <2> QED
    BY <1>2, <2>2, <2>3 DEF CleanFacts, Wanted, FilterNames
<1>4. CASE EmitTransaction(p)
  <2> DEFINE n == CurrentName(p)
  <2>1. PICK t \in NextTxns(p) : delivered' = [delivered EXCEPT ![n] = @ \cup {t}]
    BY <1>4 DEF EmitTransaction
  <2>2. /\ pc' = pc /\ pc[p] = "each" /\ found' = found
        /\ UNCHANGED <<watermark, skipped, failures>>
    BY <1>4 DEF EmitTransaction
  <2>3. <<t, n>> \in found[p]
    BY <1>1, <2>2 DEF DeliveryFacts, NextTxns, Matched, TypeOK
  <2>4. t \in Wanted(n)
    BY <1>1, <2>3 DEF PollFacts, InWindow
  <2> HIDE DEF n
  <2>5. ASSUME failures' = 0, NEW m \in FilterNames, NEW u \in delivered'[m]
        PROVE  u \in Wanted(m) /\ SeenIsDone(m, u)'
    <3>1. CASE u \in delivered[m]
      BY <2>2, <2>5, <3>1 DEF CleanFacts, SeenIsDone
    <3>2. CASE u \notin delivered[m]
      <4>1. m = n /\ u = t
        BY <1>1, <2>1, <2>5, <3>2 DEF TypeOK
      <4> QED
        BY <2>2, <2>3, <2>4, <4>1 DEF SeenIsDone
    <3> QED
      BY <3>1, <3>2
  <2> QED
    BY <1>2, <2>2, <2>5 DEF CleanFacts, Wanted, FilterNames
<1>5. CASE Abort(p)
  <2>1. failures' # 0 /\ UNCHANGED <<watermark, skipped>>
    BY <1>1, <1>5 DEF TypeOK, Abort
  <2> QED
    BY <1>2, <2>1 DEF CleanFacts
<1>6. CASE \/ GetWatermark(p) \/ GetStatus(p) \/ Plan(p) \/ Search(p) \/ SearchDone(p)
           \/ FetchBlocks(p) \/ EmitBatch(p) \/ NextName(p) \/ EmitPoll(p) \/ Refuse(p)
  <2>1. UNCHANGED <<watermark, skipped, delivered, failures>>
    BY <1>6 DEF GetWatermark, GetStatus, Plan, Search, SearchDone, FetchBlocks, EmitBatch,
       NextName, EmitPoll, Refuse, history
  <2>2. pc[p] \in {"batch", "each", "set"} =>
            pc'[p] \in {"batch", "each", "set"} /\ found'[p] = found[p]
    BY <1>1, <1>6 DEF TypeOK, GetWatermark, GetStatus, Plan, Search, SearchDone, FetchBlocks,
       EmitBatch, NextName, EmitPoll, Refuse, Goto
  <2>3. \A n \in FilterNames : \A t \in delivered[n] : SeenIsDone(n, t) => SeenIsDone(n, t)'
    BY <2>1, <2>2, OneThreadAssumption DEF SeenIsDone, SinglePoller
  <2> QED
    BY <1>2, <2>1, <2>3 DEF CleanFacts, Wanted, FilterNames
<1> QED
  BY <1>3, <1>4, <1>5, <1>6 DEF PollStep, FailStep

\* Each step keeps the invariant, and the loop polls one at a time.
LEMMA NextCleanInv ==
    ASSUME DeliveryInv, CleanInv, [NextLifecycle]_lifecycle PROVE CleanInv'
<1>1. CleanFacts'
  <2>1. CASE NewBlock \/ IndexBlock \/ UNCHANGED vars
    <3>1. UNCHANGED <<watermark, skipped, delivered, failures, pc, found, wm, cur, config>>
      BY <2>1 DEF NewBlock, IndexBlock, vars, locals, history
    <3> QED
      BY <3>1 DEF CleanInv, CleanFacts, FoundInWindow, SeenIsDone, Wanted, FilterNames
  <2>2. ASSUME NEW p \in Pollers, PollStep(p) \/ FailStep(p) PROVE CleanFacts'
    BY <2>2, NextCleanFacts DEF CleanInv
  <2>3. \/ NewBlock \/ IndexBlock \/ UNCHANGED vars
        \/ \E p \in Pollers : PollStep(p) \/ FailStep(p)
    BY DEF NextLifecycle, ThreadStep, LoopStep, CallsStart, CallsStop, PollGoesOn, PollReturns,
       PollRaises, PollStep, lifecycle
  <2> QED
    BY <2>1, <2>2, <2>3
<1>2. PollsInLoop'
  <2>1. CASE LoopStep \/ UNCHANGED <<loop, vars>>
    BY <2>1 DEF CleanInv, PollsInLoop, LoopStep, loop, vars, locals
  <2>2. CASE CallsStart \/ \E s \in Stoppers : CallsStop(s)
    BY <2>2 DEF CleanInv, PollsInLoop, CallsStart, CallsStop, vars, locals,
       Loop!CheckStarted, Loop!StopTests, Loop!StopSets, Loop!loop
  <2>3. CASE \/ (NewBlock \/ IndexBlock) /\ UNCHANGED <<loop, reported>>
             \/ \E p \in Pollers : PollGoesOn(p)
    BY <2>3 DEF CleanInv, PollsInLoop, loop, NewBlock, IndexBlock, locals, PollGoesOn
  <2>4. ASSUME NEW p \in Pollers, PollReturns(p) \/ PollRaises(p) PROVE PollsInLoop'
    <3>1. pc'[p] = "get"
      BY <2>4 DEF PollReturns, PollRaises, SetWatermark, FailStep, Refuse, Abort, Leave, Goto,
         DeliveryInv, PollInv, TypeOK
    <3> QED
      BY <3>1, OneThreadAssumption DEF PollsInLoop, SinglePoller
  <2> QED
    BY <2>1, <2>2, <2>3, <2>4 DEF NextLifecycle, ThreadStep, lifecycle
<1> QED
  BY <1>1, <1>2 DEF CleanInv

\* A stop, wherever in a poll it comes, leaves the listeners with exactly what
\* the watermark acknowledges, as long as no poll failed.
THEOREM AlwaysStopsCleanly ==
    ASSUME IndexerLagCovered PROVE LifecycleSpec => []StopsCleanly
<1>1. DeliveryInv /\ CleanInv => StopsCleanly
  <2> SUFFICES ASSUME DeliveryInv, CleanInv, loopPc # "poll", failures = 0, NEW n \in FilterNames
               PROVE  delivered[n] = {t \in Wanted(n) : RoundOf[t] \in (1..watermark) \ skipped}
    BY DEF StopsCleanly
  <2>1. ASSUME NEW t \in delivered[n]
        PROVE  t \in Wanted(n) /\ RoundOf[t] \in (1..watermark) \ skipped
    BY DEF CleanInv, CleanFacts, PollsInLoop, SeenIsDone
  <2>2. ASSUME NEW t \in Wanted(n), RoundOf[t] \in (1..watermark) \ skipped
        PROVE  t \in delivered[n]
    BY <2>2 DEF DeliveryInv, PollInv, TypeOK, NoLoss
  <2> QED
    BY <2>1, <2>2
<1>2. DeliveryInv /\ CleanInv /\ [NextLifecycle]_lifecycle => CleanInv'
  BY NextCleanInv
<1> QED
  BY <1>1, <1>2, InitCleanInv, LoopPolls, DeliveryInvHolds, PTL DEF LifecycleSpec

-------------------------------------------------------------------------------
(* When the thread waits. *)

WaitInv ==
    /\ watermark \in Nat /\ reported \in Nat
    /\ loopPc \in {"inspect", "checkStop", "wait"} /\ ~behind => reported <= watermark
    /\ loopPc = "wait" => ~behind

\* The thread waits for a new block only when what exists is done.
THEOREM AlwaysWaitsAtTip == LifecycleSpec => []WaitsAtTip
<1>1. InitLifecycle => WaitInv
  BY BoundsAssumption DEF InitLifecycle, Init, Loop!Init, WaitInv, BoundsAssumption
<1>2. TypeOK /\ TypeOK' /\ WaitInv /\ [NextLifecycle]_lifecycle => WaitInv'
  <2> SUFFICES ASSUME TypeOK, TypeOK', WaitInv, [NextLifecycle]_lifecycle PROVE WaitInv'
    OBVIOUS
  <2>1. CASE LoopStep
    BY <2>1 DEF WaitInv, LoopStep, vars, Loop!LoopStep, Loop!SetStarted, Loop!ClearStop,
       Loop!BeginPoll, Loop!LeaveLoop, Loop!PollReturns, Loop!PollRaises, Loop!InspectReturns,
       Loop!CallRaises, Loop!CheckStop, Loop!WakeUp, Loop!ErrorHandled, Loop!ErrorCounted,
       Loop!ErrorEscapes, Loop!SetNotStarted
  <2>2. CASE CallsStart \/ \E s \in Stoppers : CallsStop(s)
    BY <2>2 DEF WaitInv, CallsStart, CallsStop, vars, Loop!CheckStarted, Loop!StopTests,
       Loop!StopSets, Loop!loop
  <2>3. CASE \/ UNCHANGED lifecycle
             \/ (NewBlock \/ IndexBlock) /\ UNCHANGED <<loop, reported>>
    BY <2>3 DEF WaitInv, lifecycle, vars, loop, NewBlock, IndexBlock
  <2>4. ASSUME NEW p \in Pollers, PollGoesOn(p) PROVE WaitInv'
    BY <2>4 DEF WaitInv, TypeOK, PollGoesOn, loop
  <2>5. ASSUME NEW p \in Pollers, PollReturns(p) PROVE WaitInv'
    <3>1. /\ reported' = cur[p]
          /\ behind' = (cur[p] > watermark')
          /\ loopPc' = "inspect"
      BY <2>5 DEF PollReturns, Loop!PollReturns
    <3>2. cur[p] \in Nat /\ watermark' \in Nat
      BY DEF TypeOK
    <3>3. ASSUME ~behind' PROVE reported' <= watermark'
      <4>1. ~(cur[p] > watermark')
        BY <3>1, <3>3, Zenon
      <4> QED
        BY <3>1, <3>2, <4>1, SMT
    <3> QED
      BY <3>1, <3>2, <3>3 DEF WaitInv
  <2>6. ASSUME NEW p \in Pollers, PollRaises(p) PROVE WaitInv'
    BY <2>6 DEF WaitInv, TypeOK, PollRaises, Loop!PollRaises
  <2> QED
    BY <2>1, <2>2, <2>3, <2>4, <2>5, <2>6 DEF NextLifecycle, ThreadStep, lifecycle
<1>3. WaitInv => WaitsAtTip
  BY DEF WaitInv, WaitsAtTip
<1> QED
  BY <1>1, <1>2, <1>3, LoopPolls, TypeCorrect, PTL DEF LifecycleSpec

-------------------------------------------------------------------------------
\* However often and wherever the subscriber is stopped, started again, or
\* fails, no transaction that the watermark has passed was missed.
THEOREM AlwaysNoLoss == ASSUME IndexerLagCovered PROVE LifecycleSpec => []NoLoss
<1> QED
  BY LoopPolls, NothingLost, PTL
===============================================================================
