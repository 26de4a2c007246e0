------------------------------- MODULE Lifecycle -------------------------------
(***************************************************************************)
(* A subscriber as a whole: the loop of start with the polls it makes.     *)
(* The one poller of PollOnce is the thread in start; it polls when the    *)
(* loop does, its return and its exceptions are the ones that the loop     *)
(* goes on with, and the result decides how the loop idles.  Stops come at *)
(* any step of a poll.                                                     *)
(***************************************************************************)
EXTENDS PollOnce

CONSTANTS
    Stoppers,       \* as in StartLoop
    MaxRetries

ASSUME OneThreadAssumption == SinglePoller
ASSUME StartLoopAssumption == Stoppers # {} /\ MaxRetries \in Nat

VARIABLES
    started, stopRequested, errorListener, waitForBlockWhenAtTip,
    loopPc,         \* the next statement of start
    behind, stopPc, retries, stopDuringPoll, pollsAfterStop,
    reported        \* result.current_round

Loop == INSTANCE StartLoop WITH pc <- loopPc

loop == <<started, stopRequested, errorListener, waitForBlockWhenAtTip, loopPc, behind,
          stopPc, retries, stopDuringPoll, pollsAfterStop>>
lifecycle == <<vars, loop, reported>>

InitLifecycle ==
    /\ Init
    /\ Loop!Init
    /\ reported = 0

-------------------------------------------------------------------------------
\* What start does around its polls, and the calls of start and stop.
LoopStep == loopPc # "poll" /\ Loop!LoopStep /\ UNCHANGED <<vars, reported>>
CallsStart == Loop!CheckStarted /\ UNCHANGED <<vars, reported>>
CallsStop(s) == (Loop!StopTests(s) \/ Loop!StopSets(s)) /\ UNCHANGED <<vars, reported>>

\* A poll goes on.
PollGoesOn(p) ==
    /\ loopPc = "poll"
    /\ PollStep(p) /\ pc[p] # "set"
    /\ UNCHANGED <<loop, reported>>

\* A poll that gives up between two events when a stop is requested.
PollReturnsAtStop(p) ==
    /\ IF stopRequested /\ pc[p] = "each"
       THEN Leave(p) /\ UNCHANGED <<chain, watermark, config, history>>
       ELSE SetWatermark(p)
    /\ reported' = cur[p]
    /\ Loop!PollReturns
    /\ behind' = (cur[p] > watermark')

\* A loop that takes every poll for one that got to the tip.
PollReturnsAtTip(p) ==
    /\ SetWatermark(p)
    /\ reported' = cur[p]
    /\ Loop!PollReturns
    /\ behind' = FALSE

\* The result tells the loop whether the poll got to the round that algod
\* reported.
PollReturns(p) ==
    /\ SetWatermark(p)
    /\ reported' = cur[p]
    /\ Loop!PollReturns
    /\ behind' = (cur[p] > watermark')

\* A loop that goes on after an exception without an error event.
PollRaisesUnheard(p) ==
    /\ loopPc = "poll"
    /\ FailStep(p)
    /\ loopPc' = "while"
    /\ UNCHANGED <<started, stopRequested, errorListener, waitForBlockWhenAtTip, behind,
                   stopPc, retries, stopDuringPoll, pollsAfterStop, reported>>

PollRaises(p) ==
    /\ FailStep(p)
    /\ Loop!PollRaises
    /\ UNCHANGED reported

\* The thread in start.
ThreadStep == LoopStep \/ \E p \in Pollers : PollGoesOn(p) \/ PollReturns(p) \/ PollRaises(p)

NextLifecycle ==
    \/ (NewBlock \/ IndexBlock) /\ UNCHANGED <<loop, reported>>
    \/ ThreadStep
    \/ CallsStart
    \/ \E s \in Stoppers : CallsStop(s)

LifecycleSpec == InitLifecycle /\ [][NextLifecycle]_lifecycle

\* The thread in start runs on, inside its polls too, and a stop that has
\* begun completes, as in StartLoop.
FairLifecycleSpec ==
    /\ LifecycleSpec
    /\ WF_lifecycle(ThreadStep)
    /\ \A s \in Stoppers : WF_lifecycle(Loop!StopSets(s) /\ UNCHANGED <<vars, reported>>)

-------------------------------------------------------------------------------
(* Properties. *)

\* However deep inside a poll a stop came, in a listener between two events
\* of a batch for one: as long as no poll failed, outside a poll the listeners
\* of each name have seen exactly the transactions up to the watermark, but for
\* the rounds left out.  So what the next start does repeats nothing.
StopsCleanly ==
    loopPc # "poll" /\ failures = 0 =>
        \A n \in FilterNames :
            delivered[n] = {t \in Wanted(n) : RoundOf[t] \in (1..watermark) \ skipped}

\* The thread waits for a new block only when the round it was told of, and
\* gives to status_after_block, is done: nothing that exists is waited for.
WaitsAtTip == loopPc = "wait" => reported <= watermark

\* A loop that runs on without a stop, whatever listener handles its errors,
\* is as close to the tip as the nodes that answer in the end.  That start
\* polls again is what the fairness of PollOnce takes for granted.
LoopCatchesUp ==
    AlwaysPolls /\ <>[](Loop!InLoop /\ ~stopRequested) => <>[](watermark + NodeLag >= tip)

\* With its polls in full the loop still is the one of StartLoop, in which
\* a poll is one step: each of its polls ends, by a return or an exception.
RunsAsStartLoop == Loop!FairSpec
===============================================================================
