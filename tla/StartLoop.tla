------------------------------- MODULE StartLoop -------------------------------
(***************************************************************************)
(* AlgorandSubscriber.start and stop: one thread that may start the loop,  *)
(* again after it ended, and threads, signal handlers or listeners that    *)
(* call stop at any moment, between any two statements of start.  A poll   *)
(* is one step here that returns, leaving the watermark behind the tip or  *)
(* not, or raises; PollOnce is its inside.                                 *)
(***************************************************************************)
EXTENDS Naturals

CONSTANTS
    Stoppers,       \* whatever calls stop, but for the error listener
    MaxRetries      \* the errors that the retrying error listener puts up with

ASSUME StoppersAssumption == Stoppers # {}
ASSUME MaxRetriesAssumption == MaxRetries \in Nat

VARIABLES
    started, stopRequested,     \* the fields of the same names
    errorListener,              \* "default" re-raises, "custom" returns, "retrying"
                                \* returns and calls stop after too many errors
    waitForBlockWhenAtTip,      \* the configuration's flag
    pc,                         \* the next statement of start
    behind,                     \* result.current_round > result.new_watermark
    stopPc,                     \* the next statement of each stop
    retries,                    \* the retrying listener's count, up to MaxRetries + 1
    \* For the properties.
    stopDuringPoll,             \* stop was requested since this poll began
    pollsAfterStop              \* polls that ended with a stop requested, up to 2

loop == <<started, pc, behind>>
settings == <<errorListener, waitForBlockWhenAtTip>>
vars == <<loop, settings, stopRequested, stopPc, retries, stopDuringPoll, pollsAfterStop>>

Init ==
    /\ started = FALSE
    /\ stopRequested = FALSE
    /\ errorListener \in {"default", "custom", "retrying"}
    /\ waitForBlockWhenAtTip \in BOOLEAN
    /\ retries = 0
    /\ pc = "out"
    /\ behind = FALSE
    /\ stopPc = [s \in Stoppers |-> "idle"]
    /\ stopDuringPoll = FALSE
    /\ pollsAfterStop = 0

-------------------------------------------------------------------------------
(* start *)

\* Called while started: start returns at once.
CheckStarted ==
    /\ pc = "out"
    /\ ~started
    /\ pc' = "setStarted"
    /\ UNCHANGED <<started, behind, settings, stopRequested, stopPc, retries,
                   stopDuringPoll, pollsAfterStop>>

SetStarted ==
    /\ pc = "setStarted"
    /\ started' = TRUE
    /\ pc' = "clearStop"
    /\ UNCHANGED <<behind, settings, stopRequested, stopPc, retries, stopDuringPoll,
                   pollsAfterStop>>

ClearStop ==
    /\ pc = "clearStop"
    /\ stopRequested' = FALSE
    /\ pollsAfterStop' = 0
    /\ pc' = "while"
    /\ UNCHANGED <<started, behind, settings, stopPc, retries, stopDuringPoll>>

BeginPoll ==
    /\ pc = "while"
    /\ ~stopRequested
    /\ pc' = "poll"
    /\ stopDuringPoll' = FALSE
    /\ UNCHANGED <<started, behind, settings, stopRequested, stopPc, retries, pollsAfterStop>>

LeaveLoop ==
    /\ pc = "while"
    /\ stopRequested
    /\ pc' = "setNotStarted"
    /\ UNCHANGED <<started, behind, settings, stopRequested, stopPc, retries,
                   stopDuringPoll, pollsAfterStop>>

\* Counts up to two, which is one too many already.
CountPoll ==
    pollsAfterStop' = IF stopRequested /\ pollsAfterStop < 2 THEN pollsAfterStop + 1
                      ELSE pollsAfterStop

PollReturns ==
    /\ pc = "poll"
    /\ behind' \in BOOLEAN
    /\ pc' = "inspect"
    /\ CountPoll
    /\ UNCHANGED <<started, settings, stopRequested, stopPc, retries, stopDuringPoll>>

PollRaises ==
    /\ pc = "poll"
    /\ pc' = "error"
    /\ CountPoll
    /\ UNCHANGED <<started, behind, settings, stopRequested, stopPc, retries,
                   stopDuringPoll>>

InspectReturns ==
    /\ pc = "inspect"
    /\ pc' = "checkStop"
    /\ UNCHANGED <<started, behind, settings, stopRequested, stopPc, retries,
                   stopDuringPoll, pollsAfterStop>>

\* The inspect callback, or the request to wait for a block, raises.
CallRaises ==
    /\ pc \in {"inspect", "wait"}
    /\ pc' = "error"
    /\ UNCHANGED <<started, behind, settings, stopRequested, stopPc, retries,
                   stopDuringPoll, pollsAfterStop>>

\* A loop without the test for a stop requested by an event handler.
IdleWithoutCheck ==
    /\ pc = "checkStop"
    /\ pc' = IF behind \/ ~waitForBlockWhenAtTip THEN "sleep" ELSE "wait"
    /\ UNCHANGED <<started, behind, settings, stopRequested, stopPc, retries,
                   stopDuringPoll, pollsAfterStop>>

\* A stop requested during the poll ends the loop; else the thread sleeps
\* while behind the tip, and may let algod wake it at the tip.
CheckStop ==
    /\ pc = "checkStop"
    /\ pc' = IF stopRequested THEN "setNotStarted"
             ELSE IF behind \/ ~waitForBlockWhenAtTip THEN "sleep" ELSE "wait"
    /\ UNCHANGED <<started, behind, settings, stopRequested, stopPc, retries,
                   stopDuringPoll, pollsAfterStop>>

\* The sleep ends, or status_after_block answers: with a new block, or
\* without one when the node's own limit on the wait passes.
WakeUp ==
    /\ pc \in {"sleep", "wait"}
    /\ pc' = "while"
    /\ UNCHANGED <<started, behind, settings, stopRequested, stopPc, retries,
                   stopDuringPoll, pollsAfterStop>>

\* A retry of the failed poll at once, without the loop's test.
ErrorRetries ==
    /\ pc = "error"
    /\ errorListener = "custom"
    /\ pc' = "poll"
    /\ UNCHANGED <<started, behind, settings, stopRequested, stopPc, retries,
                   stopDuringPoll, pollsAfterStop>>

\* A loop that an error ends.
ErrorEndsLoop ==
    /\ pc = "error"
    /\ errorListener = "custom"
    /\ pc' = "setNotStarted"
    /\ UNCHANGED <<started, behind, settings, stopRequested, stopPc, retries,
                   stopDuringPoll, pollsAfterStop>>

\* The error event's listener returns, and the loop goes on without a pause.
ErrorHandled ==
    /\ pc = "error"
    /\ errorListener = "custom"
    /\ pc' = "while"
    /\ UNCHANGED <<started, behind, settings, stopRequested, stopPc, retries,
                   stopDuringPoll, pollsAfterStop>>

\* A listener that counts anew with each error.
RetriesForget ==
    /\ pc = "error"
    /\ errorListener = "retrying"
    /\ retries' = 0
    /\ pc' = "while"
    /\ UNCHANGED <<started, behind, settings, stopRequested, stopPc,
                   stopDuringPoll, pollsAfterStop>>

\* The retrying listener counts the error.  With too many it calls stop, from
\* the thread of the loop, where started is set.
ErrorCounted ==
    /\ pc = "error"
    /\ errorListener = "retrying"
    /\ retries' = IF retries > MaxRetries THEN retries ELSE retries + 1
    /\ stopRequested' = (stopRequested \/ (retries' > MaxRetries /\ started))
    /\ pc' = "while"
    /\ UNCHANGED <<started, behind, settings, stopPc, stopDuringPoll, pollsAfterStop>>

\* The default listener raises out of the except clause, and so out of start.
ErrorEscapes ==
    /\ pc = "error"
    /\ errorListener = "default"
    /\ pc' = "out"
    /\ UNCHANGED <<started, behind, settings, stopRequested, stopPc, retries,
                   stopDuringPoll, pollsAfterStop>>

\* A loop that ends without resetting its field.
SetNotStartedForgets ==
    /\ pc = "setNotStarted"
    /\ started' = started
    /\ pc' = "out"
    /\ UNCHANGED <<behind, settings, stopRequested, stopPc, retries, stopDuringPoll,
                   pollsAfterStop>>

SetNotStarted ==
    /\ pc = "setNotStarted"
    /\ started' = FALSE
    /\ pc' = "out"
    /\ UNCHANGED <<behind, settings, stopRequested, stopPc, retries, stopDuringPoll,
                   pollsAfterStop>>

-------------------------------------------------------------------------------
(* stop; a stop that finds started false returns without effect. *)

StopTests(s) ==
    /\ stopPc[s] = "idle"
    /\ started
    /\ stopPc' = [stopPc EXCEPT ![s] = "setStop"]
    /\ UNCHANGED <<loop, settings, stopRequested, retries, stopDuringPoll, pollsAfterStop>>

StopSets(s) ==
    /\ stopPc[s] = "setStop"
    /\ stopRequested' = TRUE
    /\ stopPc' = [stopPc EXCEPT ![s] = "idle"]
    /\ stopDuringPoll' = (stopDuringPoll \/ pc \in {"poll", "inspect"})
    /\ UNCHANGED <<loop, settings, retries, pollsAfterStop>>

-------------------------------------------------------------------------------
\* What start does once it is past its guard.
LoopStep ==
    \/ SetStarted \/ ClearStop
    \/ BeginPoll \/ LeaveLoop \/ PollReturns \/ PollRaises
    \/ InspectReturns \/ CallRaises \/ CheckStop \/ WakeUp
    \/ ErrorHandled \/ ErrorCounted \/ ErrorEscapes \/ SetNotStarted

Next == CheckStarted \/ LoopStep \/ \E s \in Stoppers : StopTests(s) \/ StopSets(s)

Spec == Init /\ [][Next]_vars

\* The thread in start runs on: every call it makes ends, since algod bounds
\* the time status_after_block waits.  A stop that has begun completes.
\* Nobody has to call start or stop.
FairSpec == Spec /\ WF_vars(LoopStep) /\ \A s \in Stoppers : WF_vars(StopSets(s))

-------------------------------------------------------------------------------
(* Properties. *)

Labels == {"out", "setStarted", "clearStop", "while", "poll", "inspect", "checkStop",
           "sleep", "wait", "error", "setNotStarted"}

\* Every variable keeps its type.
TypeOK ==
    /\ started \in BOOLEAN /\ stopRequested \in BOOLEAN
    /\ errorListener \in {"default", "custom", "retrying"} /\ waitForBlockWhenAtTip \in BOOLEAN
    /\ retries \in 0..(MaxRetries + 1)
    /\ pc \in Labels
    /\ behind \in BOOLEAN
    /\ stopPc \in [Stoppers -> {"idle", "setStop"}]
    /\ stopDuringPoll \in BOOLEAN
    /\ pollsAfterStop \in 0..2

\* Past the statement that clears an old request.
InLoop == pc \notin {"out", "setStarted", "clearStop"}

\* Once a stop is requested, at most the poll in progress, or one that the
\* loop's test had already let through, is still carried out, even when that
\* poll fails.
OnePollAfterStop == pollsAfterStop <= 1

\* A stop requested while the poll or inspect ran, as one by an event
\* handler is, ends the loop without a last sleep or wait for a block.
NoIdlingAfterStop == pc \in {"sleep", "wait"} => ~stopDuringPoll

\* With an error listener that returns, the field started tells the truth:
\* it is set exactly while the loop runs, so start works again afterwards
\* and stop is never ignored while there is something to stop.
StartedIsTrue ==
    errorListener # "default" => (started <=> pc \notin {"out", "setStarted"})

\* A stop requested once the loop runs ends it, whatever fails meanwhile.
StopEndsLoop == (InLoop /\ stopRequested) ~> (pc = "out")

\* A loop that is not asked to stop polls again, whatever fails, as long as
\* the error listener returns.
KeepsPolling ==
    (errorListener # "default" /\ InLoop /\ ~stopRequested)
        ~> (pc = "poll" \/ stopRequested)

\* Errors that go on and on end a loop whose listener gives up after some,
\* whatever polls succeed in between and however often start is called again.
GivesUp == errorListener = "retrying" => ([]<>(pc = "error") => []<>(pc = "out"))

-------------------------------------------------------------------------------
(* What the documentation says, and the code does not do. *)

\* docs/src/content/docs/concepts/low-latency.md: a stop at any point in time
\* that finds the subscriber started ends the loop.
StopAtAnyTime == \A s \in Stoppers : (stopPc[s] = "setStop") ~> (pc = "out")

\* The docstring of start, a loop until stop is called: when the loop is not
\* running, start can run it, so started is not left set.
StartedMeansRunning == started => pc # "out"
===============================================================================
