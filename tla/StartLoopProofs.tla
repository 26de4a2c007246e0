--------------------------- MODULE StartLoopProofs ---------------------------
(***************************************************************************)
(* Proofs of the safety properties of StartLoop, for any set of callers of *)
(* stop.  LoopInv adds to the properties what each statement knows of the  *)
(* request: a cleared request has no poll behind it, a poll begins before  *)
(* the request that may be made during it, and a request made during the   *)
(* poll is still there when start tests it.                                *)
(***************************************************************************)
EXTENDS StartLoop, TLAPS

PollsCounted ==
    /\ pollsAfterStop <= 1
    /\ ~stopRequested => pollsAfterStop = 0
    /\ pc = "poll" => pollsAfterStop = 0

RequestKept ==
    pc \in {"poll", "inspect", "checkStop"} /\ stopDuringPoll => stopRequested

LoopInv == PollsCounted /\ RequestKept /\ NoIdlingAfterStop /\ StartedIsTrue

\* Every variable keeps its type.
THEOREM LoopTypeCorrect == Spec => []TypeOK
<1>1. Init => TypeOK
  <2> SUFFICES ASSUME Init PROVE TypeOK
    OBVIOUS
  <2>1. started \in BOOLEAN /\ stopRequested \in BOOLEAN /\ behind \in BOOLEAN
        /\ stopDuringPoll \in BOOLEAN /\ waitForBlockWhenAtTip \in BOOLEAN
    BY Zenon DEF Init
  <2> QED
    BY <2>1, MaxRetriesAssumption DEF Init, TypeOK, Labels
<1>2. TypeOK /\ [Next]_vars => TypeOK'
  <2> SUFFICES ASSUME TypeOK, [Next]_vars PROVE TypeOK'
    OBVIOUS
  <2> USE DEF TypeOK, Labels, loop, settings
  <2>1. CASE CheckStarted
    BY <2>1 DEF CheckStarted
  <2>2. CASE LoopStep
    <3>1. CASE SetStarted \/ ClearStop \/ SetNotStarted
      <4>1. started' \in BOOLEAN /\ stopRequested' \in BOOLEAN
        BY <3>1, Zenon DEF SetStarted, ClearStop, SetNotStarted
      <4> QED
        BY <3>1, <4>1 DEF SetStarted, ClearStop, SetNotStarted
    <3>2. CASE BeginPoll \/ LeaveLoop \/ InspectReturns
      BY <3>2 DEF BeginPoll, LeaveLoop, InspectReturns
    <3>3. CASE PollReturns
      BY <3>3 DEF PollReturns, CountPoll
    <3>4. CASE PollRaises
      BY <3>4 DEF PollRaises, CountPoll
    <3>5. CASE CallRaises \/ WakeUp \/ CheckStop
      BY <3>5 DEF CallRaises, WakeUp, CheckStop
    <3>6. CASE ErrorHandled \/ ErrorEscapes
      BY <3>6 DEF ErrorHandled, ErrorEscapes
    <3>7. CASE ErrorCounted
      <4>1. stopRequested' \in BOOLEAN
        BY <3>7, Zenon DEF ErrorCounted
      <4>2. retries' \in 0..(MaxRetries + 1)
        BY <3>7, MaxRetriesAssumption DEF ErrorCounted
      <4> QED
        BY <3>7, <4>1, <4>2 DEF ErrorCounted
    <3> QED
      BY <2>2, <3>1, <3>2, <3>3, <3>4, <3>5, <3>6, <3>7 DEF LoopStep
  <2>3. CASE \E s \in Stoppers : StopTests(s) \/ StopSets(s)
    BY <2>3 DEF StopTests, StopSets
  <2>4. CASE UNCHANGED vars
    BY <2>4 DEF vars
  <2> QED
    BY <2>1, <2>2, <2>3, <2>4 DEF Next
<1> QED
  BY <1>1, <1>2, PTL DEF Spec

\* The inductive invariant holds.
THEOREM LoopInvHolds == Spec => []LoopInv
<1>1. Init => LoopInv
  BY DEF Init, LoopInv, PollsCounted, RequestKept, NoIdlingAfterStop, StartedIsTrue
<1>2. TypeOK /\ LoopInv /\ [Next]_vars => LoopInv'
  <2> SUFFICES ASSUME TypeOK, LoopInv, [Next]_vars PROVE LoopInv'
    OBVIOUS
  <2> USE DEF TypeOK, Labels, loop, settings,
              LoopInv, PollsCounted, RequestKept, NoIdlingAfterStop, StartedIsTrue
  <2>1. CASE CheckStarted
    BY <2>1 DEF CheckStarted
  <2>2. CASE LoopStep
    <3>1. CASE SetStarted \/ ClearStop \/ SetNotStarted
      BY <3>1 DEF SetStarted, ClearStop, SetNotStarted
    <3>2. CASE BeginPoll \/ LeaveLoop \/ InspectReturns
      BY <3>2 DEF BeginPoll, LeaveLoop, InspectReturns
    <3>3. CASE PollReturns
      BY <3>3 DEF PollReturns, CountPoll
    <3>4. CASE PollRaises
      BY <3>4 DEF PollRaises, CountPoll
    <3>5. CASE CallRaises \/ WakeUp \/ CheckStop
      BY <3>5 DEF CallRaises, WakeUp, CheckStop
    <3>6. CASE ErrorHandled \/ ErrorEscapes
      BY <3>6 DEF ErrorHandled, ErrorEscapes
    <3>7. CASE ErrorCounted
      BY <3>7 DEF ErrorCounted
    <3> QED
      BY <2>2, <3>1, <3>2, <3>3, <3>4, <3>5, <3>6, <3>7 DEF LoopStep
  <2>3. CASE \E s \in Stoppers : StopTests(s) \/ StopSets(s)
    BY <2>3 DEF StopTests, StopSets
  <2>4. CASE UNCHANGED vars
    BY <2>4 DEF vars
  <2> QED
    BY <2>1, <2>2, <2>3, <2>4 DEF Next
<1> QED
  BY <1>1, <1>2, LoopTypeCorrect, PTL DEF Spec

\* A requested stop is followed by the end of at most one poll.
THEOREM AtMostOnePollAfterStop == Spec => []OnePollAfterStop
<1>1. LoopInv => OnePollAfterStop
  BY DEF LoopInv, PollsCounted, OnePollAfterStop
<1> QED
  BY <1>1, LoopInvHolds, PTL

\* A stop requested by a handler of the poll is not followed by a sleep.
THEOREM NeverIdlesAfterStop == Spec => []NoIdlingAfterStop
<1>1. LoopInv => NoIdlingAfterStop
  BY DEF LoopInv
<1> QED
  BY <1>1, LoopInvHolds, PTL

\* With an error listener that returns, started tells the truth.
THEOREM StartedTellsTruth == Spec => []StartedIsTrue
<1>1. LoopInv => StartedIsTrue
  BY DEF LoopInv
<1> QED
  BY <1>1, LoopInvHolds, PTL
===============================================================================
