------------------------------ MODULE EventEmitter ------------------------------
(***************************************************************************)
(* The EventEmitter of a subscriber, with the calls that AlgorandSubscriber *)
(* makes on it.  An emission iterates over the live list of its event, so  *)
(* the listeners it calls may register, remove and emit meanwhile: the     *)
(* emissions in progress form a stack of frames, and user code runs when   *)
(* no emission is in progress or inside the listener that the last frame   *)
(* called.  An exception ends the emission it is raised in and goes to the *)
(* caller of that emission, which handles it or raises in its turn.        *)
(***************************************************************************)
EXTENDS Naturals, Sequences, SequencesExt

CONSTANTS
    Events,         \* the events of filters, batches and polls
    Handlers,       \* the listeners that user code registers
    Default,        \* AlgorandSubscriber.default_error_handler
    MaxListeners,   \* bound on the registrations of one event
    MaxDepth        \* bound on the emissions in progress

ErrorEvent == "error"

ASSUME NamesAssumption == ErrorEvent \notin Events /\ Default \notin Handlers
ASSUME LimitsAssumption == MaxListeners \in Nat /\ MaxDepth \in Nat

VARIABLES
    listeners,  \* _listeners: from the events that have a list to their lists
    oneTime,    \* _one_time_listeners, likewise
    stack,      \* the emissions in progress
    asked       \* for the properties: what on_error was called with, in order

vars == <<listeners, oneTime, stack, asked>>

\* event, index, listener and calling are the state of one call of emit.  For
\* the properties, before is the list the emission found, called the calls it
\* made and disturbed whether its list lost an entry since.
Frame == [event : Events \cup {ErrorEvent}, index : Nat,
          listener : Handlers \cup {Default}, calling : BOOLEAN,
          before : Seq(Handlers \cup {Default}), called : Seq(Handlers \cup {Default}),
          disturbed : BOOLEAN]

Init ==
    /\ listeners = [e \in {ErrorEvent} |-> <<Default>>]
    /\ oneTime = [e \in {} |-> <<>>]
    /\ stack = <<>>
    /\ asked = <<>>

-------------------------------------------------------------------------------
(* The lists. *)

Get(lists, e) == IF e \in DOMAIN lists THEN lists[e] ELSE <<>>

With(lists, e, h) ==
    [x \in DOMAIN lists \cup {e} |-> IF x = e THEN Append(Get(lists, e), h) ELSE lists[x]]

Without(lists, e, h) ==
    IF e \in DOMAIN lists THEN [lists EXCEPT ![e] = RemoveFirst(@, h)] ELSE lists

\* list.remove raises ValueError.
CannotRemove(lists, e, h) == e \in DOMAIN lists /\ ~Contains(lists[e], h)

Disturb(frames, e) ==
    [i \in DOMAIN frames |->
        IF frames[i].event = e THEN [frames[i] EXCEPT !.disturbed = TRUE] ELSE frames[i]]

\* A remove_listener that leaves the one-time list alone.
RemoveOnlyListener(e, h) ==
    /\ listeners' = Without(listeners, e, h)
    /\ UNCHANGED oneTime

\* remove_listener: where the first removal raises nothing changes, where the
\* second one raises the first has been done.
RemoveListener(e, h) ==
    /\ listeners' = Without(listeners, e, h)
    /\ oneTime' = IF CannotRemove(listeners, e, h) THEN oneTime ELSE Without(oneTime, e, h)

-------------------------------------------------------------------------------
(* What user code may call.  An exception it gets and does not handle is   *)
(* the step ListenerRaises.                                                *)

UserCode == stack # <<>> => Last(stack).calling /\ Last(stack).listener # Default

Room(e) == Len(Get(listeners, e)) < MaxListeners

\* on, on_batch, on_poll and on_before_poll; AlgorandSubscriber.on refuses
\* the name of the error event.
On(e, h) ==
    /\ UserCode /\ Room(e)
    /\ listeners' = With(listeners, e, h)
    /\ UNCHANGED <<oneTime, stack, asked>>

\* A once that stores the listener in the one-time list only.
OnceForgetsOn(e, h) ==
    /\ UserCode /\ Room(e)
    /\ oneTime' = With(oneTime, e, h)
    /\ UNCHANGED <<listeners, stack, asked>>

Once(e, h) ==
    /\ UserCode /\ Room(e)
    /\ oneTime' = With(oneTime, e, h)
    /\ listeners' = With(listeners, e, h)
    /\ UNCHANGED <<stack, asked>>

Off(e, h) ==
    /\ UserCode
    /\ RemoveListener(e, h)
    /\ stack' = IF CannotRemove(listeners, e, h) THEN stack ELSE Disturb(stack, e)
    /\ UNCHANGED asked

\* An on_error that adds to the listeners of the user once the default one is
\* gone.
OnErrorAdds(h) ==
    /\ UserCode /\ Len(asked) < MaxListeners
    /\ asked' = Append(asked, h)
    /\ listeners' = With(Without(listeners, ErrorEvent, Default), ErrorEvent, h)
    /\ stack' = Disturb(stack, ErrorEvent)
    /\ UNCHANGED oneTime

\* AlgorandSubscriber.on_error removes the default listener first, and raises
\* ValueError before it registers anything when there is none.
OnError(h) ==
    /\ UserCode /\ Len(asked) < MaxListeners
    /\ asked' = Append(asked, h)
    /\ IF CannotRemove(listeners, ErrorEvent, Default)
       THEN UNCHANGED <<listeners, stack>>
       ELSE /\ listeners' = With(Without(listeners, ErrorEvent, Default), ErrorEvent, h)
            /\ stack' = Disturb(stack, ErrorEvent)
    /\ UNCHANGED oneTime

\* The call of emit; one for an event without a list returns at once.
Emit(e) ==
    /\ UserCode
    /\ e \in DOMAIN listeners
    /\ Len(stack) < MaxDepth
    /\ stack' = Append(stack, [event |-> e, index |-> 0, listener |-> Default,
                              calling |-> FALSE, before |-> listeners[e],
                              called |-> <<>>, disturbed |-> FALSE])
    /\ UNCHANGED <<listeners, oneTime, asked>>

-------------------------------------------------------------------------------
(* The loop of the last emission. *)

Iterating == stack # <<>> /\ ~Last(stack).calling
Calling == stack # <<>> /\ Last(stack).calling

\* An iteration that does not go beyond the length of the list it found.
ExhaustedAtOldLength(f) == f.index >= Len(listeners[f.event]) \/ f.index >= Len(f.before)

\* The iteration ends where its index is past the list as it is now.
Exhausted(f) == f.index >= Len(listeners[f.event])

CallListener ==
    /\ Iterating /\ ~Exhausted(Last(stack))
    /\ LET f == Last(stack)
           h == listeners[f.event][f.index + 1]
       IN  stack' = Append(Front(stack),
               [f EXCEPT !.index = @ + 1, !.listener = h, !.calling = TRUE,
                         !.called = Append(@, h)])
    /\ UNCHANGED <<listeners, oneTime, asked>>

\* The listener returns, for an event that never had a one-time listener.
ListenerReturns ==
    /\ Calling /\ Last(stack).listener # Default
    /\ Last(stack).event \notin DOMAIN oneTime
    /\ stack' = Append(Front(stack), [Last(stack) EXCEPT !.calling = FALSE])
    /\ UNCHANGED <<listeners, oneTime, asked>>

\* For an event that ever had one the emission removes the listener it
\* called, whether it is a one-time listener or not.
RemoveCalled ==
    LET f == Last(stack)
        raises == CannotRemove(listeners, f.event, f.listener)
                      \/ CannotRemove(oneTime, f.event, f.listener)
        rest == IF raises THEN Front(stack)
                ELSE Append(Front(stack), [f EXCEPT !.calling = FALSE])
    IN  /\ Calling /\ f.listener # Default
        /\ f.event \in DOMAIN oneTime
        /\ RemoveListener(f.event, f.listener)
        /\ stack' = IF CannotRemove(listeners, f.event, f.listener) THEN rest
                    ELSE Disturb(rest, f.event)
        /\ UNCHANGED asked

ListenerRaises ==
    /\ Calling
    /\ stack' = Front(stack)
    /\ UNCHANGED <<listeners, oneTime, asked>>

EmitReturns ==
    /\ Iterating /\ Exhausted(Last(stack))
    /\ stack' = Front(stack)
    /\ UNCHANGED <<listeners, oneTime, asked>>

-------------------------------------------------------------------------------
Next ==
    \/ \E e \in Events, h \in Handlers : On(e, h) \/ Once(e, h) \/ Off(e, h)
    \/ \E h \in Handlers : OnError(h)
    \/ \E e \in Events \cup {ErrorEvent} : Emit(e)
    \/ CallListener \/ ListenerReturns \/ RemoveCalled \/ ListenerRaises \/ EmitReturns

Spec == Init /\ [][Next]_vars

-------------------------------------------------------------------------------
(* Properties. *)

Lists == Seq(Handlers \cup {Default})

\* Every variable keeps its type; an event with one-time listeners has a list
\* of listeners too, which emit relies on when it removes from both.
TypeOK ==
    /\ DOMAIN listeners \subseteq Events \cup {ErrorEvent}
    /\ \A e \in DOMAIN listeners : listeners[e] \in Lists
    /\ DOMAIN oneTime \subseteq DOMAIN listeners
    /\ \A e \in DOMAIN oneTime : oneTime[e] \in Lists
    /\ stack \in Seq(Frame)
    /\ asked \in Seq(Handlers)

Times(s, h) == Cardinality({i \in DOMAIN s : s[i] = h})

\* Each one-time registration has a registration of its own among the
\* listeners, through every nesting, removal and exception: a removal never
\* takes the one without the other.
OneTimeIsRegistered ==
    \A e \in DOMAIN oneTime : \A h \in Handlers :
        Times(oneTime[e], h) <= Times(listeners[e], h)

\* An emission that returns has called, in order and once per registration,
\* every listener of its event, those registered while it ran included,
\* unless something was removed from the list meanwhile.
EmitsInOrder ==
    Iterating /\ Exhausted(Last(stack)) /\ ~Last(stack).disturbed =>
        /\ Last(stack).called = listeners[Last(stack).event]
        /\ IsPrefix(Last(stack).before, listeners[Last(stack).event])

\* An error is always heard, and by one listener: by the default one, which
\* raises it, until on_error is first called, and from then on by the listener
\* of that call alone.  Every later call, from wherever, raises before it
\* registers or removes anything.
ErrorHeard == listeners[ErrorEvent] = <<IF asked = <<>> THEN Default ELSE asked[1]>>

-------------------------------------------------------------------------------
(* What the documentation says, and the code does not do. *)

\* The docstring of emit: an emission that returns has called all listeners
\* that were registered for its event when it began.
EmitsToAll ==
    Iterating /\ Exhausted(Last(stack)) =>
        \A i \in DOMAIN Last(stack).before : Contains(Last(stack).called, Last(stack).before[i])
===============================================================================
