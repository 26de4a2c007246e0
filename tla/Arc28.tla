--------------------------------- MODULE Arc28 ---------------------------------
(***************************************************************************)
(* ARC-28 events: the definitions of a subscriber, the filter on the       *)
(* events of a transaction and the events taken from its logs.             *)
(*                                                                         *)
(* A definition is an event [name, signature]; the prefix of a log is the  *)
(* signature of the event that wrote it, and the log is decodable or not.  *)
(* A group is [name, events, apps, senders, continueOnError]: it is for    *)
(* the apps listed, if any are, and its predicate on transactions, if it   *)
(* has one, is a set of senders.                                           *)
(***************************************************************************)
EXTENDS Transactions, FiniteSetsExt

Arc28Event(name, signature) == [name |-> name, signature |-> signature]

\* An undecodable log is an error by default.
Arc28EventGroup(name, events) ==
    [name |-> name, events |-> events, apps |-> {}, senders |-> <<>>, continueOnError |-> FALSE]

\* Filters name an event by its group.
Arc28EventFilter(groupName, eventName) == <<groupName, eventName>>

\* _create_arc28_group_filter.
GroupApplies(group, t) ==
    /\ group.apps # {} => TxnAppId(t) \in group.apps
    /\ Given(group.senders) => t.sender \in group.senders[1]

\* The group whose conditions stand for all groups of its name is the last one.
GroupNamed(groups, name) == groups[Max({i \in DOMAIN groups : groups[i].name = name})]

\* Groups of one name that it does not matter which of them stands for all.
SameConditions(groups) ==
    \A g, h \in Range(groups) :
        g.name = h.name => g.apps = h.apps /\ g.senders = h.senders

\* A filter that forgets the conditions of the groups.
EventsMatchAnywhere(groups, wanted, t) ==
    \E group \in Range(groups) : \E event \in Range(group.events) : \E log \in Range(t.logs) :
        <<group.name, event.name>> \in wanted /\ log.prefix = event.signature

\* _create_arc28_filter: some log has the prefix of an event that is wanted,
\* of a group that applies to the transaction.
EventsMatch(groups, wanted, t) ==
    \E group \in Range(groups) : \E event \in Range(group.events) : \E log \in Range(t.logs) :
        /\ <<group.name, event.name>> \in wanted
        /\ GroupApplies(GroupNamed(groups, group.name), t)
        /\ log.prefix = event.signature

-------------------------------------------------------------------------------
(* The extraction. *)

\* The definitions that a log is to be decoded with, group by group.
Candidates(groups, t, log) ==
    Joined([g \in DOMAIN groups |->
        IF ~GroupApplies(groups[g], t) THEN <<>>
        ELSE LET all == groups[g].events
                 events == Selected(all, {e \in DOMAIN all : log.prefix = all[e].signature})
             IN  [e \in DOMAIN events |->
                     [group |-> groups[g].name, event |-> events[e].name, log |-> log,
                      strict |-> ~groups[g].continueOnError]]])

Attempts(groups, t) ==
    Joined([l \in DOMAIN t.logs |-> Candidates(groups, t, t.logs[l])])

\* A log that cannot be decoded raises, unless its group goes on after errors.
Undecodable(groups, t) ==
    \E attempt \in Range(Attempts(groups, t)) : attempt.strict /\ ~attempt.log.decodable

\* What a decoded log is reported as.
EmittedArc28Event(attempt) == [group |-> attempt.group, event |-> attempt.event]

\* _extract_arc28_events, when it does not raise.
EventsOf(groups, t) ==
    LET attempts == Attempts(groups, t)
        decoded == Selected(attempts, {k \in DOMAIN attempts : attempts[k].log.decodable})
    IN  [k \in DOMAIN decoded |-> EmittedArc28Event(decoded[k])]
===============================================================================
