------------------------------ MODULE AtLeastOnce ------------------------------
(***************************************************************************)
(* What a subscriber promises its user, without saying how: transactions   *)
(* reach the listeners of the names they match, and the acknowledged round *)
(* (the persisted watermark) only ever stands where everything up to it    *)
(* was seen.  Seeing a transaction again is a stuttering step here:        *)
(* delivery is at least once.                                              *)
(***************************************************************************)
EXTENDS Naturals

CONSTANTS
    Txns, RoundOf,  \* the transactions of the chain, and the round of each
    WantedBy,       \* for each name, the transactions its listeners are to see
    InitialRound    \* the round the subscriber starts after

VARIABLES
    acked,    \* the acknowledged round
    seen,     \* for each name, the transactions its listeners have seen
    forgone,  \* the rounds given up on purpose
    jumps     \* may rounds be given up at all?

vars == <<acked, seen, forgone, jumps>>

\* Everything wanted up to round r was seen or given up.
Covered(r, view, given) ==
    \A n \in DOMAIN WantedBy : \A t \in WantedBy[n] :
        RoundOf[t] <= r /\ RoundOf[t] \notin given => t \in view[n]

Init ==
    /\ acked = InitialRound
    /\ seen = [n \in DOMAIN WantedBy |-> {}]
    /\ forgone = 1..InitialRound
    /\ jumps \in BOOLEAN

\* A listener sees a transaction it wants; where no round may be given up, it
\* has seen those of all earlier rounds before.
See(n, t) ==
    /\ t \in WantedBy[n]
    /\ ~jumps => \A u \in WantedBy[n] :
                    InitialRound < RoundOf[u] /\ RoundOf[u] < RoundOf[t] => u \in seen[n]
    /\ seen' = [seen EXCEPT ![n] = @ \cup {t}]
    /\ UNCHANGED <<acked, forgone, jumps>>

Acknowledge ==
    /\ acked' \in Nat
    /\ Covered(acked', seen, forgone')
    /\ forgone \subseteq forgone'
    /\ ~jumps => forgone' = forgone
    /\ UNCHANGED <<seen, jumps>>

Next == Acknowledge \/ \E n \in DOMAIN WantedBy : \E t \in Txns : See(n, t)

Spec == Init /\ [][Next]_vars
===============================================================================
