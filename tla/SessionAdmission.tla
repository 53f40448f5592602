--------------------------- MODULE SessionAdmission ---------------------------
(***************************************************************************)
(* Abstract specification of what each Connection promises about its      *)
(* sessions: each channel-open request is decided once, admitted while    *)
(* fewer than limit sessions of that connection are active (any number    *)
(* when limit <= 0), and rejected at once, never queued, only when limit  *)
(* of them are active.  Connections do not share sessions or slots.  The  *)
(* limit is configured once, before any connection.                       *)
(***************************************************************************)
EXTENDS Integers, FiniteSets

CONSTANTS Conns, Channels, Limits

VARIABLES
    limit,      \* the configured limit, one of Limits, never changing
                \* the others are functions of the connection:
    requested,  \* channel-open requests not yet decided
    active,     \* channels whose session holds a slot
    finished    \* channels admitted or rejected before, now over

Bounded == limit > 0

Init ==
    /\ limit \in Limits
    /\ requested = [c \in Conns |-> {}]
    /\ active = [c \in Conns |-> {}]
    /\ finished = [c \in Conns |-> {}]

Request(c, ch) ==
    /\ ch \notin requested[c] \cup active[c] \cup finished[c]
    /\ requested' = [requested EXCEPT ![c] = @ \cup {ch}]
    /\ UNCHANGED <<active, finished>>

Admit(c, ch) ==
    /\ ch \in requested[c]
    /\ Bounded => Cardinality(active[c]) < limit
    /\ requested' = [requested EXCEPT ![c] = @ \ {ch}]
    /\ active' = [active EXCEPT ![c] = @ \cup {ch}]
    /\ UNCHANGED finished

Reject(c, ch) ==
    /\ ch \in requested[c]
    /\ Bounded /\ Cardinality(active[c]) = limit
    /\ requested' = [requested EXCEPT ![c] = @ \ {ch}]
    /\ finished' = [finished EXCEPT ![c] = @ \cup {ch}]
    /\ UNCHANGED active

End(c, ch) ==
    /\ ch \in active[c]
    /\ active' = [active EXCEPT ![c] = @ \ {ch}]
    /\ finished' = [finished EXCEPT ![c] = @ \cup {ch}]
    /\ UNCHANGED requested

Next == \E c \in Conns, ch \in Channels :
            Request(c, ch) \/ Admit(c, ch) \/ Reject(c, ch) \/ End(c, ch)

Spec == Init /\ [][Next /\ UNCHANGED limit]_<<limit, requested, active, finished>>
=============================================================================
