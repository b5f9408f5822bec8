--------------------------- MODULE SeatAllocation ---------------------------
(***************************************************************************)
(* What booking an event amounts to, without transactions, retries, queues *)
(* or workers: seats are handed out one at a time, directly or from the    *)
(* waitlist, and given back.                                               *)
(***************************************************************************)
EXTENDS Naturals, FiniteSets

CONSTANTS Users, MaxSeats

VARIABLES
    seats,    \* the event's capacity, 0 once the event is gone
    holders,  \* users with a seat
    waiters   \* users on the waitlist

allocVars == <<seats, holders, waiters>>

Init ==
    /\ seats \in 1..MaxSeats
    /\ holders = {}
    /\ waiters = {}

SeatFree == Cardinality(holders) < seats

Take(u) ==
    /\ SeatFree
    /\ u \notin holders \cup waiters
    /\ holders' = holders \cup {u}
    /\ UNCHANGED <<seats, waiters>>

Wait(u) ==
    /\ seats > 0
    /\ u \notin holders \cup waiters
    /\ waiters' = waiters \cup {u}
    /\ UNCHANGED <<seats, holders>>

Promote(u) ==
    /\ SeatFree
    /\ u \in waiters
    /\ holders' = holders \cup {u}
    /\ waiters' = waiters \ {u}
    /\ UNCHANGED seats

Leave(u) ==
    /\ u \in holders \cup waiters
    /\ holders' = holders \ {u}
    /\ waiters' = waiters \ {u}
    /\ UNCHANGED seats

Grow ==
    /\ seats > 0
    /\ seats' \in (seats + 1)..MaxSeats
    /\ UNCHANGED <<holders, waiters>>

Close ==
    /\ seats > 0
    /\ holders \cup waiters = {}
    /\ seats' = 0
    /\ UNCHANGED <<holders, waiters>>

Next ==
    \/ \E u \in Users : Take(u) \/ Wait(u) \/ Promote(u) \/ Leave(u)
    \/ Grow
    \/ Close

Spec == Init /\ [][Next]_allocVars
=============================================================================
