------------------------- MODULE BookingRefinement --------------------------
(* The booking system implements SeatAllocation.                           *)
EXTENDS WaitlistWorker

Alloc == INSTANCE SeatAllocation
            WITH MaxSeats <- MaxCapacity,
                 seats <- IF exists THEN capacity ELSE 0,
                 holders <- Confirmed,
                 waiters <- Waiting

\* Every behaviour of API, database, queue and workers is one in which seats
\* are handed out one at a time while there are any: the commits are the only
\* steps that matter, and everything else stutters.  Needs "lower" \notin Env.
AllocatesSeats == Alloc!Spec
=============================================================================
