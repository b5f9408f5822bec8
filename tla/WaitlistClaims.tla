--------------------------- MODULE WaitlistClaims ---------------------------
(***************************************************************************)
(* What comments and documents of the repository say of bookings and the   *)
(* waitlist, stated as properties.  TLC refutes each of them: PROJECT.json *)
(* quotes the line and the README tells the counterexample.                *)
(***************************************************************************)
EXTENDS WaitlistWorker

\* "the capacity check above is inside the Serializable transaction"
\* (bookings/service.ts:67): when a transaction of createBooking sets out to
\* confirm, its snapshot holds a free seat.
CapacityCheckedInTransaction ==
    [][\A r \in Requests :
         (~IsOpen(r) /\ tx'[r] # NoTx /\ tx'[r].to = "CONFIRMED")
            => countConfirmed < capacity]_vars

\* "enqueued from cancelBooking whenever a CONFIRMED booking is cancelled"
\* (PR_BODY.md:51): the step that cancels a confirmed booking leaves its
\* request on the way to addWaitlistPromotion.
CancelledSeatIsOffered ==
    [][\A u \in Confirmed :
         booking'[u] = "CANCELLED"
            => \E r \in Requests :
                  req[r].pc = "cancel" /\ req[r].user = u
                  /\ req'[r].pc = "enqueue"]_vars
=============================================================================
