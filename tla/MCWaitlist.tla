----------------------------- MODULE MCWaitlist -----------------------------
(* Symmetry for the model-checking runs of bookings and the waitlist.      *)
EXTENDS WaitlistClaims, BookingRefinement, TLC

Symmetry == Permutations(Users) \cup Permutations(Requests)
            \cup Permutations(Workers) \cup Permutations(Jobs)
=============================================================================
