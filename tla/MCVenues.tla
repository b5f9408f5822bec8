------------------------------- MODULE MCVenues -------------------------------
(* Names for the model-checking run of the venues: one with a capital.      *)
EXTENDS Venues

MCNames == {"hall", "Hall", "park"}
MCLower == [n \in MCNames |-> IF n = "Hall" THEN "hall" ELSE n]
=============================================================================
