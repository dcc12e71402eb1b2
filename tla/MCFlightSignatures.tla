------------------------ MODULE MCFlightSignatures ------------------------
(* Instances of FlightSignatures for TLC. *)
EXTENDS FlightSignatures, TLC

Symmetry == Permutations(Sigs) \cup Permutations(Contents) \cup Permutations(Requests)
=============================================================================
