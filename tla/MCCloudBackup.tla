--------------------------- MODULE MCCloudBackup ---------------------------
(* Instances of CloudBackup for TLC. *)
EXTENDS CloudBackup, TLC

\* Destinations, payloads and requests are interchangeable.
Symmetry == Permutations(Dests) \cup Permutations(Payloads) \cup Permutations(Requests)
=============================================================================
