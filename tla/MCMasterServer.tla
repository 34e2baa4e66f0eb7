--------------------------- MODULE MCMasterServer ---------------------------
(* Small instances of MasterServer for TLC. *)
EXTENDS MasterServiceProofs, TLC

\* The connections are interchangeable.
ClientSymmetry == Permutations(Clients)

=============================================================================
