------------------------ MODULE MCReputationService ------------------------
(* Small instances of ReputationService for TLC. *)
EXTENDS ReputationService, TLC

CONSTANTS local, vendor
MCProviders == <<local, vendor>>

Symmetry == Permutations(Lookup)

=============================================================================
