-------------------------- MODULE MCRegistryCache --------------------------
(* Small instances of RegistryCache for TLC.                               *)
EXTENDS RegistryCache, TLC

CONSTANTS a1, a2, b1, b2, v0, v1, v2

MCSymmetry == Permutations(Apps) \cup Permutations(Adopters)
=============================================================================
