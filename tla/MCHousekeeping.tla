--------------------------- MODULE MCHousekeeping ---------------------------
(* Small instances of the scheduled job for TLC. *)
EXTENDS HousekeepingLock, TLC

WorkerSymmetry == Permutations(Replicas) \cup Permutations(Tokens)
TokenSymmetry == Permutations(Tokens)
=============================================================================
