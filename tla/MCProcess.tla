----------------------------- MODULE MCProcess -----------------------------
(* Small instances of the process lifecycle for TLC. *)
EXTENDS ProcessBoot, TLC

CallSymmetry == Permutations(Calls)
=============================================================================
