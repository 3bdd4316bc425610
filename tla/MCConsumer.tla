----------------------------- MODULE MCConsumer -----------------------------
(* Small instances of the event consumer for TLC. *)
EXTENDS EventConsumer, TLC

ConsumerSymmetry == Permutations(Consumers)
=============================================================================
