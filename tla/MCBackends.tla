----------------------------- MODULE MCBackends -----------------------------
(* Small instances of the account service over its backends. *)
EXTENDS AccountBackends, MCAccount
=============================================================================
