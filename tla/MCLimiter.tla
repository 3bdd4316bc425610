----------------------------- MODULE MCLimiter -----------------------------
(* A small instance of the rate limiter for TLC: two spellings of one e-mail *)
(* and another e-mail, an action with a policy and one without.              *)
EXTENDS RateLimiter

MCEmails == {"alice", "Alice", "bob"}
MCLower == [e \in MCEmails |-> IF e = "Alice" THEN "alice" ELSE e]
MCDefaults ==
  [a \in {"create_account"} |-> [rate |-> 2, period |-> 4, burst |-> 2]]
=============================================================================
