------------------------------- MODULE EventLog -------------------------------
(***************************************************************************)
(* What a consumer group promises about one partition, whoever reads it:   *)
(*   - a message is not touched before those in front of it are settled,   *)
(*     that is, handled or logged as failed; it may be handled again;      *)
(*   - the group's offset is only ever set behind a message that has been  *)
(*     handled, all those in front of it being settled.  It may go back.   *)
(* Consumers, assignments and crashes do not occur.                        *)
(***************************************************************************)
EXTENDS Integers

CONSTANTS
  Len,      \* messages, offsets 0 .. Len - 1
  Failing   \* messages whose decoding or handling may fail

VARIABLES
  committed,  \* the offset a new reader would start from
  handled,
  failed

vars == <<committed, handled, failed>>

Offsets == 0..(Len - 1)

Settled == handled \cup failed

Init ==
  /\ committed = 0
  /\ handled = {}
  /\ failed = {}

\* It is the turn of m.
Turn(m) == \A n \in Offsets : n < m => n \in Settled

Handle(m) ==
  /\ Turn(m)
  /\ handled' = handled \cup {m}
  /\ UNCHANGED <<committed, failed>>

Fail(m) ==
  /\ Turn(m)
  /\ m \in Failing
  /\ failed' = failed \cup {m}
  /\ UNCHANGED <<committed, handled>>

Commit(m) ==
  /\ Turn(m)
  /\ m \in handled
  /\ committed' = m + 1
  /\ UNCHANGED <<handled, failed>>

Next == \E m \in Offsets : Handle(m) \/ Fail(m) \/ Commit(m)

Spec == Init /\ [][Next]_vars
=============================================================================
