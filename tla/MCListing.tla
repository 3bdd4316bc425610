----------------------------- MODULE MCListing -----------------------------
(* Small instances of the account listing for TLC. *)
EXTENDS AccountListing, FiniteSetsExt, TLC

Req(v, s, l, o) == [via |-> v, status |-> s, limit |-> l, offset |-> o]

\* The worker's count (a limit no table reaches), pages of one and two rows,
\* parameters that are missing, malformed, negative or too large for an int32.
MCRequests ==
  {Req("worker", 1, 5, 0)}
    \cup {Req("http", Absent, 1, 0), Req("http", 1, 2, 0)}
    \cup {Req("http", Absent, -1, -1), Req("http", Absent, Garbage, 1),
          Req("http", Absent, 1, 7)}
    \cup {Req("http", Garbage, 1, 0)}
    \cup {Req("grpc", Absent, 3, 0), Req("grpc", Absent, 1, -1), Req("grpc", 2, 1, 1)}

\* What ties do to a walk nobody writes during: the repositories that sort show as many
\* accounts of every creation time as there are.  One is missing only where another one of
\* the same instant is shown instead.
TiesOnlySwap ==
  Walked /\ Ordered /\ since = {} =>
    \A t \in Times :
      LET tied == {i \in Matching : created[i] = t}
      IN  MapThenSumSet(LAMBDA i : seen[i], tied) = Cardinality(tied)

IdSymmetry == Permutations(Ids)
=============================================================================
