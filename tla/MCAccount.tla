----------------------------- MODULE MCAccount -----------------------------
(* Small instances of the account service for TLC. *)
EXTENDS AccountProperties, TLC

CONSTANTS c1, c2, c3, i1, i2, A1, a1, bad, n1, n2

\* Two spellings of one address, and one that is not an address.
MCEmails == {A1, a1, bad}
MCValidEmails == {A1, a1}
MCLower == (A1 :> a1) @@ (a1 :> a1) @@ (bad :> bad)

CreateReq(e, n, s) ==
  [op |-> "create", email |-> e, password |-> "ok", name |-> n, status |-> s]
GetReq(i) == [op |-> "get", id |-> i]
UpdateReq(i, n, s) == [op |-> "update", id |-> i, name |-> n, status |-> s]
DeleteReq(i) == [op |-> "delete", id |-> i]

\* Every kind of refusal.
MCBadRequests ==
  {[CreateReq(A1, n1, 0) EXCEPT !.password = w] : w \in {"weak", "long"}}
    \cup {CreateReq(bad, n1, 0), GetReq(NoId), DeleteReq(NoId),
          UpdateReq(NoId, n2, Nil), UpdateReq(i1, n2, 5)}

\* Partial updates of the same row.
MCUpdateRequests ==
  {CreateReq(A1, n1, 1), GetReq(i1), DeleteReq(i1),
   UpdateReq(i1, n2, Nil), UpdateReq(i1, Nil, 3)}

\* One account's life, one refused update, for runs in which everything may fail.
MCLifeRequests ==
  {CreateReq(A1, n1, 1), CreateReq(a1, n2, 0), GetReq(i1), DeleteReq(i1),
   UpdateReq(i1, n2, Nil), UpdateReq(i1, Nil, 3), UpdateReq(i1, n2, 5)}

\* Whatever a client may ask of one account, under either spelling of its e-mail.
MCServedRequests ==
  MCBadRequests
    \cup {CreateReq(a1, n1, 1), CreateReq(A1, n1, 1), GetReq(i1), DeleteReq(i1),
          UpdateReq(i1, n2, Nil)}

ClientSymmetry == Permutations(Clients)
=============================================================================
