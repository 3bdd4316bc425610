---------------------------- MODULE AccountTable ----------------------------
(***************************************************************************)
(* What the account API promises to its callers: every call takes effect   *)
(* in one indivisible step on one table with unique e-mails, or leaves the *)
(* table alone.  An answer tells which:                                    *)
(*   - "ok" to a write: it took effect, once;                              *)
(*   - "account_not_found": at that moment there was no such account;      *)
(*   - any other error but "internal": nothing happened;                   *)
(*   - "internal": the write may or may not have happened.                 *)
(* Nothing is promised about the account a read returns: reads are cached. *)
(***************************************************************************)
EXTENDS AccountTypes

VARIABLES
  table,   \* table[i] : the account with id i, or NoAccount
  calls,   \* calls[c] : the request c waits for, or NoCall
  answer   \* answer[c] : code of c's last call, "none" while it is pending

vars == <<table, calls, answer>>

Init ==
  /\ table = [i \in Ids |-> NoAccount]
  /\ calls = [c \in Clients |-> NoCall]
  /\ answer = [c \in Clients |-> "none"]

Submit(c, r) ==
  /\ calls[c] = NoCall
  /\ calls' = [calls EXCEPT ![c] = r]
  /\ answer' = [answer EXCEPT ![c] = "none"]
  /\ UNCHANGED table

\* c's call ends with code k.
Answer(c, k) ==
  /\ calls[c] # NoCall
  /\ calls' = [calls EXCEPT ![c] = NoCall]
  /\ answer' = [answer EXCEPT ![c] = k]

\* The effect of write r, where it has one, turns t into u.
Effect(r, t, u) ==
  \/ /\ r.op = "create"
     /\ ~EmailTaken(t, r.email)
     /\ \E i \in Ids : /\ t[i] = NoAccount
                       /\ u = [t EXCEPT ![i] = NewAccount(r)]
  \/ /\ r.op = "update"
     /\ r.id \in Ids
     /\ t[r.id] # NoAccount
     /\ u = [t EXCEPT ![r.id] = Patched(t[r.id], r)]
  \/ /\ r.op = "delete"
     /\ r.id \in Ids
     /\ t[r.id] # NoAccount
     /\ u = [t EXCEPT ![r.id] = NoAccount]

Apply(c) ==
  /\ \E k \in {"ok", "internal"} : Answer(c, k)
  /\ Effect(calls[c], table, table')

Refuse(c, k) ==
  /\ Answer(c, k)
  /\ k = "account_not_found" => calls[c].op # "create" /\ table[calls[c].id] = NoAccount
  /\ k = "account_already_exists" => calls[c].op = "create"
  /\ UNCHANGED table

Serve(c) ==
  /\ Answer(c, "ok")
  /\ calls[c].op = "get"
  /\ UNCHANGED table

Next ==
  \E c \in Clients :
    \/ \E r \in Requests : Submit(c, r)
    \/ Apply(c)
    \/ \E k \in Codes \ {"none", "ok"} : Refuse(c, k)
    \/ Serve(c)

Spec == Init /\ [][Next]_vars
=============================================================================
