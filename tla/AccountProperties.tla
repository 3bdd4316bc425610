------------------------- MODULE AccountProperties -------------------------
(* What the account service should guarantee. *)
EXTENDS AccountService

\* No two accounts carry the same e-mail, byte for byte, although the check
\* (ensureEmailFree) and the INSERT are separate steps and the check may be
\* answered by the cache.
UniqueEmail ==
  \A i, j \in Ids :
    /\ rows[i] # NoAccount
    /\ rows[j] # NoAccount
    /\ rows[i].email = rows[j].email
    => i = j
-----------------------------------------------------------------------------
(* The inductive invariant: what open transactions know about the table.   *)
(* RowInv holds whether or not the database has the unique index.          *)

\* Ids in the table or in an open transaction have been drawn.
IdsDrawn ==
  /\ \A i \in Ids : rows[i] # NoAccount => i \in used
  /\ \A p \in Clients : Wrote(p) => pending[p].id \in used

\* Calls and transactions are where their control says.
ControlAt(p) ==
  /\ pc[p] = "idle" <=> req[p] = NoCall
  /\ pc[p] \in {"idle", "abort"} \/ code[p] = "none"
  /\ pc[p] = "abort" => code[p] \notin {"none", "ok"}
  /\ pc[p] \in {"begin", "stmt", "evict", "commit", "abort"} => req[p].op # "get"
  /\ pc[p] = "evict" => req[p].op # "create"
  /\ pc[p] \in {"lookup", "load", "store"} => req[p].op # "delete"
  /\ pc[p] \notin {"idle", "admit"} => req[p].op = "create" \/ req[p].id \in Ids
  /\ pc[p] \notin {"idle", "admit"} /\ req[p].op = "update"
       => req[p].status \in ValidStatus \cup {Nil}

\* When an open transaction has written a row.
WroteAt(p) ==
  /\ Wrote(p) => pc[p] \in {"evict", "commit", "abort", "lookup", "load", "store"}
  /\ pc[p] \in {"evict", "commit"} => Wrote(p)
  /\ pc[p] \in {"lookup", "load", "store"} => (Wrote(p) <=> req[p].op = "update")

ControlOK == \A p \in Clients : ControlAt(p) /\ WroteAt(p)

\* A row an open transaction has written is the effect of its request on the
\* row committed now: nobody has changed that row since, so no update is lost.
EffectAt(p) ==
  LET i == pending[p].id
      a == pending[p].row
  IN  \/ /\ req[p].op = "create"
         /\ a = NewAccount(req[p])
         /\ rows[i] = NoAccount
      \/ /\ req[p].op = "update"
         /\ i = req[p].id
         /\ rows[i] # NoAccount
         /\ a = Patched(rows[i], req[p])
      \/ /\ req[p].op = "delete"
         /\ i = req[p].id
         /\ rows[i] # NoAccount
         /\ a = NoAccount

WriteIsEffect == \A p \in Clients : Wrote(p) => EffectAt(p)

\* Two open transactions have not written the same row.
RowsDisjoint ==
  \A p, q \in Clients : p # q /\ Wrote(p) /\ Wrote(q) => pending[p].id # pending[q].id

\* Redis never gets an account that could be served.
NothingStored == Manager = "redis" => \A k \in Keys : cache[k] = NoAccount

RowInv ==
  /\ TypeOK
  /\ NothingStored
  /\ IdsDrawn
  /\ ControlOK
  /\ WriteIsEffect
  /\ RowsDisjoint

Inserted(p) == Wrote(p) /\ req[p].op = "create"

\* The e-mail of an uncommitted INSERT is free, and nobody else inserts it.
InsertsFree == \A p \in Clients : Inserted(p) => ~EmailTaken(rows, req[p].email)

EmailsDisjoint ==
  \A p, q \in Clients :
    p # q /\ Inserted(p) /\ Inserted(q) => req[p].email # req[q].email

EmailInv ==
  /\ UniqueEmail
  /\ InsertsFree
  /\ EmailsDisjoint

IInv == RowInv /\ EmailInv
-----------------------------------------------------------------------------
(* The service implements the abstract table. *)

\* The calls whose outcome is still open.
OpenCalls ==
  [p \in Clients |-> IF pc[p] \in {"idle", "abort"} THEN NoCall ELSE req[p]]

Abs == INSTANCE AccountTable WITH
  table <- rows, calls <- OpenCalls, answer <- code

\* Whatever the cache serves and however calls overlap, every write takes
\* effect at most once, in one step, as if the calls ran one after another, and
\* "ok" and the definite errors tell the truth about it.
Linearizable == Abs!Spec
-----------------------------------------------------------------------------
(* The cache. *)

Quiet == \A p \in Clients : pc[p] = "idle"

\* The entry of account i, if there is one, is the row.
IdCoherent(i) == cache[IdKey(i)] \in {NoAccount, rows[i]}

\* An e-mail entry stands for some account with that e-mail, up to case.
EmailCoherent(e) ==
  cache[EmailKey(e)] # NoAccount =>
    \E i \in Ids : rows[i] # NoAccount /\ Lower[rows[i].email] = Lower[e]

\* "Cache failures never break a write": once a transaction has written its row, neither
\* the cache nor any other call can make it roll back.  It commits unless the re-read of
\* an update fails in the database.
CacheNeverBreaksWrite ==
  [][\A p \in Clients :
       Wrote(p) /\ pc[p] # "abort" /\ pc'[p] = "abort" => pc[p] = "load" /\ "db" \in Faults]_vars

\* Behind Redis, which takes no account, what is left is this: nothing undoes a delete,
\* whose eviction may fail, nor a create, whose look-up is over when it writes.  Only an
\* update can be undone once it has written, and only while it reads its row back.
OnlyRereadBreaksWrite ==
  [][\A p \in Clients :
       Wrote(p) /\ pc[p] # "abort" /\ pc'[p] = "abort" =>
         req[p].op = "update" /\ pc[p] \in {"lookup", "load", "store"}]_vars

\* Everything any process, transaction or cache entry holds as account i.
Copies(i) ==
  ({rows[i], cache[IdKey(i)]}
     \cup {pending[p].row : p \in {q \in Clients : pending[q].id = i}}
     \cup {acct[p] : p \in {q \in Clients : /\ pc[q] # "idle"
                                          /\ req[q].op \in {"get", "update"}
                                          /\ req[q].id = i}})
  \ {NoAccount}

\* However stale they are, and whatever has been deleted and created again meanwhile,
\* all copies of an account are of one and the same person: a Get or an Update never
\* answers with somebody else's account.  An e-mail key never holds another address.
CopiesAgree ==
  /\ \A i \in Ids : \A a, b \in Copies(i) : a.email = b.email
  /\ \A e \in Emails :
       cache[EmailKey(e)] # NoAccount => Lower[cache[EmailKey(e)].email] = Lower[e]

\* The rest of its inductive invariant: no copy exists before the id is drawn, a
\* create has loaded an account with its e-mail, and no call leaves an account behind.
CopiesKnown ==
  /\ \A i \in Ids \ used : Copies(i) = {}
  /\ \A p \in Clients :
       /\ pc[p] = "idle" => acct[p] = NoAccount
       /\ pc[p] # "idle" /\ req[p].op = "create" /\ acct[p] # NoAccount =>
            acct[p].email = req[p].email
-----------------------------------------------------------------------------
(* What the transports rely on. *)

Transport == INSTANCE AccountTransport

BadStatus(r) == r.op = "update" /\ r.status \notin ValidStatus \cup {Nil}

\* The codes the transports expect for r.  "plain" errors arrive as "internal", and so
\* does the end of a call that is cut off.
AnswersTo(r) ==
  LET flaw == IF BadStatus(r) THEN "status" ELSE "none"
  IN  {"internal"} \cup
        {IF e = "ok" THEN e ELSE Transport!FromError(e) :
           e \in Transport!Outcomes([op |-> r.op, flaw |-> flaw])}

\* The use case answers a request the transports let through (none comes without its
\* id) only with what the transports expect of its operation, whatever overlaps and
\* fails: what ProcessLifecycle assumes of AccountService.
OutcomesListed ==
  [][\A p \in Clients :
       /\ pc[p] # "idle" /\ pc'[p] = "idle"
       /\ req[p].op = "create" \/ req[p].id # NoId
       => code'[p] \in AnswersTo(req[p])]_vars
-----------------------------------------------------------------------------
(* Progress. *)

\* Every call is answered, although calls wait for connections and row locks
\* while they hold others.
EveryCallAnswered == \A p \in Clients : pc[p] # "idle" ~> pc[p] = "idle"

Writing(p) == pc[p] # "idle" /\ req[p].op # "get"

\* Once no more writes run, the cache agrees with the table in the end: what
\* invalidation misses, expiry repairs, and readers do not bring it back.
CacheConverges ==
  <>[](\A p \in Clients : ~Writing(p)) =>
    <>[]((\A i \in Ids : IdCoherent(i)) /\ (\A e \in Emails : EmailCoherent(e)))
=============================================================================
