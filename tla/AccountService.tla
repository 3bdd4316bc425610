--------------------------- MODULE AccountService ---------------------------
(***************************************************************************)
(* The account use case over the cached GORM repository.                   *)
(*                                                                         *)
(* Each client is one API call at a time.  A call is cut where it talks to *)
(* something shared: the connection pool, PostgreSQL (READ COMMITTED, row  *)
(* locks, a unique index on email) and the cache, which transactions do    *)
(* not cover.  Between two such steps any other call may run.              *)
(*                                                                         *)
(*   create : admit begin lookup load [store] stmt commit                  *)
(*   get    : admit       lookup load [store]                              *)
(*   update : admit begin stmt evict lookup load store commit              *)
(*   delete : admit begin stmt evict commit                                *)
(***************************************************************************)
EXTENDS AccountTypes, FiniteSets

CONSTANTS
  MaxOpenConns,  \* POSTGRES_MAX_OPEN_CONNS
  Migrate,       \* POSTGRES_MIGRATE: migrations run when the process starts
  Manager,       \* the cache manager: "redis", as wired, or "memory"
  Faults         \* which failures may happen, see FaultKinds

\* cache_get, cache_delete: Redis returns an error to a Get or a Delete; db: a
\* statement or BEGIN fails; commit: COMMIT fails; limiter: the limiter fails;
\* cancel: the call's context ends, or its process dies.
FaultKinds == {"cache_get", "cache_delete", "db", "commit", "limiter", "cancel"}

\* RunMigrations takes a connection from the pool that serves the calls and
\* never closes the migration, which gives none back.
MaxConns == IF Migrate THEN MaxOpenConns - 1 ELSE MaxOpenConns

ASSUME ServiceAssumption ==
  /\ MaxOpenConns \in Nat \ {0}
  /\ Migrate \in BOOLEAN
  /\ Manager \in {"redis", "memory"}
  /\ Faults \subseteq FaultKinds
  /\ Manager = "memory" => Faults \cap {"cache_get", "cache_delete"} = {}

VARIABLES
  rows,     \* rows[i] : committed row with id i, or NoAccount
  used,     \* ids handed out so far: a uuid is never drawn twice
  pending,  \* pending[p] : row written by p's open transaction
  cache,    \* cache[k] : account cached under key k, or NoAccount
  pc,       \* pc[p] : what p does next
  req,      \* req[p] : the request p executes, or NoCall
  acct,     \* acct[p] : account p has loaded, or NoAccount
  code      \* code[p] : answer to p's last call, "none" while it runs

vars == <<rows, used, pending, cache, pc, req, acct, code>>

NoWrite == [id |-> NoId, row |-> NoAccount]
Write == [id : Ids \cup {NoId}, row : Account \cup {NoAccount}]

IdKey(i) == <<"id", i>>
EmailKey(e) == <<"email", Lower[e]>>
Keys == ({"id"} \X Ids) \cup ({"email"} \X Emails)

Steps == {"idle", "admit", "begin", "lookup", "load", "store", "stmt",
          "evict", "commit", "abort"}

TypeOK ==
  /\ rows \in [Ids -> Account \cup {NoAccount}]
  /\ used \subseteq Ids
  /\ pending \in [Clients -> Write]
  /\ cache \in [Keys -> Account \cup {NoAccount}]
  /\ pc \in [Clients -> Steps]
  /\ req \in [Clients -> Requests \cup {NoCall}]
  /\ acct \in [Clients -> Account \cup {NoAccount}]
  /\ code \in [Clients -> Codes]

Init ==
  /\ rows = [i \in Ids |-> NoAccount]
  /\ used = {}
  /\ pending = [p \in Clients |-> NoWrite]
  /\ cache = [k \in Keys |-> NoAccount]
  /\ pc = [p \in Clients |-> "idle"]
  /\ req = [p \in Clients |-> NoCall]
  /\ acct = [p \in Clients |-> NoAccount]
  /\ code = [p \in Clients |-> "none"]
-----------------------------------------------------------------------------
\* p holds a connection: its call is between BEGIN and the end of WithTx.
InTx(p) ==
  \/ pc[p] \in {"stmt", "evict", "commit", "abort"}
  \/ pc[p] \in {"lookup", "load", "store"} /\ req[p].op # "get"

FreeConn == Cardinality({p \in Clients : InTx(p)}) < MaxConns

\* p's transaction has written, and locked, a row.
Wrote(p) == pending[p].id # NoId

\* The table as p's transaction reads it: its own write, else what is committed.
View(p) ==
  IF Wrote(p) THEN [rows EXCEPT ![pending[p].id] = pending[p].row] ELSE rows

Go(p, step) == pc' = [pc EXCEPT ![p] = step]

\* The call returns code k; the connection, if p has one, is released.
Leave(p, k) ==
  /\ Go(p, "idle")
  /\ code' = [code EXCEPT ![p] = k]
  /\ req' = [req EXCEPT ![p] = NoCall]
  /\ acct' = [acct EXCEPT ![p] = NoAccount]
  /\ pending' = [pending EXCEPT ![p] = NoWrite]

\* The function given to WithTx returns error k: the transaction rolls back.
Abort(p, k) ==
  /\ Go(p, "abort")
  /\ code' = [code EXCEPT ![p] = k]
  /\ UNCHANGED <<req, acct, pending>>

\* A read returns error k, inside a transaction or outside.
Fail(p, k) ==
  \/ InTx(p) /\ Abort(p, k)
  \/ ~InTx(p) /\ Leave(p, k)
-----------------------------------------------------------------------------
(* Entry of the use case. *)

CreateVerdict(r) ==
  CASE r.email \notin ValidEmails -> "invalid_email"
    [] r.email \in ValidEmails /\ r.password = "weak" -> "weak_password"
    [] r.email \in ValidEmails /\ r.password = "long" -> "internal"
    [] OTHER -> "proceed"

\* Mutant: Update takes any status.
AnyStatusVerdict(r) == IF r.id = NoId THEN "invalid_request" ELSE "proceed"

UpdateVerdict(r) ==
  CASE r.id = NoId -> "invalid_request"
    [] r.id # NoId /\ r.status \notin ValidStatus \cup {Nil} -> "invalid_status"
    [] OTHER -> "proceed"

IdVerdict(r) == IF r.id = NoId THEN "invalid_request" ELSE "proceed"

\* What the checks before the first repository call may decide.  The limiter
\* comes first; here it may refuse any call.
Verdicts(r) ==
  CASE r.op = "create" ->
         {CreateVerdict(r), "too_many_requests"}
           \cup (IF "limiter" \in Faults THEN {"internal"} ELSE {})
    [] r.op = "update" -> {UpdateVerdict(r)}
    [] OTHER -> {IdVerdict(r)}

\* Bound: a create starts only while an unused id is left for it.
IdsLeft ==
  Cardinality(used)
    + Cardinality({q \in Clients : pc[q] # "idle" /\ req[q].op = "create"
                                     /\ ~Wrote(q)})
  < Cardinality(Ids)

Start(p, r) ==
  /\ pc[p] = "idle"
  /\ r.op = "create" => IdsLeft
  /\ Go(p, "admit")
  /\ req' = [req EXCEPT ![p] = r]
  /\ code' = [code EXCEPT ![p] = "none"]
  /\ UNCHANGED <<rows, used, pending, cache, acct>>

Admit(p) ==
  /\ pc[p] = "admit"
  /\ \E v \in Verdicts(req[p]) :
       \/ /\ v = "proceed"
          /\ Go(p, IF req[p].op = "get" THEN "lookup" ELSE "begin")
          /\ UNCHANGED <<pending, req, acct, code>>
       \/ v # "proceed" /\ Leave(p, v)
  /\ UNCHANGED <<rows, used, cache>>

\* WithTx takes a connection for the length of the transaction.
Begin(p) ==
  /\ pc[p] = "begin"
  /\ FreeConn
  /\ Go(p, IF req[p].op = "create" THEN "lookup" ELSE "stmt")
  /\ UNCHANGED <<rows, used, pending, cache, req, acct, code>>

BeginFails(p) ==
  /\ "db" \in Faults
  /\ pc[p] = "begin"
  /\ Leave(p, "internal")
  /\ UNCHANGED <<rows, used, cache>>
-----------------------------------------------------------------------------
(* GetOnce: create looks up its e-mail, get and update their id. *)

\* E-mail keys fold case; the rows they stand for do not.
KeyOf(r) == IF r.op = "create" THEN EmailKey(r.email) ELSE IdKey(r.id)

\* What the caller of GetByID or GetByEmail does with account a.
Found(p, a) ==
  \/ req[p].op = "create" /\ Abort(p, "account_already_exists")
  \/ req[p].op = "get" /\ Leave(p, "ok")
  \/ /\ req[p].op = "update"
     /\ Go(p, "commit")
     /\ acct' = [acct EXCEPT ![p] = a]
     /\ UNCHANGED <<pending, req, code>>

NotFound(p) ==
  \/ /\ req[p].op = "create"
     /\ Go(p, "stmt")
     /\ UNCHANGED <<pending, req, acct, code>>
  \/ req[p].op # "create" /\ Fail(p, "account_not_found")

\* A Get of Redis answers with a string; that it is no *domain.Account is no error,
\* the typed cache then answers nil.
Decoded(v) == IF Manager = "memory" THEN v ELSE NoAccount

\* A failed Get counts as a miss.
Lookup(p) ==
  /\ pc[p] = "lookup"
  /\ \/ LET a == cache[KeyOf(req[p])]
        IN  a # NoAccount /\ Found(p, Decoded(a))
     \/ /\ cache[KeyOf(req[p])] = NoAccount \/ "cache_get" \in Faults
        /\ Go(p, "load")
        /\ UNCHANGED <<pending, req, acct, code>>
  /\ UNCHANGED <<rows, used, cache>>

\* Mutant: the repository asks the pool for a connection inside a transaction.
LoadReadyIgnoresTx(p) == FreeConn

\* A read runs on the transaction's connection, if the context carries one.
LoadReady(p) == InTx(p) \/ FreeConn

Matches(p) ==
  {i \in Ids :
     /\ View(p)[i] # NoAccount
     /\ IF req[p].op = "create" THEN View(p)[i].email = req[p].email
                                ELSE i = req[p].id}

Load(p) ==
  /\ pc[p] = "load"
  /\ LoadReady(p)
  /\ \/ \E i \in Matches(p) :
          /\ acct' = [acct EXCEPT ![p] = View(p)[i]]
          /\ Go(p, "store")
          /\ UNCHANGED <<pending, req, code>>
     \/ Matches(p) = {} /\ NotFound(p)
  /\ UNCHANGED <<rows, used, cache>>

LoadFails(p) ==
  /\ "db" \in Faults
  /\ pc[p] = "load"
  /\ Fail(p, "internal")
  /\ UNCHANGED <<rows, used, cache>>

\* Mutant: the in-process store is filled by Add, which refuses a key that is there.
StoreByAdd(p) ==
  /\ pc[p] = "store"
  /\ LET k == KeyOf(req[p])
     IN  IF cache[k] = NoAccount THEN cache' = [cache EXCEPT ![k] = acct[p]] /\ Found(p, acct[p])
                                 ELSE UNCHANGED cache /\ Fail(p, "internal")
  /\ UNCHANGED <<rows, used>>

\* The in-process store keeps the pointer.  The Redis client refuses to encode a
\* *domain.Account, which is no BinaryMarshaler: SET is never sent, and the failed Set
\* fails the read.
Store(p) ==
  /\ pc[p] = "store"
  /\ \/ /\ Manager = "memory"
        /\ cache' = [cache EXCEPT ![KeyOf(req[p])] = acct[p]]
        /\ Found(p, acct[p])
     \/ /\ Manager = "redis"
        /\ UNCHANGED cache
        /\ Fail(p, "internal")
  /\ UNCHANGED <<rows, used>>

\* Mutant: entries are stored without an expiration.
NeverExpires(k) == FALSE

\* An entry lives accountCacheTTL.
Expire(k) ==
  /\ cache[k] # NoAccount
  /\ cache' = [cache EXCEPT ![k] = NoAccount]
  /\ UNCHANGED <<rows, used, pending, pc, req, acct, code>>
-----------------------------------------------------------------------------
(* Writes.  A statement waits while another open transaction holds the row *)
(* it needs: the row with its id or, for an INSERT, one with its e-mail.   *)

\* A row that is inserted but not committed is invisible to other transactions:
\* statements on its id do not wait for it.
HoldsId(q, i) == rows[i] # NoAccount /\ pending[q].id = i

HoldsEmail(q, e) ==
  /\ Wrote(q)
  /\ \E a \in {pending[q].row, rows[pending[q].id]} :
       a # NoAccount /\ a.email = e

Blocked(p) ==
  \E q \in Clients \ {p} :
    IF req[p].op = "create" THEN HoldsEmail(q, req[p].email)
                            ELSE HoldsId(q, req[p].id)

\* Mutant: the email column carries no unique constraint.
NoUniqueIndex(p) == FALSE

UniqueViolation(p) == EmailTaken(rows, req[p].email)

\* Mutant: the id of a deleted row is given out again.
InsertFreeRow(p) ==
  /\ \E i \in Ids :
       /\ rows[i] = NoAccount
       /\ used' = used \cup {i}
       /\ pending' = [pending EXCEPT ![p] = [id |-> i, row |-> NewAccount(req[p])]]
  /\ Go(p, "commit")
  /\ UNCHANGED <<req, acct, code>>

\* The new row carries an id never used before.
InsertRow(p) ==
  /\ \E i \in Ids \ used :
       /\ used' = used \cup {i}
       /\ pending' = [pending EXCEPT ![p] = [id |-> i, row |-> NewAccount(req[p])]]
  /\ Go(p, "commit")
  /\ UNCHANGED <<req, acct, code>>

Insert(p) ==
  /\ req[p].op = "create"
  /\ \/ UniqueViolation(p) /\ Abort(p, "account_already_exists") /\ UNCHANGED used
     \/ ~UniqueViolation(p) /\ InsertRow(p)

\* Mutant: the count of affected rows is not looked at.
WriteAnyRow(p, i, a, step) ==
  /\ pending' =
       [pending EXCEPT ![p] = [id |-> i, row |-> IF rows[i] = NoAccount THEN rows[i] ELSE a]]
  /\ Go(p, step)
  /\ UNCHANGED <<req, acct, code>>

\* Row i becomes row a inside p's transaction; no such row is an error.
WriteRow(p, i, a, step) ==
  \/ rows[i] = NoAccount /\ Abort(p, "account_not_found")
  \/ /\ rows[i] # NoAccount
     /\ pending' = [pending EXCEPT ![p] = [id |-> i, row |-> a]]
     /\ Go(p, step)
     /\ UNCHANGED <<req, acct, code>>

UpdateRow(p) ==
  /\ req[p].op = "update"
  /\ WriteRow(p, req[p].id, Patched(rows[req[p].id], req[p]), "evict")
  /\ UNCHANGED used

DeleteRow(p) ==
  /\ req[p].op = "delete"
  /\ WriteRow(p, req[p].id, NoAccount, "evict")
  /\ UNCHANGED used

Statement(p) ==
  /\ pc[p] = "stmt"
  /\ ~Blocked(p)
  /\ Insert(p) \/ UpdateRow(p) \/ DeleteRow(p)
  /\ UNCHANGED <<rows, cache>>

StatementFails(p) ==
  /\ "db" \in Faults
  /\ pc[p] = "stmt"
  /\ Abort(p, "internal")
  /\ UNCHANGED <<rows, used, cache>>

\* Update reads the account back before COMMIT.
AfterWrite(p) == IF req[p].op = "update" THEN "lookup" ELSE "commit"

\* Mutant: the decorator forgets to evict the id entry.
EvictNothing(p) == UNCHANGED cache

\* Only the id entry is evicted, never the e-mail entry; a failed eviction is
\* swallowed, whether or not the entry is gone.
EvictId(p) ==
  \/ cache' = [cache EXCEPT ![IdKey(req[p].id)] = NoAccount]
  \/ "cache_delete" \in Faults /\ UNCHANGED cache

\* Mutant: the error of the eviction becomes the error of the write.
EvictOrFail(p) ==
  /\ pc[p] = "evict"
  /\ \/ /\ cache' = [cache EXCEPT ![IdKey(req[p].id)] = NoAccount]
        /\ Go(p, AfterWrite(p))
        /\ UNCHANGED <<pending, req, acct, code>>
     \/ /\ "cache_delete" \in Faults
        /\ UNCHANGED cache
        /\ Abort(p, "internal")
  /\ UNCHANGED <<rows, used>>

\* The repository evicts right after the statement: before COMMIT.
Evict(p) ==
  /\ pc[p] = "evict"
  /\ EvictId(p)
  /\ Go(p, AfterWrite(p))
  /\ UNCHANGED <<rows, used, pending, req, acct, code>>

Commit(p) ==
  /\ pc[p] = "commit"
  /\ rows' = View(p)
  /\ Leave(p, "ok")
  /\ UNCHANGED <<used, cache>>

\* The error of a COMMIT does not tell whether it took effect.
CommitFails(p) ==
  /\ "commit" \in Faults
  /\ pc[p] = "commit"
  /\ rows' \in {rows, View(p)}
  /\ Leave(p, "internal")
  /\ UNCHANGED <<used, cache>>

Rollback(p) ==
  /\ pc[p] = "abort"
  /\ Leave(p, code[p])
  /\ UNCHANGED <<rows, used, cache>>

\* The caller's context ends, or the process dies: the database rolls back and
\* the cache keeps what it has.
Cancel(p) ==
  /\ "cancel" \in Faults
  /\ pc[p] \notin {"idle", "abort"}
  /\ Leave(p, "internal")
  /\ UNCHANGED <<rows, used, cache>>
-----------------------------------------------------------------------------
Step(p) ==
  \/ Admit(p) \/ Begin(p) \/ Lookup(p) \/ Load(p) \/ Store(p)
  \/ Statement(p) \/ Evict(p) \/ Commit(p) \/ Rollback(p)

Failure(p) ==
  \/ BeginFails(p) \/ LoadFails(p) \/ StatementFails(p) \/ CommitFails(p)
  \/ Cancel(p)

Next ==
  \/ \E p \in Clients, r \in Requests : Start(p, r)
  \/ \E p \in Clients : Step(p) \/ Failure(p)
  \/ \E k \in Keys : Expire(k)

Spec == Init /\ [][Next]_vars

\* Running code is scheduled; neither the pool nor PostgreSQL's lock queue passes a
\* waiter over for ever, so a wait that can end again and again does end; entries
\* expire.  Nothing makes a client start a call.
Fairness ==
  /\ \A p \in Clients : SF_vars(Step(p))
  /\ \A k \in Keys : WF_vars(Expire(k))

FairSpec == Spec /\ Fairness
=============================================================================
