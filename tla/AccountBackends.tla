-------------------------- MODULE AccountBackends --------------------------
(***************************************************************************)
(* The account use case over each repository the composition root can      *)
(* wire (internal/apps/provider.go, StorageModule): only that module       *)
(* changes, the use case stays.  The GORM repository is behind the cache;  *)
(* the other two are used as they are, without it:                         *)
(*                                                                         *)
(*   gorm    : AccountService                                              *)
(*   sqlc    : PostgreSQL through pgx and the generated queries            *)
(*   mongo   : MongoDB; nothing calls EnsureIndexes, so e-mail has no      *)
(*             unique index                                                *)
(*   indexed : MongoDB after EnsureIndexes has run once                    *)
(*                                                                         *)
(*   create  : admit begin lookup stmt commit                              *)
(*   get     : admit       lookup                                          *)
(*   update  : admit begin stmt lookup commit                              *)
(*   delete  : admit begin stmt commit                                     *)
(***************************************************************************)
EXTENDS AccountProperties

CONSTANT Backends  \* the wirings to choose from

ASSUME BackendsAssumption == Backends \subseteq {"gorm", "sqlc", "mongo", "indexed"}

VARIABLES
  backend,    \* the wiring of this process, chosen when it is built
  overlapped  \* history: two calls have been in progress at the same time

bvars == <<vars, backend, overlapped>>

BInit ==
  /\ Init
  /\ backend \in Backends
  /\ overlapped = FALSE
-----------------------------------------------------------------------------
(* Reads: one query, mapped to the account or to "not found".              *)

\* Mutant: the e-mail filter names a field no document has.
SelectedById(p) ==
  IF req[p].op = "create" THEN {} ELSE {View(p)[i] : i \in Matches(p)}

\* The rows of SELECT ... WHERE id = $1, or WHERE email = $1.
Selected(p) == {View(p)[i] : i \in Matches(p)}

FindOne(p) ==
  /\ pc[p] = "lookup"
  /\ \/ \E a \in Selected(p) : Found(p, a)
     \/ Selected(p) = {} /\ NotFound(p)
  /\ UNCHANGED <<rows, used, cache>>

\* Conn(ctx): the transaction in the context, else a connection of the pool.
SqlcRead(p) == LoadReady(p) /\ FindOne(p)

ReadFails(p) ==
  /\ "db" \in Faults
  /\ pc[p] = "lookup"
  /\ Fail(p, "internal")
  /\ UNCHANGED <<rows, used, cache>>
-----------------------------------------------------------------------------
(* Writes through the generated queries.                                   *)

mapWriteErr(sqlstate) ==
  IF sqlstate = "23505" THEN "account_already_exists" ELSE "internal"

SqlcCreate(p) ==
  /\ req[p].op = "create"
  /\ \/ UniqueViolation(p) /\ Abort(p, mapWriteErr("23505")) /\ UNCHANGED used
     \/ ~UniqueViolation(p) /\ InsertRow(p)

\* A parameter that is NULL leaves its column alone.
Coalesce(v, column) == IF v = Nil THEN column ELSE v

\* Mutant: the statement without COALESCE.
UpdateAllColumns(a, r) == [a EXCEPT !.name = r.name, !.status = r.status]

UpdateAccount(a, r) ==
  [a EXCEPT !.name = Coalesce(r.name, @), !.status = Coalesce(r.status, @)]

SqlcUpdate(p) ==
  /\ req[p].op = "update"
  /\ WriteRow(p, req[p].id, UpdateAccount(rows[req[p].id], req[p]), AfterWrite(p))
  /\ UNCHANGED used

SqlcDelete(p) ==
  /\ req[p].op = "delete"
  /\ WriteRow(p, req[p].id, NoAccount, AfterWrite(p))
  /\ UNCHANGED used

SqlcStatement(p) ==
  /\ pc[p] = "stmt"
  /\ ~Blocked(p)
  /\ SqlcCreate(p) \/ SqlcUpdate(p) \/ SqlcDelete(p)
  /\ UNCHANGED <<rows, cache>>
-----------------------------------------------------------------------------
(* Writes to MongoDB.  A transaction that meets the uncommitted write of   *)
(* another one does not wait: its statement fails with a write conflict,   *)
(* which the repository, and the transaction manager, do not retry.        *)

DuplicateKey(p) == backend = "indexed" /\ EmailTaken(rows, req[p].email)

WriteConflict(p) ==
  \E q \in Clients \ {p} :
    IF req[p].op = "create"
    THEN backend = "indexed" /\ ~DuplicateKey(p) /\ HoldsEmail(q, req[p].email)
    ELSE HoldsId(q, req[p].id)

\* The transaction reads a snapshot taken before the e-mail was stored, or another one
\* has changed or deleted the document since: the server reports the duplicate as such,
\* or as a write conflict.
MongoCreate(p) ==
  /\ req[p].op = "create"
  /\ \/ DuplicateKey(p) /\ Abort(p, "account_already_exists") /\ UNCHANGED used
     \/ DuplicateKey(p) /\ Abort(p, "internal") /\ UNCHANGED used
     \/ ~DuplicateKey(p) /\ InsertRow(p)

\* $set names the given fields and leaves the rest of the document alone.
UpdateOne(a, r) ==
  LET set == {f \in {"name", "status"} : r[f] # Nil}
  IN  [f \in DOMAIN a |-> IF f \in set THEN r[f] ELSE a[f]]

\* A matched or deleted count of zero means there is no such account.
MongoUpdate(p) ==
  /\ req[p].op = "update"
  /\ LET a == rows[req[p].id]
     IN  WriteRow(p, req[p].id, IF a = NoAccount THEN a ELSE UpdateOne(a, req[p]),
                  AfterWrite(p))
  /\ UNCHANGED used

MongoDelete(p) ==
  /\ req[p].op = "delete"
  /\ WriteRow(p, req[p].id, NoAccount, AfterWrite(p))
  /\ UNCHANGED used

\* Mutant: every write error of the server counts as a duplicate.
MongoAnyErrorIsDuplicate(p) ==
  /\ pc[p] = "stmt"
  /\ \/ WriteConflict(p) /\ Abort(p, "account_already_exists") /\ UNCHANGED used
     \/ ~WriteConflict(p) /\ (MongoCreate(p) \/ MongoUpdate(p) \/ MongoDelete(p))
  /\ UNCHANGED <<rows, cache>>

MongoStatement(p) ==
  /\ pc[p] = "stmt"
  /\ \/ WriteConflict(p) /\ Abort(p, "internal") /\ UNCHANGED used
     \/ ~WriteConflict(p) /\ (MongoCreate(p) \/ MongoUpdate(p) \/ MongoDelete(p))
  /\ UNCHANGED <<rows, cache>>

\* A session: no connection is held between two commands.
MongoBegin(p) ==
  /\ pc[p] = "begin"
  /\ Go(p, IF req[p].op = "create" THEN "lookup" ELSE "stmt")
  /\ UNCHANGED <<rows, used, pending, cache, req, acct, code>>
-----------------------------------------------------------------------------
SqlcStep(p) == Begin(p) \/ SqlcRead(p) \/ SqlcStatement(p)

MongoStep(p) == MongoBegin(p) \/ FindOne(p) \/ MongoStatement(p)

UncachedStep(p) ==
  \/ backend = "sqlc" /\ SqlcStep(p)
  \/ backend \in {"mongo", "indexed"} /\ MongoStep(p)
  \/ Admit(p) \/ Commit(p) \/ Rollback(p)
  \/ BeginFails(p) \/ ReadFails(p) \/ StatementFails(p) \/ CommitFails(p) \/ Cancel(p)

UncachedNext ==
  \E p \in Clients : (\E r \in Requests : Start(p, r)) \/ UncachedStep(p)

Overlapping == \E p, q \in Clients : p # q /\ pc[p] # "idle" /\ pc[q] # "idle"

BNext ==
  /\ \/ backend = "gorm" /\ Next
     \/ backend # "gorm" /\ UncachedNext
  /\ overlapped' = (overlapped \/ Overlapping')
  /\ UNCHANGED backend

BSpec == BInit /\ [][BNext]_bvars
-----------------------------------------------------------------------------
\* On every backend an open transaction has written the effect of its request on
\* the committed row, and where the e-mail has a unique index e-mails are unique:
\* waiting for a row (PostgreSQL) and failing on it (MongoDB) protect the same
\* facts.
BackendInv == RowInv /\ (backend # "mongo" => EmailInv)

\* A create whose e-mail has been stored since it looked becomes visible.
StoresDuplicate(p) ==
  /\ backend = "mongo"
  /\ pc[p] = "commit"
  /\ req[p].op = "create"
  /\ EmailTaken(rows, req[p].email)
  /\ rows' = View(p)

\* Swapping the backend keeps the core's promise: on each of them every write
\* takes effect at most once, in one step, and answers tell the truth.  The only
\* exception is an e-mail stored twice where the index is missing.
BackendsImplementTable ==
  [][[Abs!Next \/ \E p \in Clients : StoresDuplicate(p)]_(Abs!vars)]_bvars

\* Without overlapping calls the look-up before the insert is enough: e-mails
\* are unique also where no index guards them.
SerialUnique == ~overlapped => UniqueEmail

\* Without overlapping calls, eviction before COMMIT is enough: between calls no
\* cached id entry differs from its row, unless a COMMIT fails or a call is cut off.
SerialIdCoherent ==
  ~overlapped /\ Quiet /\ Faults \cap {"commit", "cancel"} = {}
    => \A i \in Ids : IdCoherent(i)

\* Update answers with the refreshed account, the row it commits: always where it
\* reads the row itself, and behind the in-process cache as long as calls do not
\* overlap.  (Behind Redis it never answers "ok".)
UpdateReturnsRefreshed ==
  [][\A p \in Clients :
       /\ backend = "gorm" => ~overlapped
       /\ pc[p] = "commit" /\ req[p].op = "update" /\ code'[p] = "ok"
       => acct[p] = rows'[req[p].id]]_bvars

\* Behind the in-process cache Get answers with the account as it is committed, never
\* with a deleted one, as long as calls do not overlap, no COMMIT fails and no call is
\* cut off.  (Behind Redis a Get never answers "ok".)
GetServesCommitted ==
  [][\A p \in Clients :
       /\ ~overlapped /\ Faults \cap {"commit", "cancel"} = {}
       /\ backend = "gorm" /\ pc[p] \in {"lookup", "store"}
       /\ req[p].op = "get" /\ code'[p] = "ok"
       => rows[req[p].id] = IF pc[p] = "store" THEN acct[p] ELSE cache[KeyOf(req[p])]]_bvars

\* Where no cache answers (Redis never does), Create says "already exists" only when an
\* account with that e-mail exists, byte for byte: not because of an insert that may still
\* roll back, nor of a conflict over something else.
UncachedExistsJustified ==
  [][\A p \in Clients :
       /\ backend # "gorm" \/ Manager = "redis"
       /\ pc[p] # "abort"
       /\ code'[p] = "account_already_exists" /\ code[p] # "account_already_exists"
       => EmailTaken(rows, req[p].email)]_bvars
-----------------------------------------------------------------------------
(* Where stale entries come from. *)

\* Neither the cache nor a Get on its way there holds account i as anything but its row.
FreshId(i) ==
  /\ IdCoherent(i)
  /\ \A p \in Clients :
       pc[p] = "store" /\ req[p].op = "get" /\ req[p].id = i => acct[p] \in {NoAccount, rows[i]}

\* If the cache has an e-mail, or a Create is about to put it there, some account has it,
\* up to case.
FreshEmail(e) ==
  \/ cache[EmailKey(e)] # NoAccount
  \/ \E p \in Clients :
       pc[p] = "store" /\ req[p].op = "create" /\ Lower[req[p].email] = Lower[e]
  => \E i \in Ids : rows[i] # NoAccount /\ Lower[rows[i].email] = Lower[e]

Running(p, ops) == pc[p] # "idle" /\ req[p].op \in ops

\* Entries become stale by a write to their account, or by the deletion of one, only: once
\* fresh they stay so until the next Update or Delete, whatever else runs or fails.
\* What CacheConverges needs besides time.
FreshnessLasts ==
  [][/\ \A i \in Ids :
          /\ FreshId(i)
          /\ \A p \in Clients : Running(p, {"update", "delete"}) => req[p].id # i
          => FreshId(i)'
     /\ \A e \in Emails :
          FreshEmail(e) /\ (\A p \in Clients : ~Running(p, {"delete"})) => FreshEmail(e)']_bvars
-----------------------------------------------------------------------------
(* Waiting.  Only the backends on PostgreSQL make calls wait. *)

Pooled == backend \in {"gorm", "sqlc"}

ReadAt == IF backend = "gorm" THEN "load" ELSE "lookup"

WaitsForConn(p) ==
  /\ Pooled
  /\ ~FreeConn
  /\ pc[p] = "begin" \/ (pc[p] = ReadAt /\ ~LoadReady(p))

WaitsForRow(p) == Pooled /\ pc[p] = "stmt" /\ Blocked(p)

Waits(p) == WaitsForConn(p) \/ WaitsForRow(p)

\* No two calls wait for each other: who holds a row or an e-mail others need waits for
\* nothing, not even for a connection to read its row back; and while anybody waits,
\* somebody who holds a connection does not.  It takes a pool that is not empty.
NoCircularWait ==
  /\ \A p \in Clients : Wrote(p) => ~Waits(p)
  /\ MaxConns > 0 /\ (\E p \in Clients : Waits(p)) => \E q \in Clients : InTx(q) /\ ~Waits(q)

\* How far a call is from its answer at most; an INSERT is a create's last step but COMMIT.
Distance == [admit |-> 10, begin |-> 9, stmt |-> 8, evict |-> 7, lookup |-> 6, load |-> 5,
             store |-> 4, commit |-> 2, abort |-> 1, idle |-> 0]

StepsLeft(p) == IF pc[p] = "stmt" /\ req[p].op = "create" THEN 3 ELSE Distance[pc[p]]

\* Nothing is retried: whatever fails or conflicts, each step of a call brings it nearer to
\* its answer.  So only waiting can keep a call from it.
CallsGoForward ==
  [][\A p \in Clients :
       pc[p] # "idle" => UNCHANGED <<pc[p], req[p], pending[p], acct[p], code[p]>>
                           \/ StepsLeft(p)' < StepsLeft(p)]_bvars
=============================================================================
