---------------------------- MODULE SerialProofs ----------------------------
(* Proofs of what holds as long as calls do not overlap, and of what Update *)
(* answers.                                                                 *)
EXTENDS BackendProofs

USE TypesAssumption, ServiceAssumption
-----------------------------------------------------------------------------
(* Calls that do not overlap.                                              *)

\* A create that is about to insert has seen that its e-mail is free.
LookedFree == \A p \in Clients :
  pc[p] = "stmt" /\ req[p].op = "create" => ~EmailTaken(rows, req[p].email)

SerialEmails == backend = "mongo" /\ ~overlapped => EmailInv /\ LookedFree

Alone == ~overlapped => ~Overlapping

\* What the update in progress knows of its row.
RefreshedAt(p) ==
  /\ pc[p] \in {"lookup", "load", "store", "commit"} /\ req[p].op = "update"
  /\ backend = "gorm" => ~overlapped
  => /\ pc[p] \in {"store", "commit"} => acct[p] = pending[p].row
     /\ pc[p] # "commit" /\ backend = "gorm" => cache[IdKey(req[p].id)] = NoAccount

Refreshed == \A p \in Clients : RefreshedAt(p)

FreshAt(t) == \A i \in Ids : cache[IdKey(i)] \in {NoAccount, t[i]}

\* Between a write and its COMMIT only the writer's row may differ.
SerialCache ==
  Faults \cap {"commit", "cancel"} = {} /\ ~overlapped =>
    /\ (\A p \in Clients : pc[p] # "commit") => FreshAt(rows)
    /\ \A p \in Clients : pc[p] = "commit" => FreshAt(View(p))
    /\ \A p \in Clients : pc[p] = "store" /\ req[p].op = "get" /\ backend = "gorm"
                            => acct[p] = rows[req[p].id]
    /\ backend # "gorm" => \A i \in Ids : cache[IdKey(i)] = NoAccount

SInv == BackendInv /\ Alone /\ SerialEmails /\ Refreshed /\ SerialCache
-----------------------------------------------------------------------------
(* Who acts.                                                               *)

Others(q) == \A p \in Clients \ {q} :
  /\ pc'[p] = pc[p] /\ req'[p] = req[p] /\ code'[p] = code[p]
  /\ acct'[p] = acct[p] /\ pending'[p] = pending[p]

\* A step of q's call on the wired service, and on another backend.
CachedAct(q) == pc[q] # "idle" /\ backend = "gorm" /\ (Step(q) \/ Failure(q))
UncachedAct(q) == pc[q] # "idle" /\ backend # "gorm" /\ UncachedStep(q)

LEMMA ActorFrame ==
  ASSUME TypeOK, NEW q \in Clients, Step(q) \/ Failure(q) \/ NewStep(q)
  PROVE  Others(q) /\ pc[q] # "idle"
<1>. USE DEF TypeOK, Go, Leave, Abort, Fail, Found, NotFound, Others
<1>1. CASE Admit(q) \/ Begin(q) \/ BeginFails(q) \/ Cancel(q) \/ MongoBegin(q)
  BY <1>1 DEF Admit, Begin, BeginFails, Cancel, MongoBegin
<1>2. CASE Lookup(q) \/ Store(q) \/ FindOne(q) \/ ReadFails(q)
  BY <1>2 DEF Lookup, Store, FindOne, ReadFails
<1>3. CASE Load(q) \/ LoadFails(q)
  BY <1>3 DEF Load, LoadFails
<1>4. CASE Statement(q) \/ StatementFails(q)
  BY <1>4 DEF Statement, StatementFails, Insert, InsertRow, UpdateRow, DeleteRow, WriteRow
<1>5. CASE StatementDone(q)
  BY <1>5 DEF StatementDone, Refuses, Creates, InsertRow, Changes, Overwrites, Writes
<1>6. CASE Evict(q) \/ Commit(q) \/ CommitFails(q) \/ Rollback(q)
  BY <1>6 DEF Evict, Commit, CommitFails, Rollback
<1>. QED BY <1>1, <1>2, <1>3, <1>4, <1>5, <1>6 DEF Step, Failure, NewStep

LEMMA UncachedActs ==
  ASSUME RowInv, NEW q \in Clients, UncachedStep(q), backend # "gorm"
  PROVE  \/ NewStep(q)
         \/ Begin(q) \/ Admit(q) \/ Commit(q) \/ Rollback(q)
         \/ BeginFails(q) \/ StatementFails(q) \/ CommitFails(q) \/ Cancel(q)
BY SqlcDone, MongoDone
DEF UncachedStep, SqlcStep, MongoStep, SqlcRead, NewStep

LEMMA Actors ==
  ASSUME RowInv, BNext
  PROVE  \/ \E k \in Keys : Expire(k) /\ backend = "gorm"
         \/ \E q \in Clients, r \in Requests : Start(q, r) /\ Others(q)
         \/ \E q \in Clients : Others(q) /\ (CachedAct(q) \/ UncachedAct(q))
<1>1. ASSUME NEW q \in Clients, NEW r \in Requests, Start(q, r)
      PROVE  Others(q)
  BY <1>1 DEF Start, Go, Others, RowInv, TypeOK
<1>2. ASSUME NEW q \in Clients, Step(q) \/ Failure(q), backend = "gorm"
      PROVE  Others(q) /\ CachedAct(q)
  BY <1>2, ActorFrame DEF CachedAct, RowInv
<1>3. ASSUME NEW q \in Clients, UncachedStep(q), backend # "gorm"
      PROVE  Others(q) /\ UncachedAct(q)
  BY <1>3, UncachedActs, ActorFrame DEF UncachedAct, RowInv, Step, Failure
<1>. QED BY <1>1, <1>2, <1>3 DEF BNext, Next, UncachedNext

\* As long as calls do not overlap, whoever acts is alone.
LEMMA ActsAlone ==
  ASSUME Alone, ~overlapped', BNext, NEW q \in Clients, NEW p \in Clients \ {q},
         pc[q] # "idle" \/ pc'[q] # "idle", Others(q)
  PROVE  pc[p] = "idle" /\ pc'[p] = "idle" /\ ~overlapped
BY DEF Alone, Overlapping, BNext, Others

LEMMA NextAlone == Alone /\ [BNext]_bvars => Alone'
BY DEF Alone, Overlapping, BNext, bvars, vars
-----------------------------------------------------------------------------
(* E-mails without an index. *)

\* MongoDB: a step of q's call that leaves it before its INSERT.
LEMMA BeforeInsert ==
  ASSUME RowInv, backend = "mongo", NEW q \in Clients, UncachedAct(q),
         pc'[q] = "stmt", req'[q] # NoCall, req'[q].op = "create"
  PROVE  rows' = rows /\ ~EmailTaken(rows', req'[q].email)
<1>. USE DEF RowInv, TypeOK, UncachedAct
<1>1. CASE FindOne(q)
  <2>1. Selected(q) = {} /\ NotFound(q) /\ req[q].op = "create" /\ req' = req
    BY <1>1 DEF FindOne, Found, NotFound, Go, Leave, Abort, Fail
  <2>2. View(q) = rows
    BY <1>1, <2>1 DEF FindOne, View, ControlOK, WroteAt
  <2>. QED BY <1>1, <2>1, <2>2 DEF FindOne, Selected, Matches, EmailTaken
<1>2. CASE ~FindOne(q)
  <2>1. \/ ReadFails(q) \/ MongoBegin(q) \/ MongoStatement(q) \/ Admit(q) \/ Commit(q)
        \/ Rollback(q) \/ BeginFails(q) \/ StatementFails(q) \/ CommitFails(q) \/ Cancel(q)
    BY <1>2 DEF UncachedStep, MongoStep
  <2>2. CASE MongoStatement(q)
    BY <2>2, MongoDone
    DEF StatementDone, Refuses, Creates, InsertRow, Changes, AfterWrite, Go, Abort
  <2>3. CASE MongoBegin(q) \/ Admit(q)
    BY <2>3 DEF MongoBegin, Admit, Go, Leave
  <2>4. CASE ReadFails(q) \/ Commit(q) \/ Rollback(q) \/ BeginFails(q)
    BY <2>4 DEF ReadFails, Commit, Rollback, BeginFails, Fail, Go, Leave, Abort
  <2>5. CASE StatementFails(q) \/ CommitFails(q) \/ Cancel(q)
    BY <2>5 DEF StatementFails, CommitFails, Cancel, Go, Leave, Abort
  <2>. QED BY <2>1, <2>2, <2>3, <2>4, <2>5
<1>. QED BY <1>1, <1>2

LEMMA NextLookedFree ==
  ASSUME RowInv, Alone, LookedFree, BNext, ~overlapped', backend = "mongo"
  PROVE  LookedFree'
<1>. SUFFICES ASSUME NEW p \in Clients, pc'[p] = "stmt", req'[p].op = "create"
              PROVE  ~EmailTaken(rows', req'[p].email)
  BY DEF LookedFree, EmailTaken
<1>1. ASSUME NEW q \in Clients, NEW r \in Requests, Start(q, r), Others(q)
      PROVE  ~EmailTaken(rows', req'[p].email)
  <2>1. q # p
    BY <1>1 DEF Start, Go, RowInv, TypeOK
  <2>. QED BY <1>1, <2>1 DEF Others, LookedFree, Start
<1>2. ASSUME NEW q \in Clients, Others(q), UncachedAct(q)
      PROVE  ~EmailTaken(rows', req'[p].email)
  <2>1. q = p
    BY <1>2, ActsAlone DEF UncachedAct, Others
  <2>2. req'[p] # NoCall
    BY NextControl DEF ControlOK, ControlAt
  <2>. QED BY <1>2, <2>1, <2>2, BeforeInsert
<1>. QED BY <1>1, <1>2, Actors DEF CachedAct

\* Without an index and without overlap, an INSERT meets nobody.
LEMMA InsertsAlone ==
  ASSUME RowInv, ~Overlapping, LookedFree, DataNext(FALSE)
  PROVE  DataNext(TRUE)
<1>. SUFFICES ASSUME NEW p \in Clients, NEW i \in Ids, Inserts(p, i)
              PROVE  Unopposed(p)
  BY DEF DataNext
<1>1. ~EmailTaken(rows, req[p].email) /\ pc[p] # "idle"
  BY DEF LookedFree, Inserts, Writes
<1>2. ASSUME NEW q \in Clients \ {p}
      PROVE  ~HoldsEmail(q, req[p].email)
  BY <1>1 DEF Overlapping, HoldsEmail, RowInv, ControlOK, WroteAt
<1>. QED BY <1>1, <1>2 DEF Unopposed

LEMMA NextSerialEmails ==
  ASSUME BackendInv, Alone, SerialEmails, [BNext]_bvars
  PROVE  SerialEmails'
<1>. USE DEF BackendInv
<1>1. CASE UNCHANGED bvars
  BY <1>1 DEF bvars, vars, SerialEmails, EmailInv, UniqueEmail, InsertsFree, EmailsDisjoint,
              Inserted, EmailTaken, Wrote, LookedFree
<1>2. CASE BNext
  <2>. SUFFICES ASSUME backend = "mongo", ~overlapped'
                PROVE  EmailInv' /\ LookedFree'
    BY <1>2 DEF SerialEmails, BNext
  <2>1. ~overlapped /\ ~Overlapping /\ EmailInv /\ LookedFree
    BY <1>2 DEF BNext, Alone, SerialEmails
  <2>2. DataNext(FALSE)
    BY <1>2, NextControl
  <2>. QED BY <1>2, <2>1, <2>2, InsertsAlone, EmailStep, NextLookedFree DEF IInv
<1>. QED BY <1>1, <1>2
-----------------------------------------------------------------------------
(* What Update answers. *)

\* An update that has written its row sees it.
LEMMA SeesOwnRow ==
  ASSUME RowInv, NEW q \in Clients, pc[q] \in {"lookup", "load", "store", "commit"},
         req[q].op = "update"
  PROVE  /\ pending[q].id = req[q].id /\ req[q].id \in Ids
         /\ View(q) = [rows EXCEPT ![req[q].id] = pending[q].row]
         /\ \A i \in Matches(q) : View(q)[i] = pending[q].row
<1>1. Wrote(q) /\ pending[q].id = req[q].id /\ req[q].id \in Ids
  BY DEF RowInv, ControlOK, ControlAt, WroteAt, WriteIsEffect, EffectAt
<1>. QED BY <1>1 DEF View, Matches, RowInv, TypeOK

\* A call keeps its request until it returns.
LEMMA ActorMoves ==
  ASSUME RowInv, NEW q \in Clients, Step(q) \/ Failure(q) \/ NewStep(q)
  PROVE  req' = req \/ pc'[q] = "idle"
<1>. USE DEF RowInv, TypeOK, Go, Leave, Abort, Fail, Found, NotFound
<1>1. CASE Admit(q) \/ Begin(q) \/ BeginFails(q) \/ Cancel(q) \/ MongoBegin(q)
  BY <1>1 DEF Admit, Begin, BeginFails, Cancel, MongoBegin
<1>2. CASE Lookup(q) \/ Store(q) \/ FindOne(q) \/ ReadFails(q)
  BY <1>2 DEF Lookup, Store, FindOne, ReadFails
<1>3. CASE Load(q) \/ LoadFails(q)
  BY <1>3 DEF Load, LoadFails
<1>4. CASE Statement(q) \/ StatementFails(q)
  BY <1>4 DEF Statement, StatementFails, Insert, InsertRow, UpdateRow, DeleteRow, WriteRow
<1>5. CASE StatementDone(q)
  BY <1>5 DEF StatementDone, Refuses, Creates, InsertRow, Changes, Overwrites, Writes
<1>6. CASE Evict(q) \/ Commit(q) \/ CommitFails(q) \/ Rollback(q)
  BY <1>6 DEF Evict, Commit, CommitFails, Rollback
<1>. QED BY <1>1, <1>2, <1>3, <1>4, <1>5, <1>6 DEF Step, Failure, NewStep

\* On the wired service an update looks up its account only after its eviction,
\* and reaches COMMIT only by way of the database.
LEMMA CachedEdges ==
  ASSUME RowInv, NEW q \in Clients, CachedAct(q), req[q].op = "update",
         pc'[q] \in {"lookup", "load", "store", "commit"}
  PROVE  /\ req' = req
         /\ (Evict(q) /\ pc'[q] = "lookup") \/ Lookup(q) \/ Load(q) \/ Store(q)
<1>. USE DEF RowInv, TypeOK, CachedAct, Go, Leave, Abort, Fail
<1>1. CASE Evict(q)
  BY <1>1 DEF Evict, AfterWrite
<1>2. CASE Lookup(q) \/ Store(q)
  BY <1>2 DEF Lookup, Store, Found
<1>3. CASE Load(q)
  BY <1>3 DEF Load, NotFound
<1>4. ~Statement(q)
  BY DEF Statement, Insert, UpdateRow, DeleteRow, WriteRow
<1>5. ~Admit(q) /\ ~Begin(q) /\ ~Commit(q) /\ ~Rollback(q)
  BY DEF Admit, Begin, Commit, Rollback
<1>6. ~BeginFails(q) /\ ~LoadFails(q) /\ ~StatementFails(q) /\ ~CommitFails(q) /\ ~Cancel(q)
  BY DEF BeginFails, LoadFails, StatementFails, CommitFails, Cancel
<1>. QED BY <1>1, <1>2, <1>3, <1>4, <1>5, <1>6 DEF Step, Failure

\* An eviction fails only with Redis, where the entry does not exist.
LEMMA EvictsId ==
  ASSUME RowInv, NEW p \in Clients, EvictId(p), IdKey(req[p].id) \in Keys
  PROVE  cache' = [cache EXCEPT ![IdKey(req[p].id)] = NoAccount]
<1>1. CASE "cache_delete" \in Faults /\ UNCHANGED cache
  <2>1. cache[IdKey(req[p].id)] = NoAccount
    BY <1>1 DEF RowInv, NothingStored
  <2>. QED BY <1>1, <2>1 DEF RowInv, TypeOK
<1>. QED BY <1>1 DEF EvictId

\* A step of p's own call on the wired service.
LEMMA CachedRefreshes ==
  ASSUME RowInv, NEW p \in Clients, RefreshedAt(p), CachedAct(p), ~overlapped,
         backend' = backend, Others(p)
  PROVE  RefreshedAt(p)'
<1>. USE DEF RowInv, TypeOK
<1>. DEFINE k == IdKey(req[p].id)
<1>. SUFFICES ASSUME pc'[p] \in {"lookup", "load", "store", "commit"},
                     req'[p].op = "update"
              PROVE  /\ pc'[p] \in {"store", "commit"} => acct'[p] = pending'[p].row
                     /\ pc'[p] # "commit" => cache'[IdKey(req'[p].id)] = NoAccount
  BY DEF RefreshedAt, CachedAct
<1>1. req' = req /\ req[p].op = "update"
  BY ActorMoves DEF CachedAct
<1>2. (Evict(p) /\ pc'[p] = "lookup") \/ Lookup(p) \/ Load(p) \/ Store(p)
  BY <1>1, CachedEdges
<1>3. /\ KeyOf(req[p]) = k
      /\ pc[p] \in {"lookup", "load", "store"} =>
           /\ k \in Keys /\ cache[k] = NoAccount
           /\ pc[p] = "store" => acct[p] = pending[p].row
  BY <1>1, Admitted DEF KeyOf, RefreshedAt, CachedAct
<1>4. CASE Evict(p)
  <2>1. pc'[p] = "lookup" /\ k \in Keys
    BY <1>1, <1>4, Admitted DEF Evict, Go, AfterWrite, KeyOf
  <2>2. cache' = [cache EXCEPT ![k] = NoAccount]
    BY <1>4, <2>1, EvictsId DEF Evict
  <2>. QED BY <1>1, <2>1, <2>2
<1>5. CASE Lookup(p)
  <2>1. pc'[p] = "load" /\ UNCHANGED cache
    BY <1>3, <1>5 DEF Lookup, Go
  <2>. QED BY <1>1, <1>3, <1>5, <2>1 DEF Lookup
<1>6. CASE Load(p)
  <2>1. /\ UNCHANGED <<cache, pending>>
        /\ \E i \in Matches(p) : acct' = [acct EXCEPT ![p] = View(p)[i]]
        /\ pc'[p] = "store"
    BY <1>1, <1>6 DEF Load, NotFound, Go, Fail, Leave, Abort
  <2>. QED BY <1>1, <1>3, <1>6, <2>1, SeesOwnRow DEF Load
<1>7. CASE Store(p)
  BY <1>1, <1>3, <1>7 DEF Store, Found, Fail, Leave, Abort, Go
<1>. QED BY <1>2, <1>4, <1>5, <1>6, <1>7

\* A step of p's own call on another backend.
LEMMA UncachedRefreshes ==
  ASSUME RowInv, NEW p \in Clients, RefreshedAt(p), UncachedAct(p), backend' = backend
  PROVE  RefreshedAt(p)'
<1>. USE DEF RowInv, TypeOK, Go, Leave, Abort
<1>. SUFFICES ASSUME pc'[p] \in {"store", "commit"}, req'[p].op = "update"
              PROVE  acct'[p] = pending'[p].row
  BY DEF RefreshedAt, UncachedAct
<1>1. \/ NewStep(p)
      \/ Begin(p) \/ Admit(p) \/ Commit(p) \/ Rollback(p)
      \/ BeginFails(p) \/ StatementFails(p) \/ CommitFails(p) \/ Cancel(p)
  BY UncachedActs DEF UncachedAct
<1>2. req' = req
  BY <1>1, ActorMoves DEF Step, Failure
<1>3. CASE FindOne(p)
  <2>1. /\ UNCHANGED pending
        /\ \E i \in Matches(p) : acct' = [acct EXCEPT ![p] = View(p)[i]]
    BY <1>2, <1>3 DEF FindOne, Found, NotFound, Fail, Selected
  <2>. QED BY <1>2, <1>3, <2>1, SeesOwnRow DEF FindOne
<1>4. ~ReadFails(p) /\ ~MongoBegin(p)
  BY <1>2 DEF ReadFails, Fail, MongoBegin
<1>5. ~StatementDone(p)
  BY <1>2 DEF StatementDone, Refuses, Creates, InsertRow, Changes, AfterWrite
<1>6. ~Admit(p) /\ ~Begin(p) /\ ~Commit(p) /\ ~Rollback(p)
  BY <1>2 DEF Admit, Begin, Commit, Rollback
<1>7. ~BeginFails(p) /\ ~StatementFails(p) /\ ~CommitFails(p) /\ ~Cancel(p)
  BY DEF BeginFails, StatementFails, CommitFails, Cancel
<1>. QED BY <1>1, <1>3, <1>4, <1>5, <1>6, <1>7 DEF NewStep

LEMMA NextRefreshed ==
  ASSUME RowInv, Alone, Refreshed, [BNext]_bvars
  PROVE  Refreshed'
<1>1. CASE UNCHANGED bvars
  BY <1>1 DEF bvars, vars, Refreshed, RefreshedAt
<1>2. CASE BNext
  <2>. SUFFICES ASSUME NEW p \in Clients PROVE RefreshedAt(p)'
    BY DEF Refreshed
  <2>1. backend' = backend /\ RefreshedAt(p)
    BY <1>2 DEF BNext, Refreshed
  <2>2. ASSUME NEW k \in Keys, Expire(k), backend = "gorm"
        PROVE  RefreshedAt(p)'
    <3>1. \A j \in Keys : cache'[j] \in {cache[j], NoAccount}
      BY <2>2 DEF Expire, RowInv, TypeOK
    <3>2. pc[p] \in {"lookup", "load", "store", "commit"} => IdKey(req[p].id) \in Keys
             \/ req[p].op # "update"
      BY DEF RowInv, ControlOK, ControlAt, IdKey, Keys
    <3>3. ~overlapped' => ~overlapped
      BY <1>2 DEF BNext
    <3>. QED BY <2>1, <2>2, <3>1, <3>2, <3>3 DEF RefreshedAt, Expire
  <2>3. ASSUME NEW q \in Clients, NEW r \in Requests, Start(q, r), Others(q)
        PROVE  RefreshedAt(p)'
    <3>1. CASE p = q
      BY <2>3, <3>1 DEF Start, Go, RowInv, TypeOK, RefreshedAt
    <3>2. CASE p # q
      <4>1. ~overlapped' => ~overlapped
        BY <1>2 DEF BNext
      <4>. QED BY <2>1, <2>3, <3>2, <4>1 DEF Start, Others, RefreshedAt
    <3>. QED BY <3>1, <3>2
  <2>4. ASSUME NEW q \in Clients, Others(q), CachedAct(q)
        PROVE  RefreshedAt(p)'
    <3>1. CASE overlapped'
      BY <2>1, <2>4, <3>1 DEF RefreshedAt, CachedAct
    <3>2. CASE ~overlapped' /\ p # q
      BY <1>2, <2>4, <3>2, ActsAlone DEF CachedAct, RefreshedAt
    <3>3. CASE ~overlapped' /\ p = q
      <4>1. ~overlapped
        BY <1>2, <3>3 DEF BNext
      <4>. QED BY <2>1, <2>4, <3>3, <4>1, CachedRefreshes
    <3>. QED BY <3>1, <3>2, <3>3
  <2>5. ASSUME NEW q \in Clients, Others(q), UncachedAct(q)
        PROVE  RefreshedAt(p)'
    <3>1. CASE p = q
      BY <2>1, <2>5, <3>1, UncachedRefreshes
    <3>2. CASE p # q
      BY <2>1, <2>5, <3>2 DEF Others, RefreshedAt, UncachedAct
    <3>. QED BY <3>1, <3>2
  <2>. QED BY <1>2, <2>2, <2>3, <2>4, <2>5, Actors
<1>. QED BY <1>1, <1>2
-----------------------------------------------------------------------------
(* The cache, when neither a COMMIT fails nor a call is cut off.           *)

\* What the id entries agree with while q's call is the only one.
FreshFor(q) == IF pc[q] = "commit" THEN FreshAt(View(q)) ELSE FreshAt(rows)

Loaded(q) == pc[q] = "store" /\ req[q].op = "get" => acct[q] = rows[req[q].id]

\* Steps that touch neither the cache nor the table.
LEMMA FreshIdle ==
  ASSUME FreshAt(rows), UNCHANGED <<rows, cache>>, NEW q \in Clients, pc'[q] # "commit"
  PROVE  FreshFor(q)'
BY DEF FreshAt, FreshFor

LEMMA FreshRead ==
  ASSUME RowInv, NEW q \in Clients, RefreshedAt(q), FreshAt(rows), ~overlapped,
         backend = "gorm", Lookup(q) \/ Load(q)
  PROVE  FreshFor(q)' /\ Loaded(q)'
<1>. USE DEF RowInv, TypeOK, Go, Leave, Abort
<1>1. CASE Lookup(q)
  <2>1. pc'[q] # "commit"
    BY <1>1, Admitted DEF Lookup, Found, RefreshedAt, KeyOf
  <2>2. Loaded(q)'
    BY <1>1 DEF Lookup, Found, Loaded
  <2>. QED BY <1>1, <2>1, <2>2, FreshIdle DEF Lookup
<1>2. CASE Load(q)
  <2>1. pc'[q] # "commit"
    BY <1>2 DEF Load, NotFound, Fail
  <2>2. req[q].op = "get" => \A i \in Matches(q) : View(q)[i] = rows[req[q].id]
    BY <1>2 DEF Load, Matches, View, ControlOK, WroteAt
  <2>3. Loaded(q)'
    BY <1>2, <2>2 DEF Load, NotFound, Fail, Loaded
  <2>. QED BY <1>2, <2>1, <2>3, FreshIdle DEF Load
<1>. QED BY <1>1, <1>2

LEMMA FreshStore ==
  ASSUME RowInv, NEW q \in Clients, RefreshedAt(q), Loaded(q), FreshAt(rows), ~overlapped,
         backend = "gorm", Manager = "memory", Store(q)
  PROVE  FreshFor(q)' /\ Loaded(q)'
<1>. USE DEF RowInv, TypeOK, Go, Leave, Abort
<1>. DEFINE k == KeyOf(req[q])
<1>1. cache' = [cache EXCEPT ![k] = acct[q]] /\ Found(q, acct[q]) /\ UNCHANGED rows
      /\ pc[q] = "store" /\ k \in Keys
  BY Admitted DEF Store
<1>2. CASE req[q].op = "create"
  <2>1. \A i \in Ids : IdKey(i) # k
    BY <1>2 DEF KeyOf, IdKey, EmailKey
  <2>2. FreshAt(rows)' /\ pc'[q] = "abort"
    BY <1>1, <1>2, <2>1 DEF FreshAt, Found, IdKey, Keys
  <2>. QED BY <2>2 DEF FreshFor, Loaded
<1>3. CASE req[q].op = "get"
  <2>1. k = IdKey(req[q].id) /\ acct[q] = rows[req[q].id]
    BY <1>1, <1>3 DEF KeyOf, Loaded
  <2>2. FreshAt(rows)' /\ pc'[q] = "idle"
    BY <1>1, <1>3, <2>1 DEF FreshAt, Found, IdKey, Keys
  <2>. QED BY <2>2 DEF FreshFor, Loaded
<1>4. CASE req[q].op = "update"
  <2>1. k = IdKey(req[q].id) /\ acct[q] = pending[q].row
    BY <1>1, <1>4 DEF KeyOf, RefreshedAt
  <2>2. pc'[q] = "commit" /\ pending' = pending
    BY <1>1, <1>4 DEF Found
  <2>3. View(q)' = [rows EXCEPT ![req[q].id] = pending[q].row] /\ req[q].id \in Ids
    BY <1>1, <1>4, <2>2, SeesOwnRow DEF View, Wrote
  <2>4. ASSUME NEW i \in Ids
        PROVE  cache'[IdKey(i)] \in {NoAccount, View(q)'[i]}
    <3>1. i = req[q].id => cache'[IdKey(i)] = View(q)'[i]
      BY <1>1, <2>1, <2>3
    <3>2. i # req[q].id => cache'[IdKey(i)] = cache[IdKey(i)] /\ View(q)'[i] = rows[i]
      BY <1>1, <2>1, <2>3 DEF IdKey, Keys
    <3>. QED BY <3>1, <3>2 DEF FreshAt
  <2>. QED BY <2>2, <2>4 DEF FreshFor, FreshAt, Loaded
<1>. QED BY <1>1, <1>2, <1>3, <1>4 DEF Found

LEMMA FreshWrite ==
  ASSUME RowInv, NEW q \in Clients, FreshAt(rows), Statement(q) \/ Evict(q)
  PROVE  FreshFor(q)' /\ pc'[q] # "store"
<1>. USE DEF RowInv, TypeOK, Go, Abort
<1>1. CASE Statement(q) /\ req[q].op # "create"
  <2>1. pc'[q] \in {"abort", "evict"} /\ UNCHANGED <<rows, cache>>
    BY <1>1 DEF Statement, Insert, UpdateRow, DeleteRow, WriteRow
  <2>. QED BY <2>1, FreshIdle
<1>2. CASE Statement(q) /\ req[q].op = "create"
  <2>1. CASE Abort(q, "account_already_exists")
    BY <1>2, <2>1, FreshIdle DEF Statement
  <2>2. CASE InsertRow(q)
    <3>1. PICK i \in Ids \ used :
             pending' = [pending EXCEPT ![q] = [id |-> i, row |-> NewAccount(req[q])]]
      BY <2>2 DEF InsertRow
    <3>2. rows[i] = NoAccount /\ pc'[q] = "commit" /\ UNCHANGED <<rows, cache>>
      BY <1>2, <2>2 DEF IdsDrawn, InsertRow, Statement
    <3>3. View(q)' = [rows EXCEPT ![i] = NewAccount(req[q])]
      BY <3>1, <3>2 DEF View, Wrote
    <3>. QED BY <3>1, <3>2, <3>3 DEF FreshFor, FreshAt
  <2>. QED BY <1>2, <2>1, <2>2 DEF Statement, Insert, UpdateRow, DeleteRow
<1>3. CASE Evict(q)
  <2>1. /\ req[q].id \in Ids /\ Wrote(q) /\ req[q].op \in {"update", "delete"}
        /\ req[q].op = "delete" => View(q) = [rows EXCEPT ![req[q].id] = NoAccount]
    BY <1>3, Admitted, RequestShape
    DEF Evict, ControlOK, ControlAt, WroteAt, WriteIsEffect, EffectAt, View
  <2>2. cache' = [cache EXCEPT ![IdKey(req[q].id)] = NoAccount] /\ UNCHANGED <<rows, pending>>
    BY <1>3, <2>1, EvictsId DEF Evict, IdKey, Keys
  <2>3. FreshAt(rows)' /\ (req[q].op = "delete" => FreshAt(View(q))')
    BY <2>1, <2>2 DEF FreshAt, IdKey, Keys, View, Wrote
  <2>4. pc'[q] = IF req[q].op = "update" THEN "lookup" ELSE "commit"
    BY <1>3 DEF Evict, AfterWrite
  <2>. QED BY <2>1, <2>3, <2>4 DEF FreshFor
<1>. QED BY <1>1, <1>2, <1>3

\* A step of the only call in progress keeps the id entries fresh.
LEMMA CachedFresh ==
  ASSUME RowInv, NEW q \in Clients, CachedAct(q), RefreshedAt(q), Loaded(q), FreshFor(q),
         ~overlapped, Faults \cap {"commit", "cancel"} = {}
  PROVE  FreshFor(q)' /\ Loaded(q)'
<1>. USE DEF CachedAct
<1>1. CASE Commit(q)
  BY <1>1 DEF Commit, Leave, Go, RowInv, TypeOK, FreshFor, FreshAt, Loaded
<1>2. ~CommitFails(q) /\ ~Cancel(q)
  BY DEF CommitFails, Cancel
<1>3. CASE pc[q] # "commit"
  <2>. USE DEF RowInv, TypeOK, Go, Leave, Abort, Fail
  <2>1. FreshAt(rows) /\ ~Commit(q)
    BY <1>3 DEF FreshFor, Commit
  <2>2. CASE Admit(q) \/ Begin(q) \/ Rollback(q)
    <3>1. UNCHANGED <<rows, cache>> /\ pc'[q] \notin {"commit", "store"}
      BY <2>2 DEF Admit, Begin, Rollback
    <3>. QED BY <2>1, <3>1, FreshIdle DEF Loaded
  <2>3. CASE BeginFails(q) \/ LoadFails(q) \/ StatementFails(q)
    <3>1. UNCHANGED <<rows, cache>> /\ pc'[q] \notin {"commit", "store"}
      BY <2>3 DEF BeginFails, LoadFails, StatementFails
    <3>. QED BY <2>1, <3>1, FreshIdle DEF Loaded
  <2>4. CASE Lookup(q) \/ Load(q)
    BY <2>1, <2>4, FreshRead
  <2>5. CASE Store(q)
    <3>1. CASE Manager = "redis"
      <4>1. UNCHANGED <<rows, cache>> /\ pc'[q] \notin {"commit", "store"}
        BY <2>5, <3>1 DEF Store
      <4>. QED BY <2>1, <4>1, FreshIdle DEF Loaded
    <3>. QED BY <2>1, <2>5, <3>1, FreshStore
  <2>6. CASE Statement(q) \/ Evict(q)
    BY <2>1, <2>6, FreshWrite DEF Loaded
  <2>. QED BY <1>2, <2>1, <2>2, <2>3, <2>4, <2>5, <2>6 DEF Step, Failure
<1>. QED BY <1>1, <1>2, <1>3 DEF Step, Failure, Admit, Begin, Lookup, Load, Store, Statement,
         Evict, Rollback, BeginFails, LoadFails, StatementFails

LEMMA NextSerialCache ==
  ASSUME RowInv, Alone, Refreshed, SerialCache, [BNext]_bvars
  PROVE  SerialCache'
<1>1. CASE UNCHANGED bvars
  BY <1>1 DEF bvars, vars, SerialCache, FreshAt, View, Wrote
<1>2. CASE BNext
  <2>. SUFFICES ASSUME Faults \cap {"commit", "cancel"} = {}, ~overlapped'
                PROVE  SerialCache'
    BY DEF SerialCache
  <2>1. ~overlapped /\ backend' = backend
    BY <1>2 DEF BNext
  <2>2. CASE backend # "gorm"
    <3>1. UNCHANGED cache
      BY <1>2, <2>2, SqlcDone, MongoDone
      DEF BNext, UncachedNext, UncachedStep, SqlcStep, MongoStep, SqlcRead, FindOne, ReadFails,
          MongoBegin, StatementDone, Start, Admit, Begin, Commit, Rollback, BeginFails,
          StatementFails, CommitFails, Cancel
    <3>. QED BY <2>1, <2>2, <3>1 DEF SerialCache, FreshAt
  <2>3. ASSUME NEW k \in Keys, Expire(k), backend = "gorm"
        PROVE  SerialCache'
    <3>1. \A j \in Keys : cache'[j] \in {cache[j], NoAccount}
      BY <2>3 DEF Expire, RowInv, TypeOK
    <3>2. \A t : FreshAt(t) => \A i \in Ids : cache'[IdKey(i)] \in {NoAccount, t[i]}
      BY <3>1 DEF FreshAt, IdKey, Keys
    <3>3. UNCHANGED <<rows, pending, pc, req, acct>>
      BY <2>3 DEF Expire
    <3>. QED BY <2>1, <2>3, <3>2, <3>3 DEF SerialCache, FreshAt, View, Wrote
  <2>4. ASSUME NEW q \in Clients, backend = "gorm", FreshFor(q)', Loaded(q)',
               \A p \in Clients \ {q} : pc'[p] = "idle"
        PROVE  SerialCache'
    BY <2>1, <2>4 DEF SerialCache, FreshFor, Loaded
  <2>5. ASSUME NEW q \in Clients, NEW r \in Requests, Start(q, r), Others(q), backend = "gorm"
        PROVE  SerialCache'
    <3>1. pc[q] = "idle" /\ pc'[q] = "admit" /\ UNCHANGED <<rows, cache>>
      BY <2>5 DEF Start, Go, RowInv, TypeOK
    <3>2. \A p \in Clients \ {q} : pc[p] = "idle" /\ pc'[p] = "idle"
      BY <1>2, <2>5, <3>1, ActsAlone
    <3>3. FreshAt(rows)
      BY <2>1, <3>1, <3>2 DEF SerialCache
    <3>. QED BY <2>4, <2>5, <3>1, <3>2, <3>3, FreshIdle DEF Loaded
  <2>6. ASSUME NEW q \in Clients, Others(q), CachedAct(q)
        PROVE  SerialCache'
    <3>1. \A p \in Clients \ {q} : pc[p] = "idle" /\ pc'[p] = "idle"
      BY <1>2, <2>6, ActsAlone DEF CachedAct
    <3>2. FreshFor(q) /\ Loaded(q) /\ RefreshedAt(q)
      BY <2>1, <2>6, <3>1 DEF SerialCache, FreshFor, Loaded, Refreshed, CachedAct
    <3>. QED BY <2>1, <2>4, <2>6, <3>1, <3>2, CachedFresh DEF CachedAct
  <2>7. CASE backend = "gorm"
    BY <1>2, <2>3, <2>5, <2>6, <2>7, Actors DEF UncachedAct
  <2>. QED BY <2>2, <2>7
<1>. QED BY <1>1, <1>2
-----------------------------------------------------------------------------
(* The invariant, and what follows from it.                                *)

LEMMA InitSInv == BInit => SInv
<1>. SUFFICES ASSUME BInit PROVE SInv
  OBVIOUS
<1>1. BackendInv
  BY InitIInv DEF BInit, BackendInv, IInv
<1>2. EmailInv
  BY InitIInv DEF BInit, IInv
<1>3. \A p \in Clients : pc[p] = "idle"
  BY DEF BInit, Init
<1>4. Alone /\ SerialEmails /\ Refreshed
  BY <1>2, <1>3 DEF Alone, Overlapping, SerialEmails, LookedFree, Refreshed, RefreshedAt
<1>5. SerialCache
  BY <1>3 DEF BInit, Init, SerialCache, FreshAt, IdKey, Keys
<1>. QED BY <1>1, <1>4, <1>5 DEF SInv

\* A call in its last step answers "ok" only by committing.
LEMMA CommitOnly ==
  ASSUME RowInv, [BNext]_bvars, NEW p \in Clients, pc[p] = "commit", code'[p] = "ok"
  PROVE  rows' = View(p)
<1>1. code[p] = "none"
  BY DEF RowInv, ControlOK, ControlAt
<1>2. BNext
  BY <1>1 DEF bvars, vars
<1>3. ASSUME NEW q \in Clients, Others(q), CachedAct(q) \/ UncachedAct(q)
      PROVE  rows' = View(p)
  <2>1. q = p
    BY <1>1, <1>3 DEF Others
  <2>2. \/ Step(p) \/ Failure(p) \/ NewStep(p)
    BY <1>3, <2>1, UncachedActs DEF CachedAct, UncachedAct, Step, Failure
  <2>3. Commit(p) \/ CommitFails(p) \/ Cancel(p)
    BY <2>2 DEF Step, Failure, NewStep, Admit, Begin, Lookup, Load, Store, Statement, Evict,
                Rollback, BeginFails, LoadFails, StatementFails, FindOne, ReadFails,
                MongoBegin, StatementDone
  <2>. QED BY <2>3 DEF Commit, CommitFails, Cancel, Leave, RowInv, TypeOK
<1>4. ASSUME NEW q \in Clients, NEW r \in Requests, Start(q, r)
      PROVE  code'[p] = code[p]
  BY <1>4 DEF Start, RowInv, TypeOK
<1>. QED BY <1>1, <1>2, <1>3, <1>4, Actors DEF Expire

\* Nothing but the evidence of a serial history is added to BackendInv.
THEOREM SerialInvariance == BSpec => []SInv
<1>1. SInv /\ [BNext]_bvars => SInv'
  BY NextBackendInv, NextAlone, NextSerialEmails, NextRefreshed, NextSerialCache
  DEF SInv, BackendInv
<1>. QED BY <1>1, InitSInv, PTL DEF BSpec

\* As long as calls do not overlap, e-mails are unique on every backend.
THEOREM SerialEmailsUnique == BSpec => []SerialUnique
<1>1. SInv => SerialUnique
  BY DEF SInv, BackendInv, SerialEmails, EmailInv, SerialUnique
<1>. QED BY <1>1, SerialInvariance, PTL

\* As long as calls do not overlap, no COMMIT fails and none is cut off, no cached account
\* is stale between calls, with either cache manager.
THEOREM SerialCacheFresh == BSpec => []SerialIdCoherent
<1>1. SInv => SerialIdCoherent
  BY DEF SInv, SerialCache, SerialIdCoherent, Quiet, FreshAt, IdCoherent
<1>. QED BY <1>1, SerialInvariance, PTL

\* Update answers with the row it commits.
THEOREM UpdateAnswersItsRow == BSpec => UpdateReturnsRefreshed
<1>1. ASSUME SInv, [BNext]_bvars, NEW p \in Clients, backend = "gorm" => ~overlapped,
             pc[p] = "commit", req[p].op = "update", code'[p] = "ok"
      PROVE  acct[p] = rows'[req[p].id]
  <2>1. acct[p] = pending[p].row /\ RowInv
    BY <1>1 DEF SInv, BackendInv, Refreshed, RefreshedAt
  <2>2. Wrote(p) /\ pending[p].id = req[p].id /\ req[p].id \in Ids
    BY <1>1, <2>1 DEF RowInv, ControlOK, WroteAt, WriteIsEffect, EffectAt, ControlAt
  <2>3. rows' = View(p)
    BY <1>1, <2>1, CommitOnly
  <2>. QED BY <2>1, <2>2, <2>3 DEF View, RowInv, TypeOK
<1>2. SInv /\ [BNext]_bvars =>
        [\A p \in Clients :
           /\ backend = "gorm" => ~overlapped
           /\ pc[p] = "commit" /\ req[p].op = "update" /\ code'[p] = "ok"
           => acct[p] = rows'[req[p].id]]_bvars
  BY <1>1
<1>. QED BY <1>2, SerialInvariance, PTL DEF BSpec, UpdateReturnsRefreshed

\* A Get that answers "ok" from its look-up has met an entry.
LEMMA HitOnly ==
  ASSUME RowInv, [BNext]_bvars, NEW p \in Clients, backend = "gorm", pc[p] = "lookup",
         req[p].op = "get", code'[p] = "ok"
  PROVE  cache[KeyOf(req[p])] # NoAccount
<1>1. code[p] = "none"
  BY DEF RowInv, ControlOK, ControlAt
<1>2. BNext
  BY <1>1 DEF bvars, vars
<1>3. ASSUME NEW q \in Clients, Others(q), CachedAct(q)
      PROVE  cache[KeyOf(req[p])] # NoAccount
  <2>1. q = p
    BY <1>1, <1>3 DEF Others
  <2>2. Lookup(p) \/ Cancel(p)
    BY <1>3, <2>1
    DEF CachedAct, Step, Failure, Admit, Begin, Load, Store, Statement, Evict, Commit, Rollback,
        BeginFails, LoadFails, StatementFails, CommitFails
  <2>3. ~Cancel(p)
    BY DEF Cancel, Leave, RowInv, TypeOK
  <2>. QED BY <1>1, <2>2, <2>3 DEF Lookup
<1>4. ASSUME NEW q \in Clients, NEW r \in Requests, Start(q, r)
      PROVE  code'[p] = code[p]
  BY <1>4 DEF Start, RowInv, TypeOK
<1>. QED BY <1>1, <1>2, <1>3, <1>4, Actors DEF Expire, UncachedAct

\* Get answers with the account as it is committed.
THEOREM GetAnswersItsRow == BSpec => GetServesCommitted
<1>1. ASSUME SInv, [BNext]_bvars, NEW p \in Clients,
             ~overlapped, Faults \cap {"commit", "cancel"} = {}, backend = "gorm",
             pc[p] \in {"lookup", "store"}, req[p].op = "get", code'[p] = "ok"
      PROVE  rows[req[p].id] = IF pc[p] = "store" THEN acct[p] ELSE cache[KeyOf(req[p])]
  <2>1. RowInv /\ SerialCache /\ \A q \in Clients : pc[q] # "commit"
    BY <1>1 DEF SInv, BackendInv, Alone, Overlapping
  <2>2. CASE pc[p] = "store"
    BY <1>1, <2>1, <2>2 DEF SerialCache
  <2>3. CASE pc[p] = "lookup"
    <3>1. req[p].id \in Ids /\ KeyOf(req[p]) = IdKey(req[p].id)
      BY <1>1, <2>1 DEF RowInv, ControlOK, ControlAt, KeyOf
    <3>2. FreshAt(rows)
      BY <1>1, <2>1 DEF SerialCache
    <3>. QED BY <1>1, <2>1, <2>3, <3>1, <3>2, HitOnly DEF FreshAt
  <2>. QED BY <1>1, <2>2, <2>3
<1>2. SInv /\ [BNext]_bvars =>
        [\A p \in Clients :
           /\ ~overlapped /\ Faults \cap {"commit", "cancel"} = {}
           /\ backend = "gorm" /\ pc[p] \in {"lookup", "store"}
           /\ req[p].op = "get" /\ code'[p] = "ok"
           => rows[req[p].id]
                = IF pc[p] = "store" THEN acct[p] ELSE cache[KeyOf(req[p])]]_bvars
  BY <1>1
<1>. QED BY <1>2, SerialInvariance, PTL DEF BSpec, GetServesCommitted
=============================================================================
