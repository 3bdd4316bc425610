--------------------------- MODULE BackendProofs ---------------------------
(* Proofs about the account service over its backends. *)
EXTENDS AccountBackends, AccountProofs, FiniteSetTheorems

USE TypesAssumption, ServiceAssumption
-----------------------------------------------------------------------------
(* The uncached steps, by what they do.                                    *)

\* COALESCE over nullable parameters, $set over the given fields, and a map of
\* the non-nil fields are one and the same patch.
LEMMA UpdatesAgree ==
  ASSUME NEW a \in Account, NEW r \in UpdateRequest
  PROVE  UpdateAccount(a, r) = Patched(a, r) /\ UpdateOne(a, r) = Patched(a, r)
BY DEF UpdateAccount, UpdateOne, Coalesce, Patched, Account, UpdateRequest

Refuses(p, k) ==
  /\ k \in {"internal", "account_not_found", "account_already_exists"}
  /\ k = "account_not_found" => req[p].op # "create" /\ rows[req[p].id] = NoAccount
  /\ k = "account_already_exists" => req[p].op = "create" /\ EmailTaken(rows, req[p].email)
  /\ Abort(p, k)
  /\ UNCHANGED used

Creates(p) ==
  /\ req[p].op = "create"
  /\ backend # "mongo" => Unopposed(p)
  /\ InsertRow(p)

Changes(p) ==
  /\ Overwrites(p, req[p].id)
  /\ Go(p, AfterWrite(p))
  /\ UNCHANGED <<acct, code>>

StatementDone(p) ==
  /\ pc[p] = "stmt"
  /\ UNCHANGED <<rows, cache>>
  /\ (\E k \in Codes : Refuses(p, k)) \/ Creates(p) \/ Changes(p)

\* An update or delete that reaches the database names an id.
LEMMA StatementIds ==
  ASSUME RowInv, NEW p \in Clients, pc[p] = "stmt"
  PROVE  /\ req[p] \in Requests
         /\ req[p].op # "create" => req[p].id \in Ids
         /\ req[p].op = "update" => req[p] \in UpdateRequest
         /\ req[p].op \in {"create", "update", "delete"}
BY Admitted, RequestShape DEF RowInv, ControlOK, ControlAt

\* A write of the code's patch to a row nobody else holds.
LEMMA WriteRowDone ==
  ASSUME RowInv, NEW p \in Clients, pc[p] = "stmt", UNCHANGED <<rows, used, cache>>,
         req[p].op # "create",
         \A q \in Clients \ {p} : ~HoldsId(q, req[p].id),
         NEW a, WriteRow(p, req[p].id, a, AfterWrite(p)),
         rows[req[p].id] # NoAccount =>
           a = IF req[p].op = "update" THEN Patched(rows[req[p].id], req[p]) ELSE NoAccount
  PROVE  StatementDone(p)
<1>1. CASE rows[req[p].id] = NoAccount
  <2>1. Refuses(p, "account_not_found")
    BY <1>1 DEF WriteRow, Refuses, Codes
  <2>. QED BY <2>1 DEF StatementDone, Codes
<1>2. CASE rows[req[p].id] # NoAccount
  <2>1. Changes(p)
    BY <1>2, StatementIds DEF WriteRow, Changes, Overwrites, Writes, HoldsId
  <2>. QED BY <2>1 DEF StatementDone
<1>. QED BY <1>1, <1>2

LEMMA SqlcDone ==
  ASSUME RowInv, NEW p \in Clients, SqlcStatement(p)
  PROVE  StatementDone(p)
<1>. USE StatementIds DEF SqlcStatement
<1>1. CASE SqlcCreate(p)
  <2>1. CASE UniqueViolation(p)
    <3>1. Refuses(p, "account_already_exists")
      BY <1>1, <2>1 DEF SqlcCreate, UniqueViolation, mapWriteErr, Refuses, Codes
    <3>. QED BY <3>1 DEF StatementDone, Codes
  <2>2. CASE ~UniqueViolation(p)
    <3>1. Creates(p)
      BY <1>1, <2>2 DEF SqlcCreate, Creates, Unopposed, UniqueViolation, Blocked
    <3>. QED BY <3>1 DEF StatementDone
  <2>. QED BY <2>1, <2>2
<1>2. CASE SqlcUpdate(p)
  <2>1. rows[req[p].id] # NoAccount =>
          UpdateAccount(rows[req[p].id], req[p]) = Patched(rows[req[p].id], req[p])
    BY <1>2, UpdatesAgree DEF SqlcUpdate, RowInv, TypeOK
  <2>. QED BY <1>2, <2>1, WriteRowDone DEF SqlcUpdate, Blocked
<1>3. CASE SqlcDelete(p)
  BY <1>3, WriteRowDone DEF SqlcDelete, Blocked
<1>. QED BY <1>1, <1>2, <1>3

LEMMA MongoDone ==
  ASSUME RowInv, NEW p \in Clients, MongoStatement(p), backend \in {"mongo", "indexed"}
  PROVE  StatementDone(p)
<1>. USE StatementIds DEF MongoStatement
<1>1. ASSUME NEW k \in {"internal", "account_already_exists"}, Abort(p, k), UNCHANGED used,
             k = "account_already_exists" => req[p].op = "create" /\ DuplicateKey(p)
      PROVE  StatementDone(p)
  <2>1. Refuses(p, k) /\ k \in Codes
    BY <1>1 DEF Refuses, DuplicateKey, Codes
  <2>. QED BY <2>1 DEF StatementDone
<1>2. CASE ~WriteConflict(p) /\ MongoCreate(p)
  <2>1. CASE DuplicateKey(p)
    BY <1>1, <1>2, <2>1 DEF MongoCreate
  <2>2. CASE ~DuplicateKey(p)
    <3>1. Creates(p)
      BY <1>2, <2>2 DEF MongoCreate, Creates, Unopposed, DuplicateKey, WriteConflict
    <3>. QED BY <3>1 DEF StatementDone
  <2>. QED BY <2>1, <2>2
<1>3. CASE ~WriteConflict(p) /\ MongoUpdate(p)
  <2>1. rows[req[p].id] # NoAccount =>
          UpdateOne(rows[req[p].id], req[p]) = Patched(rows[req[p].id], req[p])
    BY <1>3, UpdatesAgree DEF MongoUpdate, RowInv, TypeOK
  <2>. QED BY <1>3, <2>1, WriteRowDone DEF MongoUpdate, WriteConflict
<1>4. CASE ~WriteConflict(p) /\ MongoDelete(p)
  BY <1>4, WriteRowDone DEF MongoDelete, WriteConflict
<1>. QED BY <1>1, <1>2, <1>3, <1>4

\* The steps that are not steps of the wired service.
NewStep(p) ==
  \/ FindOne(p)
  \/ ReadFails(p)
  \/ MongoBegin(p)
  \/ StatementDone(p)

LEMMA UncachedCases ==
  ASSUME RowInv, UncachedNext
  PROVE  Next \/ \E p \in Clients : NewStep(p)
BY SqlcDone, MongoDone
DEF UncachedNext, UncachedStep, SqlcStep, MongoStep, SqlcRead, NewStep, Next, Step, Failure
-----------------------------------------------------------------------------
(* What a new step does. *)

LEMMA NewType ==
  ASSUME RowInv, NEW p \in Clients, NewStep(p)
  PROVE  TypeOK'
<1>. USE DEF RowInv
<1>1. CASE FindOne(p)
  <2>1. CASE \E a \in Selected(p) : Found(p, a)
    BY <1>1, <2>1, ViewType, FoundType DEF FindOne, Selected, Matches, TypeOK
  <2>2. CASE NotFound(p)
    <3>1. CASE Fail(p, "account_not_found")
      BY <1>1, <3>1, FailType DEF FindOne, TypeOK, Codes
    <3>2. CASE Go(p, "stmt") /\ UNCHANGED <<pending, req, acct, code>>
      BY <1>1, <3>2 DEF FindOne, TypeOK, Go, Steps
    <3>. QED BY <2>2, <3>1, <3>2 DEF NotFound
  <2>. QED BY <1>1, <2>1, <2>2 DEF FindOne
<1>2. CASE ReadFails(p)
  BY <1>2, FailType DEF ReadFails, TypeOK, Codes
<1>3. CASE MongoBegin(p)
  BY <1>3 DEF MongoBegin, TypeOK, Go, Steps
<1>4. CASE StatementDone(p)
  <2>1. ASSUME NEW k \in Codes, Refuses(p, k)
        PROVE  TypeOK'
    BY <1>4, <2>1, FailType DEF StatementDone, Refuses, TypeOK
  <2>2. CASE Creates(p)
    <3>1. NewAccount(req[p]) \in Account
      BY <1>4, <2>2, NewRow DEF StatementDone, Creates
    <3>. QED
      BY <1>4, <2>2, <3>1 DEF StatementDone, Creates, InsertRow, TypeOK, Go, Steps, Write
  <2>3. CASE Changes(p)
    <3>1. /\ pending' \in [Clients -> Write]
          /\ UNCHANGED <<rows, used, req>>
      <4>1. req[p].id \in Ids
        BY <1>4, <2>3, StatementIds DEF StatementDone, Changes, Overwrites
      <4>2. req[p].op = "update" => Patched(rows[req[p].id], req[p]) \in Account
        BY <1>4, <2>3, <4>1, PatchedRow DEF StatementDone, Changes, Overwrites
      <4>. QED BY <2>3, <4>1, <4>2 DEF Changes, Overwrites, Writes, TypeOK, Write
    <3>. QED
      BY <1>4, <2>3, <3>1 DEF StatementDone, Changes, TypeOK, Go, AfterWrite, Steps
  <2>. QED BY <1>4, <2>1, <2>2, <2>3 DEF StatementDone
<1>. QED BY <1>1, <1>2, <1>3, <1>4 DEF NewStep

LEMMA NewKept ==
  ASSUME RowInv, NEW p \in Clients, NewStep(p), NEW q \in Clients, q # p
  PROVE  Kept(q)
<1>. USE DEF Kept, RowInv, TypeOK, Go, Leave, Abort, Fail, Found, NotFound
<1>1. CASE FindOne(p) \/ ReadFails(p) \/ MongoBegin(p)
  BY <1>1 DEF FindOne, ReadFails, MongoBegin
<1>2. CASE StatementDone(p)
  BY <1>2 DEF StatementDone, Refuses, Creates, InsertRow, Changes, Overwrites, Writes
<1>. QED BY <1>1, <1>2 DEF NewStep

LEMMA NewControl ==
  ASSUME RowInv, NEW p \in Clients, NewStep(p)
  PROVE  ControlOK'
<1>. USE DEF RowInv
<1>1. ASSUME NEW q \in Clients, q # p
      PROVE  ControlAt(q)' /\ WroteAt(q)'
  BY <1>1, NewKept DEF Kept, ControlOK, ControlAt, WroteAt, Wrote
<1>2. ControlAt(p)' /\ WroteAt(p)'
  <2>1. CASE FindOne(p)
    <3>1. CASE \E a \in Selected(p) : Found(p, a)
      BY <2>1, <3>1, FoundControl DEF FindOne
    <3>2. CASE NotFound(p)
      <4>1. CASE Fail(p, "account_not_found")
        BY <2>1, <4>1, FailControl DEF FindOne, Codes
      <4>2. CASE /\ req[p].op = "create"
                 /\ Go(p, "stmt")
                 /\ UNCHANGED <<pending, req, acct, code>>
        BY <2>1, <4>2 DEF FindOne, Go, TypeOK, ControlOK, ControlAt, WroteAt, Wrote
      <4>. QED BY <3>2, <4>1, <4>2 DEF NotFound
    <3>. QED BY <2>1, <3>1, <3>2 DEF FindOne
  <2>2. CASE ReadFails(p)
    BY <2>2, FailControl DEF ReadFails, Codes
  <2>3. CASE MongoBegin(p)
    BY <2>3, Admitted, RequestShape
    DEF MongoBegin, Go, TypeOK, ControlOK, ControlAt, WroteAt, Wrote
  <2>4. CASE StatementDone(p)
    <3>1. ASSUME NEW k \in Codes, Refuses(p, k)
          PROVE  ControlAt(p)' /\ WroteAt(p)'
      BY <2>4, <3>1, AbortControl, StatementIds DEF StatementDone, Refuses
    <3>2. ASSUME NEW i \in Ids, NEW a, Go(p, "commit") \/ Go(p, AfterWrite(p)),
                 pending' = [pending EXCEPT ![p] = [id |-> i, row |-> a]],
                 req[p].op = "create" => Go(p, "commit"), UNCHANGED <<req, code>>
          PROVE  ControlAt(p)' /\ WroteAt(p)'
      <4>1. pending'[p].id = i /\ i # NoId /\ pc[p] = "stmt"
        BY <2>4, <3>2 DEF StatementDone, TypeOK
      <4>2. pc'[p] \in {"commit", "lookup"} /\ (pc'[p] = "lookup" => req[p].op = "update")
        BY <3>2, <4>1, StatementIds DEF Go, AfterWrite, TypeOK
      <4>. QED BY <3>2, <4>1, <4>2, StatementIds DEF ControlOK, ControlAt, WroteAt, Wrote
    <3>3. CASE Creates(p)
      BY <3>2, <3>3 DEF Creates, InsertRow
    <3>4. CASE Changes(p)
      BY <2>4, <3>2, <3>4, StatementIds
      DEF StatementDone, Changes, Overwrites, Writes
    <3>. QED BY <2>4, <3>1, <3>3, <3>4 DEF StatementDone
  <2>. QED BY <2>1, <2>2, <2>3, <2>4 DEF NewStep
<1>. QED BY <1>1, <1>2 DEF ControlOK

LEMMA NewData ==
  ASSUME RowInv, NEW p \in Clients, NewStep(p)
  PROVE  DataNext(backend # "mongo")
<1>1. ASSUME NEW k, Leave(p, k) \/ Abort(p, k), UNCHANGED <<rows, used>>
      PROVE  DataNext(backend # "mongo")
  BY <1>1 DEF DataNext, Ends, Keeps, Leave, Abort
<1>2. CASE FindOne(p) \/ ReadFails(p) \/ MongoBegin(p)
  BY <1>1, <1>2
  DEF FindOne, ReadFails, MongoBegin, Found, NotFound, Fail, DataNext, Keeps
<1>3. CASE StatementDone(p)
  <2>1. ASSUME NEW k \in Codes, Refuses(p, k)
        PROVE  DataNext(backend # "mongo")
    BY <1>1, <1>3, <2>1 DEF StatementDone, Refuses
  <2>2. CASE Creates(p)
    BY <1>3, <2>2 DEF StatementDone, Creates, InsertRow, DataNext, Inserts, Writes
  <2>3. CASE Changes(p)
    BY <1>3, <2>3, StatementIds DEF StatementDone, Changes, Overwrites, DataNext
  <2>. QED BY <1>3, <2>1, <2>2, <2>3 DEF StatementDone
<1>. QED BY <1>2, <1>3 DEF NewStep

LEMMA NewRefines ==
  ASSUME RowInv, NEW p \in Clients, NewStep(p)
  PROVE  [Abs!Next]_(Abs!vars)
<1>. USE DEF RowInv
<1>1. CASE FindOne(p)
  <2>1. CASE \E a \in Selected(p) : Found(p, a)
    BY <1>1, <2>1, FoundRefines DEF FindOne
  <2>2. CASE Selected(p) = {} /\ NotFound(p)
    <3>1. CASE req[p].op = "create"
      BY <1>1, <2>2, <3>1, Invisible DEF FindOne, NotFound, Steps
    <3>2. CASE req[p].op # "create"
      <4>1. rows[req[p].id] = NoAccount
        <5>1. Matches(p) = {}
          BY <2>2 DEF Selected
        <5>. QED BY <1>1, <3>2, <5>1, MissIsTrue DEF FindOne
      <4>. QED BY <1>1, <2>2, <3>2, <4>1, Refusal DEF FindOne, NotFound, Fail, Codes
    <3>. QED BY <3>1, <3>2
  <2>. QED BY <1>1, <2>1, <2>2 DEF FindOne
<1>2. CASE ReadFails(p)
  BY <1>2, Refusal DEF ReadFails, Fail, Codes
<1>3. CASE MongoBegin(p)
  BY <1>3, Invisible DEF MongoBegin, Steps
<1>4. CASE StatementDone(p)
  <2>1. ASSUME NEW k \in Codes, Refuses(p, k)
        PROVE  Abs!Next
    BY <1>4, <2>1, Refusal DEF StatementDone, Refuses
  <2>2. CASE Creates(p) \/ Changes(p)
    BY <1>4, <2>2, Invisible
    DEF StatementDone, Creates, InsertRow, Changes, Overwrites, Writes, AfterWrite, Steps
  <2>. QED BY <1>4, <2>1, <2>2 DEF StatementDone
<1>. QED BY <1>1, <1>2, <1>3, <1>4 DEF NewStep
-----------------------------------------------------------------------------
(* The invariant of all backends, and the refinement. *)

\* Whatever the step, some lemma covers it.
LEMMA BackendStep ==
  ASSUME RowInv, [BNext]_bvars
  PROVE  [Next]_vars \/ \E p \in Clients : NewStep(p)
BY UncachedCases DEF BNext, bvars, vars

LEMMA NewStored ==
  ASSUME NothingStored, NEW p \in Clients, NewStep(p)
  PROVE  NothingStored'
BY DEF NothingStored, NewStep, FindOne, ReadFails, MongoBegin, StatementDone

LEMMA NextControl ==
  ASSUME RowInv, [BNext]_bvars
  PROVE  TypeOK' /\ NothingStored' /\ ControlOK' /\ DataNext(backend # "mongo")
<1>1. CASE [Next]_vars
  <2>1. DataNext(TRUE) => DataNext(backend # "mongo")
    BY DEF DataNext
  <2>. QED BY <1>1, <2>1, TypeStep, NothingStoredStep, ControlStep, DataStep DEF RowInv
<1>. QED BY <1>1, BackendStep, NewType, NewStored, NewControl, NewData DEF RowInv

LEMMA NextBackendInv == BackendInv /\ [BNext]_bvars => BackendInv'
<1>. SUFFICES ASSUME BackendInv, [BNext]_bvars
              PROVE  BackendInv'
  OBVIOUS
<1>1. RowInv /\ (backend # "mongo" => EmailInv) /\ backend' = backend
  BY DEF BackendInv, BNext, bvars
<1>2. TypeOK' /\ NothingStored' /\ ControlOK' /\ DataNext(backend # "mongo")
  BY <1>1, NextControl
<1>3. RowInv'
  BY <1>1, <1>2, RowStep DEF RowInv
<1>4. ASSUME backend # "mongo" PROVE EmailInv'
  <2>1. DataNext(TRUE)
    BY <1>2, <1>4
  <2>. QED BY <1>1, <1>4, <2>1, EmailStep DEF IInv
<1>. QED BY <1>1, <1>3, <1>4 DEF BackendInv

\* On every backend an open transaction has written the effect of its request on
\* the committed row, and where e-mail has a unique index e-mails are unique.
THEOREM BackendInvariance == BSpec => []BackendInv
<1>1. BInit => BackendInv
  BY InitIInv DEF BInit, BackendInv, IInv
<1>. QED BY <1>1, NextBackendInv, PTL DEF BSpec

LEMMA BackendRefines ==
  BackendInv /\ [BNext]_bvars
    => [Abs!Next \/ \E p \in Clients : StoresDuplicate(p)]_(Abs!vars)
<1>. SUFFICES ASSUME BackendInv, [BNext]_bvars
              PROVE  [Abs!Next \/ \E p \in Clients : StoresDuplicate(p)]_(Abs!vars)
  OBVIOUS
<1>1. CASE \E p \in Clients : NewStep(p)
  BY <1>1, NewRefines DEF BackendInv
<1>2. CASE [Next]_vars /\ \A p \in Clients : ~Duplicates(p)
  BY <1>2, StepRefines DEF BackendInv
<1>3. ASSUME NEW p \in Clients, Duplicates(p)
      PROVE  StoresDuplicate(p)
  <2>1. backend = "mongo"
    BY <1>3, NoDuplicates DEF BackendInv, IInv
  <2>. QED BY <1>3, <2>1 DEF Duplicates, StoresDuplicate
<1>. QED BY <1>1, <1>2, <1>3, BackendStep DEF BackendInv

\* The core over any of the backends implements the abstract table, duplicates
\* on MongoDB without its index excepted.
THEOREM BackendsAreTables == BSpec => BackendsImplementTable
BY BackendInvariance, BackendRefines, PTL DEF BSpec, BackendsImplementTable
-----------------------------------------------------------------------------
(* Waiting. *)

\* Who has written a row is in a transaction and past the one statement that can
\* block; reads inside a transaction run on its connection.
LEMMA WritersGoOn ==
  ASSUME RowInv, NEW p \in Clients, Wrote(p)
  PROVE  InTx(p) /\ ~Waits(p)
<1>1. /\ pc[p] \in {"evict", "commit", "abort", "lookup", "load", "store"}
      /\ pc[p] \in {"lookup", "load", "store"} => req[p].op = "update"
  BY DEF RowInv, ControlOK, WroteAt
<1>2. InTx(p)
  BY <1>1 DEF InTx
<1>. QED BY <1>1, <1>2 DEF Waits, WaitsForConn, WaitsForRow, LoadReady

\* A row or an e-mail is held by somebody who has written it.
LEMMA BlockedByWriter ==
  ASSUME RowInv, NEW p \in Clients, WaitsForRow(p)
  PROVE  \E q \in Clients : Wrote(q)
<1>1. pc[p] = "stmt" /\ Blocked(p)
  BY DEF WaitsForRow
<1>2. req[p].op = "create" \/ req[p].id \in Ids
  BY <1>1, StatementIds
<1>3. PICK q \in Clients :
        IF req[p].op = "create" THEN HoldsEmail(q, req[p].email) ELSE HoldsId(q, req[p].id)
  BY <1>1 DEF Blocked
<1>. QED BY <1>2, <1>3 DEF HoldsEmail, HoldsId, Wrote

\* On no backend do calls wait for each other in a circle, over rows, e-mails and
\* connections: the pool may be of any size, and may have lost one connection to the
\* migration.
THEOREM NobodyWaitsInCircles == BSpec => []NoCircularWait
<1>1. ASSUME BackendInv, MaxConns > 0, NEW p \in Clients, Waits(p)
      PROVE  \E q \in Clients : InTx(q) /\ ~Waits(q)
  <2>. USE <1>1 DEF BackendInv
  <2>1. CASE \E q \in Clients : Wrote(q)
    BY <2>1, WritersGoOn
  <2>2. CASE \A q \in Clients : ~Wrote(q)
    <3>1. \A q \in Clients : ~WaitsForRow(q)
      BY <2>2, BlockedByWriter
    <3>2. {q \in Clients : InTx(q)} # {}
      <4>1. Cardinality({}) = 0 /\ MaxConns \in Int
        BY FS_EmptySet DEF MaxConns
      <4>2. ~FreeConn
        BY <1>1, <3>1 DEF Waits, WaitsForConn
      <4>. QED BY <1>1, <4>1, <4>2 DEF FreeConn
    <3>3. PICK q \in Clients : InTx(q)
      BY <3>2
    <3>4. ~WaitsForConn(q)
      BY <3>3 DEF WaitsForConn, LoadReady, InTx
    <3>. QED BY <3>1, <3>3, <3>4 DEF Waits
  <2>. QED BY <2>1, <2>2
<1>2. BackendInv => NoCircularWait
  BY <1>1, WritersGoOn DEF NoCircularWait, BackendInv
<1>. QED BY <1>2, BackendInvariance, PTL
-----------------------------------------------------------------------------
(* Answers. *)

\* What the transports expect of each operation.
LEMMA Expected ==
  ASSUME NEW r \in Requests
  PROVE  /\ "internal" \in AnswersTo(r)
         /\ r.op = "create" => {"too_many_requests", "invalid_email", "weak_password",
                                "account_already_exists"} \subseteq AnswersTo(r)
         /\ ~BadStatus(r) => "ok" \in AnswersTo(r)
         /\ r.op # "create" /\ ~BadStatus(r) => "account_not_found" \in AnswersTo(r)
         /\ BadStatus(r) => "invalid_status" \in AnswersTo(r)
<1>. DEFINE call == [op |-> r.op, flaw |-> IF BadStatus(r) THEN "status" ELSE "none"]
<1>1. Transport!Outcomes(call) =
        IF BadStatus(r) THEN {"invalid_status"} ELSE {"ok"} \cup Transport!Errors[r.op]
  BY DEF Transport!Outcomes, BadStatus
<1>2. /\ r.op = "create" => Transport!Errors[r.op] =
              {"too_many_requests", "invalid_email", "weak_password",
               "account_already_exists", "internal", "plain"}
      /\ r.op # "create" => Transport!Errors[r.op] =
              {"account_not_found", "internal", "plain"}
  BY RequestShape DEF Transport!Errors
<1>3. \A e \in {"invalid_status", "too_many_requests", "invalid_email", "weak_password",
                "account_already_exists", "account_not_found"} :
        e # "ok" /\ Transport!FromError(e) = e
  BY DEF Transport!FromError, Transport!HttpStatus
<1>4. \A e \in Transport!Outcomes(call) :
        (IF e = "ok" THEN e ELSE Transport!FromError(e)) \in AnswersTo(r)
  BY DEF AnswersTo
<1>5. ~BadStatus(r) => "ok" \in AnswersTo(r)
  <2>1. ~BadStatus(r) => "ok" \in Transport!Outcomes(call)
    BY <1>1
  <2>. QED BY <1>4, <2>1
<1>6. ASSUME NEW e \in {"invalid_status", "too_many_requests", "invalid_email",
                        "weak_password", "account_already_exists", "account_not_found"},
             e \in Transport!Outcomes(call)
      PROVE  e \in AnswersTo(r)
  BY <1>3, <1>4, <1>6
<1>7. r.op = "create" => ~BadStatus(r)
  BY DEF BadStatus
<1>8. "internal" \in AnswersTo(r)
  BY DEF AnswersTo
<1>. HIDE DEF call
<1>. QED BY <1>1, <1>2, <1>5, <1>6, <1>7, <1>8

\* A call that rolls back has its answer already.
AbortsListed == \A p \in Clients : pc[p] = "abort" => code[p] \in AnswersTo(req[p])

\* After a step of p its call goes on, has been refused for want of an id, or has an
\* answer the transports expect.
Settled(p) ==
  \/ pc'[p] \notin {"idle", "abort"}
  \/ pc'[p] = "idle" /\ req[p].op # "create" /\ req[p].id = NoId
  \/ code'[p] \in AnswersTo(req[p]) /\ (pc'[p] = "abort" => req'[p] = req[p])

LEMMA VerdictExpected ==
  ASSUME NEW r \in Requests, NEW v \in Verdicts(r), v # "proceed",
         r.op = "create" \/ r.id # NoId
  PROVE  v \in AnswersTo(r)
<1>1. CASE r.op = "create"
  BY <1>1, Expected DEF Verdicts, CreateVerdict
<1>2. CASE r.op = "update"
  BY <1>2, Expected DEF Verdicts, UpdateVerdict, BadStatus
<1>3. CASE r.op \notin {"create", "update"}
  BY <1>3 DEF Verdicts, IdVerdict
<1>. QED BY <1>1, <1>2, <1>3

LEMMA EndSettles ==
  ASSUME TypeOK, NEW p \in Clients, NEW k \in AnswersTo(req[p]), Leave(p, k) \/ Abort(p, k)
  PROVE  Settled(p)
BY DEF TypeOK, Leave, Abort, Go, Settled

LEMMA MoveSettles ==
  ASSUME TypeOK, NEW p \in Clients, NEW s \in Steps \ {"idle", "abort"}, Go(p, s)
  PROVE  Settled(p)
BY DEF TypeOK, Go, Settled

\* Past its entry checks a request is sound, and each of its endings is expected.
LEMMA StepSettles ==
  ASSUME RowInv, AbortsListed, NEW p \in Clients, Step(p) \/ Failure(p) \/ NewStep(p)
  PROVE  Settled(p)
<1>. USE EndSettles, MoveSettles DEF RowInv, Steps
<1>1. pc[p] # "idle" /\ req[p] \in Requests
  <2>1. pc[p] # "idle"
    BY DEF Step, Failure, NewStep, Admit, Begin, Lookup, Load, Store, Statement, Evict,
           Commit, Rollback, BeginFails, LoadFails, StatementFails, CommitFails, Cancel,
           FindOne, ReadFails, MongoBegin, StatementDone
  <2>. QED BY <2>1, Admitted
<1>2. /\ "internal" \in AnswersTo(req[p])
      /\ pc[p] # "admit" => "ok" \in AnswersTo(req[p])
      /\ pc[p] # "admit" /\ req[p].op # "create" => "account_not_found" \in AnswersTo(req[p])
      /\ req[p].op = "create" => "account_already_exists" \in AnswersTo(req[p])
  <2>1. pc[p] # "admit" => ~BadStatus(req[p])
    BY <1>1 DEF ControlOK, ControlAt, BadStatus
  <2>. QED BY <1>1, <2>1, Expected
<1>3. ASSUME NEW a, Found(p, a), pc[p] # "admit"
      PROVE  Settled(p)
  BY <1>2, <1>3 DEF Found
<1>4. ASSUME NotFound(p), pc[p] # "admit"
      PROVE  Settled(p)
  BY <1>2, <1>4 DEF NotFound, Fail
<1>5. CASE Admit(p)
  <2>1. PICK v \in Verdicts(req[p]) :
          \/ /\ v = "proceed"
             /\ Go(p, IF req[p].op = "get" THEN "lookup" ELSE "begin")
          \/ v # "proceed" /\ Leave(p, v)
    BY <1>5 DEF Admit
  <2>2. CASE v = "proceed"
    BY <2>1, <2>2
  <2>3. CASE v # "proceed" /\ (req[p].op = "create" \/ req[p].id # NoId)
    <3>1. v \in AnswersTo(req[p])
      BY <1>1, <2>3, VerdictExpected
    <3>. QED BY <2>1, <2>3, <3>1
  <2>4. CASE v # "proceed" /\ req[p].op # "create" /\ req[p].id = NoId
    BY <2>1, <2>4 DEF Leave, Go, Settled, TypeOK
  <2>. QED BY <2>2, <2>3, <2>4
<1>6. CASE Lookup(p) \/ FindOne(p)
  <2>1. pc[p] = "lookup"
    BY <1>6 DEF Lookup, FindOne
  <2>2. (\E a : Found(p, a)) \/ Go(p, "load") \/ NotFound(p)
    BY <1>6 DEF Lookup, FindOne
  <2>. QED BY <1>3, <1>4, <2>1, <2>2
<1>7. CASE Load(p)
  BY <1>4, <1>7 DEF Load
<1>8. CASE Store(p)
  BY <1>2, <1>3, <1>8 DEF Store, Fail
<1>9. CASE Statement(p)
  <2>1. CASE Insert(p)
    BY <1>2, <1>9, <2>1 DEF Statement, Insert, InsertRow
  <2>2. CASE UpdateRow(p) \/ DeleteRow(p)
    BY <1>2, <1>9, <2>2 DEF Statement, UpdateRow, DeleteRow, WriteRow
  <2>. QED BY <1>9, <2>1, <2>2 DEF Statement
<1>10. CASE StatementDone(p)
  <2>1. ASSUME NEW k \in Codes, Refuses(p, k)
        PROVE  Settled(p)
    BY <1>2, <1>10, <2>1 DEF StatementDone, Refuses
  <2>2. CASE Creates(p) \/ Changes(p)
    BY <2>2 DEF Creates, InsertRow, Changes, AfterWrite
  <2>. QED BY <1>10, <2>1, <2>2 DEF StatementDone
<1>11. CASE Begin(p) \/ MongoBegin(p) \/ Evict(p)
  BY <1>11 DEF Begin, MongoBegin, Evict, AfterWrite
<1>12. CASE Commit(p) \/ Rollback(p)
  BY <1>2, <1>12 DEF Commit, Rollback, AbortsListed
<1>13. CASE Failure(p) \/ ReadFails(p)
  BY <1>2, <1>13
  DEF Failure, ReadFails, BeginFails, LoadFails, StatementFails, CommitFails, Cancel, Fail
<1>. QED
  BY <1>5, <1>6, <1>7, <1>8, <1>9, <1>10, <1>11, <1>12, <1>13 DEF Step, NewStep

\* Every step of the service, told by whose call it is.
LEMMA WhoseStep ==
  ASSUME RowInv, [BNext]_bvars
  PROVE  \/ \E p \in Clients :
               /\ Step(p) \/ Failure(p) \/ NewStep(p)
               /\ \A q \in Clients \ {p} : Kept(q)
         \/ \E p \in Clients, r \in Requests : Start(p, r)
         \/ \E k \in Keys : Expire(k)
         \/ UNCHANGED vars
BY BackendStep, OthersKept, NewKept DEF Next, RowInv

LEMMA AnswersStep ==
  ASSUME RowInv, AbortsListed, [BNext]_bvars
  PROVE  /\ AbortsListed'
         /\ \A p \in Clients :
              /\ pc[p] # "idle" /\ pc'[p] = "idle"
              /\ req[p].op = "create" \/ req[p].id # NoId
              => code'[p] \in AnswersTo(req[p])
<1>1. ASSUME NEW p \in Clients, Step(p) \/ Failure(p) \/ NewStep(p),
             \A q \in Clients \ {p} : Kept(q), NEW q \in Clients
      PROVE  /\ pc'[q] = "abort" => code'[q] \in AnswersTo(req'[q])
             /\ /\ pc[q] # "idle" /\ pc'[q] = "idle"
                /\ req[q].op = "create" \/ req[q].id # NoId
                => code'[q] \in AnswersTo(req[q])
  <2>1. CASE q = p
    BY <1>1, <2>1, StepSettles DEF Settled
  <2>2. CASE q # p
    BY <1>1, <2>2 DEF Kept, AbortsListed
  <2>. QED BY <2>1, <2>2
<1>2. ASSUME NEW p \in Clients, NEW r \in Requests, Start(p, r)
      PROVE  /\ AbortsListed'
             /\ \A q \in Clients : pc[q] # "idle" => pc'[q] # "idle"
  BY <1>2 DEF Start, Go, AbortsListed, AnswersTo, RowInv, TypeOK
<1>3. CASE UNCHANGED <<pc, req, code>>
  BY <1>3 DEF AbortsListed, AnswersTo
<1>4. (\E k \in Keys : Expire(k)) \/ UNCHANGED vars => UNCHANGED <<pc, req, code>>
  BY DEF Expire, vars
<1>. QED BY <1>1, <1>2, <1>3, <1>4, WhoseStep DEF AbortsListed

\* Whatever overlaps and fails, and on every backend, the use case answers only with
\* codes the transports expect of the operation.
THEOREM AnswersAreExpected == BSpec => OutcomesListed
<1>1. BInit => AbortsListed
  BY DEF BInit, Init, AbortsListed
<1>2. BackendInv /\ AbortsListed /\ [BNext]_bvars => AbortsListed'
  BY AnswersStep DEF BackendInv
<1>3. BackendInv /\ AbortsListed /\ [BNext]_bvars =>
        [\A p \in Clients :
           /\ pc[p] # "idle" /\ pc'[p] = "idle"
           /\ req[p].op = "create" \/ req[p].id # NoId
           => code'[p] \in AnswersTo(req[p])]_vars
  BY AnswersStep DEF BackendInv
<1>. QED BY <1>1, <1>2, <1>3, BackendInvariance, PTL DEF BSpec, OutcomesListed

\* An uncached read sees committed rows, except the caller's own, and a create that
\* looks has written nothing.
LEMMA UncachedOwnStep ==
  ASSUME RowInv, backend # "gorm", NEW p \in Clients, UncachedStep(p), pc[p] # "abort",
         code'[p] = "account_already_exists", code[p] # "account_already_exists"
  PROVE  EmailTaken(rows, req[p].email)
<1>. USE DEF RowInv
<1>1. ASSUME NEW k, Leave(p, k) \/ Abort(p, k)
      PROVE  k = "account_already_exists"
  BY <1>1 DEF Leave, Abort, TypeOK
<1>2. ~UNCHANGED code
  OBVIOUS
<1>3. ~BeginFails(p) /\ ~ReadFails(p) /\ ~StatementFails(p) /\ ~CommitFails(p) /\ ~Cancel(p)
  BY <1>1 DEF BeginFails, ReadFails, StatementFails, CommitFails, Cancel, Fail
<1>4. ~Begin(p) /\ ~MongoBegin(p) /\ ~Commit(p) /\ ~Rollback(p)
  BY <1>1, <1>2 DEF Begin, MongoBegin, Commit, Rollback
<1>5. ~Admit(p)
  <2>1. ASSUME NEW v \in Verdicts(req[p])
        PROVE  v # "account_already_exists"
    BY DEF Verdicts, CreateVerdict, UpdateVerdict, IdVerdict
  <2>. QED BY <1>1, <1>2, <2>1 DEF Admit
<1>6. CASE FindOne(p)
  <2>1. PICK a \in Selected(p) : Found(p, a)
    BY <1>1, <1>2, <1>6 DEF FindOne, NotFound, Fail
  <2>2. req[p].op = "create"
    BY <1>1, <1>2, <2>1 DEF Found
  <2>3. View(p) = rows
    BY <1>6, <2>2 DEF FindOne, View, ControlOK, WroteAt
  <2>. QED BY <2>1, <2>2, <2>3 DEF Selected, Matches, EmailTaken
<1>7. CASE StatementDone(p)
  BY <1>1, <1>2, <1>7 DEF StatementDone, Refuses, Creates, InsertRow, Changes
<1>. QED
  BY <1>3, <1>4, <1>5, <1>6, <1>7, SqlcDone, MongoDone
  DEF UncachedStep, SqlcStep, MongoStep, SqlcRead

\* On the backends without the cache, and behind Redis, the e-mail of a create that is
\* refused as a duplicate is in the table: only an in-process cache can be wrong there.
THEOREM UncachedRefusalsAreTrue == BSpec => UncachedExistsJustified
<1>1. ASSUME BackendInv, BNext, NEW p \in Clients, backend # "gorm", pc[p] # "abort",
             code'[p] = "account_already_exists", code[p] # "account_already_exists"
      PROVE  EmailTaken(rows, req[p].email)
  <2>1. RowInv
    BY <1>1 DEF BackendInv
  <2>2. PICK q \in Clients : (\E r \in Requests : Start(q, r)) \/ UncachedStep(q)
    BY <1>1 DEF BNext, UncachedNext
  <2>3. ~\E r \in Requests : Start(q, r)
    BY <1>1, <2>1 DEF Start, RowInv, TypeOK
  <2>4. Step(q) \/ Failure(q) \/ NewStep(q)
    BY <1>1, <2>1, <2>2, <2>3, SqlcDone, MongoDone
    DEF UncachedStep, SqlcStep, MongoStep, SqlcRead, NewStep, Step, Failure
  <2>5. q = p
    BY <1>1, <2>1, <2>4, OthersKept, NewKept DEF Kept, RowInv
  <2>. QED BY <1>1, <2>1, <2>2, <2>3, <2>5, UncachedOwnStep
<1>2. ASSUME BackendInv, BNext, NEW p \in Clients, backend = "gorm", Manager = "redis",
             pc[p] # "abort",
             code'[p] = "account_already_exists", code[p] # "account_already_exists"
      PROVE  EmailTaken(rows, req[p].email)
  BY <1>2, RefusedStep DEF BackendInv, BNext
<1>3. BackendInv /\ [BNext]_bvars =>
        [\A p \in Clients :
           /\ backend # "gorm" \/ Manager = "redis"
           /\ pc[p] # "abort"
           /\ code'[p] = "account_already_exists" /\ code[p] # "account_already_exists"
           => EmailTaken(rows, req[p].email)]_bvars
  BY <1>1, <1>2
<1>. QED BY <1>3, BackendInvariance, PTL DEF BSpec, UncachedExistsJustified
-----------------------------------------------------------------------------
(* Copies of accounts. *)

\* a is account i in the table or in an open transaction; or in the cache or a call.
HeldAs(i, a) == a = rows[i] \/ \E p \in Clients : pending[p].id = i /\ a = pending[p].row

ReadAs(i, a) ==
  \/ a = cache[IdKey(i)]
  \/ \E p \in Clients :
       pc[p] # "idle" /\ req[p].op \in {"get", "update"} /\ req[p].id = i /\ a = acct[p]

LEMMA CopyIs ==
  ASSUME NEW i \in Ids, NEW a
  PROVE  /\ a \in Copies(i) <=> a # NoAccount /\ (HeldAs(i, a) \/ ReadAs(i, a))
         /\ a \in Copies(i)' <=> a # NoAccount /\ (HeldAs(i, a) \/ ReadAs(i, a))'
BY DEF Copies, HeldAs, ReadAs

\* What a transaction reads as row i is a copy of account i.
LEMMA ViewIsCopy ==
  ASSUME TypeOK, NEW p \in Clients, NEW i \in Ids, View(p)[i] # NoAccount
  PROVE  View(p)[i] \in Copies(i)
<1>1. HeldAs(i, View(p)[i])
  BY DEF View, HeldAs, TypeOK, Wrote
<1>. QED BY <1>1, CopyIs

\* The table and the transactions get new copies with the e-mail of older ones, or
\* of the create that has just drawn the id.
Descends(i, a, e) ==
  \/ \E b \in Copies(i) : b.email = a.email
  \/ i \in used' \ used /\ a.email = e

LEMMA HeldStep ==
  ASSUME RowInv, NEW indexed, DataNext(indexed)
  PROVE  \E e : \A i \in Ids : \A a : a # NoAccount /\ HeldAs(i, a)' => Descends(i, a, e)
<1>. USE DEF RowInv
<1>1. ASSUME NEW i \in Ids, NEW a, a # NoAccount, HeldAs(i, a)
      PROVE  \A e : Descends(i, a, e)
  BY <1>1, CopyIs DEF Descends
<1>2. CASE UNCHANGED <<rows, pending>>
  BY <1>1, <1>2 DEF HeldAs
<1>3. ASSUME NEW p \in Clients, Ends(p)
      PROVE  \A i \in Ids : \A a : a # NoAccount /\ HeldAs(i, a)' => \A e : Descends(i, a, e)
  <2>1. ASSUME NEW i \in Ids, NEW a, a # NoAccount, HeldAs(i, a)'
        PROVE  HeldAs(i, a)
    <3>1. CASE a = rows'[i]
      BY <1>3, <2>1, <3>1 DEF Ends, View, Wrote, HeldAs, TypeOK
    <3>2. CASE \E q \in Clients : pending'[q].id = i /\ a = pending'[q].row
      BY <1>3, <2>1, <3>2 DEF Ends, NoWrite, HeldAs, TypeOK
    <3>. QED BY <2>1, <3>1, <3>2 DEF HeldAs
  <2>. QED BY <1>1, <2>1
<1>4. ASSUME NEW p \in Clients, NEW j \in Ids, Inserts(p, j)
      PROVE  \A i \in Ids : \A a :
               a # NoAccount /\ HeldAs(i, a)' => Descends(i, a, req[p].email)
  <2>1. NewAccount(req[p]).email = req[p].email
    BY <1>4, NewRow DEF Inserts, Writes
  <2>2. ASSUME NEW i \in Ids, NEW a, HeldAs(i, a)'
        PROVE  HeldAs(i, a) \/ (i = j /\ a = NewAccount(req[p]))
    BY <1>4, <2>2 DEF Inserts, Writes, HeldAs, TypeOK
  <2>3. Descends(j, NewAccount(req[p]), req[p].email)
    BY <1>4, <2>1 DEF Inserts, Descends
  <2>. QED BY <1>1, <2>2, <2>3
<1>5. ASSUME NEW p \in Clients, NEW j \in Ids, Overwrites(p, j)
      PROVE  \A i \in Ids : \A a : a # NoAccount /\ HeldAs(i, a)' => \A e : Descends(i, a, e)
  <2>1. ASSUME NEW i \in Ids, NEW a, a # NoAccount, HeldAs(i, a)'
        PROVE  HeldAs(i, a) \/ (i = j /\ req[p].op = "update" /\ a = Patched(rows[j], req[p]))
    BY <1>5, <2>1 DEF Overwrites, Writes, HeldAs, TypeOK
  <2>2. req[p].op = "update" => Patched(rows[j], req[p]).email = rows[j].email
    BY <1>5, PatchedRow DEF Overwrites, Writes
  <2>3. rows[j] \in Copies(j)
    BY <1>5, CopyIs DEF Overwrites, HeldAs
  <2>4. ASSUME NEW e, req[p].op = "update"
        PROVE  Descends(j, Patched(rows[j], req[p]), e)
    BY <2>2, <2>3, <2>4 DEF Descends
  <2>5. ASSUME NEW i \in Ids, NEW a, NEW e, a # NoAccount, HeldAs(i, a)'
        PROVE  Descends(i, a, e)
    <3>1. CASE HeldAs(i, a)
      BY <1>1, <2>5, <3>1
    <3>2. CASE i = j /\ req[p].op = "update" /\ a = Patched(rows[j], req[p])
      BY <2>4, <3>2
    <3>. QED BY <2>1, <2>5, <3>1, <3>2
  <2>. QED BY <2>5
<1>. QED BY <1>2, <1>3, <1>4, <1>5 DEF DataNext, Keeps, Starts

\* What a call loads.
Loads(p) ==
  \/ acct'[p] \in {acct[p], NoAccount}
  \/ \E i \in Matches(p) : acct'[p] = View(p)[i]
  \/ req[p].op = "update" /\ acct'[p] = cache[KeyOf(req[p])]

LEMMA LoadStep ==
  ASSUME RowInv, NEW p \in Clients, Step(p) \/ Failure(p) \/ NewStep(p)
  PROVE  \/ pc'[p] = "idle" /\ acct'[p] = NoAccount
         \/ pc[p] # "idle" /\ pc'[p] # "idle" /\ req'[p] = req[p] /\ Loads(p)
<1>. USE DEF RowInv, TypeOK, Go, Steps
<1>1. ASSUME NEW k, Leave(p, k)
      PROVE  pc'[p] = "idle" /\ acct'[p] = NoAccount
  BY <1>1 DEF Leave
<1>2. ASSUME NEW k, Abort(p, k)
      PROVE  pc'[p] # "idle" /\ req'[p] = req[p] /\ Loads(p)
  BY <1>2 DEF Abort, Loads
<1>3. ASSUME NEW s \in Steps \ {"idle"}, Go(p, s), UNCHANGED <<req, acct>>
      PROVE  pc'[p] # "idle" /\ req'[p] = req[p] /\ Loads(p)
  BY <1>3 DEF Loads
<1>4. CASE Admit(p) \/ Begin(p) \/ MongoBegin(p) \/ Evict(p) \/ Commit(p) \/ Rollback(p)
  BY <1>1, <1>3, <1>4 DEF Admit, Begin, MongoBegin, Evict, AfterWrite, Commit, Rollback
<1>5. CASE Lookup(p) \/ FindOne(p)
  <2>1. ASSUME NEW a, Found(p, a), a \in {cache[KeyOf(req[p])], NoAccount} \/ \E i \in Matches(p) : a = View(p)[i]
        PROVE  \/ pc'[p] = "idle" /\ acct'[p] = NoAccount
               \/ pc'[p] # "idle" /\ req'[p] = req[p] /\ Loads(p)
    BY <1>1, <1>2, <2>1 DEF Found, Loads
  <2>2. pc[p] = "lookup"
    BY <1>5 DEF Lookup, FindOne
  <2>. QED
    BY <1>1, <1>2, <1>3, <1>5, <2>1, <2>2 DEF Lookup, Decoded, FindOne, Selected, NotFound, Fail
<1>6. CASE Load(p)
  <2>1. ASSUME NEW i \in Matches(p), acct' = [acct EXCEPT ![p] = View(p)[i]],
               Go(p, "store"), UNCHANGED req
        PROVE  pc'[p] # "idle" /\ req'[p] = req[p] /\ Loads(p)
    BY <2>1 DEF Loads
  <2>. QED BY <1>1, <1>2, <1>3, <1>6, <2>1 DEF Load, NotFound, Fail
<1>7. CASE Store(p)
  <2>1. ASSUME Found(p, acct[p])
        PROVE  \/ pc'[p] = "idle" /\ acct'[p] = NoAccount
               \/ pc'[p] # "idle" /\ req'[p] = req[p] /\ Loads(p)
    BY <1>1, <1>2, <2>1 DEF Found, Loads
  <2>. QED BY <1>1, <1>2, <1>7, <2>1 DEF Store, Fail
<1>8. CASE Statement(p) \/ StatementDone(p)
  BY <1>2, <1>3, <1>8
  DEF Statement, Insert, InsertRow, UpdateRow, DeleteRow, WriteRow,
      StatementDone, Refuses, Creates, Changes, Overwrites, Writes, AfterWrite
<1>9. CASE Failure(p) \/ ReadFails(p)
  BY <1>1, <1>2, <1>9
  DEF Failure, ReadFails, BeginFails, LoadFails, StatementFails, CommitFails, Cancel, Fail
<1>. QED BY <1>4, <1>5, <1>6, <1>7, <1>8, <1>9 DEF Step, NewStep

\* An entry comes from the account its reader has loaded.
LEMMA EntryStep ==
  ASSUME NEW p \in Clients, Step(p) \/ Failure(p) \/ NewStep(p)
  PROVE  \/ UNCHANGED cache
         \/ cache' = [cache EXCEPT ![IdKey(req[p].id)] = NoAccount]
         \/ pc[p] = "store" /\ cache' = [cache EXCEPT ![KeyOf(req[p])] = acct[p]]
BY DEF Step, Failure, NewStep, Admit, Begin, Lookup, Load, Store, Statement, Evict, EvictId,
       Commit, Rollback, BeginFails, LoadFails, StatementFails, CommitFails, Cancel,
       FindOne, ReadFails, MongoBegin, StatementDone

\* Reads and the cache only pass copies on, and e-mail keys keep their address.
LEMMA ReadStep ==
  ASSUME RowInv, CopiesAgree, CopiesKnown, [BNext]_bvars
  PROVE  /\ \A i \in Ids : \A a : a # NoAccount /\ ReadAs(i, a)' => a \in Copies(i)
         /\ \A e \in Emails :
              cache'[EmailKey(e)] # NoAccount => Lower[cache'[EmailKey(e)].email] = Lower[e]
         /\ \A p \in Clients :
              /\ pc'[p] = "idle" => acct'[p] = NoAccount
              /\ pc'[p] # "idle" /\ req'[p].op = "create" /\ acct'[p] # NoAccount =>
                   acct'[p].email = req'[p].email
<1>. USE DEF RowInv
<1>1. ASSUME NEW p \in Clients, Step(p) \/ Failure(p) \/ NewStep(p),
             \A q \in Clients \ {p} : Kept(q)
      PROVE  /\ \A i \in Ids : \A a : a # NoAccount /\ ReadAs(i, a)' => a \in Copies(i)
             /\ \A e \in Emails :
                  cache'[EmailKey(e)] # NoAccount => Lower[cache'[EmailKey(e)].email] = Lower[e]
             /\ \A q \in Clients :
                  /\ pc'[q] = "idle" => acct'[q] = NoAccount
                  /\ pc'[q] # "idle" /\ req'[q].op = "create" /\ acct'[q] # NoAccount =>
                       acct'[q].email = req'[q].email
  <2>1. \/ pc'[p] = "idle" /\ acct'[p] = NoAccount
        \/ pc[p] # "idle" /\ pc'[p] # "idle" /\ req'[p] = req[p] /\ Loads(p)
    BY <1>1, LoadStep
  <2>2. ASSUME NEW i \in Ids, pc'[p] # "idle", req'[p].op \in {"get", "update"},
               req'[p].id = i, acct'[p] # NoAccount
        PROVE  acct'[p] \in Copies(i)
    <3>1. pc[p] # "idle" /\ req'[p] = req[p] /\ Loads(p)
      BY <2>1, <2>2
    <3>2. CASE acct'[p] \in {acct[p], NoAccount}
      BY <2>2, <3>1, <3>2, CopyIs DEF ReadAs
    <3>3. CASE \E j \in Matches(p) : acct'[p] = View(p)[j]
      BY <2>2, <3>1, <3>3, ViewIsCopy DEF Matches
    <3>4. CASE req[p].op = "update" /\ acct'[p] = cache[KeyOf(req[p])]
      <4>1. KeyOf(req[p]) = IdKey(i)
        BY <2>2, <3>1, <3>4 DEF KeyOf
      <4>. QED BY <2>2, <3>4, <4>1, CopyIs DEF ReadAs
    <3>. QED BY <3>1, <3>2, <3>3, <3>4 DEF Loads
  <2>3. ASSUME NEW i \in Ids, cache'[IdKey(i)] # NoAccount
        PROVE  cache'[IdKey(i)] \in Copies(i)
    <3>1. IdKey(i) \in Keys
      BY DEF IdKey, Keys
    <3>2. CASE cache'[IdKey(i)] = cache[IdKey(i)]
      BY <2>3, <3>2, CopyIs DEF ReadAs
    <3>3. CASE cache'[IdKey(i)] # cache[IdKey(i)]
      <4>1. /\ pc[p] = "store"
            /\ KeyOf(req[p]) = IdKey(i)
            /\ cache'[IdKey(i)] = acct[p]
        BY <1>1, <2>3, <3>1, <3>3, EntryStep DEF TypeOK
      <4>2. req[p].op \in {"get", "update"} /\ req[p].id = i
        <5>1. req[p] \in Requests /\ req[p].op # "delete"
          BY <4>1, Admitted DEF ControlOK, ControlAt
        <5>. QED BY <4>1, <5>1, RequestShape DEF KeyOf, IdKey, EmailKey
      <4>. QED BY <2>3, <4>1, <4>2, CopyIs DEF ReadAs
    <3>. QED BY <3>2, <3>3
  <2>4. ASSUME NEW i \in Ids, NEW a, a # NoAccount, ReadAs(i, a)'
        PROVE  a \in Copies(i)
    <3>1. CASE a = cache'[IdKey(i)]
      BY <2>3, <2>4, <3>1
    <3>2. ASSUME NEW q \in Clients, pc'[q] # "idle", req'[q].op \in {"get", "update"},
                 req'[q].id = i, a = acct'[q]
          PROVE  a \in Copies(i)
      <4>1. CASE q = p
        BY <2>2, <2>4, <3>2, <4>1
      <4>2. CASE q # p
        <5>1. Kept(q)
          BY <1>1, <4>2
        <5>. QED BY <2>4, <3>2, <5>1, CopyIs DEF Kept, ReadAs
      <4>. QED BY <4>1, <4>2
    <3>. QED BY <2>4, <3>1, <3>2 DEF ReadAs
  <2>5. ASSUME NEW e \in Emails, cache'[EmailKey(e)] # NoAccount
        PROVE  Lower[cache'[EmailKey(e)].email] = Lower[e]
    <3>1. EmailKey(e) \in Keys
      BY DEF EmailKey, Keys
    <3>2. CASE cache'[EmailKey(e)] = cache[EmailKey(e)]
      BY <2>5, <3>2 DEF CopiesAgree
    <3>3. CASE cache'[EmailKey(e)] # cache[EmailKey(e)]
      <4>1. /\ pc[p] = "store"
            /\ KeyOf(req[p]) = EmailKey(e)
            /\ cache'[EmailKey(e)] = acct[p]
        BY <1>1, <2>5, <3>1, <3>3, EntryStep DEF TypeOK
      <4>2. req[p].op = "create" /\ Lower[req[p].email] = Lower[e]
        BY <4>1 DEF KeyOf, IdKey, EmailKey
      <4>. QED BY <2>5, <4>1, <4>2 DEF CopiesKnown
    <3>. QED BY <3>2, <3>3
  <2>6. ASSUME NEW q \in Clients
        PROVE  /\ pc'[q] = "idle" => acct'[q] = NoAccount
               /\ pc'[q] # "idle" /\ req'[q].op = "create" /\ acct'[q] # NoAccount =>
                    acct'[q].email = req'[q].email
    <3>1. CASE q # p
      BY <1>1, <3>1 DEF Kept, CopiesKnown
    <3>2. CASE q = p
      <4>1. ASSUME pc'[p] # "idle", req'[p].op = "create", acct'[p] # NoAccount
            PROVE  acct'[p].email = req[p].email
        BY <2>1, <4>1 DEF Loads, Matches, CopiesKnown
      <4>. QED BY <2>1, <3>2, <4>1
    <3>. QED BY <3>1, <3>2
  <2>. QED BY <2>4, <2>5, <2>6
<1>2. ASSUME NEW p \in Clients, NEW r \in Requests, Start(p, r)
      PROVE  /\ \A i \in Ids : \A a : a # NoAccount /\ ReadAs(i, a)' => ReadAs(i, a)
             /\ \A q \in Clients :
                  /\ pc'[q] = "idle" => acct'[q] = NoAccount
                  /\ pc'[q] # "idle" /\ req'[q].op = "create" /\ acct'[q] # NoAccount =>
                       acct'[q].email = req'[q].email
             /\ UNCHANGED cache
  <2>1. /\ UNCHANGED <<cache, acct>>
        /\ acct[p] = NoAccount
        /\ \A q \in Clients \ {p} : pc'[q] = pc[q] /\ req'[q] = req[q]
        /\ pc'[p] # "idle"
    BY <1>2 DEF Start, Go, CopiesKnown, TypeOK
  <2>2. ASSUME NEW i \in Ids, NEW a, a # NoAccount, ReadAs(i, a)'
        PROVE  ReadAs(i, a)
    BY <2>1, <2>2 DEF ReadAs
  <2>3. ASSUME NEW q \in Clients
        PROVE  /\ pc'[q] = "idle" => acct'[q] = NoAccount
               /\ pc'[q] # "idle" /\ req'[q].op = "create" /\ acct'[q] # NoAccount =>
                    acct'[q].email = req'[q].email
    BY <2>1 DEF CopiesKnown
  <2>. QED BY <2>1, <2>2, <2>3
<1>3. ASSUME \A k \in Keys : cache'[k] \in {cache[k], NoAccount}, UNCHANGED <<pc, req, acct>>
      PROVE  /\ \A i \in Ids : \A a : a # NoAccount /\ ReadAs(i, a)' => ReadAs(i, a)
             /\ \A e \in Emails : cache'[EmailKey(e)] \in {cache[EmailKey(e)], NoAccount}
  BY <1>3 DEF ReadAs, IdKey, EmailKey, Keys
<1>4. (\E k \in Keys : Expire(k)) \/ UNCHANGED vars =>
        (\A k \in Keys : cache'[k] \in {cache[k], NoAccount}) /\ UNCHANGED <<pc, req, acct>>
  BY DEF Expire, vars, TypeOK
<1>5. \A i \in Ids : \A a : a # NoAccount /\ ReadAs(i, a) => a \in Copies(i)
  BY CopyIs
<1>6. CASE (\E p \in Clients, r \in Requests : Start(p, r))
  BY <1>2, <1>5, <1>6 DEF CopiesAgree
<1>7. CASE (\E k \in Keys : Expire(k)) \/ UNCHANGED vars
  BY <1>3, <1>4, <1>5, <1>7 DEF CopiesAgree, CopiesKnown
<1>. QED BY <1>1, <1>6, <1>7, WhoseStep

LEMMA CopiesStep ==
  ASSUME RowInv, CopiesAgree, CopiesKnown, [BNext]_bvars
  PROVE  CopiesAgree' /\ CopiesKnown'
<1>1. PICK e : \A i \in Ids : \A a : a # NoAccount /\ HeldAs(i, a)' => Descends(i, a, e)
  BY NextControl, HeldStep
<1>2. ASSUME NEW i \in Ids, NEW a, a \in Copies(i)'
      PROVE  Descends(i, a, e)
  <2>1. CASE HeldAs(i, a)'
    BY <1>1, <1>2, <2>1, CopyIs
  <2>2. CASE ReadAs(i, a)'
    <3>1. a \in Copies(i)
      BY <1>2, <2>2, ReadStep, CopyIs
    <3>. QED BY <3>1 DEF Descends
  <2>. QED BY <1>2, <2>1, <2>2, CopyIs
<1>3. ASSUME NEW i \in Ids, NEW a \in Copies(i)', NEW b \in Copies(i)'
      PROVE  a.email = b.email
  <2>1. Descends(i, a, e) /\ Descends(i, b, e)
    BY <1>2
  <2>2. CASE i \in used
    BY <2>1, <2>2 DEF Descends, CopiesAgree
  <2>3. CASE i \notin used
    <3>1. Copies(i) = {}
      BY <2>3 DEF CopiesKnown
    <3>. QED BY <2>1, <3>1 DEF Descends
  <2>. QED BY <2>2, <2>3
<1>4. ASSUME NEW i \in Ids \ used'
      PROVE  Copies(i)' = {}
  <2>1. i \notin used
    BY NextControl, <1>4 DEF DataNext, Keeps, Starts, Ends, Inserts, Overwrites
  <2>2. Copies(i) = {}
    BY <2>1 DEF CopiesKnown
  <2>3. \A a \in Copies(i)' : Descends(i, a, e)
    BY <1>2
  <2>. QED BY <1>4, <2>2, <2>3 DEF Descends
<1>. QED BY <1>3, <1>4, ReadStep DEF CopiesAgree, CopiesKnown

\* On every backend: no call ever works with, and no cache entry ever serves, another
\* account's data under an account's id.
THEOREM CopiesStayTrue == BSpec => []CopiesAgree
<1>1. BInit => CopiesAgree /\ CopiesKnown
  <2>. SUFFICES ASSUME BInit PROVE CopiesAgree /\ CopiesKnown
    OBVIOUS
  <2>1. \A i \in Ids : Copies(i) = {}
    BY DEF BInit, Init, Copies, IdKey, Keys, NoWrite
  <2>2. \A e \in Emails : cache[EmailKey(e)] = NoAccount
    BY DEF BInit, Init, EmailKey, Keys
  <2>. QED BY <2>1, <2>2 DEF BInit, Init, CopiesAgree, CopiesKnown
<1>2. BackendInv /\ CopiesAgree /\ CopiesKnown /\ [BNext]_bvars => CopiesAgree' /\ CopiesKnown'
  BY CopiesStep DEF BackendInv
<1>. QED BY <1>1, <1>2, BackendInvariance, PTL DEF BSpec
-----------------------------------------------------------------------------
(* Where stale entries come from. *)

\* Only a COMMIT changes a row.
LEMMA RowsStep ==
  ASSUME RowInv, [BNext]_bvars
  PROVE  \/ rows' = rows
         \/ \E p \in Clients :
              /\ pc[p] = "commit" /\ EffectAt(p) /\ pending[p].id \in Ids
              /\ rows' = [rows EXCEPT ![pending[p].id] = pending[p].row]
<1>1. ASSUME NEW p \in Clients, Ends(p), rows' # rows
      PROVE  /\ pc[p] = "commit" /\ EffectAt(p) /\ pending[p].id \in Ids
             /\ rows' = [rows EXCEPT ![pending[p].id] = pending[p].row]
  BY <1>1, CommitChanges DEF Ends
<1>. QED BY <1>1, NextControl DEF DataNext, Keeps, Starts, Inserts, Overwrites, Writes

\* Without an update or a delete of account i its row can only appear.
LEMMA RowStays ==
  ASSUME RowInv, [BNext]_bvars, NEW i \in Ids,
         \A p \in Clients : Running(p, {"update", "delete"}) => req[p].id # i
  PROVE  rows[i] = NoAccount \/ rows'[i] = rows[i]
<1>1. ASSUME NEW p \in Clients, pc[p] = "commit", EffectAt(p), pending[p].id \in Ids,
             rows' = [rows EXCEPT ![pending[p].id] = pending[p].row], pending[p].id = i
      PROVE  rows[i] = NoAccount
  BY <1>1 DEF EffectAt, Running
<1>. QED BY <1>1, RowsStep DEF RowInv, TypeOK

\* Without a delete no account goes, and none changes its e-mail.
LEMMA EmailStays ==
  ASSUME RowInv, [BNext]_bvars, NEW i \in Ids, rows[i] # NoAccount,
         \A p \in Clients : ~Running(p, {"delete"})
  PROVE  rows'[i] # NoAccount /\ rows'[i].email = rows[i].email
<1>1. ASSUME NEW p \in Clients, pc[p] = "commit", EffectAt(p), pending[p].id = i
      PROVE  pending[p].row # NoAccount /\ pending[p].row.email = rows[i].email
  <2>1. req[p].op = "update" /\ pending[p].row = Patched(rows[i], req[p])
    BY <1>1 DEF EffectAt, Running
  <2>. QED BY <1>1, <2>1, PatchedRow DEF RowInv
<1>. QED BY <1>1, RowsStep DEF RowInv, TypeOK

\* Only a read that has found its account goes on to the cache.
LEMMA StoreComesFromLoad ==
  ASSUME RowInv, NEW p \in Clients, Step(p) \/ Failure(p) \/ NewStep(p), pc'[p] = "store"
  PROVE  Load(p) /\ req' = req /\ \E i \in Matches(p) : acct'[p] = View(p)[i]
<1>. USE DEF RowInv, TypeOK, Go, Leave, Abort, Fail, Found, NotFound
<1>1. CASE Load(p)
  BY <1>1 DEF Load
<1>2. ~Admit(p) /\ ~Begin(p) /\ ~MongoBegin(p) /\ ~Commit(p) /\ ~Rollback(p)
  BY DEF Admit, Begin, MongoBegin, Commit, Rollback
<1>3. ~Lookup(p) /\ ~Store(p) /\ ~FindOne(p)
  BY DEF Lookup, Store, FindOne
<1>4. ~Statement(p) /\ ~Evict(p)
  BY DEF Statement, Insert, InsertRow, UpdateRow, DeleteRow, WriteRow, Evict, AfterWrite
<1>5. ~StatementDone(p)
  BY DEF StatementDone, Refuses, Creates, InsertRow, Changes, AfterWrite
<1>6. ~Failure(p) /\ ~ReadFails(p)
  BY DEF Failure, ReadFails, BeginFails, LoadFails, StatementFails, CommitFails, Cancel
<1>. QED BY <1>1, <1>2, <1>3, <1>4, <1>5, <1>6 DEF Step, NewStep

\* A step that is no step of a call stores nothing and loads nothing.
LEMMA NoReader ==
  ASSUME RowInv,
         \/ \E p \in Clients, r \in Requests : Start(p, r)
         \/ \E k \in Keys : Expire(k)
         \/ UNCHANGED vars
  PROVE  /\ \A k \in Keys : cache'[k] \in {cache[k], NoAccount}
         /\ \A p \in Clients : pc'[p] = "store" =>
              pc[p] = "store" /\ req'[p] = req[p] /\ acct'[p] = acct[p]
BY DEF Start, Go, Expire, vars, RowInv, TypeOK

\* While account i is not written, cache and readers hold nothing but its row.
LEMMA IdStep ==
  ASSUME RowInv, [BNext]_bvars, NEW i \in Ids, FreshId(i),
         \A p \in Clients : Running(p, {"update", "delete"}) => req[p].id # i
  PROVE  FreshId(i)'
<1>. DEFINE Fresh(a) == a \in {NoAccount, rows[i]}
<1>1. IdKey(i) \in Keys /\ Fresh(cache[IdKey(i)])
  BY DEF IdKey, Keys, FreshId, IdCoherent
<1>2. ASSUME NEW p \in Clients, Step(p) \/ Failure(p) \/ NewStep(p),
             \A q \in Clients \ {p} : Kept(q)
      PROVE  /\ Fresh(cache'[IdKey(i)])
             /\ \A q \in Clients :
                  pc'[q] = "store" /\ req'[q].op = "get" /\ req'[q].id = i => Fresh(acct'[q])
  <2>1. ASSUME pc[p] = "store", cache' = [cache EXCEPT ![KeyOf(req[p])] = acct[p]]
        PROVE  Fresh(cache'[IdKey(i)])
    <3>1. KeyOf(req[p]) = IdKey(i) => req[p].op = "get" /\ req[p].id = i
      <4>1. req[p] \in Requests /\ req[p].op # "delete"
        BY <2>1, Admitted DEF RowInv, ControlOK, ControlAt
      <4>. QED BY <2>1, <4>1, RequestShape DEF KeyOf, IdKey, EmailKey, Running
    <3>. QED BY <1>1, <2>1, <3>1 DEF FreshId, RowInv, TypeOK
  <2>2. Fresh(cache'[IdKey(i)])
    BY <1>1, <1>2, <2>1, EntryStep DEF RowInv, TypeOK
  <2>3. ASSUME pc'[p] = "store", req'[p].op = "get", req'[p].id = i
        PROVE  Fresh(acct'[p])
    <3>1. req[p] = req'[p] /\ pc[p] = "load"
      BY <1>2, <2>3, StoreComesFromLoad DEF Load
    <3>2. View(p) = rows
      BY <2>3, <3>1 DEF View, RowInv, ControlOK, WroteAt
    <3>. QED BY <1>2, <2>3, <3>1, <3>2, StoreComesFromLoad DEF Matches
  <2>4. ASSUME NEW q \in Clients \ {p}, pc'[q] = "store", req'[q].op = "get", req'[q].id = i
        PROVE  Fresh(acct'[q])
    BY <1>2, <2>4 DEF Kept, FreshId
  <2>. QED BY <2>2, <2>3, <2>4
<1>3. ASSUME \/ \E p \in Clients, r \in Requests : Start(p, r)
             \/ \E k \in Keys : Expire(k)
             \/ UNCHANGED vars
      PROVE  /\ Fresh(cache'[IdKey(i)])
             /\ \A q \in Clients :
                  pc'[q] = "store" /\ req'[q].op = "get" /\ req'[q].id = i => Fresh(acct'[q])
  BY <1>1, <1>3, NoReader DEF FreshId
<1>. QED BY <1>2, <1>3, WhoseStep, RowStays DEF FreshId, IdCoherent

\* What the cache, or a create on its way there, knows of an e-mail.
Seen(e) ==
  \/ cache[EmailKey(e)] # NoAccount
  \/ \E p \in Clients :
       pc[p] = "store" /\ req[p].op = "create" /\ Lower[req[p].email] = Lower[e]

Owned(e) == \E i \in Ids : rows[i] # NoAccount /\ Lower[rows[i].email] = Lower[e]

\* An e-mail gets seen only because an account has it.
LEMMA SeenStep ==
  ASSUME RowInv, [BNext]_bvars, NEW e \in Emails, Seen(e)'
  PROVE  Seen(e) \/ Owned(e)
<1>1. EmailKey(e) \in Keys
  BY DEF EmailKey, Keys
<1>2. ASSUME NEW p \in Clients, Step(p) \/ Failure(p) \/ NewStep(p),
             \A q \in Clients \ {p} : Kept(q)
      PROVE  Seen(e) \/ Owned(e)
  <2>1. CASE cache'[EmailKey(e)] # NoAccount
    <3>1. \/ cache'[EmailKey(e)] = cache[EmailKey(e)]
          \/ pc[p] = "store" /\ KeyOf(req[p]) = EmailKey(e)
      BY <1>1, <1>2, <2>1, EntryStep DEF RowInv, TypeOK
    <3>2. KeyOf(req[p]) = EmailKey(e) =>
            req[p].op = "create" /\ Lower[req[p].email] = Lower[e]
      BY DEF KeyOf, IdKey, EmailKey
    <3>. QED BY <2>1, <3>1, <3>2 DEF Seen
  <2>2. ASSUME NEW q \in Clients, pc'[q] = "store", req'[q].op = "create",
               Lower[req'[q].email] = Lower[e]
        PROVE  Seen(e) \/ Owned(e)
    <3>1. CASE q # p
      BY <1>2, <2>2, <3>1 DEF Kept, Seen
    <3>2. CASE q = p
      <4>1. /\ pc[p] = "load" /\ req[p] = req'[p]
            /\ \E i \in Matches(p) : acct'[p] = View(p)[i]
        BY <1>2, <2>2, <3>2, StoreComesFromLoad DEF Load
      <4>2. View(p) = rows
        BY <2>2, <3>2, <4>1 DEF View, RowInv, ControlOK, WroteAt
      <4>. QED BY <2>2, <3>2, <4>1, <4>2 DEF Matches, Owned
    <3>. QED BY <3>1, <3>2
  <2>. QED BY <2>1, <2>2 DEF Seen
<1>3. ASSUME \/ \E p \in Clients, r \in Requests : Start(p, r)
             \/ \E k \in Keys : Expire(k)
             \/ UNCHANGED vars
      PROVE  Seen(e)
  BY <1>1, <1>3, NoReader DEF Seen
<1>. QED BY <1>2, <1>3, WhoseStep

LEMMA MailStep ==
  ASSUME RowInv, [BNext]_bvars, NEW e \in Emails, FreshEmail(e),
         \A p \in Clients : ~Running(p, {"delete"})
  PROVE  FreshEmail(e)'
<1>1. Owned(e) => Owned(e)'
  BY EmailStays DEF Owned
<1>2. (FreshEmail(e) <=> (Seen(e) => Owned(e))) /\ (FreshEmail(e)' <=> (Seen(e) => Owned(e))')
  BY DEF FreshEmail, Seen, Owned
<1>. QED BY <1>1, <1>2, SeenStep

\* Whatever fails and overlaps, and on every backend: an entry that agrees with the
\* table goes stale only by an Update of its account or a Delete.
THEOREM FreshnessIsLasting == BSpec => FreshnessLasts
<1>1. BackendInv /\ [BNext]_bvars =>
        [/\ \A i \in Ids :
              /\ FreshId(i)
              /\ \A p \in Clients : Running(p, {"update", "delete"}) => req[p].id # i
              => FreshId(i)'
         /\ \A e \in Emails :
              FreshEmail(e) /\ (\A p \in Clients : ~Running(p, {"delete"}))
                => FreshEmail(e)']_bvars
  BY IdStep, MailStep DEF BackendInv
<1>. QED BY <1>1, BackendInvariance, PTL DEF BSpec, FreshnessLasts
-----------------------------------------------------------------------------
(* Progress of a call. *)

LEMMA Distances ==
  ASSUME TypeOK, NEW p \in Clients
  PROVE  /\ pc[p] = "admit" => StepsLeft(p) = 10
         /\ pc[p] = "begin" => StepsLeft(p) = 9
         /\ pc[p] = "stmt" => StepsLeft(p) = IF req[p].op = "create" THEN 3 ELSE 8
         /\ pc[p] = "evict" => StepsLeft(p) = 7
         /\ pc[p] = "lookup" => StepsLeft(p) = 6
         /\ pc[p] = "load" => StepsLeft(p) = 5
         /\ pc[p] = "store" => StepsLeft(p) = 4
         /\ pc[p] = "commit" => StepsLeft(p) = 2
         /\ pc[p] = "abort" => StepsLeft(p) = 1
         /\ pc[p] = "idle" => StepsLeft(p) = 0
BY DEF StepsLeft, Distance

LEMMA ForwardStep ==
  ASSUME RowInv, NEW p \in Clients, Step(p) \/ Failure(p) \/ NewStep(p)
  PROVE  StepsLeft(p)' < StepsLeft(p)
<1>. USE DEF RowInv
<1>1. TypeOK'
  BY NewType, TypeStep DEF Next
<1>2. ASSUME NEW k, Leave(p, k), pc[p] # "idle"
      PROVE  StepsLeft(p)' < StepsLeft(p)
  <2>1. pc'[p] = "idle"
    BY <1>2 DEF Leave, Go, TypeOK
  <2>2. StepsLeft(p)' = 0
    BY <2>1 DEF StepsLeft, Distance
  <2>. QED BY <1>2, <2>2, Distances DEF TypeOK, Steps
<1>3. ASSUME NEW k, Abort(p, k), pc[p] \notin {"idle", "abort"}
      PROVE  StepsLeft(p)' < StepsLeft(p)
  <2>1. pc'[p] = "abort"
    BY <1>3 DEF Abort, Go, TypeOK
  <2>2. StepsLeft(p)' = 1
    BY <2>1 DEF StepsLeft, Distance
  <2>. QED BY <1>3, <2>2, Distances DEF TypeOK, Steps
<1>4. ASSUME NEW s \in Steps, Go(p, s), UNCHANGED req, pc[p] # "idle",
             \/ pc[p] = "admit" /\ s \in {"begin", "lookup"}
             \/ pc[p] = "begin" /\ s \in {"lookup", "stmt"}
             \/ pc[p] = "lookup" /\ s \in {"load", "commit"}
             \/ pc[p] = "load" /\ s = "store"
             \/ pc[p] \in {"lookup", "load"} /\ s = "stmt" /\ req[p].op = "create"
             \/ pc[p] = "store" /\ s = "commit"
             \/ pc[p] = "stmt" /\ req[p].op # "create" /\ s \in {"evict", "lookup", "commit"}
             \/ pc[p] = "stmt" /\ s = "commit"
             \/ pc[p] = "evict" /\ s \in {"lookup", "commit"}
      PROVE  StepsLeft(p)' < StepsLeft(p)
  <2>1. pc'[p] = s /\ req'[p] = req[p]
    BY <1>4 DEF Go, TypeOK
  <2>2. /\ s = "begin" => StepsLeft(p)' = 9
        /\ s = "stmt" => StepsLeft(p)' = IF req[p].op = "create" THEN 3 ELSE 8
        /\ s = "evict" => StepsLeft(p)' = 7
        /\ s = "lookup" => StepsLeft(p)' = 6
        /\ s = "load" => StepsLeft(p)' = 5
        /\ s = "store" => StepsLeft(p)' = 4
        /\ s = "commit" => StepsLeft(p)' = 2
    BY <2>1 DEF StepsLeft, Distance
  <2>. QED BY <1>4, <2>2, Distances
<1>5. ASSUME NEW a, Found(p, a), pc[p] \in {"lookup", "store"}
      PROVE  StepsLeft(p)' < StepsLeft(p)
  BY <1>2, <1>3, <1>4, <1>5 DEF Found, Steps
<1>6. ASSUME NotFound(p), pc[p] \in {"lookup", "load"}
      PROVE  StepsLeft(p)' < StepsLeft(p)
  BY <1>2, <1>3, <1>4, <1>6 DEF NotFound, Fail, Steps
<1>7. CASE Admit(p) \/ Begin(p) \/ MongoBegin(p)
  BY <1>2, <1>4, <1>7 DEF Admit, Begin, MongoBegin, Steps
<1>8. CASE Lookup(p) \/ FindOne(p)
  BY <1>4, <1>5, <1>6, <1>8 DEF Lookup, FindOne, Steps
<1>9. CASE Load(p)
  BY <1>4, <1>6, <1>9 DEF Load, Steps
<1>10. CASE Store(p)
  BY <1>2, <1>3, <1>5, <1>10 DEF Store, Fail
<1>11. CASE Statement(p)
  BY <1>3, <1>4, <1>11
  DEF Statement, Insert, InsertRow, UpdateRow, DeleteRow, WriteRow, Steps
<1>12. CASE StatementDone(p)
  <2>1. CASE Creates(p) \/ \E k \in Codes : Refuses(p, k)
    BY <1>3, <1>4, <1>12, <2>1 DEF StatementDone, Refuses, Creates, InsertRow, Steps
  <2>2. CASE Changes(p)
    <3>1. UNCHANGED req /\ req[p].op # "create" /\ AfterWrite(p) \in {"lookup", "commit"}
      BY <2>2 DEF Changes, Overwrites, Writes, AfterWrite
    <3>. QED BY <1>4, <1>12, <2>2, <3>1 DEF StatementDone, Changes, Steps
  <2>. QED BY <1>12, <2>1, <2>2 DEF StatementDone
<1>13. CASE Evict(p)
  BY <1>4, <1>13 DEF Evict, AfterWrite, Steps
<1>14. CASE Commit(p) \/ Rollback(p)
  BY <1>2, <1>14 DEF Commit, Rollback
<1>15. CASE Failure(p) \/ ReadFails(p)
  BY <1>2, <1>3, <1>15
  DEF Failure, ReadFails, BeginFails, LoadFails, StatementFails, CommitFails, Cancel, Fail
<1>. QED
  BY <1>7, <1>8, <1>9, <1>10, <1>11, <1>12, <1>13, <1>14, <1>15 DEF Step, NewStep

\* On no backend is anything retried: a call takes ten steps at most, and that nobody
\* waits in a circle leaves fairness as the only other thing its answer depends on.
THEOREM CallsOnlyGoForward == BSpec => CallsGoForward
<1>1. ASSUME BackendInv, [BNext]_bvars, NEW p \in Clients, pc[p] # "idle"
      PROVE  UNCHANGED <<pc[p], req[p], pending[p], acct[p], code[p]>>
               \/ StepsLeft(p)' < StepsLeft(p)
  <2>1. RowInv
    BY <1>1 DEF BackendInv
  <2>2. ASSUME NEW q \in Clients, Step(q) \/ Failure(q) \/ NewStep(q),
               \A r \in Clients \ {q} : Kept(r)
        PROVE  Kept(p) \/ StepsLeft(p)' < StepsLeft(p)
    BY <2>1, <2>2, ForwardStep
  <2>3. ASSUME NEW q \in Clients, NEW r \in Requests, Start(q, r)
        PROVE  Kept(p)
    BY <1>1, <2>1, <2>3 DEF Start, Go, Kept, RowInv, TypeOK
  <2>4. ASSUME (\E k \in Keys : Expire(k)) \/ UNCHANGED vars
        PROVE  Kept(p)
    BY <2>4 DEF Expire, vars, Kept
  <2>. QED BY <1>1, <2>1, <2>2, <2>3, <2>4, WhoseStep DEF Kept
<1>2. BackendInv /\ [BNext]_bvars =>
        [\A p \in Clients :
           pc[p] # "idle" => UNCHANGED <<pc[p], req[p], pending[p], acct[p], code[p]>>
                               \/ StepsLeft(p)' < StepsLeft(p)]_bvars
  BY <1>1
<1>. QED BY <1>2, BackendInvariance, PTL DEF BSpec, CallsGoForward
=============================================================================
