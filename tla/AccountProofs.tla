--------------------------- MODULE AccountProofs ---------------------------
(* Proofs about the account service, for all values of the constants. *)
EXTENDS AccountProperties, TLAPS

USE TypesAssumption, ServiceAssumption
-----------------------------------------------------------------------------
(* The data. *)

\* The operation of a request tells its shape.
LEMMA RequestShape ==
  ASSUME NEW r \in Requests
  PROVE  /\ r.op \in {"create", "get", "update", "delete"}
         /\ r.op = "create" => r \in CreateRequest
         /\ r.op = "get" => r \in GetRequest
         /\ r.op = "update" => r \in UpdateRequest
         /\ r.op = "delete" => r \in DeleteRequest
         /\ r # NoCall
BY DEF Request, CreateRequest, GetRequest, UpdateRequest, DeleteRequest

\* Create stores an account with an assignable status.
LEMMA NewAccountType ==
  ASSUME NEW r \in CreateRequest
  PROVE  NewAccount(r) \in Account /\ NewAccount(r).email = r.email
BY DEF NewAccount, Account, CreateRequest, ValidStatus, Active, RawStatus

\* Update stores an account, with the e-mail it had.
LEMMA PatchedType ==
  ASSUME NEW a \in Account, NEW r \in UpdateRequest,
         r.status \in ValidStatus \cup {Nil}
  PROVE  Patched(a, r) \in Account /\ Patched(a, r).email = a.email
BY DEF Patched, Account, UpdateRequest, ValidStatus

\* Admitted calls use cache keys of the key space.
LEMMA KeyType ==
  ASSUME NEW r \in Requests, r.op = "create" \/ r.id \in Ids
  PROVE  KeyOf(r) \in Keys
<1>1. CASE r.op = "create"
  BY <1>1, RequestShape DEF KeyOf, EmailKey, Keys, CreateRequest
<1>2. CASE r.op # "create"
  BY <1>2 DEF KeyOf, IdKey, Keys
<1>. QED BY <1>1, <1>2

\* An admitted call has a request that is fit to be executed.
LEMMA Admitted ==
  ASSUME TypeOK, ControlOK, NEW p \in Clients, pc[p] # "idle"
  PROVE  /\ req[p] \in Requests
         /\ pc[p] # "admit" =>
              /\ KeyOf(req[p]) \in Keys
              /\ cache[KeyOf(req[p])] \in Account \cup {NoAccount}
<1>1. req[p] \in Requests
  BY DEF TypeOK, ControlOK, ControlAt
<1>2. CASE pc[p] # "admit"
  <2>1. KeyOf(req[p]) \in Keys
    BY <1>1, <1>2, KeyType DEF ControlOK, ControlAt
  <2>. QED BY <1>1, <2>1 DEF TypeOK
<1>. QED BY <1>1, <1>2
-----------------------------------------------------------------------------
(* Type correctness. *)

LEMMA ViewType ==
  ASSUME TypeOK, NEW p \in Clients
  PROVE  View(p) \in [Ids -> Account \cup {NoAccount}]
BY DEF TypeOK, View, Wrote, Write

LEMMA LeaveType ==
  ASSUME TypeOK, NEW p \in Clients, NEW k \in Codes, Leave(p, k)
  PROVE  /\ pending' \in [Clients -> Write]
         /\ pc' \in [Clients -> Steps]
         /\ req' \in [Clients -> Requests \cup {NoCall}]
         /\ acct' \in [Clients -> Account \cup {NoAccount}]
         /\ code' \in [Clients -> Codes]
BY DEF TypeOK, Leave, Go, Steps, Write, NoWrite

LEMMA FailType ==
  ASSUME TypeOK, NEW p \in Clients, NEW k \in Codes, Fail(p, k) \/ Abort(p, k)
  PROVE  /\ pending' \in [Clients -> Write]
         /\ pc' \in [Clients -> Steps]
         /\ req' \in [Clients -> Requests \cup {NoCall}]
         /\ acct' \in [Clients -> Account \cup {NoAccount}]
         /\ code' \in [Clients -> Codes]
<1>1. CASE Leave(p, k)
  BY <1>1, LeaveType
<1>2. CASE Abort(p, k)
  BY <1>2 DEF TypeOK, Abort, Go, Steps
<1>. QED BY <1>1, <1>2 DEF Fail

LEMMA FoundType ==
  ASSUME TypeOK, NEW p \in Clients, NEW a \in Account \cup {NoAccount}, Found(p, a)
  PROVE  /\ pending' \in [Clients -> Write]
         /\ pc' \in [Clients -> Steps]
         /\ req' \in [Clients -> Requests \cup {NoCall}]
         /\ acct' \in [Clients -> Account \cup {NoAccount}]
         /\ code' \in [Clients -> Codes]
<1>1. CASE Abort(p, "account_already_exists")
  BY <1>1, FailType DEF Codes
<1>2. CASE Leave(p, "ok")
  BY <1>2, LeaveType DEF Codes
<1>3. CASE /\ Go(p, "commit")
           /\ acct' = [acct EXCEPT ![p] = a]
           /\ UNCHANGED <<pending, req, code>>
  BY <1>3 DEF TypeOK, Go, Steps
<1>. QED BY <1>1, <1>2, <1>3 DEF Found

LEMMA VerdictType ==
  ASSUME NEW r, NEW v \in Verdicts(r), v # "proceed"
  PROVE  v \in Codes
BY DEF Verdicts, CreateVerdict, UpdateVerdict, IdVerdict, Codes

\* Every step keeps the types.
LEMMA TypeStep ==
  ASSUME TypeOK, ControlOK, [Next]_vars
  PROVE  TypeOK'
<1>1. ASSUME NEW p \in Clients, NEW r \in Requests, Start(p, r)
      PROVE  TypeOK'
  BY <1>1 DEF TypeOK, Start, Go, Steps, Codes
<1>2. ASSUME NEW p \in Clients, Step(p)
      PROVE  TypeOK'
  <2>1. CASE Admit(p)
    <3>1. PICK v \in Verdicts(req[p]) :
            \/ /\ v = "proceed"
               /\ Go(p, IF req[p].op = "get" THEN "lookup" ELSE "begin")
               /\ UNCHANGED <<pending, req, acct, code>>
            \/ v # "proceed" /\ Leave(p, v)
      BY <2>1 DEF Admit
    <3>2. CASE v = "proceed"
      BY <2>1, <3>1, <3>2 DEF Admit, TypeOK, Go, Steps
    <3>3. CASE v # "proceed" /\ Leave(p, v)
      BY <2>1, <3>3, VerdictType, LeaveType DEF Admit, TypeOK
    <3>. QED BY <3>1, <3>2, <3>3
  <2>2. CASE Begin(p)
    BY <2>2 DEF TypeOK, Begin, Go, Steps
  <2>3. CASE Lookup(p)
    <3>1. CASE Found(p, Decoded(cache[KeyOf(req[p])]))
      <4>1. Decoded(cache[KeyOf(req[p])]) \in Account \cup {NoAccount}
        BY <2>3, Admitted DEF Lookup, Decoded
      <4>. QED BY <2>3, <3>1, <4>1, FoundType DEF Lookup, TypeOK
    <3>2. CASE Go(p, "load") /\ UNCHANGED <<pending, req, acct, code>>
      BY <2>3, <3>2 DEF Lookup, TypeOK, Go, Steps
    <3>. QED BY <2>3, <3>1, <3>2 DEF Lookup
  <2>4. CASE Load(p)
    <3>1. ASSUME NEW i \in Ids, acct' = [acct EXCEPT ![p] = View(p)[i]],
                 Go(p, "store"), UNCHANGED <<pending, req, code>>
          PROVE  TypeOK'
      BY <2>4, <3>1, ViewType DEF Load, TypeOK, Go, Steps
    <3>2. CASE NotFound(p)
      <4>1. CASE Fail(p, "account_not_found")
        BY <2>4, <4>1, FailType DEF Load, TypeOK, Codes
      <4>2. CASE Go(p, "stmt") /\ UNCHANGED <<pending, req, acct, code>>
        BY <2>4, <4>2 DEF Load, TypeOK, Go, Steps
      <4>. QED BY <3>2, <4>1, <4>2 DEF NotFound
    <3>. QED BY <2>4, <3>1, <3>2 DEF Load, Matches
  <2>5. CASE Store(p)
    <3>1. acct[p] \in Account \cup {NoAccount}
      BY DEF TypeOK
    <3>2. cache' \in [Keys -> Account \cup {NoAccount}]
      BY <2>5, <3>1 DEF Store, TypeOK
    <3>3. CASE Found(p, acct[p])
      BY <2>5, <3>1, <3>2, <3>3, FoundType DEF Store, TypeOK
    <3>4. CASE Fail(p, "internal")
      BY <2>5, <3>2, <3>4, FailType DEF Store, TypeOK, Codes
    <3>. QED BY <2>5, <3>3, <3>4 DEF Store
  <2>6. CASE Statement(p)
    <3>1. pc[p] = "stmt" /\ req[p] \in Requests
      BY <2>6, Admitted DEF Statement
    <3>2. ASSUME NEW k \in Codes, Abort(p, k), UNCHANGED used
          PROVE  TypeOK'
      BY <2>6, <3>2, FailType DEF Statement, TypeOK
    <3>3. ASSUME NEW i \in Ids, NEW a \in Account \cup {NoAccount},
                 pending' = [pending EXCEPT ![p] = [id |-> i, row |-> a]],
                 used' \in SUBSET Ids, Go(p, "commit") \/ Go(p, "evict"),
                 UNCHANGED <<req, acct, code>>
          PROVE  TypeOK'
      BY <2>6, <3>3 DEF Statement, TypeOK, Go, Steps, Write
    <3>4. CASE Insert(p)
      <4>1. NewAccount(req[p]) \in Account
        BY <3>1, <3>4, RequestShape, NewAccountType DEF Insert
      <4>. QED BY <3>2, <3>3, <3>4, <4>1 DEF Insert, InsertRow, Codes, TypeOK
    <3>5. CASE UpdateRow(p)
      <4>1. req[p].id \in Ids /\ req[p].status \in ValidStatus \cup {Nil}
            /\ req[p] \in UpdateRequest
        BY <3>1, <3>5, RequestShape DEF UpdateRow, ControlOK, ControlAt
      <4>2. CASE rows[req[p].id] = NoAccount
        BY <3>2, <3>5, <4>2 DEF UpdateRow, WriteRow, Codes
      <4>3. CASE rows[req[p].id] # NoAccount
        <5>1. Patched(rows[req[p].id], req[p]) \in Account
          BY <4>1, <4>3, PatchedType DEF TypeOK
        <5>. QED BY <3>3, <3>5, <4>1, <4>3, <5>1 DEF UpdateRow, WriteRow, TypeOK
      <4>. QED BY <4>2, <4>3
    <3>6. CASE DeleteRow(p)
      <4>1. req[p].id \in Ids
        BY <3>1, <3>6 DEF DeleteRow, ControlOK, ControlAt
      <4>. QED BY <3>2, <3>3, <3>6, <4>1 DEF DeleteRow, WriteRow, Codes, TypeOK
    <3>. QED BY <2>6, <3>4, <3>5, <3>6 DEF Statement
  <2>7. CASE Evict(p)
    BY <2>7 DEF TypeOK, Evict, EvictId, AfterWrite, Go, Steps
  <2>8. CASE Commit(p)
    BY <2>8, ViewType, LeaveType DEF TypeOK, Commit, Codes
  <2>9. CASE Rollback(p)
    BY <2>9, LeaveType DEF TypeOK, Rollback
  <2>. QED BY <1>2, <2>1, <2>2, <2>3, <2>4, <2>5, <2>6, <2>7, <2>8, <2>9 DEF Step
<1>3. ASSUME NEW p \in Clients, Failure(p)
      PROVE  TypeOK'
  <2>1. CASE BeginFails(p) \/ Cancel(p)
    BY <2>1, LeaveType DEF TypeOK, BeginFails, Cancel, Codes
  <2>2. CASE LoadFails(p) \/ StatementFails(p)
    BY <2>2, FailType DEF TypeOK, LoadFails, StatementFails, Codes
  <2>3. CASE CommitFails(p)
    BY <2>3, ViewType, LeaveType DEF TypeOK, CommitFails, Codes
  <2>. QED BY <1>3, <2>1, <2>2, <2>3 DEF Failure
<1>4. ASSUME NEW k \in Keys, Expire(k)
      PROVE  TypeOK'
  BY <1>4 DEF TypeOK, Expire
<1>5. CASE UNCHANGED vars
  BY <1>5 DEF TypeOK, vars
<1>. QED BY <1>1, <1>2, <1>3, <1>4, <1>5 DEF Next
-----------------------------------------------------------------------------
(* Control. *)

\* What the entry checks let through.
LEMMA Proceeds ==
  ASSUME NEW r \in Requests, "proceed" \in Verdicts(r)
  PROVE  /\ r.op = "create" \/ r.id \in Ids
         /\ r.op = "update" => r.status \in ValidStatus \cup {Nil}
<1>1. CASE r.op = "create"
  BY <1>1
<1>2. CASE r.op = "update"
  BY <1>2, RequestShape DEF Verdicts, UpdateVerdict, UpdateRequest
<1>3. CASE r.op \notin {"create", "update"}
  BY <1>3, RequestShape DEF Verdicts, IdVerdict, GetRequest, DeleteRequest
<1>. QED BY <1>1, <1>2, <1>3

\* What belongs to call q stays.
Kept(q) ==
  /\ pc'[q] = pc[q] /\ req'[q] = req[q] /\ code'[q] = code[q]
  /\ pending'[q] = pending[q] /\ acct'[q] = acct[q]

\* A step of p leaves the other calls alone.
LEMMA OthersKept ==
  ASSUME TypeOK, NEW p \in Clients, Step(p) \/ Failure(p), NEW q \in Clients, q # p
  PROVE  Kept(q)
<1>. USE DEF Kept, TypeOK, Go, Leave, Abort, Fail, Found, NotFound
<1>1. CASE Admit(p) \/ Begin(p) \/ BeginFails(p) \/ Cancel(p)
  BY <1>1 DEF Admit, Begin, BeginFails, Cancel
<1>2. CASE Lookup(p) \/ Store(p)
  BY <1>2 DEF Lookup, Store
<1>3. CASE Load(p) \/ LoadFails(p)
  BY <1>3 DEF Load, LoadFails
<1>4. CASE Statement(p) \/ StatementFails(p)
  BY <1>4 DEF Statement, StatementFails, Insert, InsertRow, UpdateRow, DeleteRow, WriteRow
<1>5. CASE Evict(p) \/ Commit(p) \/ CommitFails(p) \/ Rollback(p)
  BY <1>5 DEF Evict, Commit, CommitFails, Rollback
<1>. QED BY <1>1, <1>2, <1>3, <1>4, <1>5 DEF Step, Failure

LEMMA ControlOthers ==
  ASSUME TypeOK, ControlOK, NEW p \in Clients, Step(p) \/ Failure(p),
         NEW q \in Clients, q # p
  PROVE  ControlAt(q)' /\ WroteAt(q)'
<1>1. Kept(q)
  BY OthersKept
<1>. QED BY <1>1 DEF Kept, ControlOK, ControlAt, WroteAt, Wrote

\* A call that has left, or failed, is where control allows it.
LEMMA LeaveControl ==
  ASSUME TypeOK, NEW p \in Clients, NEW k \in Codes, Leave(p, k)
  PROVE  ControlAt(p)' /\ WroteAt(p)'
BY DEF TypeOK, Leave, Go, ControlAt, WroteAt, Wrote, NoWrite

LEMMA AbortControl ==
  ASSUME TypeOK, ControlOK, NEW p \in Clients,
         NEW k \in Codes \ {"none", "ok"}, Abort(p, k),
         pc[p] # "admit", req[p].op # "get", pc[p] # "idle"
  PROVE  ControlAt(p)' /\ WroteAt(p)'
BY DEF TypeOK, ControlOK, Abort, Go, ControlAt, WroteAt, Wrote

LEMMA FailControl ==
  ASSUME TypeOK, ControlOK, NEW p \in Clients,
         NEW k \in Codes \ {"none", "ok"}, Fail(p, k),
         pc[p] \in {"lookup", "load", "store"}
  PROVE  ControlAt(p)' /\ WroteAt(p)'
BY LeaveControl, AbortControl DEF Fail, InTx

LEMMA FoundControl ==
  ASSUME TypeOK, ControlOK, NEW p \in Clients, NEW a, Found(p, a),
         pc[p] \in {"lookup", "store"}
  PROVE  ControlAt(p)' /\ WroteAt(p)'
<1>1. CASE req[p].op = "create"
  BY <1>1, AbortControl DEF Found, Codes
<1>2. CASE req[p].op = "get"
  BY <1>2, LeaveControl DEF Found, Codes
<1>3. CASE req[p].op = "update"
  BY <1>3 DEF Found, Go, TypeOK, ControlOK, ControlAt, WroteAt, Wrote
<1>. QED BY <1>1, <1>2, <1>3 DEF Found

\* Every step keeps the control invariant.
LEMMA ControlStep ==
  ASSUME TypeOK, ControlOK, [Next]_vars
  PROVE  ControlOK'
<1>1. ASSUME NEW p \in Clients, NEW r \in Requests, Start(p, r)
      PROVE  ControlOK'
  BY <1>1, RequestShape DEF Start, Go, TypeOK, ControlOK, ControlAt, WroteAt, Wrote
<1>2. ASSUME NEW p \in Clients, Step(p) \/ Failure(p)
      PROVE  ControlAt(p)' /\ WroteAt(p)'
  <2>. USE DEF Go, TypeOK, ControlOK, ControlAt, WroteAt, Wrote
  <2>1. CASE Admit(p)
    <3>1. PICK v \in Verdicts(req[p]) :
            \/ /\ v = "proceed"
               /\ Go(p, IF req[p].op = "get" THEN "lookup" ELSE "begin")
               /\ UNCHANGED <<pending, req, acct, code>>
            \/ v # "proceed" /\ Leave(p, v)
      BY <2>1 DEF Admit
    <3>2. req[p] \in Requests /\ pc[p] = "admit"
      BY <2>1 DEF Admit
    <3>3. CASE v = "proceed"
      BY <3>1, <3>2, <3>3, Proceeds, RequestShape
    <3>4. CASE v # "proceed"
      BY <3>1, <3>4, VerdictType, LeaveControl
    <3>. QED BY <3>3, <3>4
  <2>2. CASE Begin(p)
    BY <2>2, Admitted, RequestShape DEF Begin
  <2>3. CASE Lookup(p)
    BY <2>3, FoundControl DEF Lookup
  <2>4. CASE Load(p)
    BY <2>4, FailControl DEF Load, NotFound, Codes
  <2>5. CASE Store(p)
    BY <2>5, FoundControl, FailControl DEF Store, Codes
  <2>6. CASE Statement(p)
    <3>1. ASSUME NEW k \in Codes \ {"none", "ok"}, Abort(p, k)
          PROVE  ControlAt(p)' /\ WroteAt(p)'
      BY <2>6, <3>1, AbortControl DEF Statement
    <3>2. CASE Insert(p)
      BY <2>6, <3>1, <3>2 DEF Statement, Insert, InsertRow, Codes
    <3>3. CASE UpdateRow(p)
      BY <2>6, <3>1, <3>3 DEF Statement, UpdateRow, WriteRow, Codes
    <3>4. CASE DeleteRow(p)
      BY <2>6, <3>1, <3>4 DEF Statement, DeleteRow, WriteRow, Codes
    <3>. QED BY <2>6, <3>2, <3>3, <3>4 DEF Statement
  <2>7. CASE Evict(p)
    BY <2>7, Admitted, RequestShape DEF Evict, AfterWrite
  <2>8. CASE Commit(p) \/ CommitFails(p) \/ Rollback(p) \/ BeginFails(p) \/ Cancel(p)
    BY <2>8, LeaveControl DEF Commit, CommitFails, Rollback, BeginFails, Cancel, Codes
  <2>9. CASE LoadFails(p) \/ StatementFails(p)
    BY <2>9, FailControl, AbortControl DEF LoadFails, StatementFails, Codes
  <2>. QED
    BY <1>2, <2>1, <2>2, <2>3, <2>4, <2>5, <2>6, <2>7, <2>8, <2>9 DEF Step, Failure
<1>3. ASSUME NEW p \in Clients, Step(p) \/ Failure(p)
      PROVE  ControlOK'
  BY <1>2, <1>3, ControlOthers DEF ControlOK
<1>4. ASSUME NEW k \in Keys, Expire(k)
      PROVE  ControlOK'
  BY <1>4 DEF Expire, ControlOK, ControlAt, WroteAt, Wrote
<1>5. CASE UNCHANGED vars
  BY <1>5 DEF vars, ControlOK, ControlAt, WroteAt, Wrote
<1>. QED BY <1>1, <1>3, <1>4, <1>5 DEF Next
-----------------------------------------------------------------------------
(* What a step does to the table and to the open transactions. *)

Keeps == UNCHANGED <<rows, used, pending, req>>

\* p gets request r.
Starts(p, r) ==
  /\ pc[p] = "idle"
  /\ req' = [req EXCEPT ![p] = r]
  /\ UNCHANGED <<rows, used, pending>>

\* p's call ends; its write is committed or dropped.
Ends(p) ==
  /\ rows' = rows \/ (pc[p] = "commit" /\ rows' = View(p))
  /\ pending' = [pending EXCEPT ![p] = NoWrite]
  /\ req' = [req EXCEPT ![p] = NoCall]
  /\ UNCHANGED used

\* p's transaction makes account a of id i its pending write.
Writes(p, i, a) ==
  /\ pc[p] = "stmt"
  /\ pending' = [pending EXCEPT ![p] = [id |-> i, row |-> a]]
  /\ UNCHANGED <<rows, req>>

Inserts(p, i) ==
  /\ req[p].op = "create"
  /\ i \notin used
  /\ used' = used \cup {i}
  /\ Writes(p, i, NewAccount(req[p]))

\* What the unique index adds to an INSERT.
Unopposed(p) ==
  /\ ~EmailTaken(rows, req[p].email)
  /\ \A q \in Clients \ {p} : ~HoldsEmail(q, req[p].email)

Overwrites(p, i) ==
  /\ i = req[p].id
  /\ rows[i] # NoAccount
  /\ \A q \in Clients \ {p} : pending[q].id # i
  /\ \/ req[p].op = "update" /\ Writes(p, i, Patched(rows[i], req[p]))
     \/ req[p].op = "delete" /\ Writes(p, i, NoAccount)
  /\ UNCHANGED used

DataNext(indexed) ==
  \/ Keeps
  \/ \E p \in Clients :
       \/ \E r \in Requests : Starts(p, r)
       \/ Ends(p)
       \/ \E i \in Ids : Inserts(p, i) /\ (indexed => Unopposed(p))
       \/ \E i \in Ids : Overwrites(p, i)

LEMMA DataStep ==
  ASSUME TypeOK, ControlOK, [Next]_vars
  PROVE  DataNext(TRUE)
<1>1. ASSUME NEW p \in Clients, NEW r \in Requests, Start(p, r)
      PROVE  DataNext(TRUE)
  BY <1>1 DEF Start, DataNext, Starts
<1>2. ASSUME NEW p \in Clients, Step(p) \/ Failure(p)
      PROVE  DataNext(TRUE)
  <2>1. ASSUME NEW k, Leave(p, k), UNCHANGED used,
               rows' = rows \/ (pc[p] = "commit" /\ rows' = View(p))
        PROVE  DataNext(TRUE)
    BY <2>1 DEF DataNext, Ends, Leave
  <2>2. ASSUME NEW k, Abort(p, k), UNCHANGED <<rows, used>>
        PROVE  DataNext(TRUE)
    BY <2>2 DEF DataNext, Keeps, Abort
  <2>3. CASE UNCHANGED <<rows, used, pending, req>>
    BY <2>3 DEF DataNext, Keeps
  <2>4. CASE Admit(p) \/ Begin(p) \/ Evict(p)
    BY <2>1, <2>3, <2>4 DEF Admit, Begin, Evict
  <2>5. CASE Lookup(p) \/ Store(p)
    BY <2>1, <2>2, <2>3, <2>5 DEF Lookup, Store, Found, Fail
  <2>6. CASE Load(p)
    BY <2>1, <2>2, <2>3, <2>6 DEF Load, NotFound, Fail
  <2>7. CASE Commit(p) \/ CommitFails(p) \/ Rollback(p) \/ BeginFails(p) \/ Cancel(p)
    BY <2>1, <2>7 DEF Commit, CommitFails, Rollback, BeginFails, Cancel
  <2>8. CASE LoadFails(p) \/ StatementFails(p)
    BY <2>1, <2>2, <2>8 DEF LoadFails, StatementFails, Fail
  <2>9. CASE Statement(p)
    <3>1. CASE Insert(p)
      BY <2>2, <2>9, <3>1 DEF Statement, Insert, InsertRow, UniqueViolation, Blocked, DataNext, Inserts, Unopposed, Writes
    <3>2. CASE UpdateRow(p) \/ DeleteRow(p)
      <4>1. req[p].id \in Ids
        BY <2>9, <3>2 DEF Statement, UpdateRow, DeleteRow, ControlOK, ControlAt
      <4>. QED
        BY <2>2, <2>9, <3>2, <4>1
        DEF Statement, UpdateRow, DeleteRow, WriteRow, Blocked, HoldsId, DataNext, Overwrites, Writes
    <3>. QED BY <2>9, <3>1, <3>2 DEF Statement
  <2>. QED
    BY <1>2, <2>4, <2>5, <2>6, <2>7, <2>8, <2>9 DEF Step, Failure
<1>3. ASSUME NEW k \in Keys, Expire(k)
      PROVE  DataNext(TRUE)
  BY <1>3 DEF Expire, DataNext, Keeps
<1>4. CASE UNCHANGED vars
  BY <1>4 DEF vars, DataNext, Keeps
<1>. QED BY <1>1, <1>2, <1>3, <1>4 DEF Next
-----------------------------------------------------------------------------
(* The table and the open transactions. *)

\* An admitted update patches an account into an account with its e-mail.
LEMMA PatchedRow ==
  ASSUME TypeOK, ControlOK, NEW p \in Clients, NEW i \in Ids,
         pc[p] \notin {"idle", "admit"}, req[p].op = "update", rows[i] # NoAccount
  PROVE  /\ Patched(rows[i], req[p]) \in Account
         /\ Patched(rows[i], req[p]).email = rows[i].email
<1>1. req[p] \in UpdateRequest /\ req[p].status \in ValidStatus \cup {Nil}
  BY Admitted, RequestShape DEF ControlOK, ControlAt
<1>. QED BY <1>1, PatchedType DEF TypeOK

LEMMA NewRow ==
  ASSUME TypeOK, ControlOK, NEW p \in Clients, pc[p] # "idle", req[p].op = "create"
  PROVE  /\ NewAccount(req[p]) \in Account
         /\ NewAccount(req[p]).email = req[p].email
BY Admitted, RequestShape, NewAccountType

\* Committing p's write changes one row, and leaves the writes of the others
\* what they were.
LEMMA CommitChanges ==
  ASSUME RowInv, NEW p \in Clients, Ends(p), pc[p] = "commit", rows' = View(p)
  PROVE  /\ Wrote(p) /\ EffectAt(p) /\ pending[p].id \in Ids /\ pending[p].id \in used
         /\ rows' = [rows EXCEPT ![pending[p].id] = pending[p].row]
         /\ ~Wrote(p)'
         /\ \A q \in Clients \ {p} : pending'[q] = pending[q] /\ req'[q] = req[q]
         /\ \A q \in Clients \ {p} : Wrote(q) => pending[q].id \in Ids \ {pending[p].id}
<1>1. Wrote(p) /\ pending[p].id \in Ids /\ pending[p].id \in used /\ EffectAt(p)
  BY DEF RowInv, TypeOK, ControlOK, WroteAt, IdsDrawn, Wrote, Write, WriteIsEffect
<1>2. rows' = [rows EXCEPT ![pending[p].id] = pending[p].row]
  BY <1>1 DEF View
<1>3. ~Wrote(p)' /\ \A q \in Clients \ {p} : pending'[q] = pending[q] /\ req'[q] = req[q]
  BY DEF Ends, RowInv, TypeOK, Wrote, NoWrite
<1>4. \A q \in Clients \ {p} : Wrote(q) => pending[q].id \in Ids \ {pending[p].id}
  BY <1>1 DEF RowInv, TypeOK, RowsDisjoint, Wrote, Write
<1>. QED BY <1>1, <1>2, <1>3, <1>4

LEMMA CommitRows ==
  ASSUME RowInv, NEW p \in Clients, Ends(p), pc[p] = "commit", rows' = View(p)
  PROVE  IdsDrawn' /\ WriteIsEffect' /\ RowsDisjoint'
<1>1. IdsDrawn'
  <2>. DEFINE i == pending[p].id
  <2>1. i \in used /\ rows' = [rows EXCEPT ![i] = pending[p].row] /\ used' = used
    BY CommitChanges DEF Ends
  <2>2. \A j \in Ids : rows'[j] # NoAccount => j \in used'
    BY <2>1 DEF RowInv, TypeOK, IdsDrawn
  <2>3. ~Wrote(p)' /\ \A q \in Clients \ {p} : pending'[q] = pending[q]
    BY CommitChanges
  <2>4. \A q \in Clients : Wrote(q)' => pending'[q].id \in used'
    BY <2>1, <2>3 DEF RowInv, IdsDrawn, Wrote
  <2>. QED BY <2>2, <2>4 DEF IdsDrawn, Wrote
<1>2. ASSUME NEW q \in Clients, Wrote(q)'
      PROVE  EffectAt(q)'
  <2>1. q # p /\ EffectAt(q) /\ pending'[q] = pending[q] /\ req'[q] = req[q]
        /\ rows'[pending[q].id] = rows[pending[q].id]
    BY <1>2, CommitChanges DEF RowInv, TypeOK, WriteIsEffect, Wrote
  <2>. QED BY <2>1 DEF EffectAt
<1>3. RowsDisjoint'
  BY CommitChanges DEF RowInv, RowsDisjoint, Wrote
<1>. QED BY <1>1, <1>2, <1>3 DEF WriteIsEffect

LEMMA CommitEmails ==
  ASSUME IInv, NEW p \in Clients, Ends(p), pc[p] = "commit", rows' = View(p)
  PROVE  EmailInv'
<1>. USE DEF IInv, EmailInv
<1>. DEFINE i == pending[p].id
            a == pending[p].row
<1>1. EffectAt(p) /\ i \in Ids /\ rows' = [rows EXCEPT ![i] = a]
      /\ (req[p].op = "create" => ~EmailTaken(rows, req[p].email))
  BY CommitChanges DEF InsertsFree, Inserted
<1>2. ASSUME NEW e, ~EmailTaken(rows, e), req[p].op = "create" => req[p].email # e
      PROVE  ~EmailTaken(rows', e)
  <2>1. a # NoAccount => a.email # e
    <3>1. CASE req[p].op = "create"
      BY <1>1, <1>2, <3>1, NewRow DEF EffectAt, RowInv
    <3>2. CASE req[p].op = "update"
      BY <1>1, <1>2, <3>2, PatchedRow DEF EffectAt, RowInv, EmailTaken
    <3>. QED BY <1>1, <3>1, <3>2 DEF EffectAt
  <2>. QED BY <1>1, <1>2, <2>1 DEF EmailTaken, RowInv, TypeOK
<1>3. UniqueEmail'
  <2>1. CASE a = NoAccount
    BY <1>1, <2>1 DEF UniqueEmail, RowInv, TypeOK
  <2>2. CASE req[p].op = "create"
    BY <1>1, <2>2, NewRow DEF EffectAt, UniqueEmail, RowInv, TypeOK, EmailTaken
  <2>3. CASE req[p].op = "update"
    BY <1>1, <2>3, PatchedRow DEF EffectAt, UniqueEmail, RowInv, TypeOK
  <2>. QED BY <1>1, <2>1, <2>2, <2>3 DEF EffectAt
<1>4. ASSUME NEW q \in Clients, Inserted(q)'
      PROVE  q # p /\ Inserted(q) /\ req'[q] = req[q]
  BY <1>4, CommitChanges DEF Inserted, Wrote
<1>5. InsertsFree'
  <2>. SUFFICES ASSUME NEW q \in Clients, Inserted(q)'
                PROVE  ~EmailTaken(rows', req'[q].email)
    BY DEF InsertsFree, EmailTaken
  <2>1. q # p /\ Inserted(q) /\ req'[q] = req[q] /\ ~EmailTaken(rows, req[q].email)
    BY <1>4 DEF InsertsFree
  <2>2. req[p].op = "create" => req[p].email # req[q].email
    BY <2>1, CommitChanges DEF EmailsDisjoint, Inserted
  <2>. QED BY <1>2, <2>1, <2>2
<1>6. EmailsDisjoint'
  BY <1>4 DEF EmailsDisjoint
<1>. QED BY <1>3, <1>5, <1>6

\* A write to a row that nobody else holds adds one more effect.
LEMMA WriteRows ==
  ASSUME RowInv, NEW p \in Clients, NEW i \in Ids, Inserts(p, i) \/ Overwrites(p, i)
  PROVE  /\ IdsDrawn' /\ WriteIsEffect' /\ RowsDisjoint'
         /\ \A q \in Clients \ {p} : Inserted(q)' <=> Inserted(q)
<1>. USE DEF RowInv, Inserts, Overwrites, Writes
<1>1. PICK a : /\ pending' = [pending EXCEPT ![p] = [id |-> i, row |-> a]]
               /\ \/ Inserts(p, i) /\ a = NewAccount(req[p])
                  \/ req[p].op = "update" /\ Overwrites(p, i) /\ a = Patched(rows[i], req[p])
                  \/ req[p].op = "delete" /\ Overwrites(p, i) /\ a = NoAccount
  OBVIOUS
<1>2. rows' = rows /\ req' = req /\ used' = used \cup {i} \cup used /\ i # NoId
  BY <1>1 DEF IdsDrawn
<1>3. \A q \in Clients \ {p} : pending'[q] = pending[q] /\ (Wrote(q)' <=> Wrote(q))
  BY <1>1 DEF TypeOK, Wrote
<1>4. pending'[p] = [id |-> i, row |-> a] /\ Wrote(p)'
  BY <1>1, <1>2 DEF TypeOK, Wrote
<1>5. \A q \in Clients \ {p} : Wrote(q) => pending[q].id # i
  BY <1>1 DEF IdsDrawn
<1>6. IdsDrawn'
  BY <1>2, <1>3, <1>4 DEF IdsDrawn
<1>7. WriteIsEffect'
  <2>1. EffectAt(p)'
    BY <1>1, <1>2, <1>4 DEF EffectAt, IdsDrawn
  <2>2. ASSUME NEW q \in Clients \ {p}, Wrote(q)'
        PROVE  EffectAt(q)'
    <3>1. EffectAt(q)
      BY <1>3, <2>2 DEF WriteIsEffect
    <3>. QED BY <1>2, <1>3, <3>1 DEF EffectAt
  <2>. QED BY <2>1, <2>2 DEF WriteIsEffect
<1>8. RowsDisjoint'
  BY <1>3, <1>4, <1>5 DEF RowsDisjoint
<1>9. \A q \in Clients \ {p} : Inserted(q)' <=> Inserted(q)
  BY <1>2, <1>3 DEF Inserted
<1>. QED BY <1>6, <1>7, <1>8, <1>9

\* An uncommitted INSERT holds its e-mail.
LEMMA InsertHolds ==
  ASSUME RowInv, NEW q \in Clients, Inserted(q)
  PROVE  HoldsEmail(q, req[q].email)
<1>1. EffectAt(q) /\ pc[q] # "idle"
  BY DEF RowInv, WriteIsEffect, ControlOK, WroteAt, Inserted
<1>2. NewAccount(req[q]) # NoAccount /\ NewAccount(req[q]).email = req[q].email
  BY <1>1, NewRow DEF RowInv, Inserted, TypeOK
<1>. QED BY <1>1, <1>2 DEF EffectAt, HoldsEmail, Inserted

LEMMA InsertEmails ==
  ASSUME IInv, NEW p \in Clients, NEW i \in Ids, Inserts(p, i), Unopposed(p)
  PROVE  EmailInv'
<1>. USE DEF IInv, EmailInv
<1>1. rows' = rows /\ req' = req
  BY DEF Inserts, Writes
<1>2. \A q \in Clients \ {p} : Inserted(q)' <=> Inserted(q)
  BY WriteRows
<1>3. \A q \in Clients \ {p} : Inserted(q) => req[q].email # req[p].email
  BY InsertHolds DEF Unopposed
<1>. QED
  BY <1>1, <1>2, <1>3
  DEF UniqueEmail, InsertsFree, EmailsDisjoint, EmailTaken, Unopposed

LEMMA OverwriteEmails ==
  ASSUME IInv, NEW p \in Clients, NEW i \in Ids, Overwrites(p, i)
  PROVE  EmailInv'
<1>. USE DEF IInv, EmailInv
<1>1. rows' = rows /\ req' = req /\ ~Inserted(p)'
  BY DEF Overwrites, Writes, Inserted
<1>2. \A q \in Clients : Inserted(q)' => Inserted(q)
  BY <1>1, WriteRows
<1>. QED
  BY <1>1, <1>2 DEF UniqueEmail, InsertsFree, EmailsDisjoint, EmailTaken

\* A call that starts, or ends without effect, takes no write away from others.
LEMMA IdleStep ==
  ASSUME RowInv, NEW p \in Clients,
         (\E r \in Requests : Starts(p, r)) \/ (Ends(p) /\ rows' = rows)
  PROVE  /\ IdsDrawn' /\ WriteIsEffect' /\ RowsDisjoint'
         /\ EmailInv => EmailInv'
<1>1. /\ rows' = rows /\ used' = used /\ ~Wrote(p)'
      /\ \A q \in Clients \ {p} : req'[q] = req[q] /\ pending'[q] = pending[q]
  BY DEF Starts, Ends, RowInv, TypeOK, ControlOK, WroteAt, Wrote, NoWrite
<1>2. \A q \in Clients : Wrote(q)' => q # p /\ Wrote(q)
  BY <1>1 DEF Wrote
<1>3. ASSUME NEW q \in Clients, Wrote(q)'
      PROVE  EffectAt(q)'
  <2>1. q # p /\ EffectAt(q)
    BY <1>2, <1>3 DEF RowInv, WriteIsEffect
  <2>. QED BY <1>1, <2>1 DEF EffectAt
<1>4. IdsDrawn' /\ RowsDisjoint'
  BY <1>1, <1>2 DEF RowInv, IdsDrawn, RowsDisjoint
<1>5. EmailInv => EmailInv'
  BY <1>1, <1>2
  DEF EmailInv, UniqueEmail, InsertsFree, EmailsDisjoint, Inserted, EmailTaken
<1>. QED BY <1>3, <1>4, <1>5 DEF WriteIsEffect

LEMMA RowStep ==
  ASSUME RowInv, NEW indexed \in BOOLEAN, DataNext(indexed)
  PROVE  IdsDrawn' /\ WriteIsEffect' /\ RowsDisjoint'
<1>1. CASE Keeps
  BY <1>1 DEF Keeps, RowInv, IdsDrawn, WriteIsEffect, RowsDisjoint, EffectAt, Wrote
<1>. QED BY <1>1, CommitRows, WriteRows, IdleStep DEF DataNext, Ends

LEMMA EmailStep ==
  ASSUME IInv, DataNext(TRUE)
  PROVE  EmailInv'
<1>1. CASE Keeps
  BY <1>1 DEF Keeps, IInv, EmailInv, UniqueEmail, InsertsFree, EmailsDisjoint, Inserted,
              EmailTaken, Wrote
<1>. QED BY <1>1, CommitEmails, InsertEmails, OverwriteEmails, IdleStep DEF DataNext, Ends, IInv

LEMMA TableStep ==
  ASSUME IInv, [Next]_vars
  PROVE  IdsDrawn' /\ WriteIsEffect' /\ RowsDisjoint' /\ EmailInv'
BY DataStep, RowStep, EmailStep DEF IInv, RowInv
-----------------------------------------------------------------------------
(* The invariant. *)

\* A Set never succeeds with Redis: what is not there cannot be served.
LEMMA NothingStoredStep ==
  ASSUME NothingStored, [Next]_vars
  PROVE  NothingStored'
<1>. SUFFICES ASSUME Manager = "redis" PROVE \A k \in Keys : cache'[k] = NoAccount
  BY DEF NothingStored
<1>1. \A k \in Keys : cache[k] = NoAccount
  BY DEF NothingStored
<1>2. \/ UNCHANGED cache
      \/ \E k : cache' = [cache EXCEPT ![k] = NoAccount]
  BY DEF Next, Step, Failure, Start, Expire, Admit, Begin, Lookup, Load, Store, Statement,
         Evict, EvictId, Commit, Rollback, BeginFails, LoadFails, StatementFails, CommitFails,
         Cancel, vars
<1>3. ASSUME NEW j, cache' = [cache EXCEPT ![j] = NoAccount], NEW k \in Keys
      PROVE  cache'[k] = NoAccount
  BY <1>1, <1>3
<1>. QED BY <1>1, <1>2, <1>3

LEMMA InitIInv == Init => IInv
<1>. SUFFICES ASSUME Init PROVE IInv
  OBVIOUS
<1>1. TypeOK
  BY DEF Init, TypeOK, NoWrite, Write, Steps, Codes
<1>2. ControlOK
  BY DEF Init, ControlOK, ControlAt, WroteAt, Wrote, NoWrite
<1>3. IdsDrawn /\ WriteIsEffect /\ RowsDisjoint
  BY DEF Init, IdsDrawn, WriteIsEffect, RowsDisjoint, Wrote, NoWrite
<1>4. EmailInv
  BY DEF Init, EmailInv, UniqueEmail, InsertsFree, EmailsDisjoint, Inserted, Wrote, NoWrite
<1>5. NothingStored
  BY DEF Init, NothingStored
<1>. QED BY <1>1, <1>2, <1>3, <1>4, <1>5 DEF IInv, RowInv

LEMMA NextIInv == IInv /\ [Next]_vars => IInv'
BY TypeStep, NothingStoredStep, ControlStep, TableStep DEF IInv, RowInv

\* The inductive invariant holds: what the code has written inside an open
\* transaction is always the effect of its request on the committed row.
THEOREM Invariance == Spec => []IInv
BY InitIInv, NextIInv, PTL DEF Spec

\* Every variable of the service keeps its type, for any number of calls, ids and
\* connections and whatever may fail.
THEOREM TypeCorrect == Spec => []TypeOK
<1>1. IInv => TypeOK
  BY DEF IInv, RowInv
<1>. QED BY <1>1, Invariance, PTL

\* No interleaving of Create, Update and Delete makes two accounts share an
\* e-mail.
THEOREM EmailsUnique == Spec => []UniqueEmail
<1>1. IInv => UniqueEmail
  BY DEF IInv, EmailInv
<1>. QED BY <1>1, Invariance, PTL

\* A transaction that has written its row sees it.
LEMMA SeesItsRow ==
  ASSUME RowInv, NEW p \in Clients, Wrote(p), pc[p] \in {"lookup", "load", "store"}
  PROVE  Matches(p) # {}
<1>. USE DEF RowInv, TypeOK
<1>1. req[p].op = "update" /\ req[p] \in Requests
  BY DEF ControlOK, ControlAt, WroteAt
<1>2. /\ pending[p].id = req[p].id /\ req[p].id \in Ids
      /\ rows[req[p].id] \in Account
      /\ pending[p].row = Patched(rows[req[p].id], req[p])
  BY <1>1 DEF WriteIsEffect, EffectAt, ControlOK, ControlAt
<1>3. pending[p].row # NoAccount
  <2>1. /\ req[p] \in UpdateRequest /\ req[p].status \in ValidStatus \cup {Nil}
        /\ NoAccount \notin Account
    BY <1>1, RequestShape DEF ControlOK, ControlAt
  <2>. QED BY <1>2, <2>1, PatchedType
<1>4. View(p)[req[p].id] # NoAccount
  BY <1>2, <1>3 DEF View, Wrote
<1>. QED BY <1>1, <1>2, <1>4 DEF Matches

LEMMA WritesStand ==
  ASSUME RowInv, [Next]_vars, NEW q \in Clients, Wrote(q), pc[q] # "abort", pc'[q] = "abort"
  PROVE  \/ pc[q] = "load" /\ "db" \in Faults
         \/ pc[q] = "store" /\ Manager = "redis"
<1>. USE DEF RowInv, TypeOK, Go, Leave, Abort, Fail, Found, NotFound
<1>1. ~\E p \in Clients, r \in Requests : Start(p, r)
  BY DEF Start
<1>2. ~\E p \in Clients : Admit(p) \/ Begin(p) \/ Lookup(p)
  BY DEF Admit, Begin, Lookup, ControlOK, WroteAt
<1>3. ~\E p \in Clients : Load(p)
  BY SeesItsRow DEF Load
<1>4. ~\E p \in Clients : Statement(p) \/ StatementFails(p) \/ BeginFails(p)
  <2>1. pc[q] \notin {"stmt", "begin"}
    BY DEF ControlOK, WroteAt
  <2>. QED BY <2>1 DEF Statement, Insert, InsertRow, UpdateRow, DeleteRow, WriteRow,
              StatementFails, BeginFails
<1>5. ~\E p \in Clients : Evict(p) \/ Commit(p) \/ Rollback(p) \/ CommitFails(p) \/ Cancel(p)
  BY DEF Evict, AfterWrite, Commit, Rollback, CommitFails, Cancel
<1>6. pc' # pc
  OBVIOUS
<1>7. \E p \in Clients : Store(p) \/ LoadFails(p)
  BY <1>1, <1>2, <1>3, <1>4, <1>5, <1>6 DEF Next, Step, Failure, Expire, vars
<1>8. ASSUME NEW p \in Clients, Store(p) \/ LoadFails(p) PROVE p = q
  <2>1. \E s \in Steps : pc' = [pc EXCEPT ![p] = s]
    BY <1>8 DEF Store, LoadFails, Steps, InTx
  <2>. QED BY <2>1
<1>9. Store(q) \/ LoadFails(q)
  BY <1>7, <1>8
<1>10. CASE Store(q)
  <2>1. pc[q] = "store" /\ req[q].op = "update"
    BY <1>10 DEF Store, ControlOK, WroteAt
  <2>2. ~Found(q, acct[q])
    BY <2>1 DEF Found
  <2>. QED BY <1>10, <2>1, <2>2 DEF Store
<1>11. CASE LoadFails(q)
  BY <1>11 DEF LoadFails
<1>. QED BY <1>9, <1>10, <1>11

\* With the in-process manager, which cannot fail, a row written in a transaction is
\* committed whatever the cache and other calls do: Update's re-read inside WithTx finds it.
THEOREM CacheIsOptional ==
  ASSUME Manager = "memory"
  PROVE  Spec => CacheNeverBreaksWrite
<1>1. IInv /\ [Next]_vars =>
        [\A p \in Clients :
           Wrote(p) /\ pc[p] # "abort" /\ pc'[p] = "abort" =>
             pc[p] = "load" /\ "db" \in Faults]_vars
  BY WritesStand DEF IInv
<1>. QED BY <1>1, Invariance, PTL DEF Spec, CacheNeverBreaksWrite

\* With either manager, and whatever evictions fail: creates and deletes that have written
\* are committed, and an update is undone by nothing but its re-read.
THEOREM OnlyUpdatesBreak == Spec => OnlyRereadBreaksWrite
<1>1. ASSUME IInv, [Next]_vars, NEW p \in Clients, Wrote(p), pc[p] # "abort", pc'[p] = "abort"
      PROVE  req[p].op = "update" /\ pc[p] \in {"load", "store"}
  <2>1. pc[p] \in {"load", "store"}
    BY <1>1, WritesStand DEF IInv
  <2>. QED BY <1>1, <2>1 DEF IInv, RowInv, ControlOK, WroteAt
<1>2. IInv /\ [Next]_vars =>
        [\A p \in Clients :
           Wrote(p) /\ pc[p] # "abort" /\ pc'[p] = "abort" =>
             req[p].op = "update" /\ pc[p] \in {"lookup", "load", "store"}]_vars
  BY <1>1
<1>. QED BY <1>2, Invariance, PTL DEF Spec, OnlyRereadBreaksWrite

\* The call that fails with Redis as its cache: nothing is read from there.
LEMMA RefusedStep ==
  ASSUME RowInv, Manager = "redis", [Next]_vars, NEW q \in Clients, pc[q] # "abort",
         code'[q] = "account_already_exists", code[q] # "account_already_exists"
  PROVE  EmailTaken(rows, req[q].email)
<1>. USE DEF RowInv, TypeOK
<1>1. ~\E p \in Clients, r \in Requests : Start(p, r)
  BY DEF Start
<1>2. PICK p \in Clients : Step(p) \/ Failure(p)
  BY <1>1 DEF Next, Expire, vars
<1>3. ASSUME NEW k, Leave(p, k) \/ Abort(p, k)
      PROVE  p = q /\ k = "account_already_exists"
  BY <1>3 DEF Leave, Abort
<1>4. ~UNCHANGED code
  OBVIOUS
<1>5. ~Admit(p)
  <2>1. ASSUME NEW v \in Verdicts(req[p])
        PROVE  v # "account_already_exists"
    BY DEF Verdicts, CreateVerdict, UpdateVerdict, IdVerdict
  <2>. QED BY <1>3, <1>4, <2>1 DEF Admit
<1>6. ~Lookup(p)
  <2>1. pc[p] = "lookup" => cache[KeyOf(req[p])] = NoAccount
    BY Admitted DEF NothingStored
  <2>. QED BY <1>4, <2>1 DEF Lookup
<1>7. ~Load(p) /\ ~Store(p) /\ ~LoadFails(p)
  BY <1>3, <1>4 DEF Load, Store, LoadFails, NotFound, Fail
<1>8. ~Begin(p) /\ ~Evict(p) /\ ~Commit(p) /\ ~Rollback(p)
  BY <1>3, <1>4 DEF Begin, Evict, Commit, Rollback
<1>9. ~BeginFails(p) /\ ~StatementFails(p) /\ ~CommitFails(p) /\ ~Cancel(p)
  BY <1>3 DEF BeginFails, StatementFails, CommitFails, Cancel
<1>10. Statement(p)
  BY <1>2, <1>5, <1>6, <1>7, <1>8, <1>9 DEF Step, Failure
<1>11. CASE Insert(p)
  BY <1>3, <1>4, <1>11 DEF Insert, InsertRow, UniqueViolation
<1>12. CASE UpdateRow(p) \/ DeleteRow(p)
  BY <1>3, <1>4, <1>12 DEF UpdateRow, DeleteRow, WriteRow
<1>. QED BY <1>10, <1>11, <1>12 DEF Statement

-----------------------------------------------------------------------------
(* The service implements the abstract table. *)

\* Steps that neither decide a call nor touch the table are invisible.
LEMMA Invisible ==
  ASSUME NEW p \in Clients, NEW s \in Steps \ {"idle", "abort"}, Go(p, s), TypeOK,
         pc[p] \notin {"idle", "abort"}, UNCHANGED <<rows, req, code>>
  PROVE  UNCHANGED Abs!vars
<1>1. OpenCalls' = OpenCalls
  BY DEF Go, TypeOK, OpenCalls
<1>. QED BY <1>1 DEF Abs!vars

\* Leaving and failing answer the call.
LEMMA Answers ==
  ASSUME TypeOK, ControlOK, NEW p \in Clients, NEW k, Leave(p, k) \/ Abort(p, k),
         pc[p] \notin {"idle", "abort"}
  PROVE  Abs!Answer(p, k) /\ OpenCalls[p] = req[p]
<1>1. OpenCalls[p] = req[p] /\ req[p] # NoCall
  BY DEF OpenCalls, ControlOK, ControlAt
<1>2. OpenCalls' = [OpenCalls EXCEPT ![p] = NoCall]
  BY DEF Leave, Abort, Go, TypeOK, OpenCalls
<1>. QED BY <1>1, <1>2 DEF Abs!Answer, Leave, Abort

\* A call refused without effect is a Refuse of the abstract table.
LEMMA Refusal ==
  ASSUME TypeOK, ControlOK, NEW p \in Clients, NEW k \in Codes \ {"none", "ok"},
         Leave(p, k) \/ Abort(p, k), pc[p] \notin {"idle", "abort"}, rows' = rows,
         k = "account_not_found" => req[p].op # "create" /\ rows[req[p].id] = NoAccount,
         k = "account_already_exists" => req[p].op = "create"
  PROVE  Abs!Next
<1>1. Abs!Refuse(p, k)
  BY Answers DEF Abs!Refuse
<1>. QED BY <1>1 DEF Abs!Next, Abs!Codes, Codes

\* A create whose e-mail is taken by now becomes visible: only where no unique
\* index forbids it.
Duplicates(p) ==
  /\ pc[p] = "commit"
  /\ req[p].op = "create"
  /\ EmailTaken(rows, req[p].email)
  /\ rows' = View(p)

LEMMA NoDuplicates ==
  ASSUME IInv, NEW p \in Clients, Duplicates(p)
  PROVE  FALSE
BY DEF Duplicates, IInv, RowInv, ControlOK, WroteAt, EmailInv, InsertsFree, Inserted

\* A pending write that becomes visible is the effect of the request.
LEMMA CommitIsApply ==
  ASSUME RowInv, NEW p \in Clients, NEW k \in {"ok", "internal"}, Leave(p, k),
         pc[p] = "commit", rows' = View(p), ~Duplicates(p)
  PROVE  Abs!Next
<1>. DEFINE i == pending[p].id
            a == pending[p].row
<1>1. Wrote(p) /\ i \in Ids /\ EffectAt(p)
  BY DEF RowInv, TypeOK, ControlOK, WroteAt, WriteIsEffect, Wrote, Write
<1>2. rows' = [rows EXCEPT ![i] = a]
  BY <1>1 DEF View
<1>3. Abs!Effect(req[p], rows, rows')
  <2>1. CASE req[p].op = "create"
    BY <1>1, <1>2, <2>1
    DEF Duplicates, EffectAt, Abs!Effect, EmailTaken, Abs!EmailTaken, NewAccount,
        Abs!NewAccount, ValidStatus, Abs!ValidStatus, Active, Abs!Active
  <2>2. CASE req[p].op # "create"
    BY <1>1, <1>2, <2>2 DEF EffectAt, Abs!Effect, Patched, Abs!Patched
  <2>. QED BY <2>1, <2>2
<1>4. Abs!Apply(p)
  BY <1>3, Answers DEF Abs!Apply, RowInv
<1>. QED BY <1>4 DEF Abs!Next

\* An answer to a cached read.
LEMMA FoundRefines ==
  ASSUME TypeOK, ControlOK, NEW p \in Clients, NEW a, Found(p, a),
         pc[p] \in {"lookup", "store"}, rows' = rows
  PROVE  [Abs!Next]_(Abs!vars)
<1>1. CASE req[p].op = "create"
  BY <1>1, Refusal DEF Found, Codes
<1>2. CASE req[p].op = "get"
  <2>1. Abs!Serve(p)
    BY <1>2, Answers DEF Found, Abs!Serve
  <2>. QED BY <2>1 DEF Abs!Next
<1>3. CASE req[p].op = "update"
  BY <1>3, Invisible DEF Found, Steps
<1>. QED BY <1>1, <1>2, <1>3 DEF Found

\* A look-up by id that finds nothing tells the truth about the table.
LEMMA MissIsTrue ==
  ASSUME RowInv, NEW p \in Clients, pc[p] \in {"lookup", "load"}, req[p].op # "create",
         Matches(p) = {}
  PROVE  rows[req[p].id] = NoAccount
<1>1. req[p].id \in Ids /\ View(p)[req[p].id] = NoAccount
  BY DEF Matches, RowInv, ControlOK, ControlAt
<1>2. ~Wrote(p)
  <2>. SUFFICES ASSUME Wrote(p) PROVE FALSE
    OBVIOUS
  <2>1. req[p].op = "update" /\ EffectAt(p)
    BY DEF RowInv, ControlOK, WroteAt, WriteIsEffect
  <2>2. pending[p].row # NoAccount
    BY <2>1, <1>1, PatchedRow DEF EffectAt, RowInv
  <2>. QED BY <1>1, <2>1, <2>2 DEF View, EffectAt, RowInv, TypeOK
<1>. QED BY <1>1, <1>2 DEF View

LEMMA StepRefines ==
  ASSUME RowInv, [Next]_vars, \A p \in Clients : ~Duplicates(p)
  PROVE  [Abs!Next]_(Abs!vars)
<1>. USE DEF RowInv
<1>1. ASSUME NEW p \in Clients, NEW r \in Requests, Start(p, r)
      PROVE  Abs!Next
  <2>1. OpenCalls[p] = NoCall /\ OpenCalls' = [OpenCalls EXCEPT ![p] = r]
    BY <1>1 DEF Start, Go, TypeOK, OpenCalls
  <2>2. Abs!Submit(p, r)
    BY <1>1, <2>1 DEF Start, Abs!Submit
  <2>. QED BY <2>2 DEF Abs!Next
<1>2. ASSUME NEW p \in Clients, Step(p) \/ Failure(p)
      PROVE  [Abs!Next]_(Abs!vars)
  <2>0. ASSUME Leave(p, "internal") \/ Abort(p, "internal"), rows' = rows,
               pc[p] \notin {"idle", "abort"}
        PROVE  Abs!Next
    BY <2>0, Refusal DEF Codes
  <2>1. CASE Admit(p)
    <3>1. PICK v \in Verdicts(req[p]) :
            \/ /\ v = "proceed"
               /\ Go(p, IF req[p].op = "get" THEN "lookup" ELSE "begin")
               /\ UNCHANGED <<pending, req, acct, code>>
            \/ v # "proceed" /\ Leave(p, v)
      BY <2>1 DEF Admit
    <3>2. CASE v = "proceed"
      BY <2>1, <3>1, <3>2, Invisible DEF Admit, Steps
    <3>3. CASE v # "proceed"
      <4>1. v \in Codes \ {"none", "ok", "account_not_found", "account_already_exists"}
        BY <3>3 DEF Verdicts, CreateVerdict, UpdateVerdict, IdVerdict, Codes
      <4>. QED BY <2>1, <3>1, <3>3, <4>1, Refusal DEF Admit
    <3>. QED BY <3>2, <3>3
  <2>2. CASE Begin(p) \/ Evict(p)
    BY <2>2, Invisible DEF Begin, Evict, AfterWrite, Steps
  <2>3. CASE Lookup(p)
    BY <2>3, FoundRefines, Invisible DEF Lookup, Steps
  <2>4. CASE Store(p)
    BY <2>4, FoundRefines, <2>0 DEF Store, Fail
  <2>5. CASE Load(p)
    <3>1. CASE Go(p, "store") /\ UNCHANGED <<pending, req, code>>
      BY <2>5, <3>1, Invisible DEF Load, Steps
    <3>2. CASE Matches(p) = {} /\ NotFound(p)
      <4>1. CASE req[p].op = "create"
        BY <2>5, <3>2, <4>1, Invisible DEF Load, NotFound, Steps
      <4>2. CASE req[p].op # "create"
        <5>1. rows[req[p].id] = NoAccount
          BY <2>5, <3>2, <4>2, MissIsTrue DEF Load
        <5>. QED BY <2>5, <3>2, <4>2, <5>1, Refusal DEF Load, NotFound, Fail, Codes
      <4>. QED BY <4>1, <4>2
    <3>. QED BY <2>5, <3>1, <3>2 DEF Load
  <2>6. CASE Statement(p)
    <3>1. CASE Insert(p)
      BY <2>6, <3>1, Refusal, Invisible DEF Statement, Insert, InsertRow, Codes, Steps
    <3>2. CASE UpdateRow(p) \/ DeleteRow(p)
      BY <2>6, <3>2, Refusal, Invisible
      DEF Statement, UpdateRow, DeleteRow, WriteRow, Codes, Steps
    <3>. QED BY <2>6, <3>1, <3>2 DEF Statement
  <2>7. CASE Commit(p)
    BY <2>7, CommitIsApply DEF Commit
  <2>8. CASE CommitFails(p)
    BY <2>8, <2>0, CommitIsApply DEF CommitFails
  <2>9. CASE Rollback(p)
    <3>1. OpenCalls' = OpenCalls /\ code' = code /\ rows' = rows
      BY <2>9 DEF Rollback, Leave, Go, TypeOK, OpenCalls
    <3>. QED BY <3>1 DEF Abs!vars
  <2>10. CASE BeginFails(p) \/ Cancel(p) \/ LoadFails(p) \/ StatementFails(p)
    BY <2>0, <2>10 DEF BeginFails, Cancel, LoadFails, StatementFails, Fail
  <2>. QED
    BY <1>2, <2>1, <2>2, <2>3, <2>4, <2>5, <2>6, <2>7, <2>8, <2>9, <2>10
    DEF Step, Failure
<1>3. ASSUME UNCHANGED <<rows, pc, req, code>>
      PROVE  UNCHANGED Abs!vars
  BY <1>3 DEF OpenCalls, Abs!vars
<1>. QED BY <1>1, <1>2, <1>3 DEF Next, Expire, vars

\* The service implements the abstract table: writes are linearizable, and "ok",
\* "not found" and every definite error tell the truth, whatever the cache
\* serves, however calls overlap and whatever fails.
THEOREM ImplementsTable == Spec => Linearizable
<1>1. Init => Abs!Init
  BY DEF Init, Abs!Init, OpenCalls
<1>2. IInv /\ [Next]_vars => [Abs!Next]_(Abs!vars)
  BY StepRefines, NoDuplicates DEF IInv
<1>. QED BY <1>1, <1>2, Invariance, PTL DEF Spec, Linearizable, Abs!Spec
=============================================================================
