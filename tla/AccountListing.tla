--------------------------- MODULE AccountListing ---------------------------
(***************************************************************************)
(* List: a page of accounts and the total, from the transports down to the *)
(* three repositories.  It is not cached and runs in no transaction: count *)
(* and page are two statements, and rows may change between them.          *)
(*                                                                         *)
(* A client may page on with the next offset while the total says there is *)
(* more.  A page is the set of its accounts; the order inside it is left   *)
(* out.  Nothing keeps two accounts from carrying the same created_at, and *)
(* no query breaks such a tie.                                             *)
(***************************************************************************)
EXTENDS Integers, FiniteSets, Functions

CONSTANTS
  Ids,
  Statuses,      \* statuses rows have
  NoRow,
  Absent,        \* a query parameter or optional field that is not given
  Garbage,       \* a query parameter that is not an integer
  Requests,      \* the requests clients send, see Request
  Backends,      \* the repositories that may be wired
  GrpcMaxLimit,  \* the largest limit the proto rules let through (200)
  Half           \* int32 covers -Half .. Half - 1

\* Query parameters are strings, fields of a proto message are typed; the worker
\* calls the use case directly.
Raw == Int \cup {Absent, Garbage}
Request ==
  [via : {"http"}, status : Raw, limit : Raw, offset : Raw]
    \cup [via : {"grpc", "worker"}, status : Int \cup {Absent}, limit : Int, offset : Int]

ASSUME ListingAssumption ==
  /\ IsFiniteSet(Ids)
  /\ Statuses \subseteq Int
  /\ Requests \subseteq Request
  /\ Backends \subseteq {"gorm", "sqlc", "mongo"}
  /\ GrpcMaxLimit \in Nat
  /\ Half \in Nat \ {0}
  /\ NoRow \notin Int /\ Absent \notin Int /\ Garbage \notin Int

VARIABLES
  backend,  \* the repository this deployment wires
  status,   \* status[i] : status of row i, or NoRow
  created,  \* created[i] : created_at of i, 0 if i was never created
  pc,       \* where the call is
  filter,   \* the filter of the call and the offset the client began with
  total,    \* result of the count
  page,     \* result of the page query
  code,     \* answer to the last call
  seen,     \* seen[i] : how often the client's pages have contained i
  during,   \* kinds of writes since the call began
  since,    \* kinds of writes since the client began at its first offset
  fresh     \* accounts created since then

table == <<backend, status, created>>
client == <<filter, total, page, code, seen>>
vars == <<table, pc, client, during, since, fresh>>

Times == 1..Cardinality(Ids)
Kinds == {"add", "remove", "change"}
NoFilter == [status |-> Absent, limit |-> 0, offset |-> 0, from |-> 0]

Init ==
  /\ backend \in Backends
  /\ status = [i \in Ids |-> NoRow]
  /\ created = [i \in Ids |-> 0]
  /\ pc = "idle"
  /\ filter = NoFilter
  /\ total = 0
  /\ page = {}
  /\ code = "none"
  /\ seen = [i \in Ids |-> 0]
  /\ during = {}
  /\ since = {}
  /\ fresh = {}
-----------------------------------------------------------------------------
(* Handlers. *)

AtoiDefault(v) == IF v \in {Absent, Garbage} THEN 0 ELSE v

\* HTTP refuses a status that is no number; a bad limit or offset becomes 0.
\* gRPC checks ranges.  Neither checks that the status exists.
Rejected(r) ==
  \/ r.via = "http" /\ r.status = Garbage
  \/ r.via = "grpc" /\ (r.limit \notin 0..GrpcMaxLimit \/ r.offset < 0)

FilterOf(r) ==
  [status |-> r.status, limit |-> AtoiDefault(r.limit),
   offset |-> AtoiDefault(r.offset), from |-> AtoiDefault(r.offset)]

Call(f) ==
  /\ filter' = f
  /\ pc' = "first"
  /\ total' = 0
  /\ page' = {}
  /\ code' = "none"
  /\ during' = {}

Handle(r) ==
  /\ pc = "idle"
  /\ ~Rejected(r)
  /\ Call(FilterOf(r))
  /\ seen' = [i \in Ids |-> 0]
  /\ since' = {}
  /\ fresh' = {}
  /\ UNCHANGED table

Reject(r) ==
  /\ pc = "idle"
  /\ Rejected(r)
  /\ code' = "invalid_request"
  /\ UNCHANGED <<table, pc, filter, total, page, seen, during, since, fresh>>

\* The client asks for the next page, or has enough.
More ==
  /\ pc = "done"
  /\ code = "ok"
  /\ filter.limit > 0
  /\ filter.offset + filter.limit < total
  /\ Call([filter EXCEPT !.offset = @ + filter.limit])
  /\ UNCHANGED <<table, seen, since, fresh>>

Enough ==
  /\ pc = "done"
  /\ pc' = "idle"
  /\ filter' = NoFilter
  /\ total' = 0
  /\ page' = {}
  /\ code' = "none"
  /\ seen' = [i \in Ids |-> 0]
  /\ during' = {}
  /\ since' = {}
  /\ fresh' = {}
  /\ UNCHANGED table
-----------------------------------------------------------------------------
(* Repositories. *)

Matching ==
  {i \in Ids : status[i] # NoRow /\ filter.status \in {Absent, status[i]}}

\* Mutant: the queries name no order.
AnyOrder == Bijection(Matching, 0..(Cardinality(Matching) - 1))

\* The indexes the matching rows may get in one query.  PostgreSQL and MongoDB sort by
\* created_at DESC and leave equal times in any order; GORM's query does not sort.
Orders ==
  {o \in Bijection(Matching, 0..(Cardinality(Matching) - 1)) :
     backend # "gorm" =>
       \A i, j \in Matching : created[i] > created[j] => o[i] < o[j]}

\* int32(n)
Int32(n) == ((n + Half) % (2 * Half)) - Half

\* Mutant: the page starts one row early.
RowsFromBefore(o, lo) == {i \in Matching : o[i] >= lo - 1}

\* Rows from index lo on.
RowsFrom(o, lo) == {i \in Matching : o[i] >= lo}

\* GORM and Mongo: limit and offset apply only when positive.
OptionalPage(o) ==
  {i \in RowsFrom(o, filter.offset) :
     filter.limit > 0 => o[i] < (IF filter.offset > 0 THEN filter.offset ELSE 0) + filter.limit}

\* sqlc: LIMIT and OFFSET always apply, as int32; PostgreSQL refuses negative ones.
SqlcRefused == Int32(filter.limit) < 0 \/ Int32(filter.offset) < 0

SqlcPage(o) ==
  {i \in RowsFrom(o, Int32(filter.offset)) :
     o[i] < Int32(filter.offset) + Int32(filter.limit)}

\* Mutant: the count comes first in every repository.
PageLast == "second"

\* sqlc reads the page before it counts, the others after.
PageAt == IF backend = "sqlc" THEN "first" ELSE "second"

After(step) == IF step = "first" THEN "second" ELSE "ready"

Return(k) ==
  /\ pc' = "done"
  /\ code' = k
  /\ UNCHANGED <<table, filter, total, page, seen, during, since, fresh>>

\* Mutant: the count forgets the filter.
CountEverything ==
  /\ pc \in {"first", "second"} \ {PageAt}
  /\ total' = Cardinality({i \in Ids : status[i] # NoRow})
  /\ pc' = After(pc)
  /\ UNCHANGED <<table, filter, page, code, seen, during, since, fresh>>

Count ==
  /\ pc \in {"first", "second"} \ {PageAt}
  /\ total' = Cardinality(Matching)
  /\ pc' = After(pc)
  /\ UNCHANGED <<table, filter, page, code, seen, during, since, fresh>>

Find ==
  /\ pc = PageAt
  /\ \E o \in Orders :
       \/ backend # "sqlc" /\ page' = OptionalPage(o)
       \/ backend = "sqlc" /\ ~SqlcRefused /\ page' = SqlcPage(o)
  /\ pc' = After(pc)
  /\ UNCHANGED <<table, filter, total, code, seen, during, since, fresh>>

Refused ==
  /\ pc = PageAt
  /\ backend = "sqlc"
  /\ SqlcRefused
  /\ Return("internal")

QueryFails ==
  /\ pc \in {"first", "second"}
  /\ Return("internal")

Answer ==
  /\ pc = "ready"
  /\ pc' = "done"
  /\ code' = "ok"
  /\ seen' = [i \in Ids |-> IF i \in page THEN seen[i] + 1 ELSE seen[i]]
  /\ UNCHANGED <<table, filter, total, page, during, since, fresh>>
-----------------------------------------------------------------------------
(* Other callers create, delete and update accounts. *)

Wrote(kind) ==
  /\ during' = IF pc = "idle" THEN {} ELSE during \cup {kind}
  /\ since' = IF pc = "idle" THEN {} ELSE since \cup {kind}
  /\ UNCHANGED <<backend, pc, client>>

\* created_at is the clock of the process, taken before the transaction begins: rows may
\* appear out of order, and with the same time as another one.
Add(i) ==
  /\ created[i] = 0
  /\ \E s \in Statuses : status' = [status EXCEPT ![i] = s]
  /\ \E t \in Times : created' = [created EXCEPT ![i] = t]
  /\ fresh' = IF pc = "idle" THEN {} ELSE fresh \cup {i}
  /\ Wrote("add")

Remove(i) ==
  /\ status[i] # NoRow
  /\ status' = [status EXCEPT ![i] = NoRow]
  /\ UNCHANGED <<created, fresh>>
  /\ Wrote("remove")

Change(i) ==
  /\ status[i] # NoRow
  /\ \E s \in Statuses \ {status[i]} : status' = [status EXCEPT ![i] = s]
  /\ UNCHANGED <<created, fresh>>
  /\ Wrote("change")
-----------------------------------------------------------------------------
Next ==
  \/ \E r \in Requests : Handle(r) \/ Reject(r)
  \/ More \/ Enough \/ Count \/ Find \/ Refused \/ QueryFails \/ Answer
  \/ \E i \in Ids : Add(i) \/ Remove(i) \/ Change(i)

Spec == Init /\ [][Next]_vars
-----------------------------------------------------------------------------
(* Properties. *)

TypeOK ==
  /\ backend \in Backends
  /\ status \in [Ids -> Statuses \cup {NoRow}]
  /\ created \in [Ids -> Times \cup {0}]
  /\ pc \in {"idle", "first", "second", "ready", "done"}
  /\ filter \in [status : Int \cup {Absent}, limit : Int, offset : Int, from : Int]
  /\ total \in Nat
  /\ page \subseteq Ids
  /\ code \in {"none", "ok", "invalid_request", "internal"}
  /\ seen \in [Ids -> Nat]
  /\ during \subseteq Kinds
  /\ since \subseteq Kinds
  /\ fresh \subseteq Ids

\* What "zero values mean no constraint" makes of n matching rows: the reference
\* for the size of a page.
PageSize(n, f) ==
  LET rest == IF f.offset > 0 THEN n - f.offset ELSE n
  IN  CASE rest <= 0 -> 0
        [] rest > 0 /\ f.limit > 0 /\ f.limit < rest -> f.limit
        [] OTHER -> rest

\* The sqlc repository honours only filters with a limit, and only those that fit
\* an int32.
Honoured(f) ==
  backend = "sqlc" => f.limit \in 1..(Half - 1) /\ f.offset \in 0..(Half - 1)

Listed == pc = "done" /\ code = "ok" /\ Honoured(filter)

\* Without writes during the call, the total counts the matching accounts and the
\* page has as many of them as limit and offset ask for: a client that uses the
\* total to page never meets a page that is too short or too long.
PageFitsTotal ==
  Listed /\ during = {} =>
    /\ total = Cardinality(Matching)
    /\ page \subseteq Matching
    /\ Cardinality(page) = PageSize(total, filter)

\* The client began at offset 0 and the total says it has seen the last page.
Walked == Listed /\ filter.from = 0 /\ filter.limit > 0 /\ filter.offset + filter.limit >= total

Ordered == backend # "gorm"

\* Nobody else has ever been created at the same time: the database has no choice where
\* to put i.
Alone(i) == \A j \in Ids : created[j] = created[i] => j = i

\* Paging on from offset 0 shows every matching account exactly once when nobody
\* writes, but for those that share their creation time: the pages of separate calls fit
\* together.  The GORM repository does not order its rows and promises no such thing.
WalkExact ==
  Walked /\ Ordered /\ since = {} => \A i \in Matching : Alone(i) => seen[i] = 1

\* Accounts created meanwhile, at times of their own, hide none of the old ones, if the
\* page is read before the count: sqlc does, Mongo does not.
AddsHideNothing ==
  Walked /\ backend = "sqlc" /\ since \subseteq {"add"} =>
    \A i \in Matching \ fresh : Alone(i) => seen[i] >= 1

\* Accounts deleted meanwhile make none appear twice, unless it shares its creation time.
RemovalsRepeatNothing ==
  Listed /\ Ordered /\ filter.from = 0 /\ since \subseteq {"remove"} =>
    \A i \in Ids : Alone(i) => seen[i] <= 1
-----------------------------------------------------------------------------
(* The inductive invariant: how far the pages of a client have come.       *)

Live == pc \in {"first", "second", "ready"} \/ (pc = "done" /\ code = "ok")

PageRead == Live /\ pc # "first" /\ pc # PageAt

Counted == Live /\ pc # "first" /\ (pc = "second" => PageAt = "second")

\* How many matching rows are newer than i: the first index it may get.
Newer(i) == Cardinality({j \in Matching : created[j] > created[i]})

\* The index up to which the client's pages have gone.
End == IF PageRead THEN filter.offset + filter.limit ELSE filter.offset

\* How often the client's pages contain i, this one included.
Shown(i) == seen[i] + (IF pc \in {"second", "ready"} /\ i \in page THEN 1 ELSE 0)

Walking == Live /\ Honoured(filter) /\ Ordered /\ filter.from = 0

\* Rows, written kinds and offsets are where the control says.
Bookkeeping ==
  /\ \A i \in Ids : status[i] # NoRow => created[i] # 0
  /\ during \subseteq since
  /\ fresh # {} => pc # "idle" /\ "add" \in since
  /\ pc \in {"first", "second", "ready"} => code = "none"
  /\ Live /\ ~PageRead => page = {}
  /\ filter.from = 0 => filter.offset >= 0 /\ (filter.limit <= 0 => filter.offset = 0)

CountExact == Counted /\ during = {} => total = Cardinality(Matching)

\* A page has as many of the matching accounts as limit and offset ask for.
PageExact ==
  PageRead /\ Honoured(filter) /\ during = {} =>
    /\ page \subseteq Matching
    /\ Cardinality(page) = PageSize(Cardinality(Matching), filter)

\* Deletions move rows to the front, where the client has been already.
NoneTwice ==
  Walking /\ since \subseteq {"remove"} =>
    \A i \in Ids : Alone(i) =>
      /\ Shown(i) \in {0, 1}
      /\ i \in Matching /\ Shown(i) = 1 =>
           IF filter.limit > 0 THEN Newer(i) < End ELSE PageRead

\* An old row not shown yet is still ahead, and the total tells so.
NoneMissed ==
  Walking /\ filter.limit > 0 /\ (since = {} \/ (backend = "sqlc" /\ since \subseteq {"add"})) =>
    \A i \in Matching \ fresh : Alone(i) =>
      \/ Shown(i) >= 1
      \/ Newer(i) >= End /\ (Counted => total > End)

WalkInv ==
  /\ TypeOK
  /\ Bookkeeping
  /\ CountExact
  /\ PageExact
  /\ NoneTwice
  /\ NoneMissed
=============================================================================
