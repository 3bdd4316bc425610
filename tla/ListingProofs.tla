---------------------------- MODULE ListingProofs ----------------------------
(* Proofs about paging through a listing, for any accounts, filters, writers   *)
(* and repositories.                                                           *)
EXTENDS AccountListing, FiniteSetTheorems, TLAPS

USE ListingAssumption

-----------------------------------------------------------------------------
(* The index of a row. *)

\* Matching rows are finitely many.
LEMMA MatchingFinite == IsFiniteSet(Matching) /\ Cardinality(Matching) \in Nat
<1>1. Matching \subseteq Ids
  BY DEF Matching
<1>. QED BY <1>1, FS_Subset, FS_CardinalityType

\* The index of a row is a natural number, and smaller than the number of rows.
LEMMA NewerBound ==
  ASSUME created \in [Ids -> Times \cup {0}]
  PROVE  /\ \A i \in Ids : Newer(i) \in Nat
         /\ \A i \in Matching : Newer(i) < Cardinality(Matching)
<1>1. ASSUME NEW i \in Ids
      PROVE  /\ {j \in Matching : created[j] > created[i]} \subseteq Matching
             /\ Newer(i) \in Nat
  <2>1. {j \in Matching : created[j] > created[i]} \subseteq Matching
    OBVIOUS
  <2>. QED BY <2>1, MatchingFinite, FS_Subset, FS_CardinalityType DEF Newer
<1>2. ASSUME NEW i \in Matching
      PROVE  Newer(i) < Cardinality(Matching)
  <2>. DEFINE newer == {j \in Matching : created[j] > created[i]}
              others == Matching \ {i}
  <2>1. i \in Ids /\ created[i] \in Int
    BY FS_CardinalityType DEF Matching, Times
  <2>2. newer \subseteq others
    BY <2>1
  <2>3. IsFiniteSet(others) /\ Cardinality(others) = Cardinality(Matching) - 1
    BY MatchingFinite, FS_RemoveElement
  <2>4. Cardinality(newer) <= Cardinality(others) /\ Cardinality(newer) \in Nat
    BY <2>2, <2>3, FS_Subset, FS_CardinalityType
  <2>. QED BY <2>3, <2>4, MatchingFinite DEF Newer
<1>. QED BY <1>1, <1>2

\* An index grows with the rows.
LEMMA NewerGrows ==
  ASSUME NEW S, NEW T, IsFiniteSet(T), S \subseteq T
  PROVE  Cardinality(S) <= Cardinality(T) /\ Cardinality(S) \in Nat /\ Cardinality(T) \in Nat
BY FS_Subset, FS_CardinalityType

\* A number an int32 can hold is not changed by the conversion.
LEMMA Int32Fits == \A n \in 0..(Half - 1) : Int32(n) = n
<1>. SUFFICES ASSUME NEW n \in 0..(Half - 1) PROVE Int32(n) = n
  OBVIOUS
<1>1. n + Half \in Nat /\ 2 * Half \in Nat /\ n + Half < 2 * Half
  OBVIOUS
<1>2. \A a, b \in Nat : a < b => a % b = a
  OBVIOUS
<1>. QED BY <1>1, <1>2 DEF Int32
-----------------------------------------------------------------------------
(* The order of a query. *)

\* An order numbers the matching rows, whatever ties it breaks how.
LEMMA OrderType ==
  ASSUME NEW o \in Orders
  PROVE  /\ o \in Bijection(Matching, 0..(Cardinality(Matching) - 1))
         /\ \A i \in Matching : o[i] \in 0..(Cardinality(Matching) - 1)
         /\ \A i, j \in Matching : o[i] = o[j] => i = j
         /\ \A k \in 0..(Cardinality(Matching) - 1) : \E i \in Matching : o[i] = k
         /\ backend # "gorm" =>
              \A i, j \in Matching : created[i] > created[j] => o[i] < o[j]
BY DEF Orders, Bijection, Injection, IsInjective, Surjection

\* As many rows lie between two indexes as there are numbers between them.
LEMMA RowsBetween ==
  ASSUME NEW o \in Orders, NEW lo \in Nat, NEW hi \in Int, hi < Cardinality(Matching)
  PROVE  Cardinality({i \in Matching : o[i] \in lo..hi})
           = IF lo > hi THEN 0 ELSE hi - lo + 1
<1>. DEFINE S == {i \in Matching : o[i] \in lo..hi}
            index == [i \in S |-> o[i]]
<1>1. IsFiniteSet(S)
  <2>1. S \subseteq Matching
    OBVIOUS
  <2>. QED BY <2>1, MatchingFinite, FS_Subset
<1>2. index \in Injection(S, lo..hi)
  BY OrderType DEF Injection, IsInjective
<1>3. index \in Surjection(S, lo..hi)
  <2>1. \A k \in lo..hi : k \in 0..(Cardinality(Matching) - 1)
    BY MatchingFinite
  <2>2. \A k \in lo..hi : \E i \in S : index[i] = k
    BY <2>1, OrderType
  <2>. QED BY <2>2 DEF Surjection
<1>4. ExistsBijection(S, lo..hi)
  BY <1>2, <1>3 DEF ExistsBijection, Bijection
<1>5. Cardinality(S) = Cardinality(lo..hi)
  <2>. HIDE DEF S
  <2>. QED BY <1>1, <1>4, FS_Bijection
<1>. QED BY <1>5, FS_Interval

\* Where a row shares its creation time with none, the query must give it its index.
LEMMA IndexOfAlone ==
  ASSUME created \in [Ids -> Times \cup {0}], backend # "gorm", NEW o \in Orders,
         NEW i \in Matching, Alone(i)
  PROVE  o[i] = Newer(i)
<1>. DEFINE before == {j \in Matching : o[j] \in 0..(o[i] - 1)}
<1>1. /\ i \in Ids /\ o[i] \in Nat /\ o[i] - 1 < Cardinality(Matching)
      /\ \A j \in Matching : j \in Ids /\ o[j] \in Nat
  <2>1. \A j \in Matching : o[j] \in 0..(Cardinality(Matching) - 1)
    BY OrderType
  <2>2. Matching \subseteq Ids
    BY DEF Matching
  <2>. QED BY <2>1, <2>2, MatchingFinite
<1>2. \A j \in Matching : created[j] \in Int
  BY FS_CardinalityType DEF Matching, Times
<1>3. ASSUME NEW j \in Matching
      PROVE  created[j] > created[i] <=> o[j] < o[i]
  <2>1. created[j] > created[i] => o[j] < o[i]
    BY OrderType
  <2>2. created[j] < created[i] => o[i] < o[j]
    BY <1>2, OrderType
  <2>3. created[j] = created[i] => j = i
    BY <1>1 DEF Alone
  <2>. QED BY <1>1, <1>2, <2>1, <2>2, <2>3
<1>4. {j \in Matching : created[j] > created[i]} = before
  <2>1. \A j \in Matching : o[j] \in 0..(o[i] - 1) <=> o[j] < o[i]
    BY <1>1
  <2>. QED BY <1>3, <2>1
<1>5. Cardinality(before) = o[i]
  <2>1. 0 \in Nat /\ o[i] - 1 \in Int
    BY <1>1
  <2>2. Cardinality(before) = IF 0 > o[i] - 1 THEN 0 ELSE (o[i] - 1) - 0 + 1
    BY <1>1, <2>1, RowsBetween
  <2>. QED BY <1>1, <2>2
<1>. QED BY <1>4, <1>5 DEF Newer
-----------------------------------------------------------------------------
(* The calls of a client. *)

\* Of the rows whose index is certain, a page takes those between offset and offset + limit.
LEMMA PageOf ==
  ASSUME TypeOK, backend # "gorm", Honoured(filter), filter.offset >= 0,
         backend = "sqlc" => ~SqlcRefused, Find
  PROVE  /\ page' \subseteq Matching
         /\ \A i \in Matching : Alone(i) =>
              (i \in page' <=> /\ Newer(i) >= filter.offset
                               /\ filter.limit > 0 => Newer(i) < filter.offset + filter.limit)
<1>0. PICK o \in Orders :
        \/ backend # "sqlc" /\ page' = OptionalPage(o)
        \/ backend = "sqlc" /\ page' = SqlcPage(o)
  BY DEF Find
<1>1. /\ backend \in {"mongo", "sqlc"} /\ filter.limit \in Int /\ filter.offset \in Int
      /\ created \in [Ids -> Times \cup {0}]
  BY DEF TypeOK
<1>2. \A i \in Matching : Alone(i) => o[i] = Newer(i)
  BY <1>1, IndexOfAlone
<1>3. CASE backend = "mongo"
  <2>1. \A i : i \in page' <=>
               /\ i \in Matching /\ o[i] >= filter.offset
               /\ filter.limit > 0 =>
                    o[i] < (IF filter.offset > 0 THEN filter.offset ELSE 0) + filter.limit
    BY <1>0, <1>3 DEF OptionalPage, RowsFrom
  <2>2. (IF filter.offset > 0 THEN filter.offset ELSE 0) = filter.offset
    BY <1>1
  <2>. QED BY <1>2, <2>1, <2>2
<1>4. CASE backend = "sqlc"
  <2>1. filter.limit \in 1..(Half - 1) /\ filter.offset \in 0..(Half - 1)
    BY <1>4 DEF Honoured
  <2>2. Int32(filter.limit) = filter.limit /\ Int32(filter.offset) = filter.offset
    BY <2>1, Int32Fits
  <2>3. \A i : i \in page' <=>
               /\ i \in Matching /\ o[i] >= filter.offset
               /\ o[i] < filter.offset + filter.limit
    BY <1>0, <1>4, <2>2 DEF SqlcPage, RowsFrom
  <2>4. filter.limit > 0
    BY <2>1
  <2>. QED BY <1>2, <2>3, <2>4
<1>. QED BY <1>1, <1>3, <1>4

\* A page of any repository has as many of the matching accounts as its filter asks
\* for, offsets and limits that mean "no constraint" included.
LEMMA PageHasSize ==
  ASSUME TypeOK, Honoured(filter), Find
  PROVE  /\ page' \subseteq Matching
         /\ Cardinality(page') = PageSize(Cardinality(Matching), filter)
<1>0. PICK o \in Orders :
        \/ backend # "sqlc" /\ page' = OptionalPage(o)
        \/ backend = "sqlc" /\ page' = SqlcPage(o)
  BY DEF Find
<1>. DEFINE n == Cardinality(Matching)
            lo == IF filter.offset > 0 THEN filter.offset ELSE 0
            hi == IF filter.limit > 0 /\ lo + filter.limit < n THEN lo + filter.limit - 1
                                                               ELSE n - 1
            S == {i \in Matching : o[i] \in lo..hi}
<1>1. /\ filter.limit \in Int /\ filter.offset \in Int
      /\ n \in Nat /\ lo \in Nat /\ hi \in Int /\ hi < n
      /\ \A i \in Matching : o[i] \in Nat /\ o[i] < n
  BY MatchingFinite, OrderType DEF TypeOK
<1>2. Cardinality(S) = PageSize(n, filter)
  <2>1. lo \in Nat /\ hi \in Int /\ hi < Cardinality(Matching)
    BY <1>1
  <2>2. Cardinality(S) = IF lo > hi THEN 0 ELSE hi - lo + 1
    <3>. HIDE DEF lo, hi
    <3>. QED BY <2>1, RowsBetween
  <2>3. (IF lo > hi THEN 0 ELSE hi - lo + 1) = PageSize(n, filter)
    <3>. HIDE DEF n
    <3>. QED BY <1>1 DEF PageSize
  <2>. QED BY <2>2, <2>3
<1>3. OptionalPage(o) = S
  <2>1. \A i \in Matching :
          i \in OptionalPage(o) <=> o[i] >= filter.offset
                                     /\ (filter.limit > 0 => o[i] < lo + filter.limit)
    BY DEF OptionalPage, RowsFrom
  <2>2. ASSUME NEW i \in Matching
        PROVE  i \in OptionalPage(o) <=> o[i] \in lo..hi
    <3>. HIDE DEF n
    <3>. QED BY <1>1, <2>1
  <2>3. OptionalPage(o) \subseteq Matching
    BY DEF OptionalPage, RowsFrom
  <2>. QED BY <2>2, <2>3
<1>4. CASE backend = "sqlc"
  <2>1. filter.limit \in 1..(Half - 1) /\ filter.offset \in 0..(Half - 1)
    BY <1>4 DEF Honoured
  <2>2. Int32(filter.limit) = filter.limit /\ Int32(filter.offset) = filter.offset
    BY <2>1, Int32Fits
  <2>3. SqlcPage(o) = OptionalPage(o)
    <3>1. lo = filter.offset
      BY <2>1
    <3>. QED BY <2>1, <2>2, <3>1 DEF SqlcPage, OptionalPage, RowsFrom
  <2>. QED BY <1>0, <1>2, <1>3, <1>4, <2>3
<1>5. CASE backend # "sqlc"
  BY <1>0, <1>2, <1>3, <1>5
<1>6. page' \subseteq Matching /\ Cardinality(page') = PageSize(n, filter)
  BY <1>4, <1>5
<1>. QED BY <1>6

LEMMA InitWalkInv == Init => WalkInv
<1>. SUFFICES ASSUME Init PROVE WalkInv
  OBVIOUS
<1>1. TypeOK
  BY DEF Init, TypeOK, NoFilter
<1>2. Bookkeeping /\ CountExact /\ PageExact /\ NoneTwice /\ NoneMissed
  BY DEF Init, Bookkeeping, CountExact, PageExact, NoneTwice, NoneMissed, Walking, Live,
     PageRead, Counted, NoFilter
<1>. QED BY <1>1, <1>2 DEF WalkInv

\* What a handler makes of a request is a filter.
LEMMA FilterType ==
  ASSUME NEW r \in Requests, ~Rejected(r)
  PROVE  FilterOf(r) \in [status : Int \cup {Absent}, limit : Int, offset : Int, from : Int]
<1>1. r \in Request
  OBVIOUS
<1>2. r.status \in Int \cup {Absent}
  BY <1>1 DEF Request, Raw, Rejected
<1>3. AtoiDefault(r.limit) \in Int /\ AtoiDefault(r.offset) \in Int
  BY <1>1 DEF Request, Raw, AtoiDefault
<1>. QED BY <1>2, <1>3 DEF FilterOf

LEMMA TypeStep == TypeOK /\ [Next]_vars => TypeOK'
<1>. SUFFICES ASSUME TypeOK, [Next]_vars PROVE TypeOK'
  OBVIOUS
<1>. USE DEF TypeOK, table, client
<1>1. ASSUME NEW r \in Requests, Handle(r) PROVE TypeOK'
  BY <1>1, FilterType DEF Handle, Call
<1>2. ASSUME NEW r \in Requests, Reject(r) PROVE TypeOK'
  BY <1>2 DEF Reject
<1>3. CASE More
  BY <1>3 DEF More, Call
<1>4. CASE Enough
  BY <1>4 DEF Enough, NoFilter
<1>5. CASE Count
  BY <1>5, MatchingFinite DEF Count, After
<1>6. CASE Find
  <2>1. Matching \subseteq Ids
    BY DEF Matching
  <2>2. page' \subseteq Ids
    <3>1. \A o : OptionalPage(o) \subseteq Matching /\ SqlcPage(o) \subseteq Matching
      BY DEF OptionalPage, SqlcPage, RowsFrom
    <3>. QED BY <1>6, <2>1, <3>1 DEF Find
  <2>3. pc' \in {"second", "ready"}
    BY <1>6 DEF Find, After
  <2>. QED BY <1>6, <2>2, <2>3 DEF Find
<1>7. CASE Refused \/ QueryFails
  BY <1>7 DEF Refused, QueryFails, Return
<1>8. CASE Answer
  BY <1>8 DEF Answer
<1>9. ASSUME NEW i \in Ids, Add(i) PROVE TypeOK'
  <2>1. /\ status' \in [Ids -> Statuses \cup {NoRow}]
        /\ created' \in [Ids -> Times \cup {0}]
        /\ fresh' \subseteq Ids
    BY <1>9 DEF Add
  <2>2. Wrote("add")
    BY <1>9 DEF Add
  <2>. QED BY <2>1, <2>2 DEF Wrote, Kinds
<1>10. ASSUME NEW i \in Ids, Remove(i) \/ Change(i) PROVE TypeOK'
  <2>1. status' \in [Ids -> Statuses \cup {NoRow}] /\ UNCHANGED <<created, fresh>>
    BY <1>10 DEF Remove, Change
  <2>2. Wrote("remove") \/ Wrote("change")
    BY <1>10 DEF Remove, Change
  <2>. QED BY <2>1, <2>2 DEF Wrote, Kinds
<1>11. CASE UNCHANGED vars
  BY <1>11 DEF vars
<1>. QED BY <1>1, <1>2, <1>3, <1>4, <1>5, <1>6, <1>7, <1>8, <1>9, <1>10, <1>11 DEF Next

LEMMA BookkeepingStep == WalkInv /\ [Next]_vars => Bookkeeping'
<1>. SUFFICES ASSUME TypeOK, Bookkeeping, [Next]_vars PROVE Bookkeeping'
  BY DEF WalkInv
<1>. USE DEF TypeOK, table, client, Bookkeeping, Live, PageRead, PageAt
<1>1. ASSUME NEW r \in Requests, Handle(r) PROVE Bookkeeping'
  <2>1. FilterOf(r).from = FilterOf(r).offset
    BY DEF FilterOf
  <2>. QED BY <1>1, <2>1 DEF Handle, Call
<1>2. ASSUME NEW r \in Requests, Reject(r) PROVE Bookkeeping'
  BY <1>2 DEF Reject
<1>3. CASE More
  BY <1>3 DEF More, Call
<1>4. CASE Enough
  BY <1>4 DEF Enough, NoFilter
<1>5. CASE Count
  BY <1>5 DEF Count, After
<1>6. CASE Find
  BY <1>6 DEF Find, After
<1>7. CASE Refused \/ QueryFails
  BY <1>7 DEF Refused, QueryFails, Return
<1>8. CASE Answer
  BY <1>8 DEF Answer
<1>9. ASSUME NEW i \in Ids, Add(i) PROVE Bookkeeping'
  <2>1. /\ created' = [created EXCEPT ![i] = created'[i]] /\ created'[i] \in Times
        /\ UNCHANGED <<backend, pc, filter, page, code>>
        /\ \A j \in Ids \ {i} : status'[j] = status[j]
    BY <1>9 DEF Add, Wrote
  <2>2. \A j \in Ids : status'[j] # NoRow => created'[j] # 0
    BY <2>1, FS_CardinalityType DEF Times
  <2>3. during' \subseteq since'
    BY <1>9 DEF Add, Wrote
  <2>4. fresh' # {} => pc' # "idle" /\ "add" \in since'
    BY <1>9 DEF Add, Wrote
  <2>. QED BY <2>1, <2>2, <2>3, <2>4
<1>10. ASSUME NEW i \in Ids, Remove(i) \/ Change(i) PROVE Bookkeeping'
  <2>1. /\ UNCHANGED <<backend, created, fresh, pc, filter, page, code>>
        /\ \A j \in Ids : status'[j] # NoRow => status[j] # NoRow
    BY <1>10 DEF Remove, Change, Wrote
  <2>2. \E k \in Kinds : Wrote(k)
    BY <1>10 DEF Remove, Change, Kinds
  <2>3. /\ during' \subseteq since'
        /\ fresh' # {} => pc' # "idle" /\ "add" \in since'
    BY <2>1, <2>2 DEF Wrote
  <2>. QED BY <2>1, <2>2, <2>3
<1>11. CASE UNCHANGED vars
  BY <1>11 DEF vars
<1>. QED BY <1>1, <1>2, <1>3, <1>4, <1>5, <1>6, <1>7, <1>8, <1>9, <1>10, <1>11 DEF Next

LEMMA CountStep == WalkInv /\ [Next]_vars => CountExact'
<1>. SUFFICES ASSUME TypeOK, Bookkeeping, CountExact, [Next]_vars PROVE CountExact'
  BY DEF WalkInv
<1>. USE DEF TypeOK, table, client, CountExact, Counted, Live, PageAt
<1>1. ASSUME NEW r \in Requests, Handle(r) PROVE CountExact'
  BY <1>1 DEF Handle, Call
<1>2. ASSUME NEW r \in Requests, Reject(r) PROVE CountExact'
  BY <1>2 DEF Reject
<1>3. CASE More \/ Enough
  BY <1>3 DEF More, Call, Enough
<1>4. CASE Count
  BY <1>4 DEF Count, After, Matching
<1>5. CASE Find
  BY <1>5 DEF Find, After, Matching
<1>6. CASE Refused \/ QueryFails
  BY <1>6 DEF Refused, QueryFails, Return
<1>7. CASE Answer
  BY <1>7 DEF Answer, Matching
<1>8. ASSUME NEW i \in Ids, Add(i) \/ Remove(i) \/ Change(i) PROVE CountExact'
  <2>1. pc' = pc /\ (pc # "idle" => during' # {})
    BY <1>8 DEF Add, Remove, Change, Wrote
  <2>. QED BY <2>1
<1>9. CASE UNCHANGED vars
  BY <1>9 DEF vars, Matching
<1>. QED BY <1>1, <1>2, <1>3, <1>4, <1>5, <1>6, <1>7, <1>8, <1>9 DEF Next
-----------------------------------------------------------------------------
(* How far the pages of a client have come. *)

\* A step that leaves rows and filter alone leaves the index of every row alone.
LEMMA SameRows ==
  ASSUME UNCHANGED table, filter'.status = filter.status
  PROVE  Matching' = Matching /\ \A i : Newer(i)' = Newer(i)
<1>1. Matching' = Matching
  BY DEF Matching, table
<1>. QED BY <1>1 DEF Newer, table

LEMMA PageExactStep == WalkInv /\ [Next]_vars => PageExact'
<1>. SUFFICES ASSUME WalkInv, [Next]_vars, PageRead', Honoured(filter)', during' = {}
              PROVE  /\ page' \subseteq Matching'
                     /\ Cardinality(page') = PageSize(Cardinality(Matching'), filter')
  BY DEF PageExact
<1>. USE DEF table, client
<1>0. TypeOK /\ Bookkeeping /\ PageExact
  BY DEF WalkInv
<1>1. CASE Find
  <2>1. UNCHANGED table /\ filter' = filter /\ Honoured(filter)
    BY <1>1 DEF Find, Honoured
  <2>2. Matching' = Matching
    BY <2>1, SameRows
  <2>. QED BY <1>0, <1>1, <2>1, <2>2, PageHasSize
<1>2. CASE Count \/ Answer \/ UNCHANGED vars
  <2>1. UNCHANGED table /\ filter' = filter /\ page' = page /\ during = {}
    BY <1>2 DEF Count, Answer, vars
  <2>2. Matching' = Matching
    BY <2>1, SameRows
  <2>3. PageRead /\ Honoured(filter)
    BY <1>0, <1>2, <2>1 DEF TypeOK, Count, Answer, vars, PageRead, Live, PageAt, After, Honoured
  <2>. QED BY <1>0, <2>1, <2>2, <2>3 DEF PageExact
<1>3. ASSUME NEW r \in Requests, Handle(r) \/ Reject(r) PROVE FALSE
  BY <1>3 DEF Handle, Reject, Call, PageRead, Live
<1>4. CASE More \/ Enough \/ Refused \/ QueryFails
  BY <1>4 DEF More, Enough, Refused, QueryFails, Return, Call, PageRead, Live
<1>5. ASSUME NEW i \in Ids, Add(i) \/ Remove(i) \/ Change(i) PROVE FALSE
  <2>1. pc' = pc /\ (pc # "idle" => during' # {})
    BY <1>5 DEF Add, Remove, Change, Wrote
  <2>. QED BY <2>1 DEF PageRead, Live
<1>. QED BY <1>1, <1>2, <1>3, <1>4, <1>5 DEF Next

\* What NoneTwice says of one row.
Once(i) ==
  /\ Shown(i) \in {0, 1}
  /\ i \in Matching /\ Shown(i) = 1 =>
       IF filter.limit > 0 THEN Newer(i) < End ELSE PageRead

\* The client's own steps keep it: pages are read in rising order of the index.
LEMMA OnceForward ==
  ASSUME WalkInv, Walking', since' \subseteq {"remove"}, NEW i \in Ids, Alone(i),
         More \/ Count \/ Find \/ Answer
  PROVE  Once(i)'
<1>. USE DEF table, client
<1>1. /\ UNCHANGED table /\ filter'.status = filter.status /\ filter'.limit = filter.limit
      /\ filter'.from = filter.from /\ since' = since
  BY DEF More, Call, Count, Find, Answer, WalkInv, TypeOK
<1>2. Matching' = Matching /\ Newer(i)' = Newer(i)
  BY <1>1, SameRows
<1>3. TypeOK /\ Bookkeeping /\ NoneTwice
  BY DEF WalkInv
<1>4. /\ filter.limit \in Int /\ filter.offset \in Int /\ filter.from = 0
      /\ filter.offset >= 0 /\ Newer(i) \in Nat /\ seen[i] \in Nat
      /\ filter.limit <= 0 => filter.offset = 0
  BY <1>1, <1>3, NewerBound DEF Walking, TypeOK, Bookkeeping
<1>5. Live /\ Ordered
  <2>1. Ordered
    BY <1>1 DEF Walking, Ordered
  <2>2. Live
    BY DEF Live, More, Count, Find, Answer, PageAt
  <2>. QED BY <2>1, <2>2
<1>6. Honoured(filter)
  <2>1. CASE More
    <3>1. filter'.offset = filter.offset + filter.limit
      BY <2>1, <1>3 DEF More, Call, TypeOK
    <3>. QED BY <1>1, <1>4, <3>1 DEF Walking, Honoured
  <2>2. CASE Count \/ Find \/ Answer
    BY <1>1, <2>2 DEF Walking, Honoured, Count, Find, Answer
  <2>. QED BY <2>1, <2>2
<1>7. Once(i)
  BY <1>1, <1>3, <1>4, <1>5, <1>6 DEF NoneTwice, Walking, Once
<1>8. CASE More
  <2>1. /\ pc = "done" /\ pc' = "first" /\ seen' = seen /\ filter.limit > 0
        /\ filter'.offset = filter.offset + filter.limit
    BY <1>3, <1>8 DEF More, Call, TypeOK
  <2>2. Shown(i)' = Shown(i) /\ Shown(i) = seen[i]
    BY <1>4, <2>1 DEF Shown
  <2>3. End' = End
    BY <1>3, <1>5, <2>1 DEF End, PageRead, PageAt
  <2>. QED BY <1>1, <1>2, <1>7, <2>1, <2>2, <2>3 DEF Once
<1>9. CASE Count
  <2>1. pc \in {"first", "second"} \ {PageAt} /\ pc' = After(pc)
        /\ UNCHANGED <<filter, page, code, seen, backend>>
    BY <1>9 DEF Count
  <2>2. PageRead' = PageRead
    BY <2>1, <1>5 DEF PageRead, PageAt, After, Live
  <2>3. Shown(i)' = Shown(i)
    BY <1>3, <2>1, <1>5 DEF Shown, After, Bookkeeping, PageRead, PageAt
  <2>4. End' = End
    BY <2>1, <2>2 DEF End
  <2>. QED BY <1>1, <1>2, <1>7, <2>2, <2>3, <2>4 DEF Once
<1>10. CASE Find
  <2>1. /\ pc = PageAt /\ pc' = After(pc) /\ pc \in {"first", "second"}
        /\ UNCHANGED <<filter, code, seen, backend>>
    BY <1>10 DEF Find, PageAt
  <2>2. ~PageRead /\ page = {} /\ PageRead'
    BY <1>3, <1>5, <2>1 DEF PageRead, Bookkeeping, PageAt, After, Live, Walking
  <2>3. Shown(i) = seen[i] /\ Shown(i)' = seen[i] + IF i \in page' THEN 1 ELSE 0
    BY <1>4, <2>1, <2>2 DEF Shown, After
  <2>4. End = filter.offset /\ End' = filter.offset + filter.limit
    BY <2>1, <2>2 DEF End
  <2>5. /\ page' \subseteq Matching
        /\ i \in Matching =>
             (i \in page' <=> /\ Newer(i) >= filter.offset
                              /\ filter.limit > 0 => Newer(i) < filter.offset + filter.limit)
    BY <1>3, <1>4, <1>5, <1>6, <1>10, PageOf DEF Ordered, Find
  <2>6. CASE i \in page'
    <3>1. i \in Matching /\ Newer(i) >= filter.offset
      BY <2>5, <2>6
    <3>2. Shown(i) = 0
      BY <1>7, <1>4, <2>2, <2>3, <2>4, <3>1 DEF Once
    <3>3. filter.limit > 0 => Newer(i) < filter.offset + filter.limit
      BY <2>5, <2>6, <3>1
    <3>. QED BY <1>1, <1>2, <2>2, <2>3, <2>4, <2>6, <3>2, <3>3 DEF Once
  <2>7. CASE i \notin page'
    <3>1. Shown(i)' = Shown(i)
      BY <1>4, <2>3, <2>7
    <3>. QED BY <1>1, <1>2, <1>4, <1>7, <2>2, <2>4, <3>1 DEF Once
  <2>. QED BY <2>6, <2>7
<1>11. CASE Answer
  <2>1. /\ pc = "ready" /\ pc' = "done" /\ code' = "ok" /\ UNCHANGED <<filter, page, backend>>
        /\ seen'[i] = IF i \in page THEN seen[i] + 1 ELSE seen[i]
    BY <1>11 DEF Answer
  <2>2. Shown(i)' = Shown(i)
    BY <1>4, <2>1 DEF Shown
  <2>3. PageRead' /\ PageRead
    BY <2>1 DEF PageRead, PageAt, Live
  <2>4. End' = End
    BY <2>1, <2>3 DEF End
  <2>. QED BY <1>1, <1>2, <1>7, <2>2, <2>3, <2>4 DEF Once
<1>. QED BY <1>8, <1>9, <1>10, <1>11

\* A deletion moves rows to the front only.
LEMMA RemoveMoves ==
  ASSUME TypeOK, NEW j \in Ids, Remove(j)
  PROVE  /\ Matching' \subseteq Matching
         /\ \A i \in Ids : Newer(i)' \in Nat /\ Newer(i)' <= Newer(i)
<1>1. Matching' \subseteq Matching
  BY DEF Matching, Remove, Wrote, TypeOK, client
<1>2. ASSUME NEW i \in Ids
      PROVE  Newer(i)' \in Nat /\ Newer(i)' <= Newer(i)
  <2>. DEFINE before == {k \in Matching : created[k] > created[i]}
              after == {k \in Matching' : created[k] > created[i]}
  <2>1. after \subseteq before
    BY <1>1
  <2>2. IsFiniteSet(before)
    BY MatchingFinite, FS_Subset
  <2>3. Newer(i) = Cardinality(before) /\ Newer(i)' = Cardinality(after)
    BY DEF Newer, Remove
  <2>. QED BY <2>1, <2>2, <2>3, NewerGrows
<1>. QED BY <1>1, <1>2

\* A creation moves rows to the back only, and the new row is fresh.
LEMMA AddMoves ==
  ASSUME TypeOK, Bookkeeping, NEW j \in Ids, Add(j)
  PROVE  /\ Matching \subseteq Matching' /\ Matching' \subseteq Matching \cup {j}
         /\ \A i \in Matching : Newer(i)' \in Nat /\ Newer(i) <= Newer(i)'
<1>1. /\ status[j] = NoRow /\ created[j] = 0
      /\ \A k \in Ids \ {j} : status'[k] = status[k] /\ created'[k] = created[k]
      /\ UNCHANGED filter
  BY DEF Add, Wrote, TypeOK, Bookkeeping, client
<1>2. Matching \subseteq Matching' /\ Matching' \subseteq Matching \cup {j}
  BY <1>1 DEF Matching
<1>3. j \notin Matching
  BY <1>1 DEF Matching
<1>4. ASSUME NEW i \in Matching
      PROVE  Newer(i)' \in Nat /\ Newer(i) <= Newer(i)'
  <2>. DEFINE before == {k \in Matching : created[k] > created[i]}
              after == {k \in Matching' : created'[k] > created'[i]}
  <2>1. before \subseteq after
    BY <1>1, <1>2, <1>3 DEF Matching
  <2>2. IsFiniteSet(Matching')
    BY <1>2, MatchingFinite, FS_AddElement, FS_Subset
  <2>3. IsFiniteSet(after)
    BY <2>2, FS_Subset
  <2>4. Newer(i) = Cardinality(before) /\ Newer(i)' = Cardinality(after)
    BY DEF Newer
  <2>. QED BY <2>1, <2>3, <2>4, NewerGrows
<1>. QED BY <1>2, <1>4

\* The time of an account never changes.
LEMMA StaysAlone ==
  ASSUME NEW i \in Ids, UNCHANGED created
  PROVE  Alone(i)' <=> Alone(i)
BY DEF Alone

LEMMA NoneTwiceStep == WalkInv /\ [Next]_vars => NoneTwice'
<1>. SUFFICES ASSUME WalkInv, [Next]_vars, Walking', since' \subseteq {"remove"}, NEW i \in Ids,
                     Alone(i)'
              PROVE  Once(i)'
  BY DEF NoneTwice, Once
<1>. USE DEF table, client
<1>0. TypeOK /\ Bookkeeping /\ NoneTwice
  BY DEF WalkInv
<1>1. ASSUME NEW r \in Requests, Handle(r) PROVE Once(i)'
  <2>1. pc' = "first" /\ seen'[i] = 0
    BY <1>1 DEF Handle, Call
  <2>. QED BY <2>1 DEF Once, Shown
<1>2. CASE More \/ Count \/ Find \/ Answer
  <2>1. Alone(i)
    BY <1>2, StaysAlone DEF More, Count, Find, Answer
  <2>. QED BY <1>2, <2>1, OnceForward
<1>3. CASE (\E r \in Requests : Reject(r)) \/ Enough \/ Refused \/ QueryFails
  BY <1>3 DEF Reject, Enough, Refused, QueryFails, Return, Walking, Live
<1>4. ASSUME NEW j \in Ids, Add(j) \/ Change(j) PROVE Once(i)'
  BY <1>4 DEF Add, Change, Wrote, Walking, Live
<1>5. ASSUME NEW j \in Ids, Remove(j) PROVE Once(i)'
  <2>1. UNCHANGED <<backend, pc, filter, page, code, seen>>
    BY <1>5 DEF Remove, Wrote
  <2>2. since \subseteq since'
    BY <1>5, <2>1 DEF Remove, Wrote, Walking, Live
  <2>3. Walking
    BY <2>1 DEF Walking, Live, Honoured, Ordered
  <2>4. Once(i)
    <3>1. Alone(i)
      BY <1>5, StaysAlone DEF Remove
    <3>. QED BY <1>0, <2>2, <2>3, <3>1 DEF NoneTwice, Once
  <2>5. Shown(i)' = Shown(i) /\ End' = End /\ PageRead' = PageRead
    BY <2>1 DEF Shown, End, PageRead, PageAt, Live
  <2>6. End \in Int /\ Newer(i) \in Nat
    BY <1>0, NewerBound DEF End, TypeOK
  <2>. QED BY <1>0, <1>5, <2>1, <2>4, <2>5, <2>6, RemoveMoves DEF Once
<1>6. CASE UNCHANGED vars
  <2>1. UNCHANGED <<table, pc, client, since>>
    BY <1>6 DEF vars
  <2>2. Walking /\ since \subseteq {"remove"}
    BY <2>1 DEF Walking, Live, Honoured, Ordered
  <2>3. Once(i)
    <3>1. Alone(i)
      BY <2>1, StaysAlone
    <3>. QED BY <1>0, <2>2, <3>1 DEF NoneTwice, Once
  <2>4. Matching' = Matching /\ Newer(i)' = Newer(i)
    BY <2>1, SameRows
  <2>. QED BY <2>1, <2>3, <2>4 DEF Once, Shown, End, PageRead, PageAt, Live
<1>. QED BY <1>1, <1>2, <1>3, <1>4, <1>5, <1>6 DEF Next

\* What NoneMissed says of one row.
Ahead(i) == Shown(i) >= 1 \/ (Newer(i) >= End /\ (Counted => total > End))

\* The writers an old row is safe from.
Gentle == since = {} \/ (backend = "sqlc" /\ since \subseteq {"add"})

\* The client's own steps keep it: what a page leaves out lies behind its end, and
\* a count made after the page counts it.
LEMMA AheadForward ==
  ASSUME WalkInv, Walking', filter'.limit > 0, Gentle', NEW i \in Matching' \ fresh',
         Alone(i), More \/ Count \/ Find \/ Answer
  PROVE  Ahead(i)'
<1>. USE DEF table, client
<1>1. /\ UNCHANGED table /\ filter'.status = filter.status /\ filter'.limit = filter.limit
      /\ filter'.from = filter.from /\ since' = since /\ fresh' = fresh
  BY DEF More, Call, Count, Find, Answer, WalkInv, TypeOK
<1>2. Matching' = Matching /\ Newer(i)' = Newer(i)
  BY <1>1, SameRows
<1>3. TypeOK /\ Bookkeeping /\ CountExact /\ NoneMissed
  BY DEF WalkInv
<1>4. i \in Ids /\ i \in Matching \ fresh
  BY <1>1, <1>2 DEF Matching
<1>5. /\ filter.limit \in Int /\ filter.limit > 0 /\ filter.offset \in Int
      /\ filter.from = 0 /\ filter.offset >= 0
      /\ Newer(i) \in Nat /\ seen[i] \in Nat /\ total \in Nat
  BY <1>1, <1>3, <1>4, NewerBound DEF Walking, TypeOK, Bookkeeping
<1>6. Newer(i) < Cardinality(Matching) /\ Cardinality(Matching) \in Nat
  BY <1>3, <1>4, NewerBound, MatchingFinite DEF TypeOK
<1>7. Live /\ Ordered
  <2>1. Ordered
    BY <1>1 DEF Walking, Ordered
  <2>2. Live
    BY DEF Live, More, Count, Find, Answer, PageAt
  <2>. QED BY <2>1, <2>2
<1>8. Honoured(filter)
  <2>1. CASE More
    <3>1. filter'.offset = filter.offset + filter.limit
      BY <2>1, <1>3 DEF More, Call, TypeOK
    <3>. QED BY <1>1, <1>5, <3>1 DEF Walking, Honoured
  <2>2. CASE Count \/ Find \/ Answer
    BY <1>1, <2>2 DEF Walking, Honoured, Count, Find, Answer
  <2>. QED BY <2>1, <2>2
<1>9. Ahead(i)
  BY <1>1, <1>3, <1>4, <1>5, <1>7, <1>8 DEF NoneMissed, Walking, Ahead, Gentle
<1>10. CASE More
  <2>1. /\ pc = "done" /\ pc' = "first" /\ seen' = seen
        /\ filter'.offset = filter.offset + filter.limit
    BY <1>3, <1>10 DEF More, Call, TypeOK
  <2>2. Shown(i)' = Shown(i)
    BY <1>5, <2>1 DEF Shown
  <2>3. End' = End /\ ~Counted'
    BY <1>3, <1>7, <2>1 DEF End, PageRead, PageAt, Counted
  <2>. QED BY <1>2, <1>9, <2>2, <2>3 DEF Ahead
<1>11. CASE Count
  <2>1. /\ pc \in {"first", "second"} \ {PageAt} /\ pc' = After(pc)
        /\ total' = Cardinality(Matching)
        /\ UNCHANGED <<filter, page, code, seen, backend>>
    BY <1>11 DEF Count
  <2>2. PageRead' = PageRead
    BY <2>1, <1>7 DEF PageRead, PageAt, After, Live
  <2>3. Shown(i)' = Shown(i)
    BY <1>3, <2>1, <1>7 DEF Shown, After, Bookkeeping, PageRead, PageAt
  <2>4. End' = End /\ End \in Int
    BY <1>5, <2>1, <2>2 DEF End
  <2>5. Newer(i) >= End => total' > End'
    BY <1>5, <1>6, <2>1, <2>4
  <2>. QED BY <1>2, <1>9, <2>3, <2>4, <2>5 DEF Ahead
<1>12. CASE Find
  <2>1. /\ pc = PageAt /\ pc' = After(pc) /\ pc \in {"first", "second"}
        /\ UNCHANGED <<filter, total, code, seen, backend, during>>
    BY <1>12 DEF Find, PageAt
  <2>2. ~PageRead /\ page = {} /\ PageRead'
    BY <1>3, <1>7, <2>1 DEF PageRead, Bookkeeping, PageAt, After, Live, Walking
  <2>3. Shown(i) = seen[i] /\ Shown(i)' = seen[i] + IF i \in page' THEN 1 ELSE 0
    BY <1>5, <2>1, <2>2 DEF Shown, After
  <2>4. End' = filter.offset + filter.limit
    BY <2>1, <2>2 DEF End
  <2>5. i \in page' <=> Newer(i) >= filter.offset /\ Newer(i) < filter.offset + filter.limit
    BY <1>3, <1>4, <1>5, <1>7, <1>8, <1>12, PageOf DEF Ordered, Find
  <2>6. CASE Shown(i) >= 1 \/ i \in page'
    <3>1. Shown(i)' >= 1
      BY <1>5, <2>3, <2>6
    <3>. QED BY <3>1 DEF Ahead
  <2>7. CASE ~(Shown(i) >= 1) /\ i \notin page'
    <3>1. Newer(i) >= filter.offset
      BY <1>9, <2>2, <2>7 DEF Ahead, End
    <3>2. Newer(i) >= End'
      BY <1>5, <2>4, <2>5, <2>7, <3>1
    <3>3. Counted' => total' > End'
      <4>1. CASE backend = "sqlc"
        BY <2>1, <4>1 DEF Counted, PageAt, After
      <4>2. CASE backend # "sqlc"
        <5>1. pc = "second" /\ PageAt = "second" /\ Counted
          BY <1>7, <2>1, <4>2 DEF Counted, PageAt
        <5>2. during = {}
          BY <1>1, <1>3, <4>2 DEF Gentle, Bookkeeping
        <5>3. total = Cardinality(Matching)
          BY <1>3, <5>1, <5>2 DEF CountExact
        <5>. QED BY <1>5, <1>6, <2>1, <2>4, <3>2, <5>3
      <4>. QED BY <4>1, <4>2
    <3>. QED BY <1>2, <3>2, <3>3 DEF Ahead
  <2>. QED BY <2>6, <2>7
<1>13. CASE Answer
  <2>1. /\ pc = "ready" /\ pc' = "done" /\ code' = "ok"
        /\ UNCHANGED <<filter, page, backend, total>>
        /\ seen'[i] = IF i \in page THEN seen[i] + 1 ELSE seen[i]
    BY <1>4, <1>13 DEF Answer
  <2>2. Shown(i)' = Shown(i)
    BY <1>5, <2>1 DEF Shown
  <2>3. PageRead' /\ PageRead /\ Counted
    BY <2>1 DEF PageRead, PageAt, Live, Counted
  <2>4. End' = End
    BY <2>1, <2>3 DEF End
  <2>. QED BY <1>2, <1>9, <2>1, <2>2, <2>3, <2>4 DEF Ahead
<1>. QED BY <1>10, <1>11, <1>12, <1>13

\* A creation makes no account alone that was not.
LEMMA WasAlone ==
  ASSUME TypeOK, NEW i \in Ids, NEW j \in Ids, Add(j), status[i] # NoRow, Bookkeeping, Alone(i)'
  PROVE  Alone(i)
<1>1. created[j] = 0 /\ created[i] # 0 /\ \A k \in Ids \ {j} : created'[k] = created[k]
  BY DEF Add, TypeOK, Bookkeeping
<1>. QED BY <1>1 DEF Alone

LEMMA NoneMissedStep == WalkInv /\ [Next]_vars => NoneMissed'
<1>. SUFFICES ASSUME WalkInv, [Next]_vars, Walking', filter'.limit > 0, Gentle',
                     NEW i \in Matching' \ fresh', Alone(i)'
              PROVE  Ahead(i)'
  BY DEF NoneMissed, Ahead, Gentle
<1>. USE DEF table, client
<1>0. TypeOK /\ Bookkeeping /\ NoneMissed /\ i \in Ids
  BY DEF WalkInv, Matching
<1>1. ASSUME NEW r \in Requests, Handle(r) PROVE Ahead(i)'
  <2>1. /\ pc' = "first" /\ created' = created /\ filter'.offset = filter'.from
    BY <1>1 DEF Handle, Call, FilterOf
  <2>2. ~PageRead' /\ ~Counted' /\ End' = 0
    BY <2>1 DEF PageRead, Counted, End, Walking
  <2>3. TypeOK'
    BY <1>0, TypeStep
  <2>4. created' \in [Ids -> Times \cup {0}]
    BY <2>3 DEF TypeOK
  <2>5. Newer(i)' \in Nat
    <3>1. {k \in Matching' : created'[k] > created'[i]} \subseteq Ids
      BY DEF Matching
    <3>. QED BY <3>1, FS_Subset, FS_CardinalityType DEF Newer
  <2>. QED BY <2>2, <2>5 DEF Ahead
<1>2. CASE More \/ Count \/ Find \/ Answer
  <2>1. Alone(i)
    BY <1>0, <1>2, StaysAlone DEF More, Count, Find, Answer
  <2>. QED BY <1>2, <2>1, AheadForward
<1>3. CASE (\E r \in Requests : Reject(r)) \/ Enough \/ Refused \/ QueryFails
  BY <1>3 DEF Reject, Enough, Refused, QueryFails, Return, Walking, Live
<1>4. ASSUME NEW j \in Ids, Remove(j) \/ Change(j) PROVE Ahead(i)'
  BY <1>4 DEF Remove, Change, Wrote, Walking, Live, Gentle
<1>5. ASSUME NEW j \in Ids, Add(j) PROVE Ahead(i)'
  <2>1. /\ UNCHANGED <<backend, pc, filter, total, page, code, seen>>
        /\ pc # "idle" /\ fresh' = fresh \cup {j} /\ since' = since \cup {"add"}
    BY <1>5 DEF Add, Wrote, Walking, Live
  <2>2. Walking /\ Gentle
    BY <2>1 DEF Walking, Live, Honoured, Ordered, Gentle
  <2>3. i \in Matching \ fresh
    BY <1>0, <1>5, <2>1, AddMoves
  <2>4. Ahead(i)
    <3>1. Alone(i)
      BY <1>0, <1>5, <2>3, WasAlone DEF Matching
    <3>. QED BY <1>0, <2>1, <2>2, <2>3, <3>1 DEF NoneMissed, Ahead, Gentle
  <2>5. Shown(i)' = Shown(i) /\ End' = End /\ Counted' = Counted
    BY <2>1 DEF Shown, End, PageRead, PageAt, Live, Counted
  <2>6. End \in Int /\ Newer(i) \in Nat
    BY <1>0, NewerBound DEF End, TypeOK
  <2>7. Newer(i)' \in Nat /\ Newer(i) <= Newer(i)'
    BY <1>0, <1>5, <2>3, AddMoves
  <2>. QED BY <2>1, <2>4, <2>5, <2>6, <2>7 DEF Ahead
<1>6. CASE UNCHANGED vars
  <2>1. UNCHANGED <<table, pc, client, since, fresh>>
    BY <1>6 DEF vars
  <2>2. Walking /\ Gentle
    BY <2>1 DEF Walking, Live, Honoured, Ordered, Gentle
  <2>3. Matching' = Matching /\ Newer(i)' = Newer(i)
    BY <2>1, SameRows
  <2>4. Ahead(i)
    <3>1. Alone(i)
      BY <1>0, <2>1, StaysAlone
    <3>. QED BY <1>0, <2>1, <2>2, <2>3, <3>1 DEF NoneMissed, Ahead, Gentle
  <2>. QED BY <2>1, <2>3, <2>4 DEF Ahead, Shown, End, PageRead, PageAt, Live, Counted
<1>. QED BY <1>1, <1>2, <1>3, <1>4, <1>5, <1>6 DEF Next
-----------------------------------------------------------------------------
(* What the pages of a client show. *)

\* However clients page, others write and queries break ties, the pages of a client advance
\* through the table without repeating a row that only moved forward or passing over one
\* that only moved back, if no tie makes its place uncertain: the bookkeeping of offset, total and page in List and in its
\* client is an inductive invariant.
THEOREM WalkInvariance == Spec => []WalkInv
<1>1. WalkInv /\ [Next]_vars => WalkInv'
  <2>. SUFFICES ASSUME WalkInv, [Next]_vars PROVE WalkInv'
    OBVIOUS
  <2>1. TypeOK'
    BY TypeStep DEF WalkInv
  <2>2. Bookkeeping' /\ CountExact' /\ PageExact'
    BY BookkeepingStep, CountStep, PageExactStep
  <2>3. NoneTwice' /\ NoneMissed'
    BY NoneTwiceStep, NoneMissedStep
  <2>. QED BY <2>1, <2>2, <2>3 DEF WalkInv
<1>. QED BY <1>1, InitWalkInv, PTL DEF Spec

\* At an answer, Shown counts the client's pages and End is behind the last of them.
LEMMA AtAnswer ==
  ASSUME TypeOK, Listed
  PROVE  /\ Live /\ Counted /\ End = filter.offset + filter.limit
         /\ \A i \in Ids : Shown(i) = seen[i] /\ seen[i] \in Nat
BY DEF TypeOK, Listed, Live, Counted, PageAt, End, PageRead, Shown

\* A client that pages on from offset 0 until List's total says it has seen all meets
\* every matching account exactly once when nobody writes, unless another one carries the
\* same creation time: but for ties nothing is lost or shown twice between the pages of
\* the sqlc and the Mongo repository.
THEOREM WalksAreExact == Spec => []WalkExact
<1>1. WalkInv => WalkExact
  <2>. SUFFICES ASSUME WalkInv, Walked, Ordered, since = {}, NEW i \in Matching, Alone(i)
                PROVE  seen[i] = 1
    BY DEF WalkExact
  <2>0. TypeOK /\ NoneTwice /\ NoneMissed /\ fresh \subseteq Ids /\ i \in Ids
    BY DEF WalkInv, Matching, TypeOK
  <2>1. Walking /\ Counted /\ End = filter.offset + filter.limit /\ Shown(i) = seen[i]
    BY <2>0, AtAnswer DEF Walked, Listed, Walking
  <2>2. Shown(i) \in {0, 1}
    BY <2>0, <2>1 DEF NoneTwice
  <2>3. CASE i \notin fresh
    <3>1. Shown(i) >= 1 \/ total > End
      BY <2>0, <2>1, <2>3 DEF NoneMissed, Walked
    <3>2. total \in Int /\ End \in Int /\ End >= total
      BY <2>0, <2>1 DEF Walked, TypeOK
    <3>. QED BY <2>1, <2>2, <3>1, <3>2
  <2>4. fresh = {}
    BY DEF WalkInv, Bookkeeping
  <2>. QED BY <2>3, <2>4
<1>. QED BY <1>1, WalkInvariance, PTL

\* Accounts created, at other times than theirs, while a client pages hide none of the older
\* ones from it when the repository reads the page before it counts, as sqlc's List does.
THEOREM CreationsHideNothing == Spec => []AddsHideNothing
<1>1. WalkInv => AddsHideNothing
  <2>. SUFFICES ASSUME WalkInv, Walked, backend = "sqlc", since \subseteq {"add"},
                       NEW i \in Matching \ fresh, Alone(i)
                PROVE  seen[i] >= 1
    BY DEF AddsHideNothing
  <2>0. TypeOK /\ NoneMissed /\ i \in Ids
    BY DEF WalkInv, Matching
  <2>1. Walking /\ Counted /\ End = filter.offset + filter.limit /\ Shown(i) = seen[i]
    BY <2>0, AtAnswer DEF Walked, Listed, Walking, Ordered
  <2>2. Shown(i) >= 1 \/ total > End
    BY <2>0, <2>1 DEF NoneMissed, Walked
  <2>3. total \in Int /\ End \in Int /\ End >= total
    BY <2>0, <2>1 DEF Walked, TypeOK
  <2>. QED BY <2>1, <2>2, <2>3
<1>. QED BY <1>1, WalkInvariance, PTL

\* Accounts deleted while a client pages through List make no other account appear on
\* two of its pages, unless it shares its creation time.
THEOREM DeletionsRepeatNothing == Spec => []RemovalsRepeatNothing
<1>1. WalkInv => RemovalsRepeatNothing
  <2>. SUFFICES ASSUME WalkInv, Listed, Ordered, filter.from = 0, since \subseteq {"remove"},
                       NEW i \in Ids, Alone(i)
                PROVE  seen[i] <= 1
    BY DEF RemovalsRepeatNothing
  <2>0. TypeOK /\ NoneTwice
    BY DEF WalkInv
  <2>1. Walking /\ Shown(i) = seen[i]
    BY <2>0, AtAnswer DEF Listed, Walking
  <2>2. Shown(i) \in {0, 1}
    BY <2>0, <2>1 DEF NoneTwice
  <2>. QED BY <2>1, <2>2
<1>. QED BY <1>1, WalkInvariance, PTL

\* Without writes during the call, List's total counts the matching accounts and its
\* page has as many of them as limit and offset ask for, for every table and every
\* filter the repository honours.
THEOREM TotalsFitPages == Spec => []PageFitsTotal
<1>1. WalkInv => PageFitsTotal
  <2>. SUFFICES ASSUME WalkInv, Listed, during = {}
                PROVE  /\ total = Cardinality(Matching)
                       /\ page \subseteq Matching
                       /\ Cardinality(page) = PageSize(total, filter)
    BY DEF PageFitsTotal
  <2>1. PageRead /\ Counted /\ Honoured(filter)
    BY DEF Listed, Live, PageRead, PageAt, Counted
  <2>2. total = Cardinality(Matching)
    BY <2>1 DEF WalkInv, CountExact
  <2>. QED BY <2>1, <2>2 DEF WalkInv, PageExact
<1>. QED BY <1>1, WalkInvariance, PTL
=============================================================================
