--------------------------- MODULE LimiterProofs ---------------------------
(* Proofs about the rate limiter, for any policies, callers and clock. *)
EXTENDS RateLimiter, TLAPS

USE LimiterAssumption

\* A period is a whole number of ticks for each of its units.
LEMMA PeriodShape ==
  ASSUME NEW l \in Policy
  PROVE  /\ l.rate \in Nat \ {0} /\ l.burst \in Nat \ {0}
         /\ Interval(l) \in Nat \ {0}
         /\ l.period = l.rate * Interval(l)
<1>1. l.rate \in Nat \ {0} /\ l.period \in Nat \ {0} /\ l.period % l.rate = 0
  BY DEF Policy
<1>2. l.period = l.rate * (l.period \div l.rate)
  BY <1>1
<1>. QED BY <1>1, <1>2 DEF Interval, Policy

\* Every action has a policy.
LEMMA PolicyShape ==
  ASSUME NEW a \in Actions
  PROVE  /\ LimitOf(a) \in Policy
         /\ Interval(LimitOf(a)) \in Nat \ {0}
         /\ LimitOf(a).burst \in Nat \ {0}
<1>1. LimitOf(a) \in Policy
  BY DEF LimitOf
<1>. QED BY <1>1, PeriodShape

\* The numbers of the watched caller.
Watching ==
  /\ caller \in Callers /\ caller[1] \in Actions
  /\ Interval(LimitOf(caller[1])) \in Nat \ {0}
  /\ LimitOf(caller[1]).burst \in Nat \ {0}
  /\ LimitOf(caller[1]).burst * Interval(LimitOf(caller[1])) \in Nat

LEMMA WatchingAny == ASSUME caller \in Callers PROVE Watching
<1>1. caller[1] \in Actions
  BY DEF Callers
<1>. QED BY <1>1, PolicyShape DEF Watching

LEMMA InitBudgetInv == Init => BudgetInv
BY WatchingAny DEF Init, Watching, BudgetInv, TypeOK, Untold

\* Calls of the watched caller, and of the others.
LEMMA WhoseCall ==
  ASSUME NEW a \in Actions, NEW e \in Emails
  PROVE  /\ Key(a, e) = Caller(a, e) /\ Key(a, e) \in Callers
         /\ Watched(a, e) => LimitOf(a) = LimitOf(caller[1]) /\ Key(a, e) = caller
         /\ ~Watched(a, e) => Key(a, e) # caller
BY DEF Key, Caller, Watched, Callers

\* One more unit of the watched caller.
LEMMA UseStep ==
  ASSUME BudgetInv, NEW a \in Actions, NEW e \in Emails,
         Grant(LimitOf(a), Key(a, e)), Use(a, e), UNCHANGED <<caller, age>>,
         granted' \in Nat,
         granted' = granted \/ (Watched(a, e) /\ granted' = granted + 1)
  PROVE  BudgetInv'
<1>. DEFINE i == Interval(LimitOf(caller[1]))
            b == LimitOf(caller[1]).burst
<1>1. i \in Nat \ {0} /\ b \in Nat \ {0} /\ b * i \in Nat
  BY WatchingAny DEF BudgetInv, TypeOK, Watching
<1>2. /\ ahead[caller] <= b * i
      /\ age < Horizon => granted * i <= ahead[caller] + age
      /\ ahead[caller] <= spent * i
      /\ retry # Untold => ahead[caller] + i - b * i <= retry
      /\ TypeOK
  BY DEF BudgetInv
<1>3. Key(a, e) \in Callers /\ Interval(LimitOf(a)) \in Nat
  BY WhoseCall, PolicyShape
<1>4. TypeOK'
  BY <1>2, <1>3, PolicyShape DEF TypeOK, Grant, Use, Untold
<1>5. CASE ~Watched(a, e)
  <2>1. ahead'[caller] = ahead[caller] /\ UNCHANGED <<granted, spent, retry>>
    BY <1>2, <1>3, <1>5, WhoseCall DEF Grant, Use, TypeOK
  <2>. QED BY <1>4, <2>1 DEF BudgetInv
<1>6. CASE Watched(a, e)
  <2>1. /\ ahead'[caller] = ahead[caller] + i /\ ahead[caller] + i <= b * i
        /\ spent' = (IF spent < b THEN spent + 1 ELSE spent) /\ retry' = Untold
        /\ ahead[caller] \in Nat /\ spent \in Nat /\ granted \in Nat /\ age \in Nat
    BY <1>1, <1>2, <1>3, <1>6, WhoseCall DEF Grant, Room, Use, TypeOK
  <2>. HIDE DEF i, b
  <2>2. age < Horizon => granted' * i <= ahead'[caller] + age
    <3>1. (granted + 1) * i = granted * i + i /\ granted * i \in Nat
      BY <1>1, <2>1
    <3>. QED BY <1>1, <1>2, <2>1, <3>1
  <2>3. ahead'[caller] <= spent' * i
    <3>1. CASE spent < b
      <4>1. (spent + 1) * i = spent * i + i /\ spent * i \in Nat
        BY <1>1, <2>1
      <4>. QED BY <1>1, <1>2, <2>1, <3>1, <4>1
    <3>2. CASE spent >= b
      <4>1. b * i <= spent * i
        BY <1>1, <2>1, <3>2
      <4>. QED BY <1>1, <2>1, <3>2, <4>1
    <3>. QED BY <1>1, <2>1, <3>1, <3>2
  <2>. QED BY <1>1, <1>4, <2>1, <2>2, <2>3 DEF BudgetInv, i, b
<1>. QED BY <1>5, <1>6

LEMMA NextBudgetInv == BudgetInv /\ [Next]_vars => BudgetInv'
<1>. SUFFICES ASSUME BudgetInv, [Next]_vars PROVE BudgetInv'
  OBVIOUS
<1>. DEFINE i == Interval(LimitOf(caller[1]))
            b == LimitOf(caller[1]).burst
<1>1. i \in Nat \ {0} /\ b \in Nat \ {0} /\ b * i \in Nat
  BY WatchingAny DEF BudgetInv, TypeOK, Watching
<1>2. ASSUME NEW a \in Actions, NEW e \in Emails, Limit(a, e)
      PROVE  BudgetInv'
  <2>1. CASE Grant(LimitOf(a), Key(a, e)) /\ Use(a, e)
             /\ granted' = IF Watched(a, e) /\ age < Horizon THEN granted + 1 ELSE granted
    BY <1>2, <2>1, UseStep DEF Limit, BudgetInv, TypeOK
  <2>2. CASE Refuse(LimitOf(a), Key(a, e)) /\ UNCHANGED <<spent, granted>>
             /\ retry' = IF Watched(a, e) THEN RetryAfter(LimitOf(a), Key(a, e)) ELSE retry
    <3>. DEFINE k == Key(a, e)
                l == LimitOf(a)
    <3>1. UNCHANGED <<ahead, caller, spent, granted, age>>
      BY <1>2, <2>2 DEF Limit, Refuse
    <3>2. /\ ahead[k] \in Nat /\ Interval(l) \in Nat /\ l.burst * Interval(l) \in Nat
          /\ RetryAfter(l, k) = ahead[k] + Interval(l) - l.burst * Interval(l)
          /\ RetryAfter(l, k) \in Nat
      BY <2>2, WhoseCall, PolicyShape DEF BudgetInv, TypeOK, Refuse, Room, RetryAfter
    <3>3. retry' \in Nat \cup {Untold}
          /\ (retry' # Untold => ahead[caller] + i - b * i <= retry')
      BY <2>2, <3>2, WhoseCall DEF BudgetInv, TypeOK
    <3>. QED BY <3>1, <3>3 DEF BudgetInv, TypeOK
  <2>. QED BY <1>2, <2>1, <2>2 DEF Limit
<1>3. ASSUME NEW a \in Actions, NEW e \in Emails, LimitFails(a, e)
      PROVE  BudgetInv'
  BY <1>3, UseStep DEF LimitFails, BudgetInv, TypeOK
<1>4. CASE Tick
  <2>. USE DEF BudgetInv, TypeOK
  <2>1. caller' = caller /\ ahead'[caller] = Sooner(ahead[caller]) /\ granted' = granted
        /\ ahead[caller] \in Nat
    BY <1>4 DEF Tick
  <2>2. TypeOK'
    BY <1>4 DEF Tick, Sooner, Untold
  <2>3. ahead'[caller] <= b * i /\ (age' < Horizon => granted' * i <= ahead'[caller] + age')
    <3>1. granted * i \in Nat
      BY <1>1
    <3>2. age' < Horizon => age < Horizon /\ age' = age + 1
      BY <1>4 DEF Tick
    <3>. HIDE DEF i, b
    <3>3. age < Horizon => granted * i <= ahead[caller] + age
      BY DEF i
    <3>4. ahead[caller] <= b * i
      BY DEF i, b
    <3>. QED BY <1>1, <2>1, <3>1, <3>2, <3>3, <3>4 DEF Sooner
  <2>4. ahead'[caller] <= spent' * i
    <3>1. spent * i \in Nat
      BY <1>1
    <3>. QED BY <1>1, <1>4, <2>1, <3>1 DEF Tick, Sooner
  <2>5. retry' # Untold => ahead'[caller] + i - b * i <= retry'
    BY <1>1, <1>4, <2>1 DEF Tick, Sooner, Untold
  <2>. QED BY <2>1, <2>2, <2>3, <2>4, <2>5
<1>5. CASE Watch
  BY <1>1, <1>5 DEF Watch, BudgetInv, TypeOK
<1>6. CASE UNCHANGED vars
  BY <1>6 DEF vars, BudgetInv, TypeOK
<1>. QED BY <1>2, <1>3, <1>4, <1>5, <1>6 DEF Next

\* What Redis stores for a caller is what the caller has used.
THEOREM BudgetInvariance == Spec => []BudgetInv
BY InitBudgetInv, NextBudgetInv, PTL DEF Spec

\* In no period is a caller granted more than Rate + Burst calls.
THEOREM PolicyHolds == Spec => []WithinPolicy
<1>1. BudgetInv => WithinPolicy
  <2>. SUFFICES ASSUME BudgetInv, caller[1] \in DOMAIN RateLimitDefaults,
                       age <= RateLimitDefaults[caller[1]].period
                PROVE  granted <= RateLimitDefaults[caller[1]].rate
                                    + RateLimitDefaults[caller[1]].burst
    BY DEF WithinPolicy
  <2>. DEFINE l == LimitOf(caller[1])
              i == Interval(l)
  <2>1. l = RateLimitDefaults[caller[1]] /\ l \in Policy /\ l.period < Horizon
    BY DEF LimitOf
  <2>2. /\ l.rate \in Nat /\ l.burst \in Nat /\ i \in Nat \ {0} /\ l.period = l.rate * i
        /\ age \in Nat /\ granted \in Nat /\ ahead[caller] \in Nat
    BY <2>1, PeriodShape DEF BudgetInv, TypeOK
  <2>3. granted * i <= l.burst * i + l.rate * i
    BY <2>1, <2>2 DEF BudgetInv
  <2>. HIDE DEF i, l
  <2>4. granted * i <= (l.rate + l.burst) * i
    BY <2>2, <2>3
  <2>5. granted <= l.rate + l.burst
    <3>. SUFFICES ASSUME granted >= l.rate + l.burst + 1 PROVE FALSE
      BY <2>2
    <3>1. granted * i >= (l.rate + l.burst + 1) * i
      BY <2>2
    <3>2. (l.rate + l.burst + 1) * i = (l.rate + l.burst) * i + i
      BY <2>2
    <3>. QED BY <2>2, <2>4, <3>1, <3>2
  <2>. QED BY <2>1, <2>5
<1>. QED BY <1>1, BudgetInvariance, PTL

\* Nobody is refused for the calls of others.
THEOREM RefusalsAreOwn == Spec => []RefusedForOwnCalls
<1>1. ASSUME BudgetInv, NEW a \in Actions, NEW e \in Emails, Watched(a, e),
             Room(LimitOf(a), Key(a, e)) < 0
      PROVE  spent >= LimitOf(a).burst
  <2>. DEFINE i == Interval(LimitOf(a))
              b == LimitOf(a).burst
  <2>1. /\ i \in Nat \ {0} /\ b \in Nat \ {0} /\ spent \in Nat /\ ahead[caller] \in Nat
        /\ ahead[caller] <= spent * i /\ b * i - (ahead[caller] + i) < 0
    BY <1>1, PolicyShape, WhoseCall DEF BudgetInv, TypeOK, Room
  <2>. HIDE DEF i, b
  <2>. SUFFICES ASSUME spent + 1 <= b PROVE FALSE
    BY <2>1 DEF b
  <2>2. (spent + 1) * i <= b * i /\ (spent + 1) * i = spent * i + i /\ spent * i \in Nat
        /\ b * i \in Nat
    BY <2>1
  <2>. QED BY <2>1, <2>2
<1>2. BudgetInv => RefusedForOwnCalls
  BY <1>1 DEF RefusedForOwnCalls
<1>. QED BY <1>2, BudgetInvariance, PTL

\* Waiting for as long as retry_after says is enough.
THEOREM WaitingSuffices == Spec => []RetryAfterSuffices
<1>1. ASSUME BudgetInv, NEW a \in Actions, NEW e \in Emails, Watched(a, e), retry = 0
      PROVE  Room(LimitOf(a), Key(a, e)) >= 0
  <2>1. /\ LimitOf(a) = LimitOf(caller[1]) /\ Key(a, e) = caller
        /\ Interval(LimitOf(a)) \in Nat /\ LimitOf(a).burst \in Nat
    BY <1>1, PolicyShape, WhoseCall
  <2>. QED BY <1>1, <2>1 DEF BudgetInv, TypeOK, Room, Untold
<1>2. BudgetInv => RetryAfterSuffices
  BY <1>1 DEF RetryAfterSuffices
<1>. QED BY <1>2, BudgetInvariance, PTL
=============================================================================
