---------------------------- MODULE RateLimiter ----------------------------
(***************************************************************************)
(* The rate limit in front of Create: per action and e-mail, kept in Redis *)
(* and shared by all replicas.  The library's script is atomic and reads   *)
(* the clock of Redis; it stores, per key, the time by which everything    *)
(* granted so far is paid off at one unit per interval (GCRA).             *)
(*                                                                         *)
(* Time is counted in ticks.  A key's stored time is modelled by how far   *)
(* it is ahead of the clock; the entry expires when the clock gets there.  *)
(***************************************************************************)
EXTENDS Integers

CONSTANTS
  Actions,            \* business actions, those without a policy included
  Emails,             \* e-mail strings
  Lower,              \* strings.ToLower on Emails
  RateLimitDefaults,  \* policies of the actions that have one
  DefaultRate,        \* events per minute of the others
  Minute,             \* ticks of a minute
  Horizon,            \* bound: ticks an observer watches
  Faults              \* "redis": a call of Redis fails

Policy == {l \in [rate : Nat \ {0}, period : Nat \ {0}, burst : Nat \ {0}] :
             l.period % l.rate = 0}

PerMinute(rate) == [rate |-> rate, period |-> Minute, burst |-> rate]

ASSUME LimiterAssumption ==
  /\ Lower \in [Emails -> Emails]
  /\ DOMAIN RateLimitDefaults \subseteq Actions
  /\ \A a \in DOMAIN RateLimitDefaults : RateLimitDefaults[a] \in Policy
  /\ PerMinute(DefaultRate) \in Policy
  /\ Horizon \in Nat
  /\ \A a \in DOMAIN RateLimitDefaults : RateLimitDefaults[a].period < Horizon
  /\ Faults \subseteq {"redis"}

Callers == Actions \X Emails

VARIABLES
  ahead,    \* ahead[k] : ticks the stored time of key k is ahead of the clock
  caller,   \* the caller an observer watches: any of them
  spent,    \* history: units it has used since it last owed nothing
  retry,    \* history: rest of the retry_after it was told last, see Untold
  age,      \* history: ticks since the observer began to count
  granted   \* history: calls of the caller granted since then

vars == <<ahead, caller, spent, retry, age, granted>>

Untold == -1  \* not refused, or a unit was used since

Init ==
  /\ ahead = [k \in Callers |-> 0]
  /\ caller \in Callers
  /\ spent = 0
  /\ retry = Untold
  /\ age = 0
  /\ granted = 0
-----------------------------------------------------------------------------
\* Mutant: every action gets the default rate.
DefaultLimit(a) == PerMinute(DefaultRate)

\* The policy of the domain, or one for actions without.
LimitOf(a) ==
  IF a \in DOMAIN RateLimitDefaults THEN RateLimitDefaults[a] ELSE PerMinute(DefaultRate)

\* Mutant: the e-mail as it is spelled.
KeyAsSpelled(a, e) == <<a, e>>

\* Mutant: one budget for all e-mails.
KeyOfAction(a, e) == <<a, CHOOSE f \in Emails : TRUE>>

\* action + ":" + strings.ToLower(email)
Key(a, e) == <<a, Lower[e]>>

Interval(l) == l.period \div l.rate

\* The room for one more unit, negative if there is none.
Room(l, k) == l.burst * Interval(l) - (ahead[k] + Interval(l))

\* The script grants a unit.
Grant(l, k) ==
  /\ Room(l, k) >= 0
  /\ ahead' = [ahead EXCEPT ![k] = @ + Interval(l)]

\* The script refuses, and stores nothing.
Refuse(l, k) == Room(l, k) < 0 /\ UNCHANGED ahead

\* Mutant: the caller is not told how long to wait.
NoRetryAfter(l, k) == 0

RetryAfter(l, k) == -Room(l, k)

\* Whose call it is, however the e-mail is spelled.
Caller(a, e) == <<a, Lower[e]>>

Watched(a, e) == Caller(a, e) = caller

\* A unit is used up.  Bound: spent stops at the burst.
Use(a, e) ==
  IF Watched(a, e)
    THEN /\ spent' = IF spent < LimitOf(a).burst THEN spent + 1 ELSE spent
         /\ retry' = Untold
    ELSE UNCHANGED <<spent, retry>>

\* Create asks first of all, whatever is wrong with the request.
Limit(a, e) ==
  /\ \/ /\ Grant(LimitOf(a), Key(a, e))
        /\ Use(a, e)
        /\ granted' = IF Watched(a, e) /\ age < Horizon THEN granted + 1 ELSE granted
     \/ /\ Refuse(LimitOf(a), Key(a, e))
        /\ retry' = IF Watched(a, e) THEN RetryAfter(LimitOf(a), Key(a, e)) ELSE retry
        /\ UNCHANGED <<spent, granted>>
  /\ UNCHANGED <<caller, age>>

\* An error does not tell whether the script has run: the call is answered
\* "internal" and may still have used a unit.
LimitFails(a, e) ==
  /\ "redis" \in Faults
  /\ Grant(LimitOf(a), Key(a, e))
  /\ Use(a, e)
  /\ UNCHANGED <<caller, age, granted>>

Sooner(n) == IF n > 0 THEN n - 1 ELSE n

Tick ==
  /\ ahead' = [k \in Callers |-> Sooner(ahead[k])]
  /\ spent' = IF ahead[caller] <= 1 THEN 0 ELSE spent
  /\ retry' = Sooner(retry)
  /\ age' = IF age < Horizon THEN age + 1 ELSE age
  /\ UNCHANGED <<caller, granted>>

\* The observer may begin to count at any time.
Watch ==
  /\ age' = 0
  /\ granted' = 0
  /\ UNCHANGED <<ahead, caller, spent, retry>>

Next ==
  \/ \E a \in Actions, e \in Emails : Limit(a, e) \/ LimitFails(a, e)
  \/ Tick \/ Watch

Spec == Init /\ [][Next]_vars
-----------------------------------------------------------------------------
(* Properties. *)

TypeOK ==
  /\ ahead \in [Callers -> Nat]
  /\ caller \in Callers
  /\ spent \in Nat
  /\ retry \in Nat \cup {Untold}
  /\ age \in 0..Horizon
  /\ granted \in Nat

\* The policy, "Rate events per Period with a Burst on top": in a period, whenever
\* it begins, a caller is granted at most Rate + Burst calls, however it spells its
\* e-mail.
WithinPolicy ==
  \A a \in DOMAIN RateLimitDefaults :
    caller[1] = a /\ age <= RateLimitDefaults[a].period =>
      granted <= RateLimitDefaults[a].rate + RateLimitDefaults[a].burst

\* Nobody is refused for the calls of others: a caller without room has itself
\* used its burst since it last owed nothing.
RefusedForOwnCalls ==
  \A a \in Actions, e \in Emails :
    Watched(a, e) /\ Room(LimitOf(a), Key(a, e)) < 0 => spent >= LimitOf(a).burst

\* A refused caller that waits for as long as it was told is granted its next call,
\* unless a unit of its budget was used meanwhile.
RetryAfterSuffices ==
  \A a \in Actions, e \in Emails :
    Watched(a, e) /\ retry = 0 => Room(LimitOf(a), Key(a, e)) >= 0
-----------------------------------------------------------------------------
(* The inductive invariant: what is stored, and what it stands for.        *)

BudgetInv ==
  LET l == LimitOf(caller[1])
      i == Interval(l)
  IN  /\ TypeOK
      /\ ahead[caller] <= l.burst * i
      /\ age < Horizon => granted * i <= ahead[caller] + age
      /\ ahead[caller] <= spent * i
      /\ retry # Untold => ahead[caller] + i - l.burst * i <= retry
=============================================================================
