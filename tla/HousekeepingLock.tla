-------------------------- MODULE HousekeepingLock --------------------------
(***************************************************************************)
(* The worker's scheduled job, one goroutine per worker replica, guarded   *)
(* by a Redis lock: SET NX with a random token and a TTL, released by a    *)
(* script that deletes the key only if it still holds that token.          *)
(*                                                                         *)
(* Time is discrete; Advance is one unit of it.  The lock and the tickers  *)
(* carry the time they have left, so time itself needs no bound.           *)
(***************************************************************************)
EXTENDS Integers, FiniteSets

CONSTANTS
  Replicas,   \* worker processes
  Tokens,     \* 16 random bytes: a new token differs from every one in use
  NoToken,
  Interval,   \* WORKER_INTERVAL, the period of each replica's ticker
  TTL,        \* WORKER_LOCK_TTL
  JobMax,     \* longest time from SET NX to the end of the job
  MaxLate,    \* bound: release commands still under way after a timeout
  Faults      \* subset of FaultKinds

\* redis: commands to Redis fail or time out; crash: a process dies;
\* stop: a process is asked to stop and may be started again.
FaultKinds == {"redis", "crash", "stop"}

ASSUME LockAssumption ==
  /\ Interval \in Nat \ {0}
  /\ TTL \in Nat \ {0}
  /\ JobMax \in Nat
  /\ MaxLate \in Nat
  /\ NoToken \notin Tokens
  /\ Faults \subseteq FaultKinds

VARIABLES
  lock,      \* token stored under the lock key, or NoToken
  left,      \* time until the key expires, 0 without key
  late,      \* tokens of release commands that are still under way
  pc,        \* pc[r] : where replica r's goroutine is
  token,     \* token[r] : token of r's acquisition, or NoToken
  elapsed,   \* elapsed[r] : time since r's SET NX, while r works
  next,      \* next[r] : time until r's ticker fires
  fired,     \* fired[r] : a tick waits in the ticker's channel (capacity 1)
  stopping,  \* stopping[r] : r's context is cancelled
  quiet      \* time since a replica last started the job, at most Interval

vars == <<lock, left, late, pc, token, elapsed, next, fired, stopping, quiet>>

TypeOK ==
  /\ lock \in Tokens \cup {NoToken}
  /\ left \in 0..TTL
  /\ late \subseteq Tokens
  /\ pc \in [Replicas -> {"wait", "acquire", "job", "release", "down"}]
  /\ token \in [Replicas -> Tokens \cup {NoToken}]
  /\ elapsed \in [Replicas -> 0..JobMax]
  /\ next \in [Replicas -> 1..Interval]
  /\ fired \in [Replicas -> BOOLEAN]
  /\ stopping \in [Replicas -> BOOLEAN]
  /\ quiet \in 0..Interval

\* Replicas start at any moment, so their tickers have any phase.
Init ==
  /\ lock = NoToken
  /\ left = 0
  /\ late = {}
  /\ pc = [r \in Replicas |-> "wait"]
  /\ token = [r \in Replicas |-> NoToken]
  /\ elapsed = [r \in Replicas |-> 0]
  /\ next \in [Replicas -> 1..Interval]
  /\ fired = [r \in Replicas |-> FALSE]
  /\ stopping = [r \in Replicas |-> FALSE]
  /\ quiet = Interval
-----------------------------------------------------------------------------
(* Redis. *)

\* A token of crypto/rand is one nobody has.
FreshTokens == Tokens \ ({lock} \cup {token[r] : r \in Replicas} \cup late)

\* Mutant: SET without NX.
SetAlways(t) ==
  /\ lock' = t
  /\ left' = TTL

\* Mutant: SET NX without an expiration.
SetNXForever(t) ==
  /\ lock = NoToken
  /\ lock' = t
  /\ left' = 0

\* SET key t NX with the TTL succeeds.
SetNX(t) ==
  /\ lock = NoToken
  /\ lock' = t
  /\ left' = TTL

\* Mutant: DEL without comparing the token.
DeleteBlindly(t) ==
  /\ lock' = NoToken
  /\ left' = 0

\* The release script.
CompareAndDelete(t) ==
  IF lock = t THEN lock' = NoToken /\ left' = 0
              ELSE UNCHANGED <<lock, left>>

\* A release command of an earlier acquisition arrives after all.
LateRelease(t) ==
  /\ t \in late
  /\ late' = late \ {t}
  /\ CompareAndDelete(t)
  /\ UNCHANGED <<pc, token, elapsed, next, fired, stopping, quiet>>
-----------------------------------------------------------------------------
(* The goroutine of replica r. *)

Go(r, step) == pc' = [pc EXCEPT ![r] = step]

\* select: the ticker's channel has a tick.
Wake(r) ==
  /\ pc[r] = "wait"
  /\ fired[r]
  /\ fired' = [fired EXCEPT ![r] = FALSE]
  /\ Go(r, "acquire")
  /\ UNCHANGED <<lock, left, late, token, elapsed, next, stopping, quiet>>

Acquire(r) ==
  /\ pc[r] = "acquire"
  /\ \E t \in FreshTokens :
       /\ SetNX(t)
       /\ token' = [token EXCEPT ![r] = t]
  /\ elapsed' = [elapsed EXCEPT ![r] = 0]
  /\ quiet' = 0
  /\ Go(r, "job")
  /\ UNCHANGED <<late, next, fired, stopping>>

\* The lock is held, by whomever: skip this tick.
Skip(r) ==
  /\ pc[r] = "acquire"
  /\ lock # NoToken
  /\ Go(r, "wait")
  /\ UNCHANGED <<lock, left, late, token, elapsed, next, fired, stopping, quiet>>

\* Acquire returns an error, whether or not SET NX was executed; an error counts
\* as "held": skip this tick.
AcquireFails(r) ==
  /\ pc[r] = "acquire"
  /\ "redis" \in Faults \/ stopping[r]
  /\ UNCHANGED <<lock, left>> \/ \E t \in FreshTokens : SetNX(t)
  /\ Go(r, "wait")
  /\ UNCHANGED <<late, token, elapsed, next, fired, stopping, quiet>>

\* The job ends, with or without an error.
Finish(r) ==
  /\ pc[r] = "job"
  /\ Go(r, "release")
  /\ elapsed' = [elapsed EXCEPT ![r] = 0]
  /\ UNCHANGED <<lock, left, late, token, next, fired, stopping, quiet>>

Release(r) ==
  /\ pc[r] = "release"
  /\ ~stopping[r]
  /\ CompareAndDelete(token[r])
  /\ token' = [token EXCEPT ![r] = NoToken]
  /\ Go(r, "wait")
  /\ UNCHANGED <<late, elapsed, next, fired, stopping, quiet>>

\* release(ctx) fails: Redis does not answer in time, or ctx is the cancelled
\* context of a process that stops.  The command is lost or still under way.
ReleaseFails(r) ==
  /\ pc[r] = "release"
  /\ "redis" \in Faults \/ stopping[r]
  /\ \/ UNCHANGED late
     \/ /\ Cardinality(late) < MaxLate
        /\ late' = late \cup {token[r]}
  /\ token' = [token EXCEPT ![r] = NoToken]
  /\ Go(r, "wait")
  /\ UNCHANGED <<lock, left, elapsed, next, fired, stopping, quiet>>

\* OnStop: stop the ticker, cancel the context.
Stop(r) ==
  /\ "stop" \in Faults
  /\ pc[r] # "down"
  /\ ~stopping[r]
  /\ stopping' = [stopping EXCEPT ![r] = TRUE]
  /\ UNCHANGED <<lock, left, late, pc, token, elapsed, next, fired, quiet>>

\* The process is gone: nobody waits for the goroutine when it stops.
Down(r) ==
  /\ pc[r] # "down"
  /\ stopping[r] \/ "crash" \in Faults
  /\ Go(r, "down")
  /\ token' = [token EXCEPT ![r] = NoToken]
  /\ elapsed' = [elapsed EXCEPT ![r] = 0]
  /\ UNCHANGED <<lock, left, late, next, fired, stopping, quiet>>

Restart(r) ==
  /\ pc[r] = "down"
  /\ Go(r, "wait")
  /\ \E n \in 1..Interval : next' = [next EXCEPT ![r] = n]
  /\ fired' = [fired EXCEPT ![r] = FALSE]
  /\ stopping' = [stopping EXCEPT ![r] = FALSE]
  /\ UNCHANGED <<lock, left, late, token, elapsed, quiet>>
-----------------------------------------------------------------------------
(* Time. *)

\* The key expires when its time is over.
Expiry ==
  /\ left' = IF left = 0 THEN 0 ELSE left - 1
  /\ lock' = IF left = 1 THEN NoToken ELSE lock

Working(r) == pc[r] = "job"

\* A job ends within JobMax.  A ticker that fires into a full channel drops the
\* tick.
Advance ==
  /\ \A r \in Replicas : Working(r) => elapsed[r] < JobMax
  /\ Expiry
  /\ elapsed' = [r \in Replicas |-> IF Working(r) THEN elapsed[r] + 1 ELSE 0]
  /\ next' = [r \in Replicas |-> IF next[r] = 1 THEN Interval ELSE next[r] - 1]
  /\ fired' = [r \in Replicas |-> fired[r] \/ (next[r] = 1 /\ ~stopping[r])]
  /\ quiet' = IF quiet = Interval THEN Interval ELSE quiet + 1
  /\ UNCHANGED <<late, pc, token, stopping>>
-----------------------------------------------------------------------------
Step(r) ==
  \/ Wake(r) \/ Acquire(r) \/ Skip(r) \/ AcquireFails(r) \/ Finish(r)
  \/ Release(r) \/ ReleaseFails(r)

Next ==
  \/ \E r \in Replicas : Step(r) \/ Stop(r) \/ Down(r) \/ Restart(r)
  \/ \E t \in Tokens : LateRelease(t)
  \/ Advance

Spec == Init /\ [][Next]_vars

\* Goroutines are scheduled and time goes on; nothing makes a process start again
\* or a delayed command arrive.
FairSpec == Spec /\ WF_vars(Advance) /\ \A r \in Replicas : WF_vars(Step(r))
-----------------------------------------------------------------------------
(* Properties. *)

\* The inductive invariant.  Tokens tell acquisitions apart, also those whose
\* release is still under way.
TokensApart ==
  \A r \in Replicas :
    /\ token[r] # NoToken <=> pc[r] \in {"job", "release"}
    /\ token[r] \notin late
    /\ \A s \in Replicas \ {r} : token[r] # NoToken => token[r] # token[s]

\* A working replica holds the lock for TTL, and never after.
HeldForTTL ==
  \A r \in Replicas : Working(r) =>
    IF elapsed[r] < TTL THEN lock = token[r] /\ left = TTL - elapsed[r]
                        ELSE lock # token[r]

LockInv ==
  /\ TypeOK
  /\ lock = NoToken <=> left = 0
  /\ TokensApart
  /\ HeldForTTL

\* What the locker is said to grant: two replicas never run the job at the same time.
\* Nothing ends a job with its lock, so this depends on how long jobs take.
MutualExclusion ==
  \A r, s \in Replicas : Working(r) /\ Working(s) => r = s

\* What it does grant, however long jobs take: at most one replica works within the TTL
\* of its lock, and only one that has outlived its own ever works beside another,
\* whatever crashes, lost answers and late releases have come before.
Overrun(r) == elapsed[r] >= TTL

OverlapNeedsOverrun ==
  \A r, s \in Replicas : Working(r) /\ Working(s) /\ ~Overrun(r) /\ ~Overrun(s) => r = s

\* Release frees only its own acquisition, never the lock a later holder has
\* taken over: a lock held by a working replica ends with its release or with
\* the last unit of its TTL.
OnlyOwnRelease ==
  [][\A r \in Replicas :
       Working(r) /\ lock = token[r] /\ lock' # lock => left = 1]_vars

\* At most one replica runs the job per tick: two runs start at least an interval
\* apart.
OneRunPerTick ==
  [][\A r \in Replicas : ~Working(r) /\ Working(r)' => quiet = Interval]_vars

Steady(r) == pc[r] # "down" /\ ~stopping[r]

\* Once processes no longer come and go, one of them is up and Redis answers
\* those who find the lock free, the job runs again and again, whatever locks the
\* others have left behind.
JobKeepsRunning ==
  /\ \A r \in Replicas : <>[]Steady(r) \/ <>[](pc[r] = "down")
  /\ \E r \in Replicas : <>[]Steady(r)
  /\ <>[][\A r \in Replicas : AcquireFails(r) => lock # NoToken]_vars
  => []<>(\E r \in Replicas : Working(r))
=============================================================================
