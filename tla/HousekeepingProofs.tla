------------------------- MODULE HousekeepingProofs -------------------------
(* Proofs about the lock of the scheduled job, for all values of the         *)
(* constants: any number of replicas, any period, TTL and job length.        *)
EXTENDS HousekeepingLock, TLAPS

USE LockAssumption

LEMMA InitLockInv == Init => LockInv
BY DEF Init, LockInv, TypeOK, TokensApart, HeldForTTL, Working

\* A SET NX of a fresh token takes the lock from nobody.
LEMMA SetNXStep ==
  ASSUME LockInv, NEW t \in FreshTokens, SetNX(t)
  PROVE  /\ lock' \in Tokens \cup {NoToken}
         /\ left' \in 0..TTL
         /\ lock' # NoToken /\ left' # 0 /\ left' = TTL /\ lock' = t
         /\ t \in Tokens /\ t \notin late
         /\ \A r \in Replicas : token[r] # t
         /\ \A r \in Replicas : Working(r) => elapsed[r] >= TTL
  BY DEF LockInv, TypeOK, SetNX, FreshTokens, HeldForTTL, TokensApart, Working

\* The release script frees only the acquisition of token t.
LEMMA CompareAndDeleteStep ==
  ASSUME LockInv, NEW t \in Tokens, CompareAndDelete(t)
  PROVE  /\ lock' \in Tokens \cup {NoToken}
         /\ left' \in 0..TTL
         /\ lock' = NoToken <=> left' = 0
         /\ lock # t => lock' = lock /\ left' = left
         /\ lock' # t
  BY DEF LockInv, TypeOK, CompareAndDelete

\* It does not change whether another token u holds the lock.
LEMMA CompareAndDeleteKeeps ==
  ASSUME NEW t, CompareAndDelete(t), NEW u, u # t, u # NoToken
  PROVE  /\ lock = u => lock' = u /\ left' = left
         /\ lock # u => lock' # u
  BY DEF CompareAndDelete

LEMMA NextLockInv == LockInv /\ [Next]_vars => LockInv'
<1>. SUFFICES ASSUME LockInv, [Next]_vars PROVE LockInv'
  OBVIOUS
<1>. USE DEF LockInv, Go
<1>1. ASSUME NEW r \in Replicas, Acquire(r)
      PROVE  LockInv'
  <2>1. PICK t \in FreshTokens : SetNX(t) /\ token' = [token EXCEPT ![r] = t]
    BY <1>1 DEF Acquire
  <2>2. TypeOK' /\ (lock' = NoToken <=> left' = 0)
    BY <1>1, <2>1, SetNXStep DEF Acquire, TypeOK
  <2>3. TokensApart'
    BY <1>1, <2>1, SetNXStep DEF Acquire, TypeOK, TokensApart
  <2>4. HeldForTTL'
    BY <1>1, <2>1, SetNXStep DEF Acquire, TypeOK, HeldForTTL, Working
  <2>. QED BY <2>2, <2>3, <2>4
<1>2. ASSUME NEW r \in Replicas, AcquireFails(r)
      PROVE  LockInv'
  <2>1. CASE UNCHANGED <<lock, left>>
    BY <1>2, <2>1 DEF AcquireFails, TypeOK, TokensApart, HeldForTTL, Working
  <2>2. ASSUME NEW t \in FreshTokens, SetNX(t)
        PROVE  LockInv'
    BY <1>2, <2>2, SetNXStep DEF AcquireFails, TypeOK, TokensApart, HeldForTTL, Working
  <2>. QED BY <1>2, <2>1, <2>2 DEF AcquireFails
<1>3. ASSUME NEW r \in Replicas, Release(r)
      PROVE  LockInv'
  <2>1. token[r] \in Tokens /\ pc[r] = "release"
    BY <1>3 DEF Release, TypeOK, TokensApart
  <2>2. CompareAndDelete(token[r])
    BY <1>3 DEF Release
  <2>3. TypeOK' /\ (lock' = NoToken <=> left' = 0)
    BY <1>3, <2>1, <2>2, CompareAndDeleteStep DEF Release, TypeOK
  <2>4. TokensApart'
    BY <1>3 DEF Release, TypeOK, TokensApart
  <2>5. HeldForTTL'
    <3>. SUFFICES ASSUME NEW s \in Replicas, Working(s)'
                  PROVE  IF elapsed'[s] < TTL
                         THEN lock' = token'[s] /\ left' = TTL - elapsed'[s]
                         ELSE lock' # token'[s]
      BY DEF HeldForTTL
    <3>1. s # r /\ Working(s) /\ elapsed' = elapsed /\ token'[s] = token[s]
      BY <1>3 DEF Release, TypeOK, Working
    <3>2. token[s] # token[r] /\ token[s] # NoToken
      BY <3>1 DEF TokensApart, Working
    <3>. QED BY <2>1, <2>2, <3>1, <3>2, CompareAndDeleteKeeps DEF HeldForTTL
  <2>. QED BY <2>3, <2>4, <2>5
<1>4. ASSUME NEW r \in Replicas, ReleaseFails(r)
      PROVE  LockInv'
  <2>1. TypeOK' /\ HeldForTTL' /\ (lock' = NoToken <=> left' = 0)
    BY <1>4 DEF ReleaseFails, TypeOK, TokensApart, HeldForTTL, Working
  <2>2. TokensApart'
    BY <1>4 DEF ReleaseFails, TypeOK, TokensApart
  <2>. QED BY <2>1, <2>2
<1>5. ASSUME NEW t \in Tokens, LateRelease(t)
      PROVE  LockInv'
  <2>1. \A r \in Replicas : token[r] # t
    BY <1>5 DEF LateRelease, TokensApart
  <2>2. TypeOK' /\ (lock' = NoToken <=> left' = 0)
    BY <1>5, CompareAndDeleteStep DEF LateRelease, TypeOK
  <2>3. TokensApart'
    BY <1>5 DEF LateRelease, TokensApart
  <2>4. HeldForTTL'
    <3>. SUFFICES ASSUME NEW s \in Replicas, Working(s)'
                  PROVE  IF elapsed'[s] < TTL
                         THEN lock' = token'[s] /\ left' = TTL - elapsed'[s]
                         ELSE lock' # token'[s]
      BY DEF HeldForTTL
    <3>1. Working(s) /\ elapsed' = elapsed /\ token' = token
      BY <1>5 DEF LateRelease, Working
    <3>2. token[s] # t /\ token[s] # NoToken
      BY <2>1, <3>1 DEF TokensApart, Working
    <3>. QED BY <1>5, <3>1, <3>2, CompareAndDeleteKeeps DEF LateRelease, HeldForTTL
  <2>. QED BY <2>2, <2>3, <2>4
<1>6. ASSUME NEW r \in Replicas,
             Wake(r) \/ Skip(r) \/ Finish(r) \/ Stop(r) \/ Down(r) \/ Restart(r)
      PROVE  LockInv'
  <2>1. CASE Wake(r)
    BY <2>1 DEF Wake, TypeOK, TokensApart, HeldForTTL, Working
  <2>2. CASE Skip(r)
    BY <2>2 DEF Skip, TypeOK, TokensApart, HeldForTTL, Working
  <2>3. CASE Finish(r)
    BY <2>3 DEF Finish, TypeOK, TokensApart, HeldForTTL, Working
  <2>4. CASE Stop(r)
    BY <2>4 DEF Stop, TypeOK, TokensApart, HeldForTTL, Working
  <2>5. CASE Down(r)
    BY <2>5 DEF Down, TypeOK, TokensApart, HeldForTTL, Working
  <2>6. CASE Restart(r)
    BY <2>6 DEF Restart, TypeOK, TokensApart, HeldForTTL, Working
  <2>. QED BY <1>6, <2>1, <2>2, <2>3, <2>4, <2>5, <2>6
<1>7. CASE Advance
  <2>1. TypeOK'
    BY <1>7 DEF Advance, Expiry, TypeOK, Working
  <2>2. TokensApart' /\ (lock' = NoToken <=> left' = 0)
    BY <1>7 DEF Advance, Expiry, TypeOK, TokensApart
  <2>3. HeldForTTL'
    BY <1>7 DEF Advance, Expiry, TypeOK, TokensApart, HeldForTTL, Working
  <2>. QED BY <2>1, <2>2, <2>3
<1>8. CASE UNCHANGED vars
  BY <1>8 DEF vars, TypeOK, TokensApart, HeldForTTL, Working
<1>. QED BY <1>1, <1>2, <1>3, <1>4, <1>5, <1>6, <1>7, <1>8 DEF Next, Step

\* The tokens and the TTL keep the acquisitions apart, through crashes, lost
\* replies, late releases and shutdowns.
THEOREM LockInvariance == Spec => []LockInv
BY InitLockInv, NextLockInv, PTL DEF Spec

\* However long jobs take, two replicas run the job at the same time only when one of
\* them has outlived its lock.
THEOREM Exclusion == Spec => []OverlapNeedsOverrun
<1>1. LockInv => OverlapNeedsOverrun
  <2>. SUFFICES ASSUME LockInv, NEW r \in Replicas, NEW s \in Replicas,
                       Working(r), Working(s), ~Overrun(r), ~Overrun(s)
                PROVE  r = s
    BY DEF OverlapNeedsOverrun
  <2>1. elapsed[r] < TTL /\ elapsed[s] < TTL
    BY LockAssumption DEF Overrun, LockInv, TypeOK
  <2>2. lock = token[r] /\ lock = token[s]
    BY <2>1 DEF LockInv, HeldForTTL
  <2>. QED BY <2>2 DEF LockInv, TokensApart, Working
<1>. QED BY <1>1, LockInvariance, PTL

\* A release, late or not, never takes the lock from a working replica that still
\* holds it, even if jobs outlive their lock.
THEOREM ReleaseIsOwn == Spec => OnlyOwnRelease
<1>1. ASSUME LockInv, [Next]_vars, NEW r \in Replicas, Working(r), lock = token[r],
             lock' # lock
      PROVE  left = 1
  <2>. USE DEF LockInv
  <2>1. lock \in Tokens /\ left # 0
    BY <1>1 DEF TokensApart, TypeOK, Working
  <2>2. ASSUME NEW s \in Replicas, Step(s) \/ Stop(s) \/ Down(s) \/ Restart(s)
        PROVE  FALSE
    <3>1. CASE Release(s)
      <4>1. s # r /\ token[s] # token[r]
        BY <1>1, <3>1 DEF Release, TokensApart, Working
      <4>. QED BY <1>1, <3>1, <4>1 DEF Release, CompareAndDelete
    <3>2. CASE ~Release(s)
      BY <1>1, <2>1, <2>2, <3>2
      DEF Step, Wake, Acquire, Skip, AcquireFails, SetNX, Finish, ReleaseFails, Stop,
          Down, Restart
    <3>. QED BY <3>1, <3>2
  <2>3. ASSUME NEW t \in Tokens, LateRelease(t)
        PROVE  FALSE
    BY <1>1, <2>3 DEF LateRelease, CompareAndDelete, TokensApart
  <2>4. CASE Advance
    BY <1>1, <2>4 DEF Advance, Expiry
  <2>. QED BY <1>1, <2>2, <2>3, <2>4 DEF Next, vars
<1>2. LockInv /\ [Next]_vars =>
        [\A r \in Replicas :
           Working(r) /\ lock = token[r] /\ lock' # lock => left = 1]_vars
  BY <1>1
<1>. QED BY <1>2, LockInvariance, PTL DEF Spec, OnlyOwnRelease

\* A lock does not stay, whatever became of its holder: nobody prolongs it, and each unit
\* of time takes one from its TTL.  That time goes on is all JobKeepsRunning needs besides.
THEOREM LocksRunOut ==
  Spec => [][lock # NoToken /\ lock' = lock
               => left > 0 /\ left' = IF Advance THEN left - 1 ELSE left]_vars
<1>1. ASSUME LockInv, [Next]_vars, lock # NoToken, lock' = lock
      PROVE  left > 0 /\ left' = IF Advance THEN left - 1 ELSE left
  <2>1. left \in Nat \ {0}
    BY <1>1 DEF LockInv, TypeOK
  <2>2. CASE Advance
    BY <2>1, <2>2 DEF Advance, Expiry
  <2>3. ASSUME NEW r \in Replicas, Step(r) \/ Stop(r) \/ Down(r) \/ Restart(r)
        PROVE  left' = left
    BY <1>1, <2>3
    DEF Step, Wake, Acquire, Skip, AcquireFails, SetNX, Finish, Release, CompareAndDelete,
        ReleaseFails, Stop, Down, Restart
  <2>4. ASSUME NEW t \in Tokens, LateRelease(t)
        PROVE  left' = left
    BY <1>1, <2>4 DEF LateRelease, CompareAndDelete
  <2>. QED BY <1>1, <2>1, <2>2, <2>3, <2>4 DEF Next, vars
<1>2. LockInv /\ [Next]_vars =>
        [lock # NoToken /\ lock' = lock
           => left > 0 /\ left' = IF Advance THEN left - 1 ELSE left]_vars
  BY <1>1
<1>. QED BY <1>2, LockInvariance, PTL DEF Spec
=============================================================================
