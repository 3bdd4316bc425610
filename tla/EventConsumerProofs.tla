------------------------- MODULE EventConsumerProofs -------------------------
(* Proofs about the event consumer, for any group, any partition and any      *)
(* placement of undecodable messages in it.                                   *)
EXTENDS EventConsumer, TLAPS

USE ConsumerAssumption DEF Offsets

LEMMA InitConsumerInv == Init => ConsumerInv
BY DEF Init, ConsumerInv, TypeOK, NoneLost, PassedHandled, OwnerAlive

\* A consumer that is given the partition has passed nothing that is unhandled.
LEMMA AssignStep ==
  ASSUME ConsumerInv, NEW c \in Consumers, pc[c] # "down", Assign(c)
  PROVE  ConsumerInv'
<1>. USE DEF ConsumerInv, Assign
<1>1. TypeOK' /\ NoneLost' /\ OwnerAlive'
  BY DEF TypeOK, NoneLost, OwnerAlive
<1>2. PassedHandled'
  BY DEF TypeOK, NoneLost, PassedHandled
<1>. QED BY <1>1, <1>2

LEMMA NextConsumerInv ==
  ASSUME ConsumerInv, [Next]_vars
  PROVE  ConsumerInv'
<1>. USE DEF ConsumerInv, Go
<1>1. ASSUME NEW c \in Consumers, FetchMessage(c)
      PROVE  ConsumerInv'
  <2>1. TypeOK' /\ NoneLost' /\ OwnerAlive'
    BY <1>1 DEF FetchMessage, TypeOK, NoneLost, OwnerAlive
  <2>2. PassedHandled'
    BY <1>1 DEF FetchMessage, TypeOK, PassedHandled
  <2>. QED BY <2>1, <2>2
<1>2. ASSUME NEW c \in Consumers, Handle(c)
      PROVE  ConsumerInv'
  <2>1. cur[c] \in Offsets
    BY <1>2 DEF Handle, TypeOK, PassedHandled
  <2>2. TypeOK'
    BY <1>2, <2>1 DEF Handle, TypeOK
  <2>3. NoneLost' /\ OwnerAlive'
    BY <1>2 DEF Handle, TypeOK, NoneLost, OwnerAlive
  <2>4. PassedHandled'
    BY <1>2 DEF Handle, TypeOK, PassedHandled
  <2>. QED BY <2>2, <2>3, <2>4
<1>3. ASSUME NEW c \in Consumers, Skip(c)
      PROVE  ConsumerInv'
  <2>1. cur[c] \in Offsets /\ failed' = failed \cup {cur[c]}
    BY <1>3 DEF Skip, TypeOK, PassedHandled
  <2>2. TypeOK' /\ NoneLost' /\ OwnerAlive'
    BY <1>3, <2>1 DEF Skip, TypeOK, NoneLost, OwnerAlive
  <2>3. PassedHandled'
    BY <1>3, <2>1 DEF Skip, TypeOK, PassedHandled
  <2>. QED BY <2>2, <2>3
<1>4. ASSUME NEW c \in Consumers, Commit(c)
      PROVE  ConsumerInv'
  <2>1. TypeOK' /\ OwnerAlive'
    BY <1>4 DEF Commit, TypeOK, OwnerAlive, PassedHandled
  <2>2. NoneLost'
    BY <1>4 DEF Commit, TypeOK, NoneLost, PassedHandled
  <2>3. PassedHandled'
    BY <1>4 DEF Commit, TypeOK, PassedHandled
  <2>. QED BY <2>1, <2>2, <2>3
<1>5. ASSUME NEW c \in Consumers, CommitFails(c) \/ ReaderFails(c) \/ Restart(c)
      PROVE  ConsumerInv'
  <2>1. TypeOK' /\ NoneLost' /\ OwnerAlive'
    BY <1>5 DEF CommitFails, ReaderFails, Restart, TypeOK, NoneLost, OwnerAlive
  <2>2. PassedHandled'
    BY <1>5 DEF CommitFails, ReaderFails, Restart, TypeOK, PassedHandled, OwnerAlive
  <2>. QED BY <2>1, <2>2
<1>6. ASSUME NEW c \in Consumers, Crash(c)
      PROVE  ConsumerInv'
  <2>1. TypeOK' /\ NoneLost' /\ OwnerAlive'
    BY <1>6 DEF Crash, TypeOK, NoneLost, OwnerAlive
  <2>2. PassedHandled'
    BY <1>6 DEF Crash, TypeOK, PassedHandled
  <2>. QED BY <2>1, <2>2
<1>7. ASSUME NEW c \in Consumers, Join(c) \/ Rebalance(c)
      PROVE  ConsumerInv'
  BY <1>7, AssignStep DEF Join, Rebalance
<1>8. CASE UNCHANGED vars
  BY <1>8 DEF vars, TypeOK, NoneLost, PassedHandled, OwnerAlive
<1>. QED BY <1>1, <1>2, <1>3, <1>4, <1>5, <1>6, <1>7, <1>8 DEF Next, Step

\* What a consumer has passed has been handled or has failed, through crashes,
\* rebalances, handler errors, failed and late commits.
THEOREM ConsumerInvariance == Spec => []ConsumerInv
<1>1. ConsumerInv /\ [Next]_vars => ConsumerInv'
  BY NextConsumerInv
<1>. QED BY <1>1, InitConsumerInv, PTL DEF Spec

\* No message is passed over in silence.
THEOREM AtLeastOnce == Spec => []NoneLost
<1>1. ConsumerInv => NoneLost
  BY DEF ConsumerInv
<1>. QED BY <1>1, ConsumerInvariance, PTL

\* If no handler fails, no decodable message is passed over at all: the two cases Run
\* skips are the only ones in which at-least-once, as it documents it, does not hold.
THEOREM AtLeastOnceWithoutErrors ==
  ASSUME "handler" \notin Faults
  PROVE  Spec => [](\A m \in Offsets \ Undecodable : m < committed => m \in handled)
<1>1. ConsumerInv => \A m \in Offsets \ Undecodable : m < committed => m \in handled
  BY DEF ConsumerInv, NoneLost, PassedHandled
<1>. QED BY <1>1, ConsumerInvariance, PTL
-----------------------------------------------------------------------------
(* The group as one reader. *)

USE DEF Log!Offsets, Log!Settled

\* A message in hand is one whose turn has come, and what is committed was handled.
LEMMA InHand ==
  ASSUME ConsumerInv, NEW c \in Consumers, pc[c] \in {"handle", "commit"}
  PROVE  cur[c] \in Offsets /\ Log!Turn(cur[c]) /\ (pc[c] = "commit" => cur[c] \in handled)
BY DEF ConsumerInv, TypeOK, PassedHandled, Log!Turn

\* Every step of the consumers is a step of the log, or none.
LEMMA LogStep ==
  ASSUME ConsumerInv, [Next]_vars
  PROVE  [Log!Next]_(Log!vars)
<1>. USE DEF Log!vars
<1>1. ASSUME NEW c \in Consumers, Handle(c)
      PROVE  Log!Next
  <2>1. cur[c] \in Offsets /\ Log!Handle(cur[c])
    BY <1>1, InHand DEF Handle, Log!Handle
  <2>. QED BY <2>1 DEF Log!Next
<1>2. ASSUME NEW c \in Consumers, Skip(c)
      PROVE  Log!Next
  <2>1. cur[c] \in Offsets /\ Log!Fail(cur[c])
    BY <1>2, InHand DEF Skip, Log!Fail
  <2>. QED BY <2>1 DEF Log!Next
<1>3. ASSUME NEW c \in Consumers, Commit(c)
      PROVE  Log!Next
  <2>1. cur[c] \in Offsets /\ Log!Commit(cur[c])
    BY <1>3, InHand DEF Commit, Log!Commit
  <2>. QED BY <2>1 DEF Log!Next
<1>4. ASSUME NEW c \in Consumers,
             FetchMessage(c) \/ CommitFails(c) \/ ReaderFails(c) \/ Crash(c) \/ Restart(c)
      PROVE  UNCHANGED Log!vars
  BY <1>4 DEF FetchMessage, CommitFails, ReaderFails, Crash, Restart
<1>5. ASSUME NEW c \in Consumers, Join(c) \/ Rebalance(c)
      PROVE  UNCHANGED Log!vars
  BY <1>5 DEF Join, Rebalance, Assign
<1>6. CASE UNCHANGED vars
  BY <1>6 DEF vars
<1>. QED BY <1>1, <1>2, <1>3, <1>4, <1>5, <1>6 DEF Next, Step

\* A group of consumers implements the log of one reader: messages are settled in
\* order, and the offset follows handled messages only.
THEOREM GroupIsOneReader == Spec => ImplementsLog
<1>1. Init => Log!Init
  BY DEF Init, Log!Init
<1>2. ConsumerInv /\ [Next]_vars => [Log!Next]_(Log!vars)
  BY LogStep
<1>. QED BY <1>1, <1>2, ConsumerInvariance, PTL DEF Spec, ImplementsLog, Log!Spec
=============================================================================
