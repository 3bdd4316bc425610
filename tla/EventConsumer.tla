---------------------------- MODULE EventConsumer ----------------------------
(***************************************************************************)
(* The worker's Kafka consumer: one partition of the account-event topic,  *)
(* read by the replicas of one consumer group, each running Consumer.Run.  *)
(* An offset is committed after its message has been handled; the offset   *)
(* of a message that cannot be decoded or handled is not.                  *)
(*                                                                         *)
(* The broker and the reader are modelled by how Run uses them: a consumer *)
(* that is given the partition reads on from the committed offset, and a   *)
(* commit stores the offset after its message, whoever owns the partition. *)
(***************************************************************************)
EXTENDS Integers

CONSTANTS
  Consumers,
  NoConsumer,
  Len,          \* bound: messages in the partition, offsets 0 .. Len - 1
  Undecodable,  \* offsets of the messages that are not JSON of the type
  Faults        \* subset of FaultKinds

\* handler: the handler returns an error; commit: a commit fails; crash: a process
\* dies or stops; rebalance: the partition moves to another consumer; reader: the
\* reader returns a fatal error.
FaultKinds == {"handler", "commit", "crash", "rebalance", "reader"}

Offsets == 0..(Len - 1)

ASSUME ConsumerAssumption ==
  /\ Len \in Nat
  /\ Undecodable \subseteq Offsets
  /\ NoConsumer \notin Consumers
  /\ Faults \subseteq FaultKinds

VARIABLES
  owner,      \* consumer the partition is assigned to
  committed,  \* the group's committed offset: the next one to read
  handled,    \* offsets whose message has been handled, at least once
  failed,     \* history: offsets whose decoding or handling has failed, and been logged
  pos,        \* pos[c] : offset c's reader delivers next
  cur,        \* cur[c] : offset of the message c has in hand
  pc          \* pc[c] : where c's loop is

vars == <<owner, committed, handled, failed, pos, cur, pc>>

TypeOK ==
  /\ owner \in Consumers \cup {NoConsumer}
  /\ committed \in 0..Len
  /\ handled \subseteq Offsets
  /\ failed \subseteq Offsets
  /\ pos \in [Consumers -> 0..Len]
  /\ cur \in [Consumers -> 0..Len]
  /\ pc \in [Consumers -> {"fetch", "handle", "commit", "returned", "down"}]

Init ==
  /\ owner = NoConsumer
  /\ committed = 0
  /\ handled = {}
  /\ failed = {}
  /\ pos = [c \in Consumers |-> 0]
  /\ cur = [c \in Consumers |-> 0]
  /\ pc = [c \in Consumers |-> "fetch"]
-----------------------------------------------------------------------------
(* The loop of consumer c. *)

Go(c, step) == pc' = [pc EXCEPT ![c] = step]

\* Mutant: ReadMessage, which commits the message it returns.
ReadMessage(c) ==
  /\ pc[c] = "fetch"
  /\ owner = c
  /\ pos[c] < Len
  /\ cur' = [cur EXCEPT ![c] = pos[c]]
  /\ pos' = [pos EXCEPT ![c] = @ + 1]
  /\ committed' = pos[c] + 1
  /\ Go(c, "handle")
  /\ UNCHANGED <<owner, handled, failed>>

FetchMessage(c) ==
  /\ pc[c] = "fetch"
  /\ owner = c
  /\ pos[c] < Len
  /\ cur' = [cur EXCEPT ![c] = pos[c]]
  /\ pos' = [pos EXCEPT ![c] = @ + 1]
  /\ Go(c, "handle")
  /\ UNCHANGED <<owner, committed, handled, failed>>

Handle(c) ==
  /\ pc[c] = "handle"
  /\ cur[c] \notin Undecodable
  /\ handled' = handled \cup {cur[c]}
  /\ Go(c, "commit")
  /\ UNCHANGED <<owner, committed, failed, pos, cur>>

\* Mutant: a message that failed is committed like any other.
SkipCommits(c) ==
  /\ pc[c] = "handle"
  /\ cur[c] \in Undecodable \/ "handler" \in Faults
  /\ failed' = failed \cup {cur[c]}
  /\ committed' = cur[c] + 1
  /\ Go(c, "fetch")
  /\ UNCHANGED <<owner, handled, pos, cur>>

\* A decode or handler error is logged; the loop goes on with the next message.
Skip(c) ==
  /\ pc[c] = "handle"
  /\ cur[c] \in Undecodable \/ "handler" \in Faults
  /\ failed' = failed \cup {cur[c]}
  /\ Go(c, "fetch")
  /\ UNCHANGED <<owner, committed, handled, pos, cur>>

\* The broker takes the commit of any member of the group, even of one that has
\* lost the partition since it fetched the message.
Commit(c) ==
  /\ pc[c] = "commit"
  /\ committed' = cur[c] + 1
  /\ Go(c, "fetch")
  /\ UNCHANGED <<owner, handled, failed, pos, cur>>

\* A failed commit is logged; the loop goes on.
CommitFails(c) ==
  /\ "commit" \in Faults \/ owner # c
  /\ pc[c] = "commit"
  /\ Go(c, "fetch")
  /\ UNCHANGED <<owner, committed, handled, failed, pos, cur>>

\* Run returns and nobody calls it again; the reader stays in the group.
ReaderFails(c) ==
  /\ "reader" \in Faults
  /\ pc[c] = "fetch"
  /\ Go(c, "returned")
  /\ UNCHANGED <<owner, committed, handled, failed, pos, cur>>

Crash(c) ==
  /\ "crash" \in Faults
  /\ pc[c] # "down"
  /\ Go(c, "down")
  /\ owner' = IF owner = c THEN NoConsumer ELSE owner
  /\ UNCHANGED <<committed, handled, failed, pos, cur>>

Restart(c) ==
  /\ pc[c] = "down"
  /\ Go(c, "fetch")
  /\ UNCHANGED <<owner, committed, handled, failed, pos, cur>>
-----------------------------------------------------------------------------
(* The group. *)

\* c gets the partition and reads on from the committed offset.
Assign(c) ==
  /\ owner' = c
  /\ pos' = [pos EXCEPT ![c] = committed]
  /\ UNCHANGED <<committed, handled, failed, cur, pc>>

Join(c) ==
  /\ owner = NoConsumer
  /\ pc[c] # "down"
  /\ Assign(c)

\* The partition moves, or a new generation gives it to c again, whatever its
\* consumer is doing.
Rebalance(c) ==
  /\ "rebalance" \in Faults
  /\ owner # NoConsumer
  /\ pc[c] # "down"
  /\ Assign(c)
-----------------------------------------------------------------------------
Step(c) ==
  FetchMessage(c) \/ Handle(c) \/ Skip(c) \/ Commit(c) \/ CommitFails(c)

Next ==
  \E c \in Consumers :
    Step(c) \/ ReaderFails(c) \/ Crash(c) \/ Restart(c) \/ Join(c) \/ Rebalance(c)

Spec == Init /\ [][Next]_vars

\* Running loops are scheduled, and the group hands a free partition to a member.
FairSpec ==
  /\ Spec
  /\ \A c \in Consumers : WF_vars(Step(c))
  /\ WF_vars(\E c \in Consumers : Join(c))
-----------------------------------------------------------------------------
(* Properties. *)

\* At-least-once, as Run documents it: a message before the committed offset has
\* been handled; one that failed stays uncommitted and is read again.
CommittedHandled == \A m \in Offsets : m < committed => m \in handled

\* Nothing is passed over in silence: a message before the committed offset has been
\* handled, or its failure has been logged, whatever crashes, rebalances, late and
\* failed commits do.
NoneLost == \A m \in Offsets : m < committed => m \in handled \cup failed

Log == INSTANCE EventLog WITH
  Failing <- IF "handler" \in Faults THEN Offsets ELSE Undecodable

\* However often the partition changes hands, the group reads it like one reader:
\* messages come in order, and the offset is only ever moved behind a handled one.
ImplementsLog == Log!Spec

\* The inductive invariant: what a consumer has passed, or is about to commit, has
\* been handled or has failed, except the message in hand; and without handler errors
\* only undecodable messages fail.
PassedHandled ==
  /\ \A c \in Consumers :
       /\ pc[c] \in {"handle", "commit"} =>
            /\ cur[c] < Len
            /\ \A m \in Offsets : m < cur[c] => m \in handled \cup failed
       /\ pc[c] = "commit" => cur[c] \in handled
       /\ owner = c =>
            \A m \in Offsets : m < pos[c] =>
              m \in handled \cup failed \/ (pc[c] = "handle" /\ m = cur[c])
  /\ "handler" \notin Faults => failed \subseteq Undecodable

\* A dead process leaves no partition behind.
OwnerAlive == owner # NoConsumer => pc[owner] # "down"

ConsumerInv ==
  /\ TypeOK
  /\ NoneLost
  /\ PassedHandled
  /\ OwnerAlive

\* Every message is handled in the end, or its failure logged, whatever happened before,
\* once the group is stable: the partition stays with one consumer, and that one keeps
\* running.  A message that cannot be decoded or handled does not hold up those behind
\* it.
AllHandled ==
  /\ \E c \in Consumers : <>[](owner = c /\ pc[c] \in {"fetch", "handle", "commit"})
  /\ <>[][\A c \in Consumers : ~Rebalance(c)]_vars
  => \A m \in Offsets : <>(m \in handled \cup failed)
=============================================================================
