--------------------------- MODULE KafkaConsumer ---------------------------
(***************************************************************************)
(* The consumer every projection and message handler is built on: the       *)
(* members of a consumer group read one Kafka partition, whose messages are *)
(* the outbox events of some aggregates in commit order.                    *)
(*                                                                          *)
(* A member polls a message, tries its handler three times, stores it in    *)
(* the dead-letter topic when all attempts fail, and commits its offset,    *)
(* unless the dead-letter write failed too.  A commit sets the group's      *)
(* offset past the message, whatever happened to the ones before it.        *)
(* Members crash, and a rebalance gives the partition to another member,    *)
(* which starts at the committed offset while the old one may still be in   *)
(* its handler; Kafka refuses the commit of a member that lost the          *)
(* partition.                                                               *)
(***************************************************************************)
EXTENDS Integers, FiniteSets

CONSTANTS Members,
          NoMember,      \* owner of an unassigned partition
          Last,          \* bound: messages 1 .. Last
          MaxRebalances  \* bound: assignments of the partition

ASSUME NoMemberAssumption == NoMember \notin Members
ASSUME BoundsAssumption == Last \in Nat /\ MaxRebalances \in Nat

Messages == 1 .. Last

VARIABLES
    committed,   \* the group's offset: messages up to it are not read again
    owner,       \* the member the partition is assigned to
    position,    \* the last message the owner polled
    pc, msg,     \* a member's phase and the message it works on
    handled,     \* messages whose handler succeeded
    dlq,         \* messages in the dead-letter topic
    dropped,     \* history: messages whose handler and dead-letter write failed
    rebalances   \* number of assignments

vars == << committed, owner, position, pc, msg, handled, dlq, dropped, rebalances >>

TypeOK ==
    /\ committed \in 0 .. Last
    /\ owner \in Members \cup {NoMember}
    /\ position \in committed .. Last
    /\ pc \in [Members -> {"poll", "handle", "dlq", "commit"}]
    /\ msg \in [Members -> 0 .. Last]
    /\ handled \subseteq Messages /\ dlq \subseteq Messages /\ dropped \subseteq Messages
    /\ rebalances \in 0 .. MaxRebalances

Init ==
    /\ committed = 0
    /\ owner = NoMember
    /\ position = 0
    /\ pc = [m \in Members |-> "poll"]
    /\ msg = [m \in Members |-> 0]
    /\ handled = {} /\ dlq = {} /\ dropped = {}
    /\ rebalances = 0

-----------------------------------------------------------------------------

\* Mutant: the offset is stored when the message is polled.
PollAndStore(m) ==
    /\ owner = m /\ pc[m] = "poll" /\ position < Last
    /\ position' = position + 1
    /\ committed' = position + 1
    /\ msg' = [msg EXCEPT ![m] = position + 1]
    /\ pc' = [pc EXCEPT ![m] = "handle"]
    /\ UNCHANGED << owner, handled, dlq, dropped, rebalances >>

\* The loop of start: the next message of the partition.
Poll(m) ==
    /\ owner = m /\ pc[m] = "poll" /\ position < Last
    /\ position' = position + 1
    /\ msg' = [msg EXCEPT ![m] = position + 1]
    /\ pc' = [pc EXCEPT ![m] = "handle"]
    /\ UNCHANGED << committed, owner, handled, dlq, dropped, rebalances >>

\* processMessageWithRetry: an attempt succeeds, or the last one has failed.
ProcessMessageWithRetry(m) ==
    /\ pc[m] = "handle"
    /\ \/ handled' = handled \cup {msg[m]} /\ pc' = [pc EXCEPT ![m] = "commit"]
       \/ pc' = [pc EXCEPT ![m] = "dlq"] /\ UNCHANGED handled
    /\ UNCHANGED << committed, owner, position, msg, dlq, dropped, rebalances >>

\* Mutant: a failed dead-letter write is not noticed.
StoreDLQUnchecked(m) ==
    /\ pc[m] = "dlq"
    /\ \/ dlq' = dlq \cup {msg[m]}
       \/ UNCHANGED dlq
    /\ pc' = [pc EXCEPT ![m] = "commit"]
    /\ UNCHANGED << committed, owner, position, msg, handled, dropped, rebalances >>

\* StoreDLQ, which may fail; then shouldCommit stays false.
StoreDLQ(m) ==
    /\ pc[m] = "dlq"
    /\ \/ /\ dlq' = dlq \cup {msg[m]}
          /\ pc' = [pc EXCEPT ![m] = "commit"]
          /\ UNCHANGED << msg, dropped >>
       \/ /\ dropped' = dropped \cup {msg[m]}
          /\ pc' = [pc EXCEPT ![m] = "poll"]
          /\ msg' = [msg EXCEPT ![m] = 0]
          /\ UNCHANGED dlq
    /\ UNCHANGED << committed, owner, position, handled, rebalances >>

\* Mutant: a member commits after it lost the partition.
CommitUnfenced(m) ==
    /\ pc[m] = "commit"
    /\ committed' = msg[m]
    /\ pc' = [pc EXCEPT ![m] = "poll"]
    /\ msg' = [msg EXCEPT ![m] = 0]
    /\ UNCHANGED << owner, position, handled, dlq, dropped, rebalances >>

\* CommitMessage: the owner's commit may fail, a former owner's always does.
CommitMessage(m) ==
    /\ pc[m] = "commit"
    /\ \/ owner = m /\ committed' = msg[m]
       \/ UNCHANGED committed
    /\ pc' = [pc EXCEPT ![m] = "poll"]
    /\ msg' = [msg EXCEPT ![m] = 0]
    /\ UNCHANGED << owner, position, handled, dlq, dropped, rebalances >>

\* The group assigns the partition to a member between two of its polls.
Rebalance(m) ==
    /\ owner # m /\ pc[m] = "poll" /\ rebalances < MaxRebalances
    /\ owner' = m
    /\ position' = committed
    /\ rebalances' = rebalances + 1
    /\ UNCHANGED << committed, pc, msg, handled, dlq, dropped >>

\* A member crashes and the group notices.
Crash(m) ==
    /\ pc[m] # "poll" /\ rebalances < MaxRebalances
    /\ pc' = [pc EXCEPT ![m] = "poll"]
    /\ msg' = [msg EXCEPT ![m] = 0]
    /\ owner' = IF owner = m THEN NoMember ELSE owner
    /\ UNCHANGED << committed, position, handled, dlq, dropped, rebalances >>

Work(m) == Poll(m) \/ ProcessMessageWithRetry(m) \/ StoreDLQ(m) \/ CommitMessage(m)

Next == \E m \in Members : Work(m) \/ Rebalance(m) \/ Crash(m)

Spec == Init /\ [][Next]_vars

\* Members keep running, and an unassigned partition is assigned.
FairSpec ==
    /\ Spec
    /\ \A m \in Members : WF_vars(Work(m))
    /\ WF_vars(owner = NoMember /\ \E m \in Members : Rebalance(m))

-----------------------------------------------------------------------------
(* Properties *)

\* Messages that were dealt with, one way or another.
Accounted == handled \cup dlq \cup dropped

\* What consumer.go says of a message that failed and could not be stored in
\* the dead-letter topic: it is not committed.
DroppedIsNotCommitted == \A i \in dropped : i \in handled \cup dlq \/ i > committed

\* A message the group has passed over was handled, or is in the dead-letter
\* topic, or failed both: a crash or rebalance at any moment loses none.
PassedOverIsAccountedFor == 1 .. committed \subseteq Accounted

\* Handlers see the events of an aggregate in order: a message is handled only
\* when each earlier one was handled, stored as a dead letter or failed both.
HandledInOrder == \A i \in handled : 1 .. i - 1 \subseteq Accounted

\* The group loses no message and handles them in order.
HandlingIsSound == TypeOK /\ PassedOverIsAccountedFor /\ HandledInOrder

\* The group's offset never goes back, so no member that lost the partition
\* makes the group read again what its successor has committed.
OffsetNeverGoesBack == [][committed' >= committed]_committed

\* Every message is handled, stored as a dead letter, or fails both.
EveryMessageIsTried == <>(Messages \subseteq handled \cup dlq \cup dropped)

=============================================================================
