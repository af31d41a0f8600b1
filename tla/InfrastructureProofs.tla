----------------------- MODULE InfrastructureProofs -----------------------
(***************************************************************************)
(* Proofs about what the modules of the application stand on: the consumer  *)
(* group and the local bus, the start and the end of a process, and what    *)
(* the gateway and the API put between a client and a command.  Every part  *)
(* has an inductive invariant of its own; the last section puts them        *)
(* together.                                                                *)
(***************************************************************************)
EXTENDS MCInfrastructure, FiniteSetTheorems, WellFoundedInduction, TLAPS

-----------------------------------------------------------------------------
(* The consumer group: the inductive invariant *)

\* A member that is not between two polls works on a message, which is handled
\* or a dead letter once it is to be committed; everything before that message
\* has been dealt with, also when the partition is somebody else's by now.
WorkInv ==
    \A m \in Members :
        /\ pc[m] = "poll" => msg[m] = 0
        /\ pc[m] # "poll" => msg[m] \in Messages
        /\ pc[m] # "poll" => 1 .. msg[m] - 1 \subseteq Accounted
        /\ pc[m] = "commit" => msg[m] \in handled \cup dlq

\* The owner works on the last message it polled, or has dealt with it.
OwnerInv ==
    \A m \in Members :
        owner = m => /\ pc[m] = "poll" => 1 .. position \subseteq Accounted
                     /\ pc[m] # "poll" => msg[m] = position

Inv == HandlingIsSound /\ WorkInv /\ OwnerInv

LEMMA InitInv == Init => Inv
  BY NoMemberAssumption, BoundsAssumption
  DEF Init, Inv, HandlingIsSound, TypeOK, PassedOverIsAccountedFor, HandledInOrder,
      WorkInv, OwnerInv, Accounted, Messages

USE DEF Messages

LEMMA PollInv ==
    ASSUME Inv, NEW m \in Members, Poll(m)
    PROVE  Inv'
  <1> USE NoMemberAssumption, BoundsAssumption
  <1>1. TypeOK'
    BY DEF Inv, HandlingIsSound, TypeOK, Poll
  <1>2. PassedOverIsAccountedFor' /\ HandledInOrder'
    BY DEF Inv, HandlingIsSound, PassedOverIsAccountedFor, HandledInOrder, Poll, Accounted
  <1>3. WorkInv'
    <2>1. 1 .. position \subseteq Accounted /\ position \in 0 .. Last
      BY DEF Inv, OwnerInv, Poll, HandlingIsSound, TypeOK
    <2>2. msg'[m] = position + 1 /\ pc'[m] = "handle"
      BY DEF Inv, HandlingIsSound, TypeOK, Poll
    <2>3. msg'[m] \in Messages /\ msg'[m] - 1 = position
      BY <2>1, <2>2 DEF Poll
    <2>4. \A n \in Members \ {m} : msg'[n] = msg[n] /\ pc'[n] = pc[n]
      BY DEF Inv, HandlingIsSound, TypeOK, Poll
    <2>5. Accounted' = Accounted /\ handled' = handled /\ dlq' = dlq
      BY DEF Poll, Accounted
    <2> QED BY <2>1, <2>2, <2>3, <2>4, <2>5 DEF Inv, WorkInv
  <1>4. OwnerInv'
    BY DEF Inv, HandlingIsSound, TypeOK, OwnerInv, Poll
  <1> QED BY <1>1, <1>2, <1>3, <1>4 DEF Inv, HandlingIsSound

LEMMA ProcessInv ==
    ASSUME Inv, NEW m \in Members, ProcessMessageWithRetry(m)
    PROVE  Inv'
  <1> USE NoMemberAssumption, BoundsAssumption
  <1>1. /\ TypeOK /\ PassedOverIsAccountedFor /\ HandledInOrder /\ WorkInv /\ OwnerInv
        /\ msg[m] \in Messages /\ 1 .. msg[m] - 1 \subseteq Accounted
    BY DEF Inv, HandlingIsSound, WorkInv, ProcessMessageWithRetry
  <1>2. TypeOK'
    BY <1>1 DEF TypeOK, ProcessMessageWithRetry
  <1>3. Accounted \subseteq Accounted'
    BY DEF ProcessMessageWithRetry, Accounted
  <1>4. PassedOverIsAccountedFor'
    BY <1>1, <1>3 DEF PassedOverIsAccountedFor, ProcessMessageWithRetry
  <1>5. HandledInOrder'
    BY <1>1, <1>3 DEF HandledInOrder, ProcessMessageWithRetry
  <1>6. WorkInv'
    BY <1>1, <1>3 DEF WorkInv, ProcessMessageWithRetry, TypeOK
  <1>7. OwnerInv'
    BY <1>1, <1>3 DEF OwnerInv, ProcessMessageWithRetry, TypeOK
  <1> QED BY <1>2, <1>4, <1>5, <1>6, <1>7 DEF Inv, HandlingIsSound

LEMMA StoreDLQInv ==
    ASSUME Inv, NEW m \in Members, StoreDLQ(m)
    PROVE  Inv'
  <1> USE NoMemberAssumption, BoundsAssumption
  <1>1. /\ TypeOK /\ PassedOverIsAccountedFor /\ HandledInOrder /\ WorkInv /\ OwnerInv
        /\ msg[m] \in Messages /\ 1 .. msg[m] - 1 \subseteq Accounted
    BY DEF Inv, HandlingIsSound, WorkInv, StoreDLQ
  <1>2. TypeOK'
    <2>1. pc' \in [Members -> {"poll", "handle", "dlq", "commit"}] /\ msg' \in [Members -> 0 .. Last]
      BY <1>1 DEF TypeOK, StoreDLQ
    <2> QED BY <1>1, <2>1 DEF TypeOK, StoreDLQ
  <1>3. Accounted \subseteq Accounted' /\ msg[m] \in Accounted'
    BY DEF StoreDLQ, Accounted
  <1>4. PassedOverIsAccountedFor'
    BY <1>1, <1>3 DEF PassedOverIsAccountedFor, StoreDLQ
  <1>5. HandledInOrder'
    BY <1>1, <1>3 DEF HandledInOrder, StoreDLQ
  <1>6. WorkInv'
    BY <1>1, <1>3 DEF WorkInv, StoreDLQ, TypeOK
  <1>7. OwnerInv'
    <2>1. ASSUME owner = m PROVE 1 .. position \subseteq Accounted'
      <3>1. msg[m] = position /\ position \in Nat
        BY <1>1, <2>1 DEF OwnerInv, StoreDLQ, TypeOK
      <3> QED BY <1>1, <1>3, <3>1
    <2> QED BY <1>1, <1>3, <2>1 DEF OwnerInv, StoreDLQ, TypeOK
  <1> QED BY <1>2, <1>4, <1>5, <1>6, <1>7 DEF Inv, HandlingIsSound

\* The owner's commit moves the group's offset to the last message it polled.
LEMMA CommitIsPosition ==
    ASSUME Inv, NEW m \in Members, CommitMessage(m)
    PROVE  /\ committed' \in {committed, position}
           /\ owner = m => msg[m] = position
           /\ 1 .. msg[m] \subseteq Accounted
           /\ committed \in Nat /\ position \in Nat /\ committed <= position
  <1>1. /\ TypeOK /\ WorkInv /\ OwnerInv /\ pc[m] = "commit"
    BY DEF Inv, HandlingIsSound, CommitMessage
  <1>2. committed \in Nat /\ position \in Nat /\ committed <= position
    BY <1>1, BoundsAssumption DEF TypeOK
  <1>3. owner = m => msg[m] = position
    BY <1>1 DEF OwnerInv
  <1>4. msg[m] \in Messages /\ 1 .. msg[m] - 1 \subseteq Accounted /\ msg[m] \in Accounted
    BY <1>1 DEF WorkInv, Accounted
  <1>5. 1 .. msg[m] \subseteq Accounted
    BY <1>4, BoundsAssumption
  <1> QED BY <1>2, <1>3, <1>5 DEF CommitMessage

LEMMA CommitInv ==
    ASSUME Inv, NEW m \in Members, CommitMessage(m)
    PROVE  Inv'
  <1> USE NoMemberAssumption, BoundsAssumption
  <1>1. /\ TypeOK /\ PassedOverIsAccountedFor /\ HandledInOrder /\ WorkInv /\ OwnerInv
    BY DEF Inv, HandlingIsSound
  <1>2. /\ committed' \in {committed, position}
        /\ owner = m => msg[m] = position
        /\ 1 .. msg[m] \subseteq Accounted
    BY CommitIsPosition
  <1>3. TypeOK'
    BY <1>1, <1>2 DEF TypeOK, CommitMessage
  <1>4. Accounted' = Accounted
    BY DEF CommitMessage, Accounted
  <1>5. PassedOverIsAccountedFor'
    BY <1>1, <1>2, <1>4 DEF PassedOverIsAccountedFor, CommitMessage
  <1>6. HandledInOrder'
    BY <1>1, <1>4 DEF HandledInOrder, CommitMessage
  <1>7. WorkInv'
    BY <1>1, <1>4 DEF WorkInv, CommitMessage, TypeOK
  <1>8. OwnerInv'
    BY <1>1, <1>2, <1>4 DEF OwnerInv, CommitMessage, TypeOK
  <1> QED BY <1>3, <1>5, <1>6, <1>7, <1>8 DEF Inv, HandlingIsSound

\* The new owner starts at the committed offset, all of it dealt with.
LEMMA RebalanceInv ==
    ASSUME Inv, NEW m \in Members, Rebalance(m)
    PROVE  Inv'
  <1> USE NoMemberAssumption, BoundsAssumption
  <1>1. Accounted' = Accounted
    BY DEF Rebalance, Accounted
  <1>2. TypeOK'
    BY DEF Inv, HandlingIsSound, TypeOK, Rebalance
  <1>3. PassedOverIsAccountedFor' /\ HandledInOrder' /\ WorkInv'
    BY <1>1 DEF Inv, HandlingIsSound, PassedOverIsAccountedFor, HandledInOrder, WorkInv, Rebalance
  <1>4. OwnerInv'
    BY <1>1 DEF Inv, HandlingIsSound, PassedOverIsAccountedFor, OwnerInv, Rebalance
  <1> QED BY <1>2, <1>3, <1>4 DEF Inv, HandlingIsSound

LEMMA CrashInv ==
    ASSUME Inv, NEW m \in Members, Crash(m)
    PROVE  Inv'
  <1> USE NoMemberAssumption, BoundsAssumption
  <1>1. Accounted' = Accounted
    BY DEF Crash, Accounted
  <1>2. TypeOK'
    BY DEF Inv, HandlingIsSound, TypeOK, Crash
  <1>3. PassedOverIsAccountedFor' /\ HandledInOrder'
    BY <1>1 DEF Inv, HandlingIsSound, PassedOverIsAccountedFor, HandledInOrder, Crash
  <1>4. WorkInv'
    BY <1>1 DEF Inv, HandlingIsSound, TypeOK, WorkInv, Crash
  <1>5. OwnerInv'
    BY <1>1 DEF Inv, HandlingIsSound, TypeOK, OwnerInv, Crash
  <1> QED BY <1>2, <1>3, <1>4, <1>5 DEF Inv, HandlingIsSound

LEMMA NextInv == Inv /\ [Next]_vars => Inv'
  <1> SUFFICES ASSUME Inv, [Next]_vars PROVE Inv'
    OBVIOUS
  <1>1. CASE UNCHANGED vars
    BY <1>1 DEF vars, Inv, HandlingIsSound, TypeOK, PassedOverIsAccountedFor,
                HandledInOrder, WorkInv, OwnerInv, Accounted
  <1>2. ASSUME NEW m \in Members, Work(m) PROVE Inv'
    BY <1>2, PollInv, ProcessInv, StoreDLQInv, CommitInv DEF Work
  <1> QED BY <1>1, <1>2, RebalanceInv, CrashInv DEF Next

LEMMA Invariance == Spec => []Inv
  BY InitInv, NextInv, PTL DEF Spec

\* The consumer group loses no message and handles them in order: the loop of
\* consumer.go, whatever handlers and dead-letter writes fail, whoever crashes,
\* and although a member that lost the partition goes on with its message.
THEOREM GroupHandlesSoundly == Spec => []HandlingIsSound
  <1>1. Inv => HandlingIsSound
    BY DEF Inv
  <1> QED BY <1>1, Invariance, PTL

\* Kafka's fencing of former owners and the loop's order of poll, handle and
\* commit keep the group's offset from going back.
THEOREM GroupNeverGoesBack == Spec => OffsetNeverGoesBack
  <1>1. Inv /\ [Next]_vars => [committed' >= committed]_committed
    <2> SUFFICES ASSUME Inv, [Next]_vars, committed' # committed
                 PROVE  committed' >= committed
      OBVIOUS
    <2>1. PICK m \in Members : CommitMessage(m)
      BY DEF Next, Work, Poll, ProcessMessageWithRetry, StoreDLQ, Rebalance, Crash, vars
    <2> QED BY <2>1, CommitIsPosition
  <1> QED BY <1>1, Invariance, PTL DEF Spec, OffsetNeverGoesBack

-----------------------------------------------------------------------------
\* The bus by itself, without fairness.
BusSpec == BusInit /\ [][BusNext]_busVars

-----------------------------------------------------------------------------
(* The bus: the inductive invariant *)

BusMessages == Publishers \X Nat
BusCalls == [pc : {"idle", "deliver", "send"}, n : Nat,
          todo : SUBSET Subs, at : SUBSET Subs, served : SUBSET Subs]

TypeInv ==
    /\ busClosed \in BOOLEAN
    /\ topics \in [Topics -> SUBSET Subs]
    /\ status \in [Subs -> {"none", "open", "closed"}]
    /\ queue \in [Subs -> Seq(BusMessages)]
    /\ got \in [Subs -> SUBSET BusMessages]
    /\ publisher \in [Publishers -> BusCalls]
    /\ closing \in [Subs -> SUBSET {"unsubscribe", "close"}]
    /\ unsubscribing \in [Subs -> {"no", "removed", "done"}]
    /\ closer \in {"idle", "closing", "done"}
    /\ closeTodo \subseteq Subs
    /\ returned \subseteq [msg : BusMessages, served : SUBSET Subs]

\* What a subscription was ever queued.
Sent(s) == got[s] \cup { queue[s][i] : i \in DOMAIN queue[s] }

\* The messages of one subscription: the queue has its bound, what was read is older than
\* what waits, and what waits is in the order of its publishers.
QueueInv(s) ==
    /\ Len(queue[s]) <= bufferSize
    /\ \A m \in got[s], i \in DOMAIN queue[s] : m[1] = queue[s][i][1] => m[2] < queue[s][i][2]
    /\ \A i, j \in DOMAIN queue[s] : j < i /\ queue[s][j][1] = queue[s][i][1]
                                        => queue[s][j][2] < queue[s][i][2]

\* A publisher's present message is the youngest of its own, was queued to the subscriptions
\* it has served, and not yet to those it has still to serve.
SentInv(p, s) ==
    /\ \A m \in Sent(s) : m[1] = p => m[2] <= publisher[p].n
    /\ s \in publisher[p].todo => \A m \in Sent(s) : m[1] = p => m[2] < publisher[p].n
    /\ s \in publisher[p].served => << p, publisher[p].n >> \in Sent(s)

\* A publisher waits in front of one channel at most, which is open and yet to be served.
AtInv(p) ==
    /\ publisher[p].pc = "send" => \E s \in publisher[p].todo : publisher[p].at = {s}
    /\ publisher[p].pc # "send" => publisher[p].at = {}
    /\ \A s \in publisher[p].at : status[s] = "open"

\* A channel that is open is in the table, or somebody waits to close it, or Close has it
\* on its list; and who closes a channel has taken it out of the table before.
TableInv(s) ==
    /\ \A t \in Topics : s \in topics[t] => t = topicOf[s]
    /\ s \in topics[topicOf[s]] => status[s] = "open"
    /\ status[s] = "open" => \/ s \in topics[topicOf[s]]
                             \/ closing[s] # {}
                             \/ closer = "closing" /\ s \in closeTodo
    /\ closing[s] # {} => s \notin topics[topicOf[s]] /\ status[s] # "none"
    /\ s \in closeTodo => status[s] # "none"

ClosedInv ==
    /\ busClosed <=> closer # "idle"
    /\ busClosed => \A t \in Topics : topics[t] = {}

BusInv ==
    /\ TypeInv
    /\ \A s \in Subs : QueueInv(s)
    /\ \A p \in Publishers : AtInv(p)
    /\ \A p \in Publishers, s \in Subs : SentInv(p, s)
    /\ ReturnedIsDelivered
    /\ \A s \in Subs : TableInv(s)
    /\ ClosedInv

-----------------------------------------------------------------------------
(* The bus: steps that send nothing *)

\* The channels and what was read of them stay.
LEMMA ChannelsKept ==
    ASSUME BusInv, UNCHANGED << queue, got >>
    PROVE  /\ \A s \in Subs : QueueInv(s)'
           /\ \A s \in Subs : Sent(s)' = Sent(s)
           /\ UNCHANGED returned => ReturnedIsDelivered'
  <1>1. \A s \in Subs : QueueInv(s)'
    BY DEF BusInv, QueueInv
  <1>2. \A s \in Subs : Sent(s)' = Sent(s)
    BY DEF Sent
  <1>3. UNCHANGED returned => ReturnedIsDelivered'
    BY DEF BusInv, ReturnedIsDelivered
  <1> QED BY <1>1, <1>2, <1>3

\* The table and the channels' states stay.
LEMMA TableKept ==
    ASSUME BusInv, UNCHANGED << busClosed, topics, status, closing, closer, closeTodo >>
    PROVE  (\A s \in Subs : TableInv(s)') /\ ClosedInv'
  BY DEF BusInv, TableInv, ClosedInv

\* No publisher moves, and no channel a publisher stands before is closed.
LEMMA PublishersKept ==
    ASSUME BusInv, UNCHANGED publisher, \A s \in Subs : Sent(s)' = Sent(s),
           \A s \in Subs : Holders(s) # {} => status'[s] = status[s]
    PROVE  /\ \A p \in Publishers : AtInv(p)'
           /\ \A p \in Publishers, s \in Subs : SentInv(p, s)'
  <1>1. ASSUME NEW p \in Publishers PROVE AtInv(p)'
    <2>1. AtInv(p) /\ publisher[p] \in BusCalls
      BY DEF BusInv, TypeInv
    <2>2. \A s \in publisher[p].at : s \in Subs /\ publisher[p].at = {s}
      BY <2>1 DEF AtInv, BusCalls
    <2>3. \A s \in publisher[p].at : status'[s] = status[s]
      BY <2>2 DEF Holders
    <2> QED BY <2>1, <2>3 DEF AtInv
  <1>2. ASSUME NEW p \in Publishers, NEW s \in Subs PROVE SentInv(p, s)'
    <2>1. SentInv(p, s)
      BY DEF BusInv
    <2>2. Sent(s)' = Sent(s) /\ publisher' = publisher
      OBVIOUS
    <2> QED BY <2>1, <2>2 DEF SentInv
  <1> QED BY <1>1, <1>2

LEMMA SubscribeInv ==
    ASSUME BusInv, NEW s \in Subs, Subscribe(s)
    PROVE  BusInv'
  <1>1. TypeInv'
    BY BusAssumption DEF BusInv, TypeInv, Subscribe
  <1>2. ReturnedIsDelivered' /\ (\A x \in Subs : QueueInv(x)') /\ \A x \in Subs : Sent(x)' = Sent(x)
    BY ChannelsKept DEF Subscribe
  <1>3. \A x \in Subs : Holders(x) # {} => status'[x] = status[x]
    <2>1. ASSUME NEW p \in Publishers, publisher[p].at = {s} PROVE FALSE
      BY <2>1 DEF BusInv, AtInv, Subscribe
    <2> QED BY <2>1 DEF Holders, BusInv, TypeInv, Subscribe
  <1>4. (\A p \in Publishers : AtInv(p)') /\ \A p \in Publishers, x \in Subs : SentInv(p, x)'
    BY <1>2, <1>3, PublishersKept DEF Subscribe
  <1>5. ASSUME NEW x \in Subs PROVE TableInv(x)'
    <2>1. TableInv(x) /\ TableInv(s)
      BY DEF BusInv
    <2>2. topics' = [topics EXCEPT ![topicOf[s]] = @ \cup {s}] /\ topicOf[s] \in Topics /\ topicOf[x] \in Topics
      BY BusAssumption DEF Subscribe
    <2>3. CASE x = s
      BY <2>1, <2>2, <2>3 DEF TableInv, Subscribe, BusInv, TypeInv
    <2>4. CASE x # s
      BY <2>1, <2>2, <2>4 DEF TableInv, Subscribe, BusInv, TypeInv
    <2> QED BY <2>3, <2>4
  <1>6. ClosedInv'
    BY DEF BusInv, ClosedInv, Subscribe
  <1> QED BY <1>1, <1>2, <1>4, <1>5, <1>6 DEF BusInv

LEMMA RemoveInv ==
    ASSUME BusInv, NEW s \in Subs, RemoveSubscription(s)
    PROVE  BusInv'
  <1>1. TypeInv'
    BY BusAssumption DEF BusInv, TypeInv, RemoveSubscription
  <1>2. ReturnedIsDelivered' /\ (\A x \in Subs : QueueInv(x)') /\ \A x \in Subs : Sent(x)' = Sent(x)
    BY ChannelsKept DEF RemoveSubscription
  <1>3. (\A p \in Publishers : AtInv(p)') /\ \A p \in Publishers, x \in Subs : SentInv(p, x)'
    BY <1>2, PublishersKept DEF RemoveSubscription
  <1>4. ASSUME NEW x \in Subs PROVE TableInv(x)'
    <2>1. TableInv(x)
      BY DEF BusInv
    <2>2. /\ topics' = [topics EXCEPT ![topicOf[s]] = @ \ {s}]
          /\ closing' = [closing EXCEPT ![s] = @ \cup {"unsubscribe"}]
          /\ status' = status /\ closer' = closer /\ closeTodo' = closeTodo /\ status[s] # "none"
          /\ topicOf[s] \in Topics /\ topicOf[x] \in Topics
      BY BusAssumption DEF RemoveSubscription
    <2>3. CASE x = s
      BY <2>1, <2>2, <2>3 DEF TableInv, BusInv, TypeInv
    <2>4. CASE x # s
      BY <2>1, <2>2, <2>4 DEF TableInv, BusInv, TypeInv
    <2> QED BY <2>3, <2>4
  <1>5. ClosedInv'
    BY BusAssumption DEF BusInv, ClosedInv, RemoveSubscription, TypeInv
  <1> QED BY <1>1, <1>2, <1>3, <1>4, <1>5 DEF BusInv

\* The lock of a subscription is free of readers when it is closed.
LEMMA CloseSubscriptionInv ==
    ASSUME BusInv, NEW s \in Subs, CloseSubscription(s)
    PROVE  BusInv'
  <1>1. PICK who \in closing[s] :
          /\ closing' = [closing EXCEPT ![s] = @ \ {who}]
          /\ IF who = "unsubscribe"
             THEN unsubscribing' = [unsubscribing EXCEPT ![s] = "done"] /\ UNCHANGED closeTodo
             ELSE closeTodo' = closeTodo \ {s} /\ UNCHANGED unsubscribing
    BY DEF CloseSubscription, CloseSubscriptionAtOnce
  <1>2. /\ Holders(s) = {} /\ status' = [status EXCEPT ![s] = "closed"]
        /\ UNCHANGED << busClosed, topics, queue, got, publisher, closer, returned >>
    BY DEF CloseSubscription, CloseSubscriptionAtOnce
  <1>3. TypeInv'
    <2>1. closing' \in [Subs -> SUBSET {"unsubscribe", "close"}]
      BY <1>1 DEF BusInv, TypeInv
    <2>2. unsubscribing' \in [Subs -> {"no", "removed", "done"}] /\ closeTodo' \subseteq Subs
      BY <1>1 DEF BusInv, TypeInv
    <2> QED BY <1>2, <2>1, <2>2 DEF BusInv, TypeInv
  <1>4. ReturnedIsDelivered' /\ (\A x \in Subs : QueueInv(x)') /\ \A x \in Subs : Sent(x)' = Sent(x)
    BY <1>2, ChannelsKept
  <1>5. \A x \in Subs : Holders(x) # {} => status'[x] = status[x]
    BY <1>2 DEF BusInv, TypeInv
  <1>6. (\A p \in Publishers : AtInv(p)') /\ \A p \in Publishers, x \in Subs : SentInv(p, x)'
    BY <1>2, <1>4, <1>5, PublishersKept
  <1>7. ASSUME NEW x \in Subs PROVE TableInv(x)'
    <2>1. TableInv(x) /\ closing[s] # {}
      BY <1>1 DEF BusInv
    <2>2. CASE x = s
      BY <1>1, <1>2, <2>1, <2>2 DEF TableInv, BusInv, TypeInv
    <2>3. CASE x # s
      <3>1. closing'[x] = closing[x] /\ status'[x] = status[x] /\ (x \in closeTodo' <=> x \in closeTodo)
        BY <1>1, <1>2, <2>3 DEF BusInv, TypeInv
      <3> QED BY <1>2, <2>1, <3>1 DEF TableInv
    <2> QED BY <2>2, <2>3
  <1>8. ClosedInv'
    BY <1>2 DEF BusInv, ClosedInv
  <1> QED BY <1>3, <1>4, <1>6, <1>7, <1>8 DEF BusInv

LEMMA CloseInv ==
    ASSUME BusInv, Close
    PROVE  BusInv'
  <1>1. TypeInv'
    BY DEF BusInv, TypeInv, Close
  <1>2. ReturnedIsDelivered' /\ (\A x \in Subs : QueueInv(x)') /\ \A x \in Subs : Sent(x)' = Sent(x)
    BY ChannelsKept DEF Close
  <1>3. (\A p \in Publishers : AtInv(p)') /\ \A p \in Publishers, x \in Subs : SentInv(p, x)'
    BY <1>2, PublishersKept DEF Close
  <1>4. ASSUME NEW x \in Subs PROVE TableInv(x)'
    <2>1. TableInv(x) /\ topicOf[x] \in Topics
      BY BusAssumption DEF BusInv
    <2>2. x \in closeTodo' <=> x \in topics[topicOf[x]]
      BY <2>1 DEF Close, TableInv
    <2>3. /\ \A t \in Topics : topics'[t] = {}
          /\ closer' = "closing" /\ status' = status /\ closing' = closing /\ closer = "idle"
      BY DEF Close
    <2> QED BY <2>1, <2>2, <2>3 DEF TableInv
  <1>5. ClosedInv'
    BY DEF ClosedInv, Close
  <1> QED BY <1>1, <1>2, <1>3, <1>4, <1>5 DEF BusInv

LEMMA CloseNextInv ==
    ASSUME BusInv, CloseNext
    PROVE  BusInv'
  <1>1. TypeInv'
    <2>1. CASE closeTodo = {}
      BY <2>1 DEF BusInv, TypeInv, CloseNext
    <2>2. CASE closeTodo # {}
      <3>1. PICK s \in closeTodo : closing' = [closing EXCEPT ![s] = @ \cup {"close"}]
        BY <2>2 DEF CloseNext
      <3>2. closing' \in [Subs -> SUBSET {"unsubscribe", "close"}]
        BY <3>1 DEF BusInv, TypeInv
      <3> QED BY <2>2, <3>2 DEF BusInv, TypeInv, CloseNext
    <2> QED BY <2>1, <2>2
  <1>2. ReturnedIsDelivered' /\ (\A x \in Subs : QueueInv(x)') /\ \A x \in Subs : Sent(x)' = Sent(x)
    BY ChannelsKept DEF CloseNext
  <1>3. (\A p \in Publishers : AtInv(p)') /\ \A p \in Publishers, x \in Subs : SentInv(p, x)'
    BY <1>2, PublishersKept DEF CloseNext
  <1>4. ASSUME NEW x \in Subs PROVE TableInv(x)'
    <2>1. TableInv(x) /\ topicOf[x] \in Topics /\ \A t \in Topics : topics[t] = {}
      BY BusAssumption DEF BusInv, ClosedInv, CloseNext
    <2>2. CASE closeTodo = {}
      BY <2>1, <2>2 DEF TableInv, CloseNext
    <2>3. CASE closeTodo # {}
      <3>1. PICK s \in closeTodo : closing' = [closing EXCEPT ![s] = @ \cup {"close"}]
        BY <2>3 DEF CloseNext
      <3>2. closer' = closer /\ topics' = topics /\ status' = status /\ closeTodo' = closeTodo
        BY <2>3 DEF CloseNext
      <3>3. CASE x = s
        BY <2>1, <3>1, <3>2, <3>3 DEF TableInv, BusInv, TypeInv
      <3>4. CASE x # s
        BY <2>1, <3>1, <3>2, <3>4 DEF TableInv, BusInv, TypeInv
      <3> QED BY <3>3, <3>4
    <2> QED BY <2>2, <2>3
  <1>5. ClosedInv'
    BY DEF BusInv, ClosedInv, CloseNext
  <1> QED BY <1>1, <1>2, <1>3, <1>4, <1>5 DEF BusInv

-----------------------------------------------------------------------------
(* The bus: publishing and receiving *)

\* What publish leaves behind when it is done with a subscription.
LEMMA AdvanceFacts ==
    ASSUME TypeInv, NEW p \in Publishers, NEW s \in publisher[p].todo, NEW S \in SUBSET Subs,
           Advance(p, s, S)
    PROVE  LET old == publisher[p]
               new == publisher'[p]
           IN  /\ publisher' \in [Publishers -> BusCalls]
               /\ \A q \in Publishers \ {p} : publisher'[q] = publisher[q]
               /\ returned' \subseteq [msg : BusMessages, served : SUBSET Subs]
               /\ new.n = old.n /\ new.at = {} /\ new.pc # "send" /\ new.todo = old.todo \ {s}
               /\ new.served \subseteq old.served \cup S
               /\ \A r \in returned' : r \in returned
                                       \/ (r.msg = << p, old.n >> /\ r.served = old.served \cup S)
  <1> DEFINE old == publisher[p]
             all == old.served \cup S
             rec == [msg |-> << p, old.n >>, served |-> all]
  <1>1. old \in BusCalls
    BY DEF TypeInv
  <1>2. /\ old.n \in Nat /\ old.todo \subseteq Subs /\ old.served \subseteq Subs
    BY <1>1 DEF BusCalls
  <1>3. CASE old.todo \ {s} = {}
    <2>1. publisher' = [publisher EXCEPT ![p] = Idle(old.n)] /\ returned' = returned \cup {rec}
      BY <1>3 DEF Advance
    <2>2. /\ Idle(old.n) \in BusCalls /\ Idle(old.n).n = old.n /\ Idle(old.n).at = {}
          /\ Idle(old.n).pc = "idle" /\ Idle(old.n).todo = {} /\ Idle(old.n).served = {}
      BY <1>2 DEF Idle, BusCalls
    <2>3. rec \in [msg : BusMessages, served : SUBSET Subs] /\ rec.msg = << p, old.n >> /\ rec.served = all
      BY <1>2 DEF BusMessages
    <2>4. publisher' \in [Publishers -> BusCalls] /\ publisher'[p] = Idle(old.n)
          /\ \A q \in Publishers \ {p} : publisher'[q] = publisher[q]
      BY <2>1, <2>2 DEF TypeInv
    <2> HIDE DEF rec
    <2>5. returned' \subseteq [msg : BusMessages, served : SUBSET Subs]
      BY <2>1, <2>3 DEF TypeInv
    <2>6. \A r \in returned' : r \in returned \/ (r.msg = << p, old.n >> /\ r.served = all)
      <3>1. rec.msg = << p, old.n >> /\ rec.served = all
        BY <2>3
      <3> HIDE DEF old, all
      <3> QED BY <2>1, <3>1
    <2>7. PICK new : new = publisher'[p]
      OBVIOUS
    <2>8. /\ new.n = old.n /\ new.at = {} /\ new.pc # "send" /\ new.todo = old.todo \ {s}
          /\ new.served \subseteq all
      BY <1>3, <2>2, <2>4, <2>7
    <2> HIDE DEF old
    <2> QED BY <2>4, <2>5, <2>6, <2>7, <2>8 DEF old
  <1>4. CASE old.todo \ {s} # {}
    <2> DEFINE new == [old EXCEPT !.pc = "deliver", !.todo = old.todo \ {s}, !.at = {}, !.served = all]
    <2>1. publisher' = [publisher EXCEPT ![p] = new] /\ returned' = returned
      BY <1>4 DEF Advance
    <2>2. /\ new \in BusCalls /\ new.n = old.n /\ new.at = {} /\ new.pc = "deliver"
          /\ new.todo = old.todo \ {s} /\ new.served = all
      BY <1>1, <1>2 DEF BusCalls
    <2> HIDE DEF new
    <2>3. publisher' \in [Publishers -> BusCalls] /\ publisher'[p] = new
          /\ \A q \in Publishers \ {p} : publisher'[q] = publisher[q]
      BY <2>1, <2>2 DEF TypeInv
    <2>4. returned' \subseteq [msg : BusMessages, served : SUBSET Subs]
      BY <2>1 DEF TypeInv
    <2>5. \A r \in returned' : r \in returned \/ (r.msg = << p, old.n >> /\ r.served = all)
      BY <2>1
    <2>6. /\ publisher'[p].n = old.n /\ publisher'[p].at = {} /\ publisher'[p].pc # "send"
          /\ publisher'[p].todo = old.todo \ {s} /\ publisher'[p].served \subseteq all
      BY <2>2, <2>3
    <2> HIDE DEF old
    <2> QED BY <2>3, <2>4, <2>5, <2>6 DEF old
  <1> QED BY <1>3, <1>4

\* A publisher that moves without sending: its number does not fall, and it has less to do
\* and has served no more with the same one.
Moved(p) ==
    LET old == publisher[p]
        new == publisher'[p]
    IN  /\ \/ new.n = old.n /\ new.todo \subseteq old.todo /\ new.served \subseteq old.served
           \/ new.n = old.n + 1 /\ new.served = {}
        /\ new.pc = "send" => \E s \in new.todo : new.at = {s} /\ status[s] = "open"
        /\ new.pc # "send" => new.at = {}

LEMMA MovedInv ==
    ASSUME BusInv, NEW p \in Publishers, publisher' \in [Publishers -> BusCalls], Moved(p),
           \A q \in Publishers \ {p} : publisher'[q] = publisher[q],
           returned' \subseteq [msg : BusMessages, served : SUBSET Subs],
           \A r \in returned' : r \in returned
                                \/ (r.msg = << p, publisher[p].n >> /\ r.served = publisher[p].served),
           UNCHANGED << busClosed, topics, status, queue, got, closing, unsubscribing,
                        closer, closeTodo >>
    PROVE  BusInv'
  <1>1. TypeInv'
    BY DEF BusInv, TypeInv
  <1>2. (\A s \in Subs : QueueInv(s)') /\ \A s \in Subs : Sent(s)' = Sent(s)
    BY ChannelsKept
  <1>3. (\A s \in Subs : TableInv(s)') /\ ClosedInv'
    BY TableKept
  <1>4. ASSUME NEW q \in Publishers PROVE AtInv(q)'
    <2>1. CASE q = p
      BY <2>1 DEF Moved, AtInv
    <2>2. CASE q # p
      BY <2>2 DEF BusInv, AtInv
    <2> QED BY <2>1, <2>2
  <1>5. ASSUME NEW q \in Publishers, NEW s \in Subs PROVE SentInv(q, s)'
    <2>1. SentInv(q, s) /\ Sent(s)' = Sent(s)
      BY <1>2 DEF BusInv
    <2>2. CASE q = p
      <3>1. publisher[p].n \in Nat /\ \A m \in Sent(s) : m[2] \in Nat
        BY DEF BusInv, TypeInv, BusCalls, Sent, BusMessages
      <3> QED BY <2>1, <2>2, <3>1 DEF Moved, SentInv
    <2>3. CASE q # p
      BY <2>1, <2>3 DEF SentInv
    <2> QED BY <2>2, <2>3
  <1>6. ReturnedIsDelivered'
    <2>1. ASSUME NEW r \in returned', NEW s \in r.served PROVE r.msg \in Sent(s)
      <3>1. CASE r \in returned
        BY <2>1, <3>1 DEF BusInv, ReturnedIsDelivered, Sent
      <3>2. CASE r.msg = << p, publisher[p].n >> /\ r.served = publisher[p].served
        <4>1. s \in Subs
          BY <2>1
        <4> QED BY <2>1, <3>2, <4>1 DEF BusInv, SentInv
      <3> QED BY <3>1, <3>2
    <2> QED BY <2>1 DEF ReturnedIsDelivered, Sent
  <1> QED BY <1>1, <1>2, <1>3, <1>4, <1>5, <1>6 DEF BusInv

LEMMA PublishInv ==
    ASSUME BusInv, NEW p \in Publishers, Publish(p)
    PROVE  BusInv'
  <1> DEFINE n == publisher[p].n + 1
  <1>1. publisher[p].n \in Nat /\ n \in Nat
    BY DEF BusInv, TypeInv, BusCalls
  <1>2. PICK t \in Topics : publisher' = [publisher EXCEPT ![p] =
                              IF busClosed \/ topics[t] = {} THEN Idle(n)
                              ELSE [Idle(n) EXCEPT !.pc = "deliver", !.todo = topics[t]]]
    BY DEF Publish
  <1>3. PICK new : new = IF busClosed \/ topics[t] = {} THEN Idle(n)
                         ELSE [Idle(n) EXCEPT !.pc = "deliver", !.todo = topics[t]]
    OBVIOUS
  <1>4. topics[t] \subseteq Subs
    BY DEF BusInv, TypeInv
  <1>5. /\ new \in BusCalls /\ new.n = n /\ new.served = {} /\ new.at = {} /\ new.pc # "send"
    <2>1. CASE busClosed \/ topics[t] = {}
      BY <1>1, <1>3, <2>1 DEF Idle, BusCalls
    <2>2. CASE ~(busClosed \/ topics[t] = {})
      BY <1>1, <1>3, <1>4, <2>2 DEF Idle, BusCalls
    <2> QED BY <2>1, <2>2
  <1>6. publisher' = [publisher EXCEPT ![p] = new]
    BY <1>2, <1>3
  <1>7. /\ publisher' \in [Publishers -> BusCalls] /\ publisher'[p] = new
        /\ \A q \in Publishers \ {p} : publisher'[q] = publisher[q]
    BY <1>5, <1>6 DEF BusInv, TypeInv
  <1>8. Moved(p)
    BY <1>5, <1>7 DEF Moved
  <1>9. /\ returned' = returned /\ returned \subseteq [msg : BusMessages, served : SUBSET Subs]
        /\ UNCHANGED << busClosed, topics, status, queue, got, closing, unsubscribing,
                        closer, closeTodo >>
    BY DEF Publish, BusInv, TypeInv
  <1>10. \A r \in returned' : r \in returned
                              \/ (r.msg = << p, publisher[p].n >> /\ r.served = publisher[p].served)
    BY <1>9
  <1> QED BY <1>7, <1>8, <1>9, <1>10, MovedInv

LEMMA DeliverInv ==
    ASSUME BusInv, NEW p \in Publishers, Deliver(p)
    PROVE  BusInv'
  <1>1. /\ TypeInv /\ publisher[p] \in BusCalls /\ publisher[p].todo \subseteq Subs
        /\ returned \subseteq [msg : BusMessages, served : SUBSET Subs]
    BY DEF BusInv, TypeInv, BusCalls
  <1>2. UNCHANGED << busClosed, topics, status, queue, got, closing, unsubscribing, closer, closeTodo >>
    BY DEF Deliver
  <1>3. PICK s \in publisher[p].todo :
          \/ status[s] = "closed" /\ Advance(p, s, {})
          \/ /\ status[s] = "open"
             /\ publisher' = [publisher EXCEPT ![p].pc = "send", ![p].at = {s}]
             /\ UNCHANGED returned
    BY DEF Deliver
  <1>4. CASE Advance(p, s, {})
    <2>1. {} \in SUBSET Subs
      OBVIOUS
    <2>2. LET old == publisher[p]
              new == publisher'[p]
          IN  /\ publisher' \in [Publishers -> BusCalls]
              /\ \A q \in Publishers \ {p} : publisher'[q] = publisher[q]
              /\ returned' \subseteq [msg : BusMessages, served : SUBSET Subs]
              /\ new.n = old.n /\ new.at = {} /\ new.pc # "send" /\ new.todo = old.todo \ {s}
              /\ new.served \subseteq old.served \cup {}
              /\ \A r \in returned' : r \in returned
                                      \/ (r.msg = << p, old.n >> /\ r.served = old.served \cup {})
      BY <1>1, <1>4, <2>1, AdvanceFacts
    <2>3. Moved(p)
      BY <2>2 DEF Moved
    <2>4. \A S : S \cup {} = S
      OBVIOUS
    <2> QED BY <1>2, <2>2, <2>3, <2>4, MovedInv
  <1>5. CASE /\ status[s] = "open"
             /\ publisher' = [publisher EXCEPT ![p].pc = "send", ![p].at = {s}]
             /\ UNCHANGED returned
    <2> DEFINE new == [publisher[p] EXCEPT !.pc = "send", !.at = {s}]
    <2>1. /\ new \in BusCalls /\ new.n = publisher[p].n /\ new.at = {s} /\ new.pc = "send"
          /\ new.todo = publisher[p].todo /\ new.served = publisher[p].served
      BY <1>1, <1>3 DEF BusCalls
    <2>2. publisher' = [publisher EXCEPT ![p] = new]
      BY <1>1, <1>5 DEF TypeInv
    <2> HIDE DEF new
    <2>3. /\ publisher' \in [Publishers -> BusCalls] /\ publisher'[p] = new
          /\ \A q \in Publishers \ {p} : publisher'[q] = publisher[q]
      BY <1>1, <2>1, <2>2 DEF TypeInv
    <2>4. Moved(p)
      BY <1>3, <1>5, <2>1, <2>3 DEF Moved
    <2>5. /\ returned' \subseteq [msg : BusMessages, served : SUBSET Subs]
          /\ \A r \in returned' : r \in returned
                                  \/ (r.msg = << p, publisher[p].n >> /\ r.served = publisher[p].served)
      BY <1>1, <1>5
    <2> QED BY <1>1, <1>2, <2>3, <2>4, <2>5, MovedInv
  <1> QED BY <1>3, <1>4, <1>5

LEMMA GiveUpInv ==
    ASSUME BusInv, NEW p \in Publishers, GiveUp(p)
    PROVE  BusInv'
  <1>1. publisher[p].n \in Nat /\ publisher' = [publisher EXCEPT ![p] = Idle(publisher[p].n)]
    BY DEF BusInv, TypeInv, BusCalls, GiveUp
  <1>2. PICK new : new = Idle(publisher[p].n)
    OBVIOUS
  <1>3. /\ new \in BusCalls /\ new.n = publisher[p].n /\ new.at = {} /\ new.pc = "idle"
        /\ new.todo = {} /\ new.served = {}
    BY <1>1, <1>2 DEF Idle, BusCalls
  <1>4. /\ publisher' \in [Publishers -> BusCalls] /\ publisher'[p] = new
        /\ \A q \in Publishers \ {p} : publisher'[q] = publisher[q]
    BY <1>1, <1>2, <1>3 DEF BusInv, TypeInv
  <1>5. Moved(p)
    BY <1>3, <1>4 DEF Moved
  <1>6. /\ returned' = returned /\ returned \subseteq [msg : BusMessages, served : SUBSET Subs]
        /\ UNCHANGED << busClosed, topics, status, queue, got, closing, unsubscribing,
                        closer, closeTodo >>
    BY DEF GiveUp, BusInv, TypeInv
  <1>7. \A r \in returned' : r \in returned
                             \/ (r.msg = << p, publisher[p].n >> /\ r.served = publisher[p].served)
    BY <1>6
  <1> QED BY <1>4, <1>5, <1>6, <1>7, MovedInv

\* The message goes to the end of the queue of a subscription that has none as young from
\* this publisher.
LEMMA SendInv ==
    ASSUME BusInv, NEW p \in Publishers, Send(p)
    PROVE  BusInv'
  <1> DEFINE queued == << p, publisher[p].n >>
  <1>1. /\ TypeInv /\ publisher[p] \in BusCalls /\ publisher[p].n \in Nat /\ queued \in BusMessages
        /\ queued[1] = p /\ queued[2] = publisher[p].n
    BY DEF BusInv, TypeInv, BusCalls, BusMessages
  <1>2. PICK s \in publisher[p].at :
          /\ Len(queue[s]) < bufferSize
          /\ queue' = [queue EXCEPT ![s] = Append(@, queued)]
          /\ Advance(p, s, {s})
    BY DEF Send
  <1>3. s \in publisher[p].todo /\ s \in Subs
    <2>1. \E x \in publisher[p].todo : publisher[p].at = {x}
      BY DEF BusInv, AtInv, Send
    <2> QED BY <1>1, <1>2, <2>1 DEF BusCalls
  <1>4. LET old == publisher[p]
            new == publisher'[p]
        IN  /\ publisher' \in [Publishers -> BusCalls]
            /\ \A q \in Publishers \ {p} : publisher'[q] = publisher[q]
            /\ returned' \subseteq [msg : BusMessages, served : SUBSET Subs]
            /\ new.n = old.n /\ new.at = {} /\ new.pc # "send" /\ new.todo = old.todo \ {s}
            /\ new.served \subseteq old.served \cup {s}
            /\ \A r \in returned' : r \in returned
                                    \/ (r.msg = << p, old.n >> /\ r.served = old.served \cup {s})
    BY <1>1, <1>2, <1>3, AdvanceFacts
  <1>5. UNCHANGED << busClosed, topics, status, got, closing, unsubscribing, closer, closeTodo >>
    BY DEF Send
  <1> HIDE DEF queued
  <1>6. /\ queue' \in [Subs -> Seq(BusMessages)] /\ queue'[s] = Append(queue[s], queued)
        /\ \A x \in Subs \ {s} : queue'[x] = queue[x]
    BY <1>1, <1>2, <1>3 DEF TypeInv
  <1>7. PICK xs \in Seq(BusMessages) : xs = queue[s]
    BY <1>1, <1>3 DEF TypeInv
  <1>8. /\ DOMAIN Append(xs, queued) = DOMAIN xs \cup {Len(xs) + 1}
        /\ \A i \in DOMAIN xs : Append(xs, queued)[i] = xs[i] /\ i < Len(xs) + 1 /\ i \in Nat
        /\ Append(xs, queued)[Len(xs) + 1] = queued /\ Len(Append(xs, queued)) = Len(xs) + 1 /\ Len(xs) \in Nat
    BY <1>1, <1>7
  <1>9. /\ Sent(s)' = Sent(s) \cup {queued}
        /\ \A x \in Subs \ {s} : Sent(x)' = Sent(x)
    <2>1. queue'[s] = Append(xs, queued) /\ got'[s] = got[s]
      BY <1>5, <1>6, <1>7
    <2>2. { queue'[s][i] : i \in DOMAIN queue'[s] } = { queue[s][i] : i \in DOMAIN queue[s] } \cup {queued}
      <3>1. { Append(xs, queued)[i] : i \in DOMAIN Append(xs, queued) } = { xs[i] : i \in DOMAIN xs } \cup {queued}
        BY <1>8
      <3> QED BY <1>7, <2>1, <3>1
    <2>3. Sent(s)' = Sent(s) \cup {queued}
      BY <2>1, <2>2 DEF Sent
    <2>4. \A x \in Subs \ {s} : Sent(x)' = Sent(x)
      BY <1>5, <1>6 DEF Sent
    <2> QED BY <2>3, <2>4
  <1>10. TypeInv'
    BY <1>1, <1>4, <1>5, <1>6 DEF TypeInv
  <1>11. ASSUME NEW x \in Subs PROVE QueueInv(x)'
    <2>1. CASE x # s
      BY <1>5, <1>6, <2>1 DEF BusInv, QueueInv
    <2>2. CASE x = s
      <3>1. QueueInv(s) /\ SentInv(p, s)
        BY <1>3 DEF BusInv
      <3>2. \A m \in got[s] : m[1] = p => m[2] < publisher[p].n
        BY <1>3, <3>1 DEF SentInv, Sent
      <3>3. \A i \in DOMAIN xs : xs[i][1] = p => xs[i][2] < publisher[p].n
        BY <1>3, <1>7, <3>1 DEF SentInv, Sent
      <3>4. Len(Append(xs, queued)) <= bufferSize
        BY <1>2, <1>7, <1>8, BusAssumption
      <3>5. \A m \in got[s], i \in DOMAIN Append(xs, queued) :
               m[1] = Append(xs, queued)[i][1] => m[2] < Append(xs, queued)[i][2]
        BY <1>1, <1>7, <1>8, <3>1, <3>2 DEF QueueInv
      <3>6. \A i, j \in DOMAIN Append(xs, queued) :
               j < i /\ Append(xs, queued)[j][1] = Append(xs, queued)[i][1]
                  => Append(xs, queued)[j][2] < Append(xs, queued)[i][2]
        <4>1. \A i, j \in DOMAIN xs : j < i /\ xs[j][1] = xs[i][1] => xs[j][2] < xs[i][2]
          BY <1>7, <3>1 DEF QueueInv
        <4>2. \A j \in DOMAIN xs : ~(Len(xs) + 1 < j)
          BY <1>8
        <4> QED BY <1>1, <1>8, <3>3, <4>1, <4>2
      <3>7. queue'[s] = Append(xs, queued) /\ got'[s] = got[s]
        BY <1>5, <1>6, <1>7
      <3> QED BY <2>2, <3>4, <3>5, <3>6, <3>7 DEF QueueInv
    <2> QED BY <2>1, <2>2
  <1>12. ASSUME NEW q \in Publishers PROVE AtInv(q)'
    <2>1. CASE q = p
      BY <1>4, <2>1 DEF AtInv
    <2>2. CASE q # p
      BY <1>4, <1>5, <2>2 DEF BusInv, AtInv
    <2> QED BY <2>1, <2>2
  <1>13. ASSUME NEW q \in Publishers, NEW x \in Subs PROVE SentInv(q, x)'
    <2>1. SentInv(q, x)
      BY DEF BusInv
    <2>2. CASE q # p /\ x = s
      BY <1>1, <1>4, <1>9, <2>1, <2>2 DEF SentInv
    <2>3. CASE q # p /\ x # s
      BY <1>4, <1>9, <2>1, <2>3 DEF SentInv
    <2>4. CASE q = p /\ x = s
      <3>1. publisher'[p].n = publisher[p].n /\ s \notin publisher'[p].todo
        BY <1>4
      <3>2. \A m \in Sent(s)' : m[1] = p => m[2] <= publisher'[p].n
        BY <1>1, <1>9, <2>1, <2>4, <3>1 DEF SentInv
      <3>3. << p, publisher'[p].n >> \in Sent(s)'
        BY <1>9, <3>1 DEF queued
      <3> QED BY <2>4, <3>1, <3>2, <3>3 DEF SentInv
    <2>5. CASE q = p /\ x # s
      BY <1>4, <1>9, <2>1, <2>5 DEF SentInv
    <2> QED BY <2>2, <2>3, <2>4, <2>5
  <1>14. ReturnedIsDelivered'
    <2>1. ASSUME NEW r \in returned', NEW x \in r.served PROVE r.msg \in Sent(x)'
      <3>1. x \in Subs
        BY <1>4, <2>1
      <3>2. Sent(x) \subseteq Sent(x)'
        BY <1>9, <3>1
      <3>3. CASE r \in returned
        BY <2>1, <3>2, <3>3 DEF BusInv, ReturnedIsDelivered, Sent
      <3>4. CASE r.msg = << p, publisher[p].n >> /\ r.served = publisher[p].served \cup {s}
        <4>1. CASE x = s
          BY <1>9, <3>4, <4>1 DEF queued
        <4>2. CASE x # s
          BY <2>1, <3>1, <3>2, <3>4, <4>2 DEF BusInv, SentInv
        <4> QED BY <4>1, <4>2
      <3> QED BY <1>4, <3>3, <3>4
    <2> QED BY <2>1 DEF ReturnedIsDelivered, Sent
  <1>15. (\A x \in Subs : TableInv(x)') /\ ClosedInv'
    BY <1>5, TableKept
  <1> QED BY <1>10, <1>11, <1>12, <1>13, <1>14, <1>15 DEF BusInv

LEMMA ReceiveInv ==
    ASSUME BusInv, NEW s \in Subs, Receive(s)
    PROVE  BusInv'
  <1>1. PICK xs \in Seq(BusMessages) : xs = queue[s] /\ xs # << >>
    BY DEF BusInv, TypeInv, Receive
  <1>2. PICK ys \in Seq(BusMessages) :
        /\ ys = Tail(xs) /\ Head(xs) = xs[1] /\ xs[1] \in BusMessages
        /\ DOMAIN ys = 1 .. Len(xs) - 1 /\ DOMAIN xs = 1 .. Len(xs) /\ Len(xs) \in Nat \ {0}
        /\ Len(ys) = Len(xs) - 1
        /\ \A i \in DOMAIN ys : ys[i] = xs[i + 1] /\ i + 1 \in DOMAIN xs
    <2>1. Tail(xs) \in Seq(BusMessages)
      BY <1>1
    <2>2. Head(xs) = xs[1] /\ xs[1] \in BusMessages /\ DOMAIN xs = 1 .. Len(xs) /\ Len(xs) \in Nat \ {0}
      BY <1>1
    <2>3. /\ DOMAIN Tail(xs) = 1 .. Len(xs) - 1 /\ Len(Tail(xs)) = Len(xs) - 1
          /\ \A i \in DOMAIN Tail(xs) : Tail(xs)[i] = xs[i + 1] /\ i + 1 \in DOMAIN xs
      BY <1>1
    <2> QED BY <2>1, <2>2, <2>3
  <1>3. /\ queue' = [queue EXCEPT ![s] = ys]
        /\ got' = [got EXCEPT ![s] = @ \cup {xs[1]}]
        /\ UNCHANGED << busClosed, topics, status, publisher, closing, unsubscribing,
                        closer, closeTodo, returned >>
    BY <1>1, <1>2 DEF Receive
  <1>4. TypeInv /\ queue'[s] = ys /\ got'[s] = got[s] \cup {xs[1]}
        /\ \A x \in Subs \ {s} : queue'[x] = queue[x] /\ got'[x] = got[x]
    BY <1>3 DEF BusInv, TypeInv
  <1>5. TypeInv'
    <2>1. queue' \in [Subs -> Seq(BusMessages)]
      BY <1>2, <1>3, <1>4 DEF TypeInv
    <2>2. got' \in [Subs -> SUBSET BusMessages]
      BY <1>2, <1>3, <1>4 DEF TypeInv
    <2> QED BY <1>3, <1>4, <2>1, <2>2 DEF TypeInv
  <1>6. ASSUME NEW x \in Subs PROVE Sent(x)' = Sent(x)
    <2>1. CASE x = s
      <3>1. { xs[i] : i \in DOMAIN xs } = {xs[1]} \cup { ys[i] : i \in DOMAIN ys }
        <4>1. ASSUME NEW i \in DOMAIN xs, i # 1 PROVE \E j \in DOMAIN ys : ys[j] = xs[i]
          <5>1. i - 1 \in DOMAIN ys /\ (i - 1) + 1 = i
            BY <1>2, <4>1
          <5> QED BY <1>2, <5>1
        <4>2. 1 \in DOMAIN xs
          BY <1>2
        <4> QED BY <1>2, <4>1, <4>2
      <3>2. Sent(s) = got[s] \cup { xs[i] : i \in DOMAIN xs }
        BY <1>1 DEF Sent
      <3>3. Sent(s)' = (got[s] \cup {xs[1]}) \cup { ys[i] : i \in DOMAIN ys }
        BY <1>4 DEF Sent
      <3>4. Sent(s)' = Sent(s)
        BY <3>1, <3>2, <3>3
      <3> QED BY <2>1, <3>4
    <2>2. CASE x # s
      BY <1>4, <2>2 DEF Sent
    <2> QED BY <2>1, <2>2
  <1>7. ASSUME NEW x \in Subs PROVE QueueInv(x)'
    <2>1. CASE x # s
      BY <1>4, <2>1 DEF BusInv, QueueInv
    <2>2. CASE x = s
      <3>1. /\ Len(xs) <= bufferSize
            /\ \A m \in got[s], i \in DOMAIN xs : m[1] = xs[i][1] => m[2] < xs[i][2]
            /\ \A i, j \in DOMAIN xs : j < i /\ xs[j][1] = xs[i][1] => xs[j][2] < xs[i][2]
        BY <1>1 DEF BusInv, QueueInv
      <3>2. Len(ys) <= bufferSize
        BY <1>2, <3>1, BusAssumption
      <3>3. \A m \in got[s] \cup {xs[1]}, i \in DOMAIN ys :
               m[1] = ys[i][1] => m[2] < ys[i][2]
        <4>1. 1 \in DOMAIN xs /\ \A i \in DOMAIN ys : 1 < i + 1
          BY <1>2
        <4> QED BY <1>2, <3>1, <4>1
      <3>4. \A i, j \in DOMAIN ys : j < i /\ ys[j][1] = ys[i][1]
                                             => ys[j][2] < ys[i][2]
        <4>1. \A i, j \in DOMAIN ys : j < i => j + 1 < i + 1
          BY <1>2
        <4> QED BY <1>2, <3>1, <4>1
      <3> QED BY <1>4, <2>2, <3>2, <3>3, <3>4 DEF QueueInv
    <2> QED BY <2>1, <2>2
  <1>8. (\A p \in Publishers : AtInv(p)') /\ \A p \in Publishers, x \in Subs : SentInv(p, x)'
    BY <1>3, <1>6, PublishersKept
  <1>9. ReturnedIsDelivered'
    <2>1. ASSUME NEW r \in returned, NEW x \in r.served PROVE r.msg \in Sent(x)'
      <3>1. x \in Subs
        BY <1>4, <2>1 DEF TypeInv
      <3>2. r.msg \in Sent(x)
        BY <2>1 DEF BusInv, ReturnedIsDelivered, Sent
      <3> QED BY <1>6, <3>1, <3>2
    <2> QED BY <1>3, <2>1 DEF ReturnedIsDelivered, Sent
  <1>10. (\A x \in Subs : TableInv(x)') /\ ClosedInv'
    BY <1>3, TableKept
  <1> QED BY <1>5, <1>7, <1>8, <1>9, <1>10 DEF BusInv

-----------------------------------------------------------------------------
(* The bus: the theorem *)

LEMMA BusInitInv == BusInit => BusInv
  <1> SUFFICES ASSUME BusInit PROVE BusInv
    OBVIOUS
  <1>1. Idle(0) \in BusCalls /\ Idle(0).at = {} /\ Idle(0).pc = "idle" /\ Idle(0).todo = {} /\ Idle(0).served = {}
    BY DEF Idle, BusCalls
  <1>2. TypeInv
    <2>1. queue \in [Subs -> Seq(BusMessages)] /\ got \in [Subs -> SUBSET BusMessages]
      BY DEF BusInit
    <2>2. publisher \in [Publishers -> BusCalls]
      BY <1>1 DEF BusInit
    <2>3. /\ topics \in [Topics -> SUBSET Subs] /\ closing \in [Subs -> SUBSET {"unsubscribe", "close"}]
          /\ status \in [Subs -> {"none", "open", "closed"}]
          /\ unsubscribing \in [Subs -> {"no", "removed", "done"}]
      BY DEF BusInit
    <2> QED BY <2>1, <2>2, <2>3 DEF BusInit, TypeInv
  <1>3. \A s \in Subs : Sent(s) = {} /\ QueueInv(s)
    BY BusAssumption DEF BusInit, Sent, QueueInv
  <1>4. \A p \in Publishers : publisher[p] = Idle(0)
    BY DEF BusInit
  <1>5. \A p \in Publishers : AtInv(p)
    BY <1>1, <1>4 DEF AtInv
  <1>6. \A p \in Publishers, s \in Subs : SentInv(p, s)
    BY <1>1, <1>3, <1>4 DEF SentInv
  <1>7. ReturnedIsDelivered
    BY DEF BusInit, ReturnedIsDelivered
  <1>8. (\A s \in Subs : TableInv(s)) /\ ClosedInv
    BY BusAssumption DEF BusInit, TableInv, ClosedInv
  <1> QED BY <1>2, <1>3, <1>5, <1>6, <1>7, <1>8 DEF BusInv

LEMMA BusNextInv == BusInv /\ [BusNext]_busVars => BusInv'
  <1> SUFFICES ASSUME BusInv, [BusNext]_busVars PROVE BusInv'
    OBVIOUS
  <1>1. ASSUME NEW p \in Publishers, Publish(p) \/ Deliver(p) \/ Send(p) \/ GiveUp(p) PROVE BusInv'
    BY <1>1, PublishInv, DeliverInv, SendInv, GiveUpInv
  <1>2. ASSUME NEW s \in Subs, Subscribe(s) \/ Receive(s) \/ RemoveSubscription(s) \/ CloseSubscription(s)
        PROVE  BusInv'
    BY <1>2, SubscribeInv, ReceiveInv, RemoveInv, CloseSubscriptionInv
  <1>3. CASE Close \/ CloseNext
    BY <1>3, CloseInv, CloseNextInv
  <1>4. CASE UNCHANGED busVars
    <2>1. TypeInv'
      BY <1>4 DEF BusInv, TypeInv, busVars
    <2>2. ReturnedIsDelivered' /\ (\A x \in Subs : QueueInv(x)') /\ \A x \in Subs : Sent(x)' = Sent(x)
      BY <1>4, ChannelsKept DEF busVars
    <2>3. (\A p \in Publishers : AtInv(p)') /\ \A p \in Publishers, x \in Subs : SentInv(p, x)'
      BY <1>4, <2>2, PublishersKept DEF busVars
    <2>4. (\A x \in Subs : TableInv(x)') /\ ClosedInv'
      BY <1>4, TableKept DEF busVars
    <2> QED BY <2>1, <2>2, <2>3, <2>4 DEF BusInv
  <1> QED BY <1>1, <1>2, <1>3, <1>4 DEF BusNext

LEMMA BusInvIsEnough == BusInv => BusIsSound
  <1> SUFFICES ASSUME BusInv PROVE BusIsSound
    OBVIOUS
  <1>1. BusTypeOK
    BY DEF BusInv, TypeInv, QueueInv, BusTypeOK
  <1>2. NoSendOnClosed
    BY DEF BusInv, AtInv, NoSendOnClosed
  <1>3. InOrderOnce
    <2>1. ASSUME NEW s \in Subs, NEW i \in DOMAIN queue[s],
                 NEW m \in got[s] \cup { queue[s][j] : j \in 1 .. i - 1 }, m[1] = queue[s][i][1]
          PROVE  m[2] < queue[s][i][2]
      <3>1. QueueInv(s) /\ DOMAIN queue[s] = 1 .. Len(queue[s]) /\ Len(queue[s]) \in Nat
        BY DEF BusInv, TypeInv
      <3>2. CASE m \in got[s]
        BY <2>1, <3>1, <3>2 DEF QueueInv
      <3>3. CASE m \notin got[s]
        <4>1. PICK j \in 1 .. i - 1 : m = queue[s][j]
          BY <2>1, <3>3
        <4>2. j \in DOMAIN queue[s] /\ j < i
          BY <3>1, <4>1
        <4> QED BY <2>1, <3>1, <4>1, <4>2 DEF QueueInv
      <3> QED BY <3>2, <3>3
    <2> QED BY <2>1 DEF InOrderOnce
  <1>4. NoChannelIsForgotten
    BY BusAssumption DEF BusInv, TableInv, ClosedInv, NoChannelIsForgotten
  <1> QED BY <1>1, <1>2, <1>3, <1>4 DEF BusIsSound, BusInv

\* Nobody sends on a closed channel, every subscription receives a publisher's messages
\* once and in order, what publish reports as delivered was queued, and no channel is
\* left open without somebody to close it: whoever publishes, unsubscribes and closes at
\* the same time, and however small the queues are.
THEOREM BusStaysSound == BusSpec => []BusIsSound
  BY BusInitInv, BusNextInv, BusInvIsEnough, PTL DEF BusSpec


-----------------------------------------------------------------------------
(* The life of a process *)

\* The runtimes that run are those that were started.
RuntimesInv ==
    /\ at \in Stages /\ starts \in 0 .. MaxStarts
    /\ running \subseteq Runtimes /\ started \in 0 .. runtimes
    /\ RuntimesMatchTheStage
    /\ at \in {"start", "undo"} => running = 1 .. started
    /\ at \in {"bind", "register"} => started = 0

\* The context, the requests and the entry in Consul at each stage.
ListingInv ==
    /\ at \in Stages /\ context \in {"open", "closed"}
    /\ listening \in BOOLEAN /\ registered \in BOOLEAN /\ left \in BOOLEAN
    /\ request \in BOOLEAN /\ cutShort \in BOOLEAN /\ delisted \in BOOLEAN
    /\ ListedIsReachable
    /\ context = "closed" => at \in {"close", "down"}
    /\ at \in {"register", "start", "undo", "serve"} => listening
    /\ at \in {"bind", "close", "down"} => (registered => left)
    /\ at = "start" => registered \/ delisted
    /\ request => at \in {"serve", "shutdown"} \/ (at \in {"stop", "unregister", "close"} /\ cutShort)

LifeInv == RuntimesInv /\ ListingInv

LEMMA LifeInitInv == LifeInit => LifeInv
  <1> SUFFICES ASSUME LifeInit PROVE LifeInv
    OBVIOUS
  <1>1. RuntimesInv
    BY RuntimesAssumption DEF LifeInit, RuntimesInv, RuntimesMatchTheStage, Stages, Runtimes
  <1>2. ListingInv
    BY DEF LifeInit, ListingInv, ListedIsReachable, Stages
  <1> QED BY <1>1, <1>2 DEF LifeInv

\* Starting and stopping the runtimes, which no other part of the state decides.
LEMMA RuntimesStep ==
  ASSUME RuntimesInv, [LifeNext]_lifeVars PROVE RuntimesInv'
  <1> USE RuntimesAssumption DEF RuntimesInv, RuntimesMatchTheStage, Stages, Runtimes
  <1>1. CASE UNCHANGED lifeVars
    BY <1>1 DEF lifeVars
  <1>2. CASE Boot
    BY <1>2 DEF Boot
  <1>3. CASE Bind
    BY <1>3 DEF Bind
  <1>4. CASE RegisterService
    <2>1. running = 1 .. 0 /\ started = 0
      BY <1>4 DEF RegisterService
    <2> QED BY <1>4, <2>1 DEF RegisterService
  <1>5. CASE startModuleRuntimes
    <2>1. CASE started < runtimes /\ started' = started + 1 /\ running' = running \cup {started + 1}
               /\ at' = at
      <3>1. running' = 1 .. started'
        BY <1>5, <2>1 DEF startModuleRuntimes
      <3>2. running' \subseteq Runtimes /\ started' \in 0 .. runtimes
        BY <2>1, <3>1
      <3> QED BY <1>5, <2>1, <3>1, <3>2 DEF startModuleRuntimes
    <2>2. CASE at' \in {"undo", "serve"} /\ started' = started /\ running' = running
      BY <1>5, <2>2 DEF startModuleRuntimes
    <2> QED BY <1>5, <2>1, <2>2 DEF startModuleRuntimes
  <1>6. CASE stopStartedRuntimes
    <2>1. CASE started > 0
      <3>1. started' = started - 1 /\ running' = running \ {started} /\ at' = at
        BY <1>6, <2>1 DEF stopStartedRuntimes
      <3>2. running' = 1 .. started'
        BY <1>6, <2>1, <3>1 DEF stopStartedRuntimes
      <3>3. started' \in 0 .. runtimes /\ running' \subseteq Runtimes
        BY <2>1, <3>1
      <3> QED BY <1>6, <3>1, <3>2, <3>3 DEF stopStartedRuntimes
    <2>2. CASE started = 0
      <3>1. running = 1 .. 0 /\ 1 .. 0 = {}
        BY <1>6, <2>2 DEF stopStartedRuntimes
      <3> QED BY <1>6, <2>2, <3>1 DEF stopStartedRuntimes
    <2> QED BY <2>1, <2>2
  <1>7. CASE Shutdown
    BY <1>7 DEF Shutdown
  <1>8. CASE stopModuleRuntimes
    BY <1>8 DEF stopModuleRuntimes
  <1>9. CASE UnregisterService
    BY <1>9 DEF UnregisterService
  <1>10. CASE CloseContext
    BY <1>10 DEF CloseContext
  <1>11. CASE Serve
    BY <1>11 DEF Serve
  <1>12. CASE Respond
    BY <1>12 DEF Respond
  <1>13. CASE EndGroup
    BY <1>13 DEF EndGroup
  <1>14. CASE Killed
    BY <1>14 DEF Killed
  <1>15. CASE ConsulDrops
    BY <1>15 DEF ConsulDrops
  <1> QED BY <1>1, <1>2, <1>3, <1>4, <1>5, <1>6, <1>7, <1>8,
             <1>9, <1>10, <1>11, <1>12, <1>13, <1>14, <1>15
          DEF LifeNext, LifeSteps

\* Listening, listing in Consul and closing the context.
LEMMA ListingStep ==
  ASSUME ListingInv, [LifeNext]_lifeVars PROVE ListingInv'
  <1> USE DEF ListingInv, ListedIsReachable, Stages
  <1>1. CASE UNCHANGED lifeVars
    BY <1>1 DEF lifeVars
  <1>2. CASE Boot
    BY <1>2 DEF Boot
  <1>3. CASE Bind
    BY <1>3 DEF Bind
  <1>4. CASE RegisterService
    <2>1. CASE at' = "start" /\ registered' = TRUE /\ left' = FALSE
      BY <1>4, <2>1 DEF RegisterService
    <2>2. CASE at' = "close" /\ registered' \in {registered, TRUE} /\ left' = registered'
      <3>1. registered' \in BOOLEAN /\ left' \in BOOLEAN
        BY <2>2
      <3> QED BY <1>4, <2>2, <3>1, Zenon DEF RegisterService
    <2> QED BY <1>4, <2>1, <2>2 DEF RegisterService
  <1>5. CASE startModuleRuntimes
    BY <1>5 DEF startModuleRuntimes
  <1>6. CASE stopStartedRuntimes
    BY <1>6 DEF stopStartedRuntimes
  <1>7. CASE Shutdown
    BY <1>7 DEF Shutdown
  <1>8. CASE stopModuleRuntimes
    BY <1>8 DEF stopModuleRuntimes
  <1>9. CASE UnregisterService
    BY <1>9 DEF UnregisterService
  <1>10. CASE CloseContext
    BY <1>10 DEF CloseContext
  <1>11. CASE Serve
    BY <1>11 DEF Serve
  <1>12. CASE Respond
    BY <1>12 DEF Respond
  <1>13. CASE EndGroup
    BY <1>13 DEF EndGroup
  <1>14. CASE Killed
    BY <1>14 DEF Killed
  <1>15. CASE ConsulDrops
    BY <1>15 DEF ConsulDrops
  <1> QED BY <1>1, <1>2, <1>3, <1>4, <1>5, <1>6, <1>7, <1>8,
             <1>9, <1>10, <1>11, <1>12, <1>13, <1>14, <1>15
          DEF LifeNext, LifeSteps

LEMMA LifeInvImplies == LifeInv => LifecycleIsSound
  BY DEF LifeInv, RuntimesInv, ListingInv, LifecycleIsSound, LifeTypeOK, NothingUsesAClosedContext,
         RuntimesMatchTheStage

-----------------------------------------------------------------------------
(* Migrations *)

\* Where a process that migrates can be.
Stops == {"ensure", "read", "files", "apply", "cqlFiles", "cqlApply", "ready"}

ProcessType ==
    [at : Stops, applied : SUBSET DOMAIN sqlFiles, file : Nat, stmt : Nat, aborted : BOOLEAN]

\* Where a process is, every version before is in force, and every file of Cassandra marked.
SqlReached(r) ==
    /\ r.at # "ensure" => versions # NoTable
    /\ r.at \in {"ensure", "read"} => r.file = 0
    /\ r.applied \subseteq versions
    /\ r.at = "files" => \A v \in DOMAIN sqlFiles : v <= r.file => v \in versions
    /\ r.at = "apply" => /\ r.file \in DOMAIN sqlFiles
                         /\ \A v \in DOMAIN sqlFiles : v < r.file => v \in versions
    /\ r.at \in {"cqlFiles", "cqlApply", "ready"} => versions = DOMAIN sqlFiles

CqlReached(r) ==
    /\ r.at = "cqlFiles" => /\ r.file <= Len(cqlFiles)
                            /\ \A f \in DOMAIN cqlFiles : f <= r.file => f \in cqlMarked
    /\ r.at = "cqlApply" => /\ r.file \in DOMAIN cqlFiles
                            /\ \A f \in DOMAIN cqlFiles : f < r.file => f \in cqlMarked
                            /\ r.stmt >= 1
                            /\ \A i \in 1 .. r.stmt - 1 : << r.file, i >> \in cqlDone
    /\ r.at = "ready" => cqlMarked = DOMAIN cqlFiles

\* Whatever a process has behind it stays behind it, also when another one works on it.
MigrationInv ==
    /\ MigrationTypeOK
    /\ process \in [Processes -> ProcessType]
    /\ effects \in [Statements -> Nat]
    /\ VersionsAreWhole /\ VersionsInOrder /\ MarkedIsDone
    /\ \A p \in Processes : SqlReached(process[p]) /\ CqlReached(process[p])

\* Every set of numbers has a least one.
LEMMA LeastOf ==
  ASSUME NEW S, S \subseteq Nat, S # {}
  PROVE  \E v \in S : \A w \in S : v <= w
  <1>1. IsWellFoundedOn(OpToRel(<, Nat), Nat)
    BY NatLessThanWellFounded
  <1>2. PICK v \in S : \A w \in S : ~(<< w, v >> \in OpToRel(<, Nat))
    BY <1>1, WFMin
  <1>3. \A w \in S : ~(w < v)
    BY <1>2 DEF OpToRel
  <1> QED BY <1>3

\* The files and statements are numbered.
LEMMA Files ==
  /\ DOMAIN sqlFiles = 1 .. Len(sqlFiles) /\ Len(sqlFiles) \in Nat
  /\ DOMAIN cqlFiles = 1 .. Len(cqlFiles) /\ Len(cqlFiles) \in Nat
  /\ \A f \in DOMAIN cqlFiles : cqlFiles[f] \in Nat
  /\ 0 \notin DOMAIN sqlFiles /\ NoTable # DOMAIN sqlFiles
  /\ \A s \in Statements : s[1] \in DOMAIN sqlFiles
  <1>1. /\ DOMAIN sqlFiles = 1 .. Len(sqlFiles) /\ Len(sqlFiles) \in Nat
        /\ DOMAIN cqlFiles = 1 .. Len(cqlFiles) /\ Len(cqlFiles) \in Nat
        /\ \A f \in DOMAIN cqlFiles : cqlFiles[f] \in Nat
    BY FilesAssumption
  <1>2. 0 \notin DOMAIN sqlFiles
    BY <1>1
  <1>3. NoTable # DOMAIN sqlFiles
    BY <1>2 DEF NoTable
  <1>4. \A s \in Statements : s[1] \in DOMAIN sqlFiles
    BY DEF Statements
  <1> QED BY <1>1, <1>2, <1>3, <1>4

LEMMA MigrationInitInv == MigrationInit => MigrationInv
  <1> SUFFICES ASSUME MigrationInit PROVE MigrationInv
    OBVIOUS
  <1> USE Files, FilesAssumption DEF MigrationInit, Dead
  <1>1. MigrationTypeOK
    BY DEF MigrationTypeOK
  <1>2. process \in [Processes -> ProcessType] /\ effects \in [Statements -> Nat]
    BY DEF ProcessType, Stops
  <1>3. VersionsAreWhole /\ VersionsInOrder /\ MarkedIsDone
    BY DEF VersionsAreWhole, VersionsInOrder, MarkedIsDone, NoTable
  <1>4. \A p \in Processes : SqlReached(process[p]) /\ CqlReached(process[p])
    BY DEF SqlReached, CqlReached
  <1> QED BY <1>1, <1>2, <1>3, <1>4 DEF MigrationInv

\* What a process has reached it keeps when the others go on.
\* What a process has reached stays reached while versions and marks only grow.
LEMMA ReachedStays ==
  ASSUME MigrationTypeOK, NEW r \in ProcessType, SqlReached(r), CqlReached(r),
         versions = NoTable \/ versions \subseteq versions', MigrationTypeOK', versions' # NoTable,
         cqlDone \subseteq cqlDone', cqlMarked \subseteq cqlMarked'
  PROVE  SqlReached(r)' /\ CqlReached(r)'
  <1>1. versions' \subseteq DOMAIN sqlFiles /\ cqlMarked' \subseteq DOMAIN cqlFiles
    BY DEF MigrationTypeOK
  <1>2. SqlReached(r)'
    <2>1. CASE versions = NoTable
      <3>1. r.at = "ensure" /\ r.applied = {}
        BY <2>1, Files DEF SqlReached, ProcessType, NoTable
      <3> QED BY <3>1 DEF SqlReached
    <2>2. CASE versions \subseteq versions'
      BY <1>1, <2>2 DEF SqlReached
    <2> QED BY <2>1, <2>2
  <1>3. CqlReached(r)'
    BY <1>1 DEF CqlReached
  <1> QED BY <1>2, <1>3

LEMMA MigrationStepInv == MigrationInv /\ [MigrationNext]_migrationVars => MigrationInv'
  <1> SUFFICES ASSUME MigrationInv, [MigrationNext]_migrationVars PROVE MigrationInv'
    OBVIOUS
  <1>1. CASE UNCHANGED migrationVars
    BY <1>1 DEF migrationVars, MigrationInv, MigrationTypeOK, VersionsAreWhole, VersionsInOrder,
                MarkedIsDone, SqlReached, CqlReached
  <1>2. ASSUME NEW p \in Processes, MigrationStep(p) \/ Dies(p) PROVE MigrationInv'
    <2> DEFINE r == process[p]
    <2>t. /\ r \in ProcessType /\ SqlReached(r) /\ CqlReached(r)
          /\ MigrationTypeOK /\ VersionsAreWhole /\ VersionsInOrder /\ MarkedIsDone
          /\ effects \in [Statements -> Nat]
      BY <1>2 DEF MigrationInv
    \* A step of p that leaves the databases alone.
    <2>a. ASSUME NEW n \in ProcessType, Set(p, n), SqlReached(n), CqlReached(n),
                 UNCHANGED << versions, effects, cqlDone, cqlMarked >>,
                 deaths' \in 0 .. MaxDeaths
          PROVE  MigrationInv'
      <3>1. process' \in [Processes -> ProcessType] /\ process'[p] = n
            /\ \A q \in Processes \ {p} : process'[q] = process[q]
        BY <2>a DEF Set, MigrationInv
      <3>2. \A q \in Processes : SqlReached(process'[q]) /\ CqlReached(process'[q])
        BY <2>a, <3>1 DEF MigrationInv
      <3>3. \A q \in Processes : SqlReached(process[q])' /\ CqlReached(process[q])'
        BY <2>a, <3>2 DEF SqlReached, CqlReached
      <3>4. MigrationTypeOK' /\ VersionsAreWhole' /\ VersionsInOrder' /\ MarkedIsDone'
        BY <2>a, <2>t DEF MigrationTypeOK, VersionsAreWhole, VersionsInOrder, MarkedIsDone
      <3> QED BY <2>a, <2>t, <3>1, <3>3, <3>4 DEF MigrationInv
    <2>d. Dead \in ProcessType /\ SqlReached(Dead) /\ CqlReached(Dead) /\ deaths \in 0 .. MaxDeaths
      BY <2>t DEF Dead, ProcessType, Stops, SqlReached, CqlReached, MigrationTypeOK
    <2>1. CASE Dies(p)
      <3>1. deaths' \in 0 .. MaxDeaths
        BY <2>1, <2>d, FilesAssumption DEF Dies
      <3> QED BY <2>1, <2>a, <2>d, <3>1 DEF Dies
    \* A step of p that adds to them.
    <2>b. ASSUME NEW n \in ProcessType, Set(p, n), SqlReached(n)', CqlReached(n)',
                 versions = NoTable \/ versions \subseteq versions', versions' # NoTable,
                 cqlDone \subseteq cqlDone', cqlMarked \subseteq cqlMarked',
                 MigrationTypeOK', VersionsAreWhole', VersionsInOrder', MarkedIsDone',
                 effects' \in [Statements -> Nat]
          PROVE  MigrationInv'
      <3>1. process' \in [Processes -> ProcessType] /\ process'[p] = n
            /\ \A q \in Processes \ {p} : process'[q] = process[q]
        BY <2>b DEF Set, MigrationInv
      <3>2. ASSUME NEW q \in Processes PROVE SqlReached(process[q])' /\ CqlReached(process[q])'
        <4>1. CASE q = p
          BY <2>b, <3>1, <4>1
        <4>2. CASE q # p
          <5>1. PICK x \in ProcessType : x = process[q]
            BY <3>2 DEF MigrationInv
          <5>2. SqlReached(x) /\ CqlReached(x)
            BY <5>1, <3>2 DEF MigrationInv
          <5>3. SqlReached(x)' /\ CqlReached(x)'
            BY <2>b, <2>t, <5>2, ReachedStays
          <5>4. process'[q] = x
            BY <3>1, <3>2, <4>2, <5>1
          <5> QED BY <5>3, <5>4
        <4> QED BY <4>1, <4>2
      <3> QED BY <2>b, <3>1, <3>2 DEF MigrationInv
    <2>2. CASE ensureSchemaMigrations(p)
      <3> DEFINE n == [Dead EXCEPT !.at = "read"]
      <3>1. /\ r.at = "ensure" /\ Set(p, n)
            /\ versions' = IF versions = NoTable THEN {} ELSE versions
            /\ UNCHANGED << effects, cqlDone, cqlMarked, deaths >>
        BY <2>2 DEF ensureSchemaMigrations
      <3>2. n \in ProcessType /\ n.at = "read" /\ n.applied = {}
        BY DEF Dead, ProcessType, Stops
      <3>3. versions' # NoTable
        BY <3>1 DEF NoTable
      <3>4. MigrationTypeOK' /\ MarkedIsDone'
        BY <2>t, <3>1 DEF MigrationTypeOK, MarkedIsDone
      <3>5. \A v \in DOMAIN sqlFiles : v \in versions' <=> v \in versions
        BY <3>1, Files DEF NoTable
      <3>6. VersionsAreWhole'
        BY <2>t, <3>1, <3>5, Files DEF VersionsAreWhole
      <3>7. VersionsInOrder'
        <4>1. \A v \in DOMAIN sqlFiles : 1 .. v \subseteq DOMAIN sqlFiles
          BY Files
        <4> QED BY <2>t, <3>5, <4>1 DEF VersionsInOrder
      <3>8. SqlReached(n)' /\ CqlReached(n)'
        BY <3>2, <3>3 DEF SqlReached, CqlReached, Dead
      <3> QED BY <2>b, <2>t, <3>1, <3>2, <3>3, <3>4, <3>6, <3>7, <3>8
    <2>3. CASE getAppliedVersions(p)
      <3> DEFINE n == [r EXCEPT !.at = "files", !.applied = versions]
      <3>1. /\ r.at = "read" /\ Set(p, n)
            /\ UNCHANGED << versions, effects, cqlDone, cqlMarked, deaths >>
        BY <2>3 DEF getAppliedVersions
      <3>2. versions \subseteq DOMAIN sqlFiles
        BY <2>t, <3>1 DEF SqlReached, MigrationTypeOK
      <3>3. n \in ProcessType /\ n.at = "files" /\ n.applied = versions /\ n.file = r.file
        BY <2>t, <3>2 DEF ProcessType, Stops
      <3>4. r.file = 0
        BY <2>t, <3>1 DEF SqlReached
      <3>5. SqlReached(n)
        BY <2>t, <3>1, <3>3, <3>4, Files DEF SqlReached
      <3>6. CqlReached(n)
        BY <3>3 DEF CqlReached
      <3> QED BY <2>a, <2>d, <3>1, <3>3, <3>5, <3>6
    <2>4. CASE NextFile(p)
      <3> DEFINE left_ == { v \in DOMAIN sqlFiles : v > r.file /\ v \notin r.applied }
      <3>1. /\ r.at = "files" /\ UNCHANGED << versions, effects, cqlDone, cqlMarked, deaths >>
            /\ IF left_ = {} THEN Set(p, [r EXCEPT !.at = "cqlFiles", !.file = 0])
               ELSE Set(p, [r EXCEPT !.at = "apply", !.stmt = 1, !.aborted = FALSE,
                                     !.file = CHOOSE v \in left_ : \A w \in left_ : v <= w])
        BY <2>4 DEF NextFile
      <3>2. \A v \in DOMAIN sqlFiles : v \notin left_ => v \in versions
        BY <2>t, <3>1, Files DEF SqlReached, ProcessType
      <3>3. CASE left_ = {}
        <4> DEFINE n == [r EXCEPT !.at = "cqlFiles", !.file = 0]
        <4>1. n \in ProcessType /\ n.at = "cqlFiles" /\ n.file = 0 /\ n.applied = r.applied
          BY <2>t DEF ProcessType, Stops
        <4>2. versions = DOMAIN sqlFiles
          BY <2>t, <3>1, <3>2, <3>3 DEF SqlReached, MigrationTypeOK
        <4>3. SqlReached(n)
          BY <2>t, <3>1, <4>1, <4>2 DEF SqlReached
        <4>4. CqlReached(n)
          BY <4>1, Files DEF CqlReached
        <4> QED BY <2>a, <2>d, <3>1, <3>3, <4>1, <4>3, <4>4
      <3>4. CASE left_ # {}
        <4>1. left_ \subseteq Nat /\ left_ \subseteq DOMAIN sqlFiles
          BY Files
        <4>2. \E v \in left_ : \A w \in left_ : v <= w
          BY <3>4, <4>1, LeastOf
        <4>3. PICK f : f = CHOOSE v \in left_ : \A w \in left_ : v <= w
          OBVIOUS
        <4>4. f \in left_ /\ \A w \in left_ : f <= w
          BY <4>2, <4>3, Zenon
        <4>5. f \in DOMAIN sqlFiles /\ f \in Nat
          BY <4>1, <4>4
        <4> DEFINE n == [r EXCEPT !.at = "apply", !.stmt = 1, !.aborted = FALSE, !.file = f]
        <4>6. n \in ProcessType /\ n.at = "apply" /\ n.file = f /\ n.applied = r.applied
          BY <2>t, <4>5 DEF ProcessType, Stops
        <4>7. \A v \in DOMAIN sqlFiles : v < f => v \in versions
          <5> SUFFICES ASSUME NEW v \in DOMAIN sqlFiles, v < f PROVE v \in versions
            OBVIOUS
          <5>1. v \in Nat
            BY Files
          <5>2. v \notin left_
            BY <4>4, <4>5, <5>1
          <5> QED BY <3>2, <5>2
        <4>8. SqlReached(n)
          BY <2>t, <3>1, <4>5, <4>6, <4>7 DEF SqlReached
        <4>9. CqlReached(n)
          BY <4>6 DEF CqlReached
        <4> QED BY <2>a, <2>d, <3>1, <3>4, <4>3, <4>6, <4>8, <4>9
      <3> QED BY <3>3, <3>4
    <2>5. CASE ExecStatement(p)
      <3> DEFINE s == << r.file, r.stmt >>
                 n == [r EXCEPT !.stmt = @ + 1,
                          !.aborted = sqlFiles[s[1]][s[2]] = "create" /\ effects[s] > 0]
      <3>1. /\ r.at = "apply" /\ UNCHANGED << versions, effects, cqlDone, cqlMarked, deaths >>
            /\ Set(p, Dead) \/ Set(p, n)
        BY <2>5 DEF ExecStatement, RollBack
      <3>0. PICK b \in BOOLEAN : b = (sqlFiles[s[1]][s[2]] = "create" /\ effects[s] > 0)
        BY Zenon
      <3> DEFINE m == [r EXCEPT !.stmt = r.stmt + 1, !.aborted = b]
      <3>a. n = m
        BY <2>t, <3>0 DEF ProcessType
      <3>b. PICK next \in Nat : next = r.stmt + 1
        BY <2>t DEF ProcessType
      <3>c. \A x \in ProcessType : [x EXCEPT !.stmt = next, !.aborted = b] \in ProcessType
        BY Zenon DEF ProcessType
      <3>2. m \in ProcessType /\ m.at = r.at /\ m.file = r.file /\ m.applied = r.applied
        <4>1. m \in ProcessType
          BY <2>t, <3>b, <3>c
        <4> QED BY <4>1, <2>t DEF ProcessType
      <3>3. SqlReached(m) /\ CqlReached(m)
        BY <2>t, <3>1, <3>2 DEF SqlReached, CqlReached
      <3>4. Set(p, Dead) \/ Set(p, m)
        BY <3>1, <3>a, Zenon
      <3> QED BY <2>a, <2>d, <3>1, <3>2, <3>3, <3>4
    <2>6. CASE InsertVersion(p)
      <3>1. /\ r.at = "apply" /\ UNCHANGED << cqlDone, cqlMarked, deaths >>
            /\ RollBack(p) \/ (r.file \notin versions /\ Commit(p))
        BY <2>6 DEF InsertVersion
      <3>2. CASE RollBack(p)
        BY <2>a, <2>d, <3>1, <3>2 DEF RollBack
      <3>3. CASE r.file \notin versions /\ Commit(p)
        <4> DEFINE n == [r EXCEPT !.at = "files"]
        <4>1. /\ versions' = versions \cup {r.file} /\ Set(p, n)
              /\ effects' = [s \in Statements |-> effects[s] + IF s[1] = r.file THEN 1 ELSE 0]
          BY <3>3 DEF Commit
        <4>2. n \in ProcessType /\ n.at = "files" /\ n.file = r.file /\ n.applied = r.applied
          BY <2>t DEF ProcessType, Stops
        <4>3. versions \subseteq DOMAIN sqlFiles /\ r.file \in DOMAIN sqlFiles
          BY <2>t, <3>1 DEF SqlReached, MigrationTypeOK
        <4>4. versions' \subseteq DOMAIN sqlFiles /\ versions' # NoTable
          BY <4>1, <4>3, Files DEF NoTable
        <4>5. MigrationTypeOK' /\ MarkedIsDone'
          BY <2>t, <3>1, <4>4 DEF MigrationTypeOK, MarkedIsDone
        <4>6. VersionsAreWhole' /\ effects' \in [Statements -> Nat]
          BY <2>t, <3>3, <4>1 DEF VersionsAreWhole
        <4>7. VersionsInOrder'
          <5> SUFFICES ASSUME NEW v \in DOMAIN sqlFiles, v \in versions', NEW w \in 1 .. v
                       PROVE  w \in versions'
            BY DEF VersionsInOrder
          <5>1. v \in Nat /\ w \in Nat /\ w <= v /\ w \in DOMAIN sqlFiles
            BY Files
          <5>2. CASE v \in versions
            BY <2>t, <4>1, <5>2 DEF VersionsInOrder
          <5>3. CASE v = r.file
            <6>1. w = v \/ w < v
              BY <5>1
            <6> QED BY <2>t, <3>1, <4>1, <5>1, <5>3, <6>1 DEF SqlReached
          <5> QED BY <4>1, <5>2, <5>3
        <4>0. PICK x \in ProcessType : x = n
          BY <4>2
        <4>8. SqlReached(x)'
          <5>1. \A v \in DOMAIN sqlFiles : v <= r.file => v \in versions'
            <6> SUFFICES ASSUME NEW v \in DOMAIN sqlFiles, v <= r.file PROVE v \in versions'
              OBVIOUS
            <6>1. v = r.file \/ v < r.file
              BY <4>3, Files
            <6> QED BY <2>t, <3>1, <4>1, <6>1 DEF SqlReached
          <5> QED BY <2>t, <4>0, <4>1, <4>2, <4>4, <5>1 DEF SqlReached
        <4>9. CqlReached(x)'
          BY <4>0, <4>2 DEF CqlReached
        <4>10. Set(p, x)
          BY <4>0, <4>1
        <4> QED BY <2>b, <3>1, <4>0, <4>1, <4>4, <4>5, <4>6, <4>7, <4>8, <4>9, <4>10
      <3> QED BY <3>1, <3>2, <3>3
    <2>7. CASE NextCqlFile(p)
      <3> DEFINE f == r.file + 1
                 n == [r EXCEPT !.file = f, !.stmt = 1,
                          !.at = IF f \notin DOMAIN cqlFiles THEN "ready"
                                 ELSE IF f \in cqlMarked THEN "cqlFiles" ELSE "cqlApply"]
      <3>1. /\ r.at = "cqlFiles" /\ UNCHANGED << versions, effects, cqlDone, cqlMarked, deaths >>
            /\ Set(p, n)
        BY <2>7 DEF NextCqlFile
      <3>2. /\ r.file \in Nat /\ f \in Nat /\ r.file <= Len(cqlFiles)
            /\ \A g \in DOMAIN cqlFiles : g <= r.file => g \in cqlMarked
        BY <2>t, <3>1 DEF CqlReached, ProcessType
      <3>3. n \in ProcessType /\ n.file = f /\ n.stmt = 1 /\ n.applied = r.applied
        BY <2>t, <3>2 DEF ProcessType, Stops
      <3>4. n.at = IF f \notin DOMAIN cqlFiles THEN "ready"
                   ELSE IF f \in cqlMarked THEN "cqlFiles" ELSE "cqlApply"
        BY <2>t DEF ProcessType
      <3>5. SqlReached(n)
        BY <2>t, <3>1, <3>3, <3>4 DEF SqlReached
      <3>6. CqlReached(n)
        <4>1. CASE f \notin DOMAIN cqlFiles
          <5>1. cqlMarked = DOMAIN cqlFiles
            <6>1. \A g \in DOMAIN cqlFiles : g <= r.file
              BY <3>2, <4>1, Files
            <6> QED BY <2>t, <3>2, <6>1 DEF MigrationTypeOK
          <5> QED BY <3>4, <4>1, <5>1 DEF CqlReached
        <4>2. CASE f \in DOMAIN cqlFiles /\ f \in cqlMarked
          BY <3>2, <3>3, <3>4, <4>2, Files DEF CqlReached
        <4>3. CASE f \in DOMAIN cqlFiles /\ f \notin cqlMarked
          BY <3>2, <3>3, <3>4, <4>3, Files DEF CqlReached
        <4> QED BY <4>1, <4>2, <4>3
      <3> QED BY <2>a, <2>d, <3>1, <3>3, <3>5, <3>6
    <2>8. CASE ExecCql(p)
      <3> DEFINE n == [r EXCEPT !.stmt = @ + 1]
      <3>1. /\ r.at = "cqlApply" /\ UNCHANGED << versions, effects, cqlMarked, deaths >>
            /\ cqlDone' = cqlDone \cup {<< r.file, r.stmt >>} /\ Set(p, n)
        BY <2>8 DEF ExecCql
      <3>2. n \in ProcessType /\ n.at = "cqlApply" /\ n.file = r.file /\ n.stmt = r.stmt + 1
            /\ n.applied = r.applied /\ r.stmt \in Nat
        BY <2>t, <3>1 DEF ProcessType
      <3>3. versions = DOMAIN sqlFiles /\ versions # NoTable
        BY <2>t, <3>1, Files DEF SqlReached
      <3>4. MigrationTypeOK' /\ MarkedIsDone' /\ VersionsAreWhole' /\ VersionsInOrder'
        BY <2>t, <3>1 DEF MigrationTypeOK, MarkedIsDone, VersionsAreWhole, VersionsInOrder
      <3>5. PICK x \in ProcessType : x = n
        BY <3>2
      <3>6. SqlReached(x)'
        BY <2>t, <3>1, <3>2, <3>3, <3>5 DEF SqlReached
      <3>7. CqlReached(x)'
        <4>1. \A i \in 1 .. r.stmt : << r.file, i >> \in cqlDone'
          <5> SUFFICES ASSUME NEW i \in 1 .. r.stmt PROVE << r.file, i >> \in cqlDone'
            OBVIOUS
          <5>1. i = r.stmt \/ i \in 1 .. r.stmt - 1
            BY <3>2
          <5> QED BY <2>t, <3>1, <5>1 DEF CqlReached
        <4>2. x.stmt - 1 = r.stmt /\ x.stmt >= 1
          BY <3>2, <3>5
        <4> QED BY <2>t, <3>1, <3>2, <3>5, <4>1, <4>2 DEF CqlReached
      <3>8. Set(p, x)
        BY <3>1, <3>5
      <3> QED BY <2>b, <2>t, <3>1, <3>3, <3>4, <3>5, <3>6, <3>7, <3>8
    <2>9. CASE MarkApplied(p)
      <3> DEFINE n == [r EXCEPT !.at = "cqlFiles"]
      <3>1. /\ r.at = "cqlApply" /\ r.stmt > cqlFiles[r.file]
            /\ UNCHANGED << versions, effects, cqlDone, deaths >>
            /\ cqlMarked' = cqlMarked \cup {r.file} /\ Set(p, n)
        BY <2>9 DEF MarkApplied
      <3>2. n \in ProcessType /\ n.at = "cqlFiles" /\ n.file = r.file
            /\ n.applied = r.applied /\ r.stmt \in Nat
        BY <2>t DEF ProcessType, Stops
      <3>3. versions = DOMAIN sqlFiles /\ versions # NoTable
        BY <2>t, <3>1, Files DEF SqlReached
      <3>4. r.file \in DOMAIN cqlFiles /\ r.file <= Len(cqlFiles) /\ r.file \in Nat /\ cqlFiles[r.file] \in Nat
        BY <2>t, <3>1, Files DEF CqlReached
      <3>5. MigrationTypeOK' /\ VersionsAreWhole' /\ VersionsInOrder'
        BY <2>t, <3>1, <3>4 DEF MigrationTypeOK, VersionsAreWhole, VersionsInOrder
      <3>6. MarkedIsDone'
        <4>1. \A i \in 1 .. cqlFiles[r.file] : i \in 1 .. r.stmt - 1
          BY <3>1, <3>2, <3>4
        <4>2. \A i \in 1 .. cqlFiles[r.file] : << r.file, i >> \in cqlDone
          BY <2>t, <3>1, <4>1 DEF CqlReached
        <4> QED BY <2>t, <3>1, <4>2 DEF MarkedIsDone
      <3>7. PICK x \in ProcessType : x = n
        BY <3>2
      <3>8. SqlReached(x)'
        BY <2>t, <3>1, <3>2, <3>3, <3>7 DEF SqlReached
      <3>9. CqlReached(x)'
        <4>1. \A g \in DOMAIN cqlFiles : g <= r.file => g < r.file \/ g = r.file
          BY <3>4, Files
        <4> QED BY <2>t, <3>1, <3>2, <3>4, <3>7, <4>1 DEF CqlReached
      <3>10. Set(p, x)
        BY <3>1, <3>7
      <3> QED BY <2>b, <2>t, <3>1, <3>3, <3>5, <3>6, <3>7, <3>8, <3>9, <3>10
    <2> QED BY <1>2, <2>1, <2>2, <2>3, <2>4, <2>5, <2>6, <2>7, <2>8, <2>9 DEF MigrationStep
  <1> QED BY <1>1, <1>2 DEF MigrationNext

LEMMA MigrationInvImplies == MigrationInv => MigrationsAreSound
  BY DEF MigrationInv, MigrationsAreSound, ReadyIsMigrated, SqlReached, CqlReached


-----------------------------------------------------------------------------
(* The rate limiter: the inductive invariant *)

CheckType == [at : Steps, now : 0 .. MaxTime, count : Nat, kept : BOOLEAN]

LimiterTypes ==
    /\ clock \in 1 .. MaxTime /\ expiresAt \in 0 .. MaxTime + window
    /\ members \subseteq Requests /\ admitted \subseteq Requests /\ forgotten \subseteq Requests
    /\ IsFiniteSet(members) /\ IsFiniteSet(admitted)
    /\ check \in [Requests -> CheckType]
    /\ failures \in 0 .. MaxFailures

\* A request that was added, and one that got its count.
EntryAdded(r) == check[r].at \in {"trim", "count", "expire", "passed", "rejected"}
Counted(r) == check[r].at \in {"expire", "passed", "rejected"}

\* What is known of one request.  Its entry stays while it is younger than the window.
EntryInv(r) ==
    /\ check[r].now <= clock
    /\ InAllow(r) => clock <= check[r].now + CheckTime
    /\ check[r].at = "new" => check[r].now = 0
    /\ r \in members \cup forgotten => check[r].at \notin {"new", "add"}
    /\ r \in forgotten => r \notin members
    /\ EntryAdded(r) /\ r \notin forgotten /\ check[r].now > clock - window => r \in members
    /\ r \in members /\ check[r].kept => expiresAt >= check[r].now + window
    /\ check[r].kept => check[r].at \in {"passed", "rejected"}
    /\ r \in forgotten => ~check[r].kept
    /\ r \in admitted => check[r].at = "passed" /\ check[r].count <= limit

\* S are requests of one window, ending at t, that were counted.
Together(S, t) ==
    \A q \in S : /\ Counted(q) /\ q \notin forgotten
                 /\ t - (window - CheckTime) < check[q].now /\ check[q].now <= t

\* Whichever of them counted last, counted them all.
CountsInv ==
    \A S \in SUBSET Requests : \A t \in 0 .. MaxTime :
        S # {} /\ Together(S, t) =>
            IsFiniteSet(S) /\ \E q \in S : Cardinality(S) <= check[q].count

LimiterInv == LimiterTypes /\ (\A r \in Requests : EntryInv(r)) /\ CountsInv

\* A request moves on in Allow.
CheckMoved(r, to, now, count) ==
    /\ check' \in [Requests -> CheckType]
    /\ check'[r].at = to /\ check'[r].now = now /\ check'[r].count = count
    /\ \A q \in Requests \ {r} : check'[q] = check[q]

LEMMA LimiterInitInv == LimiterInit => LimiterInv
  <1> SUFFICES ASSUME LimiterInit PROVE LimiterInv
    OBVIOUS
  <1> USE WindowAssumption DEF LimiterInit
  <1>1. LimiterTypes
    BY FS_EmptySet DEF LimiterTypes, CheckType, Steps
  <1>2. \A r \in Requests : EntryInv(r)
    BY DEF EntryInv, InAllow, EntryAdded
  <1>3. CountsInv
    BY DEF CountsInv, Together, Counted
  <1> QED BY <1>1, <1>2, <1>3 DEF LimiterInv

\* The record of a request after each of its steps.
LEMMA AllowMoves ==
  ASSUME LimiterInv, NEW r \in Requests, Allow(r)
  PROVE  CheckMoved(r, "add", clock, check[r].count) /\ check'[r].kept = check[r].kept
  <1>1. check[r] \in CheckType /\ clock \in 0 .. MaxTime
    BY WindowAssumption DEF LimiterInv, LimiterTypes
  <1> DEFINE n == [check[r] EXCEPT !.at = "add", !.now = clock]
  <1>2. n \in CheckType /\ n.at = "add" /\ n.now = clock /\ n.count = check[r].count /\ n.kept = check[r].kept
    BY <1>1 DEF CheckType, Steps
  <1>3. check' = [check EXCEPT ![r] = n]
    BY DEF Allow, LimiterInv, LimiterTypes
  <1> QED BY <1>2, <1>3 DEF CheckMoved, LimiterInv, LimiterTypes

LEMMA StepMoves ==
  ASSUME LimiterInv, NEW r \in Requests, NEW to \in Steps, Step(r, to)
  PROVE  CheckMoved(r, to, check[r].now, check[r].count) /\ check'[r].kept = check[r].kept
  <1>1. check[r] \in CheckType
    BY DEF LimiterInv, LimiterTypes
  <1> DEFINE n == [check[r] EXCEPT !.at = to]
  <1>2. n \in CheckType /\ n.at = to /\ n.now = check[r].now /\ n.count = check[r].count /\ n.kept = check[r].kept
    BY <1>1 DEF CheckType
  <1>3. check' = [check EXCEPT ![r] = n]
    BY DEF Step, LimiterInv, LimiterTypes
  <1> QED BY <1>2, <1>3 DEF CheckMoved, LimiterInv, LimiterTypes

LEMMA CountMoves ==
  ASSUME LimiterInv, NEW r \in Requests,
         check' = [check EXCEPT ![r].at = "expire", ![r].count = Cardinality(members)]
  PROVE  CheckMoved(r, "expire", check[r].now, Cardinality(members)) /\ check'[r].kept = check[r].kept
  <1>1. check[r] \in CheckType
    BY DEF LimiterInv, LimiterTypes
  <1>a. PICK size \in Nat : size = Cardinality(members)
    BY FS_CardinalityType DEF LimiterInv, LimiterTypes
  <1> DEFINE n == [check[r] EXCEPT !.at = "expire", !.count = size]
  <1>2. n \in CheckType /\ n.at = "expire" /\ n.now = check[r].now /\ n.count = size /\ n.kept = check[r].kept
    BY <1>1 DEF CheckType, Steps
  <1>3. check' = [check EXCEPT ![r] = n]
    BY <1>a DEF LimiterInv, LimiterTypes
  <1> QED BY <1>a, <1>2, <1>3 DEF CheckMoved, LimiterInv, LimiterTypes

LEMMA KeepsAs ==
  ASSUME LimiterInv, NEW r \in Requests, NEW to \in Steps, NEW b \in BOOLEAN,
         check' = [check EXCEPT ![r].kept = b, ![r].at = to]
  PROVE  CheckMoved(r, to, check[r].now, check[r].count) /\ check'[r].kept = b
  <1>1. check[r] \in CheckType
    BY DEF LimiterInv, LimiterTypes
  <1> DEFINE n == [check[r] EXCEPT !.kept = b, !.at = to]
  <1>2. n \in CheckType /\ n.at = to /\ n.now = check[r].now /\ n.count = check[r].count /\ n.kept = b
    BY <1>1 DEF CheckType
  <1>3. check' = [check EXCEPT ![r] = n]
    BY DEF LimiterInv, LimiterTypes
  <1>4. check'[r] = n /\ CheckMoved(r, to, check[r].now, check[r].count)
    BY <1>2, <1>3 DEF CheckMoved, LimiterInv, LimiterTypes
  <1> QED BY <1>2, <1>4

LEMMA KeepMoves ==
  ASSUME LimiterInv, NEW r \in Requests, NEW to \in Steps,
         check' = [check EXCEPT ![r].kept = r \in members, ![r].at = to]
  PROVE  CheckMoved(r, to, check[r].now, check[r].count) /\ (check'[r].kept <=> r \in members)
  <1>1. CASE r \in members
    <2>1. (r \in members) = TRUE
      BY <1>1
    <2>2. check' = [check EXCEPT ![r].kept = TRUE, ![r].at = to]
      BY <2>1
    <2> QED BY <1>1, <2>2, KeepsAs
  <1>2. CASE r \notin members
    <2>1. (r \in members) = FALSE
      BY <1>2
    <2>2. check' = [check EXCEPT ![r].kept = FALSE, ![r].at = to]
      BY <2>1
    <2> QED BY <1>2, <2>2, KeepsAs
  <1> QED BY <1>1, <1>2

\* A step that counts nobody anew keeps the counts.
LEMMA CountsKept ==
  ASSUME CountsInv, forgotten \subseteq forgotten',
         \A q \in Requests : check'[q].now = check[q].now \/ ~Counted(q)',
         \A q \in Requests : Counted(q)' => Counted(q) /\ check'[q].count = check[q].count
  PROVE  CountsInv'
  <1> SUFFICES ASSUME NEW S \in SUBSET Requests, NEW t \in 0 .. MaxTime, S # {}, Together(S, t)'
               PROVE  IsFiniteSet(S) /\ \E q \in S : Cardinality(S) <= check'[q].count
    BY DEF CountsInv
  <1>1. Together(S, t)
    BY DEF Together
  <1>2. IsFiniteSet(S) /\ \E q \in S : Cardinality(S) <= check[q].count
    BY <1>1 DEF CountsInv
  <1>3. \A q \in S : check'[q].count = check[q].count
    BY DEF Together
  <1> QED BY <1>2, <1>3

LEMMA AllowInv ==
  ASSUME LimiterInv, NEW r \in Requests, Allow(r) PROVE LimiterInv'
  <1>0. /\ CheckMoved(r, "add", clock, check[r].count) /\ check'[r].kept = check[r].kept
        /\ check[r].at = "new"
        /\ UNCHANGED << clock, members, expiresAt, admitted, forgotten, failures >>
    BY AllowMoves DEF Allow
  <1>1. LimiterTypes'
    BY <1>0 DEF LimiterInv, LimiterTypes, CheckMoved
  <1>2. ASSUME NEW q \in Requests PROVE EntryInv(q)'
    <2>1. CASE q = r
      BY <1>0, <2>1, WindowAssumption
         DEF LimiterInv, EntryInv, CheckMoved, InAllow, EntryAdded, LimiterTypes, CheckType
    <2>2. CASE q # r
      <3>1. check'[q] = check[q] /\ EntryInv(q)
        BY <1>0, <2>2 DEF CheckMoved, LimiterInv
      <3> QED BY <1>0, <3>1 DEF EntryInv, InAllow, EntryAdded
    <2> QED BY <2>1, <2>2
  <1>3. CountsInv'
    <2>1. \A q \in Requests : check'[q].now = check[q].now \/ ~Counted(q)'
      BY <1>0 DEF CheckMoved, Counted
    <2>2. \A q \in Requests : Counted(q)' => Counted(q) /\ check'[q].count = check[q].count
      BY <1>0 DEF CheckMoved, Counted
    <2> QED BY <1>0, <2>1, <2>2, CountsKept DEF LimiterInv
  <1> QED BY <1>1, <1>2, <1>3 DEF LimiterInv

LEMMA ZAddInv ==
  ASSUME LimiterInv, NEW r \in Requests, ZAdd(r) PROVE LimiterInv'
  <1>0. PICK to \in {"trim", "failedOpen"} :
          /\ Step(r, to) /\ check[r].at = "add"
          /\ to = "trim" => members' = members \cup {r} /\ failures' = failures
          /\ to = "failedOpen" => members' = members /\ failures < MaxFailures /\ failures' = failures + 1
          /\ UNCHANGED << clock, expiresAt, admitted, forgotten >>
    BY DEF ZAdd, Fails
  <1>1. CheckMoved(r, to, check[r].now, check[r].count) /\ check'[r].kept = check[r].kept
    BY <1>0, StepMoves DEF Steps
  <1>2. LimiterTypes'
    <2>1. IsFiniteSet(members \cup {r})
      BY FS_AddElement DEF LimiterInv, LimiterTypes
    <2> QED BY <1>0, <1>1, <2>1, WindowAssumption DEF LimiterInv, LimiterTypes, CheckMoved
  <1>3. ASSUME NEW q \in Requests PROVE EntryInv(q)'
    <2>0. EntryInv(q) /\ check[q] \in CheckType
      BY DEF LimiterInv, LimiterTypes
    <2>1. CASE q = r
      BY <1>0, <1>1, <2>0, <2>1 DEF EntryInv, CheckMoved, InAllow, EntryAdded, CheckType
    <2>2. CASE q # r
      <3>1. check'[q] = check[q] /\ (q \in members' <=> q \in members)
        BY <1>0, <1>1, <2>2 DEF CheckMoved
      <3> QED BY <1>0, <2>0, <3>1 DEF EntryInv, InAllow, EntryAdded
    <2> QED BY <2>1, <2>2
  <1>4. CountsInv'
    <2>1. \A q \in Requests : check'[q].now = check[q].now \/ ~Counted(q)'
      BY <1>1 DEF CheckMoved
    <2>2. \A q \in Requests : Counted(q)' => Counted(q) /\ check'[q].count = check[q].count
      BY <1>0, <1>1 DEF CheckMoved, Counted
    <2> QED BY <1>0, <2>1, <2>2, CountsKept DEF LimiterInv
  <1> QED BY <1>2, <1>3, <1>4 DEF LimiterInv

LEMMA TrimInv ==
  ASSUME LimiterInv, NEW r \in Requests, ZRemRangeByScore(r) PROVE LimiterInv'
  <1>0. /\ Step(r, "count") /\ check[r].at = "trim"
        /\ UNCHANGED << clock, admitted, forgotten >>
        /\ expiresAt' = IF members' = {} THEN 0 ELSE expiresAt
    BY DEF ZRemRangeByScore
  <1>1. CheckMoved(r, "count", check[r].now, check[r].count) /\ check'[r].kept = check[r].kept
    BY <1>0, StepMoves DEF Steps
  <1>a. /\ check[r].now \in Nat /\ clock \in Nat /\ check[r].now <= clock /\ window \in Nat
        /\ \A q \in Requests : check[q].now \in Nat
    BY WindowAssumption DEF LimiterInv, LimiterTypes, CheckType, EntryInv
  <1>b. members' \subseteq members /\ failures' \in 0 .. MaxFailures
    BY WindowAssumption DEF ZRemRangeByScore, Fails, LimiterInv, LimiterTypes
  <1>c. \A q \in members : check[q].now > clock - window => q \in members'
    <2> SUFFICES ASSUME NEW q \in members, check[q].now > clock - window PROVE q \in members'
      OBVIOUS
    <2>1. check[q].now \in Nat
      BY <1>a DEF LimiterInv, LimiterTypes
    <2>2. check[q].now > check[r].now - window
      BY <1>a, <2>1
    <2> QED BY <2>2 DEF ZRemRangeByScore
  <1>2. LimiterTypes'
    <2>1. IsFiniteSet(members')
      BY <1>b, FS_Subset DEF LimiterInv, LimiterTypes
    <2> QED BY <1>0, <1>1, <1>b, <2>1, WindowAssumption DEF LimiterInv, LimiterTypes, CheckMoved
  <1>3. ASSUME NEW q \in Requests PROVE EntryInv(q)'
    <2>0. EntryInv(q) /\ check[q] \in CheckType
      BY DEF LimiterInv, LimiterTypes
    <2>3. q \in members' => expiresAt' = expiresAt
      BY <1>0
    <2>1. CASE q = r
      BY <1>0, <1>1, <1>b, <1>c, <2>0, <2>1, <2>3 DEF EntryInv, CheckMoved, InAllow, EntryAdded, CheckType
    <2>2. CASE q # r
      <3>1. check'[q] = check[q]
        BY <1>1, <2>2 DEF CheckMoved
      <3> QED BY <1>0, <1>b, <1>c, <2>0, <2>3, <3>1 DEF EntryInv, InAllow, EntryAdded
    <2> QED BY <2>1, <2>2
  <1>4. CountsInv'
    <2>1. \A q \in Requests : check'[q].now = check[q].now \/ ~Counted(q)'
      BY <1>1 DEF CheckMoved
    <2>2. \A q \in Requests : Counted(q)' => Counted(q) /\ check'[q].count = check[q].count
      BY <1>0, <1>1 DEF CheckMoved, Counted
    <2> QED BY <1>0, <2>1, <2>2, CountsKept DEF LimiterInv
  <1> QED BY <1>2, <1>3, <1>4 DEF LimiterInv

LEMMA ZCardInv ==
  ASSUME LimiterInv, NEW r \in Requests, ZCard(r) PROVE LimiterInv'
  <1>0. /\ check[r].at = "count"
        /\ UNCHANGED << clock, members, expiresAt, admitted, forgotten >>
        /\ \/ /\ check' = [check EXCEPT ![r].at = "expire", ![r].count = Cardinality(members)]
              /\ failures' = failures
           \/ Step(r, "failedOpen") /\ failures < MaxFailures /\ failures' = failures + 1
    BY DEF ZCard, Fails
  <1>1. /\ \/ CheckMoved(r, "expire", check[r].now, Cardinality(members))
           \/ CheckMoved(r, "failedOpen", check[r].now, check[r].count)
        /\ check'[r].kept = check[r].kept
    BY <1>0, StepMoves, CountMoves DEF Steps
  <1>2. LimiterTypes'
    BY <1>0, <1>1, WindowAssumption DEF LimiterInv, LimiterTypes, CheckMoved
  <1>3. ASSUME NEW q \in Requests PROVE EntryInv(q)'
    <2>0. EntryInv(q) /\ check[q] \in CheckType
      BY DEF LimiterInv, LimiterTypes
    <2>1. CASE q = r
      BY <1>0, <1>1, <2>0, <2>1 DEF EntryInv, CheckMoved, InAllow, EntryAdded, CheckType
    <2>2. CASE q # r
      <3>1. check'[q] = check[q]
        BY <1>1, <2>2 DEF CheckMoved
      <3> QED BY <1>0, <2>0, <3>1 DEF EntryInv, InAllow, EntryAdded
    <2> QED BY <2>1, <2>2
  <1>4. CountsInv'
    <2>1. CASE CheckMoved(r, "failedOpen", check[r].now, check[r].count)
      <3>1. \A q \in Requests : check'[q].now = check[q].now \/ ~Counted(q)'
        BY <2>1 DEF CheckMoved
      <3>2. \A q \in Requests : Counted(q)' => Counted(q) /\ check'[q].count = check[q].count
        BY <2>1 DEF CheckMoved, Counted
      <3> QED BY <1>0, <3>1, <3>2, CountsKept DEF LimiterInv
    <2>2. CASE CheckMoved(r, "expire", check[r].now, Cardinality(members))
      <3> SUFFICES ASSUME NEW S \in SUBSET Requests, NEW t \in 0 .. MaxTime, S # {}, Together(S, t)'
                   PROVE  IsFiniteSet(S) /\ \E q \in S : Cardinality(S) <= check'[q].count
        BY DEF CountsInv
      <3>1. CASE r \notin S
        <4>1. \A q \in S : check'[q] = check[q]
          BY <2>2, <3>1 DEF CheckMoved
        <4>2. Together(S, t)
          BY <1>0, <4>1 DEF Together, Counted
        <4>3. IsFiniteSet(S) /\ \E q \in S : Cardinality(S) <= check[q].count
          BY <4>2 DEF LimiterInv, CountsInv
        <4> QED BY <4>1, <4>3
      <3>2. CASE r \in S
        <4>1. ASSUME NEW q \in S PROVE q \in members
          <5>1. check'[q].now = check[q].now /\ check'[r].now = check[r].now
            BY <2>2 DEF CheckMoved
          <5>2. /\ q \notin forgotten /\ check[r].now <= t
                /\ t - (window - CheckTime) < check[q].now
            BY <1>0, <3>2, <4>1, <5>1 DEF Together
          <5>3. clock <= check[r].now + CheckTime
            BY <1>0 DEF LimiterInv, EntryInv, InAllow
          <5>4. /\ clock \in Nat /\ window \in Nat /\ CheckTime \in Nat /\ t \in Nat
                /\ check[q].now \in Nat /\ check[r].now \in Nat
            BY WindowAssumption DEF LimiterInv, LimiterTypes, CheckType
          <5>5. check[q].now > clock - window
            BY <5>2, <5>3, <5>4
          <5>6. EntryAdded(q)
            <6>1. CASE q = r
              BY <1>0, <6>1 DEF EntryAdded
            <6>2. CASE q # r
              <7>1. Counted(q)' /\ check'[q] = check[q]
                BY <2>2, <4>1, <6>2 DEF Together, CheckMoved
              <7> QED BY <7>1 DEF Counted, EntryAdded
            <6> QED BY <6>1, <6>2
          <5> QED BY <5>2, <5>5, <5>6, <4>1 DEF LimiterInv, EntryInv
        <4>2. S \in SUBSET members /\ IsFiniteSet(members)
          BY <4>1 DEF LimiterInv, LimiterTypes
        <4>3. IsFiniteSet(S) /\ Cardinality(S) <= Cardinality(members)
          BY <4>2, FS_Subset
        <4>4. check'[r].count = Cardinality(members)
          BY <2>2 DEF CheckMoved
        <4> QED BY <3>2, <4>3, <4>4
      <3> QED BY <3>1, <3>2
    <2> QED BY <1>1, <2>1, <2>2
  <1> QED BY <1>2, <1>3, <1>4 DEF LimiterInv

LEMMA SetExpireTimeInv ==
  ASSUME LimiterInv, NEW r \in Requests, SetExpireTime(r) PROVE LimiterInv'
  <1> DEFINE to == Decision(r)
  <1>0. /\ check[r].at = "expire" /\ UNCHANGED << clock, members, forgotten >>
        /\ admitted' = admitted \cup { q \in {r} : Decision(q) = "passed" }
    BY DEF SetExpireTime
  <1>a. /\ clock \in Nat /\ window \in Nat /\ check[r].now \in Nat /\ check[r].count \in Nat
        /\ limit \in Nat /\ to \in {"passed", "rejected"}
        /\ to = "passed" => check[r].count <= limit
    BY WindowAssumption DEF LimiterInv, LimiterTypes, CheckType, Decision
  <1>1. CheckMoved(r, to, check[r].now, check[r].count)
    BY <1>a, StepMoves, KeepMoves DEF SetExpireTime, Steps
  <1>b. \/ /\ expiresAt' = IF members = {} THEN 0 ELSE clock + window
           /\ check'[r].kept <=> r \in members
           /\ failures' = failures
        \/ /\ expiresAt' = expiresAt /\ check'[r].kept = check[r].kept
           /\ failures < MaxFailures /\ failures' = failures + 1
    BY <1>a, StepMoves, KeepMoves DEF SetExpireTime, Steps, Fails
  <1>2. LimiterTypes'
    <2>1. admitted' \subseteq Requests /\ IsFiniteSet(admitted')
      <3>1. CASE to = "passed"
        <4>1. admitted' = admitted \cup {r}
          BY <1>0, <3>1
        <4> QED BY <4>1, FS_AddElement DEF LimiterInv, LimiterTypes
      <3>2. CASE to # "passed"
        <4>1. admitted' = admitted
          BY <1>0, <3>2
        <4> QED BY <4>1 DEF LimiterInv, LimiterTypes
      <3> QED BY <3>1, <3>2
    <2>2. expiresAt' \in 0 .. MaxTime + window /\ failures' \in 0 .. MaxFailures
      BY <1>b, WindowAssumption DEF LimiterInv, LimiterTypes
    <2> QED BY <1>0, <1>1, <2>1, <2>2 DEF LimiterInv, LimiterTypes, CheckMoved
  <1>3. ASSUME NEW q \in Requests PROVE EntryInv(q)'
    <2>0. EntryInv(q) /\ check[q] \in CheckType /\ check[q].now \in Nat /\ check[q].now <= clock
      BY DEF LimiterInv, LimiterTypes, EntryInv, CheckType
    <2>3. q \in members /\ check[q].kept => expiresAt' >= check[q].now + window
      <3> SUFFICES ASSUME q \in members, check[q].kept PROVE expiresAt' >= check[q].now + window
        OBVIOUS
      <3>1. expiresAt >= check[q].now + window
        BY <2>0 DEF EntryInv
      <3>2. expiresAt' = expiresAt \/ expiresAt' = clock + window
        BY <1>b
      <3> QED BY <1>a, <2>0, <3>1, <3>2
    <2>1. CASE q = r
      <3>1. q \in admitted' => to = "passed"
        <4>1. q \notin admitted
          BY <1>0, <2>0, <2>1 DEF EntryInv
        <4> QED BY <1>0, <2>1, <4>1
      <3>2. check'[r].kept => r \in members /\ r \notin forgotten
        <4>1. ~check[r].kept
          BY <1>0, <2>0, <2>1 DEF EntryInv
        <4> QED BY <1>b, <2>0, <2>1, <4>1 DEF EntryInv
      <3>3. check'[r].kept => expiresAt' = clock + window
        <4>1. ~check[r].kept
          BY <1>0, <2>0, <2>1 DEF EntryInv
        <4> QED BY <1>b, <4>1
      <3>4. check'[q].at = to /\ check'[q].now = check[q].now /\ check'[q].count = check[q].count
        BY <1>1, <2>1 DEF CheckMoved
      <3>5. check'[q].kept => expiresAt' >= check'[q].now + window
        BY <1>a, <2>0, <2>1, <3>3, <3>4
      <3>6. EntryAdded(q)
        BY <1>0, <2>1 DEF EntryAdded
      <3> QED BY <1>0, <1>a, <2>0, <2>1, <3>1, <3>2, <3>4, <3>5, <3>6 DEF EntryInv, InAllow
    <2>2. CASE q # r
      <3>1. check'[q] = check[q] /\ (q \in admitted' <=> q \in admitted)
        BY <1>0, <1>1, <2>2 DEF CheckMoved
      <3> QED BY <1>0, <2>0, <2>3, <3>1 DEF EntryInv, InAllow, EntryAdded
    <2> QED BY <2>1, <2>2
  <1>4. CountsInv'
    <2>1. \A q \in Requests : check'[q].now = check[q].now \/ ~Counted(q)'
      BY <1>1 DEF CheckMoved
    <2>2. \A q \in Requests : Counted(q)' => Counted(q) /\ check'[q].count = check[q].count
      BY <1>0, <1>1 DEF CheckMoved, Counted
    <2> QED BY <1>0, <2>1, <2>2, CountsKept DEF LimiterInv
  <1> QED BY <1>2, <1>3, <1>4 DEF LimiterInv

LEMMA SetExpiresInv ==
  ASSUME LimiterInv, SetExpires PROVE LimiterInv'
  <1>0. /\ clock >= expiresAt
        /\ forgotten' = forgotten \cup { q \in members : check[q].now > clock - window }
        /\ members' = {} /\ expiresAt' = 0
        /\ UNCHANGED << clock, check, admitted, failures >>
    BY DEF SetExpires
  <1>1. LimiterTypes'
    BY <1>0, FS_EmptySet, WindowAssumption DEF LimiterInv, LimiterTypes
  <1>2. ASSUME NEW q \in Requests PROVE EntryInv(q)'
    <2>0. EntryInv(q) /\ check[q].now \in Nat /\ clock \in Nat /\ window \in Nat /\ expiresAt \in Nat
      BY WindowAssumption DEF LimiterInv, LimiterTypes, CheckType
    <2>1. q \in members /\ check[q].kept => ~(check[q].now > clock - window)
      <3> SUFFICES ASSUME q \in members, check[q].kept PROVE ~(check[q].now > clock - window)
        OBVIOUS
      <3>1. expiresAt >= check[q].now + window
        BY <2>0 DEF EntryInv
      <3> QED BY <1>0, <2>0, <3>1
    <2>2. q \in forgotten' => ~check[q].kept /\ check[q].at \notin {"new", "add"}
      BY <1>0, <2>0, <2>1 DEF EntryInv
    <2>3. EntryAdded(q) /\ q \notin forgotten' => ~(check[q].now > clock - window)
      BY <1>0, <2>0 DEF EntryInv
    <2> QED BY <1>0, <2>0, <2>2, <2>3 DEF EntryInv, InAllow, EntryAdded
  <1>3. CountsInv'
    <2>1. forgotten \subseteq forgotten'
      BY <1>0
    <2>2. \A q \in Requests : check'[q].now = check[q].now \/ ~Counted(q)'
      BY <1>0
    <2>3. \A q \in Requests : Counted(q)' => Counted(q) /\ check'[q].count = check[q].count
      BY <1>0 DEF Counted
    <2> QED BY <2>1, <2>2, <2>3, CountsKept DEF LimiterInv
  <1> QED BY <1>1, <1>2, <1>3 DEF LimiterInv

LEMMA TickInv ==
  ASSUME LimiterInv, Tick PROVE LimiterInv'
  <1>0. /\ clock < MaxTime /\ clock' = clock + 1
        /\ \A r \in Requests : InAllow(r) => clock < check[r].now + CheckTime
        /\ UNCHANGED << members, expiresAt, check, admitted, forgotten, failures >>
    BY DEF Tick
  <1>1. LimiterTypes'
    BY <1>0, WindowAssumption DEF LimiterInv, LimiterTypes
  <1>2. ASSUME NEW q \in Requests PROVE EntryInv(q)'
    <2>0. /\ EntryInv(q) /\ check[q].now \in Nat /\ clock \in Nat /\ window \in Nat
          /\ CheckTime \in Nat
      BY WindowAssumption DEF LimiterInv, LimiterTypes, CheckType
    <2>1. check[q].now <= clock' /\ (InAllow(q) => clock' <= check[q].now + CheckTime)
      BY <1>0, <2>0 DEF EntryInv
    <2>2. check[q].now > clock' - window => check[q].now > clock - window
      BY <1>0, <2>0
    <2> QED BY <1>0, <2>0, <2>1, <2>2 DEF EntryInv, InAllow, EntryAdded
  <1>3. CountsInv'
    <2>2. \A q \in Requests : check'[q].now = check[q].now \/ ~Counted(q)'
      BY <1>0
    <2>3. \A q \in Requests : Counted(q)' => Counted(q) /\ check'[q].count = check[q].count
      BY <1>0 DEF Counted
    <2> QED BY <1>0, <2>2, <2>3, CountsKept DEF LimiterInv
  <1> QED BY <1>1, <1>2, <1>3 DEF LimiterInv

LEMMA LimiterStep == LimiterInv /\ [LimiterNext]_limiterVars => LimiterInv'
  <1> SUFFICES ASSUME LimiterInv, [LimiterNext]_limiterVars PROVE LimiterInv'
    OBVIOUS
  <1>1. CASE UNCHANGED limiterVars
    <2>0. UNCHANGED << clock, members, expiresAt, check, admitted, forgotten, failures >>
      BY <1>1 DEF limiterVars
    <2>1. LimiterTypes'
      BY <2>0 DEF LimiterInv, LimiterTypes
    <2>2. \A r \in Requests : EntryInv(r)'
      BY <2>0 DEF LimiterInv, EntryInv, InAllow, EntryAdded
    <2>3. CountsInv'
      BY <2>0, CountsKept DEF LimiterInv, Counted
    <2> QED BY <2>1, <2>2, <2>3 DEF LimiterInv
  <1> QED BY <1>1, AllowInv, ZAddInv, TrimInv, ZCardInv, SetExpireTimeInv, SetExpiresInv, TickInv
          DEF LimiterNext

LEMMA LimiterInvImplies == LimiterInv => LimiterIsSound
  <1> SUFFICES ASSUME LimiterInv PROVE LimiterIsSound
    OBVIOUS
  <1>1. LimiterTypeOK
    BY DEF LimiterInv, LimiterTypes, LimiterTypeOK, CheckType
  <1>2. OnlyTheUnkeptAreForgotten
    BY DEF LimiterInv, LimiterTypes, OnlyTheUnkeptAreForgotten, EntryInv
  <1>3. NeverOverLimit
    <2> SUFFICES ASSUME NEW r \in Requests
                 PROVE  Cardinality({ q \in admitted \ forgotten :
                            check[q].now \in check[r].now - (window - CheckTime) + 1 .. check[r].now })
                          <= limit
      BY DEF NeverOverLimit
    <2> DEFINE S == { q \in admitted \ forgotten :
                        check[q].now \in check[r].now - (window - CheckTime) + 1 .. check[r].now }
    <2>1. S \in SUBSET Requests /\ check[r].now \in 0 .. MaxTime /\ limit \in Nat
      BY WindowAssumption DEF LimiterInv, LimiterTypes, CheckType
    <2>2. ASSUME NEW q \in S PROVE Counted(q) /\ q \notin forgotten /\ check[q].count <= limit
      <3>1. q \in Requests /\ q \in admitted
        BY <2>1
      <3> QED BY <2>2, <3>1 DEF LimiterInv, EntryInv, Counted
    <2>3. Together(S, check[r].now)
      <3>1. ASSUME NEW q \in S
            PROVE  check[r].now - (window - CheckTime) < check[q].now /\ check[q].now <= check[r].now
        BY <2>1, WindowAssumption
      <3> QED BY <2>2, <3>1 DEF Together
    <2>4. CASE S = {}
      <3>1. Cardinality(S) = 0
        BY <2>4, FS_EmptySet
      <3> QED BY <2>1, <3>1
    <2>5. CASE S # {}
      <3>1. IsFiniteSet(S) /\ \E q \in S : Cardinality(S) <= check[q].count
        BY <2>1, <2>3, <2>5 DEF LimiterInv, CountsInv
      <3>2. PICK q \in S : Cardinality(S) <= check[q].count
        BY <3>1
      <3>3. check[q].count \in Nat /\ Cardinality(S) \in Nat
        BY <2>1, <3>1, FS_CardinalityType DEF LimiterInv, LimiterTypes, CheckType
      <3> QED BY <2>1, <2>2, <3>2, <3>3
    <2> QED BY <2>4, <2>5
  <1> QED BY <1>1, <1>2, <1>3 DEF LimiterIsSound


-----------------------------------------------------------------------------
(* Idempotency keys and backends *)

\* Quotient and remainder.
LEMMA DivMod == \A s \in Nat, n \in Nat \ {0} :
   /\ s \div n \in Nat /\ s % n \in 0 .. n - 1
   /\ s = n * (s \div n) + (s % n)
  OBVIOUS

\* A product is at least as large as a factor.
LEMMA Prod == \A n \in Nat \ {0}, d \in Int : (d >= 1 => n * d >= n) /\ (d <= 0 - 1 => n * d <= 0 - n)
  OBVIOUS

\* The remainder of a number is the only one below the divisor.
LEMMA ModOf ==
  ASSUME NEW n \in Nat \ {0}, NEW q \in Nat, NEW t \in 0 .. n - 1
  PROVE  (n * q + t) % n = t
  <1> DEFINE s == n * q + t
  <1>1. s \in Nat
    OBVIOUS
  <1>2. PICK p \in Nat, m \in 0 .. n - 1 : p = s \div n /\ m = s % n /\ s = n * p + m
    BY <1>1, DivMod
  <1>3. n * (p - q) = t - m
    BY <1>2
  <1>4. p - q = 0
    BY <1>3, Prod
  <1> QED BY <1>2, <1>3, <1>4

\* A counter that runs over as many values as the divisor leaves every remainder.
LEMMA ModHits ==
  ASSUME NEW a \in Nat, NEW n \in Nat \ {0}, NEW t \in 0 .. n - 1
  PROVE  \E i \in 0 .. n - 1 : (a + i) % n = t
  <1>1. PICK p \in Nat, m \in 0 .. n - 1 : a = n * p + m
    BY DivMod
  <1>2. CASE m <= t
    <2>1. t - m \in 0 .. n - 1 /\ a + (t - m) = n * p + t
      BY <1>1, <1>2
    <2> QED BY <2>1, <1>1, ModOf
  <1>3. CASE m > t
    <2>1. t - m + n \in 0 .. n - 1 /\ a + (t - m + n) = n * (p + 1) + t
      BY <1>1, <1>3
    <2>2. p + 1 \in Nat /\ (n * (p + 1) + t) % n = t
      BY ModOf
    <2> QED BY <2>1, <2>2
  <1> QED BY <1>1, <1>2, <1>3

\* A request that has the key, or is the reason why it is not to be had again.
Claims(r) == Holding(r) \/ (call[r].at = "over" /\ (call[r].answer = "success" \/ r \in unclosed))

IdemTypes == IdemTypeOK /\ expired \in Seq(Keys)

\* The answer to a request and what the backend does for it at each phase.
CallInv(r) ==
    /\ call[r].at \in {"begin", "proxy", "wait"} => call[r].answer = "none"
    /\ call[r].at = "end" => call[r].answer \in {"success", "failure"}
    /\ work[r] # "none" => call[r].at \in {"wait", "end", "over"}
    /\ work[r] # "none" /\ call[r].at = "over" => call[r].answer \in {"success", "failure"}
    /\ r \in unclosed => call[r].at = "over"

\* A key that never ran out has one claimant ...
ClaimInv ==
    \A q, r \in Calls :
        keyOf[q] = keyOf[r] /\ ~RanOut(keyOf[q]) /\ Claims(q) /\ Claims(r) => q = r

\* ... and is in Redis what its claimant is waiting for or has made of it.
HeldInv ==
    \A r \in Calls :
        ~RanOut(keyOf[r]) /\ Claims(r) =>
            /\ redisKey[keyOf[r]] # "free"
            /\ Holding(r) => redisKey[keyOf[r]] = "locked"
            /\ ~Holding(r) /\ r \notin unclosed => redisKey[keyOf[r]] = "done"

\* A locked key has somebody who locked it, also after it ran out.
LockInv ==
    \A key \in Keys : redisKey[key] = "locked" =>
        \E r \in Calls : keyOf[r] = key /\ (Holding(r) \/ r \in unclosed)

IdemInv == IdemTypes /\ (\A r \in Calls : CallInv(r)) /\ ClaimInv /\ HeldInv /\ LockInv

\* A request moves on, and the others stay.
CallMoves(r, to, answer) ==
    /\ call' \in [Calls -> [at : Phases, answer : Answers]]
    /\ call'[r].at = to /\ call'[r].answer = answer
    /\ \A q \in Calls : q # r => call'[q] = call[q]

LEMMA MoveMoves ==
  ASSUME IdemInv, NEW r \in Calls, NEW to \in Phases, NEW answer \in Answers, Move(r, to, answer)
  PROVE  CallMoves(r, to, answer)
  BY DEF Move, CallMoves, IdemInv, IdemTypes, IdemTypeOK

LEMMA IdemInitInv == IdemInit => IdemInv
  <1> SUFFICES ASSUME IdemInit PROVE IdemInv
    OBVIOUS
  <1> USE DEF IdemInit
  <1>1. IdemTypes
    BY DEF IdemTypes, IdemTypeOK, Phases, Answers
  <1>2. \A r \in Calls : CallInv(r) /\ ~Claims(r)
    BY DEF CallInv, Claims, Holding
  <1>3. LockInv
    BY DEF LockInv
  <1> QED BY <1>1, <1>2, <1>3 DEF IdemInv, ClaimInv, HeldInv

\* A step that leaves the keys alone and takes no claim away or makes one.
LEMMA ClaimsKept ==
  ASSUME IdemInv, UNCHANGED << redisKey, unclosed, expired >>,
         \A q \in Calls : (Claims(q)' <=> Claims(q)) /\ (Holding(q)' <=> Holding(q))
  PROVE  ClaimInv' /\ HeldInv' /\ LockInv'
  <1>1. \A key \in Keys : RanOut(key)' <=> RanOut(key)
    BY DEF RanOut
  <1>2. keyOf \in [Calls -> Keys]
    BY KeysAssumption
  <1> QED BY <1>1, <1>2 DEF IdemInv, ClaimInv, HeldInv, LockInv

\* TryLock succeeds only where nobody has a claim.
LEMMA BeginInv == ASSUME IdemInv, NEW r \in Calls, Begin(r) PROVE IdemInv'
  <1> DEFINE key == keyOf[r]
  <1>0. key \in Keys /\ keyOf \in [Calls -> Keys]
    BY KeysAssumption
  <1>1. CASE TryLock(key) /\ Move(r, "proxy", "none") /\ UNCHANGED unclosed
    <2>1. CallMoves(r, "proxy", "none")
      BY <1>1, MoveMoves DEF Phases, Answers
    <2>2. IdemTypes'
      BY <1>0, <1>1, <2>1 DEF Begin, CallMoves, TryLock, IdemInv, IdemTypes, IdemTypeOK
    <2>3. \A q \in Calls : CallInv(q)'
      BY <1>1, <2>1 DEF Begin, CallMoves, IdemInv, CallInv
    <2>4. \A q \in Calls : keyOf[q] = key /\ ~RanOut(key) => ~Claims(q)
      BY <1>0, <1>1 DEF TryLock, IdemInv, HeldInv
    <2>5. (\A q \in Calls : q # r => (Claims(q)' <=> Claims(q)) /\ (Holding(q)' <=> Holding(q)))
          /\ (\A j \in Keys : RanOut(j)' <=> RanOut(j)) /\ Holding(r)'
      BY <1>1, <2>1 DEF Begin, CallMoves, Claims, Holding, RanOut
    <2>6. ClaimInv'
      BY <1>0, <2>4, <2>5 DEF IdemInv, ClaimInv
    <2>7. redisKey'[key] = "locked" /\ \A j \in Keys : j # key => redisKey'[j] = redisKey[j]
      BY <1>0, <1>1 DEF TryLock, IdemInv, IdemTypes, IdemTypeOK
    <2>8. HeldInv'
      BY <1>0, <1>1, <2>4, <2>5, <2>7 DEF IdemInv, HeldInv
    <2>9. LockInv'
      BY <1>0, <1>1, <2>5, <2>7 DEF IdemInv, LockInv
    <2> QED BY <2>2, <2>3, <2>6, <2>8, <2>9 DEF IdemInv
  <1>2. CASE redisKey[key] # "free" /\ Move(r, "over", "conflict") /\ UNCHANGED << redisKey, unclosed >>
    <2>1. CallMoves(r, "over", "conflict")
      BY <1>2, MoveMoves DEF Phases, Answers
    <2>2. IdemTypes' /\ \A q \in Calls : CallInv(q)'
      BY <1>2, <2>1 DEF Begin, CallMoves, IdemInv, IdemTypes, IdemTypeOK, CallInv
    <2>3. \A q \in Calls : (Claims(q)' <=> Claims(q)) /\ (Holding(q)' <=> Holding(q))
      BY <1>2, <2>1 DEF Begin, CallMoves, Claims, Holding, IdemInv, CallInv
    <2> QED BY <1>2, <2>2, <2>3, ClaimsKept DEF IdemInv, Begin
  <1>3. CASE Move(r, "over", "error") /\ UNCHANGED << redisKey, unclosed >>
    <2>1. CallMoves(r, "over", "error")
      BY <1>3, MoveMoves DEF Phases, Answers
    <2>2. IdemTypes' /\ \A q \in Calls : CallInv(q)'
      BY <1>3, <2>1 DEF Begin, CallMoves, IdemInv, IdemTypes, IdemTypeOK, CallInv
    <2>3. \A q \in Calls : (Claims(q)' <=> Claims(q)) /\ (Holding(q)' <=> Holding(q))
      BY <1>3, <2>1 DEF Begin, CallMoves, Claims, Holding, IdemInv, CallInv
    <2> QED BY <1>3, <2>2, <2>3, ClaimsKept DEF IdemInv, Begin
  <1>4. CASE TryLock(key) /\ Move(r, "over", "error") /\ unclosed' = unclosed \cup {r}
    <2>1. CallMoves(r, "over", "error")
      BY <1>4, MoveMoves DEF Phases, Answers
    <2>2. IdemTypes'
      BY <1>0, <1>4, <2>1 DEF Begin, CallMoves, TryLock, IdemInv, IdemTypes, IdemTypeOK
    <2>3. \A q \in Calls : CallInv(q)'
      BY <1>4, <2>1 DEF Begin, CallMoves, IdemInv, CallInv
    <2>4. \A q \in Calls : keyOf[q] = key /\ ~RanOut(key) => ~Claims(q)
      BY <1>0, <1>4 DEF TryLock, IdemInv, HeldInv
    <2>5. (\A q \in Calls : q # r => (Claims(q)' <=> Claims(q)) /\ (Holding(q)' <=> Holding(q)))
          /\ (\A j \in Keys : RanOut(j)' <=> RanOut(j)) /\ ~Holding(r)' /\ ~Holding(r)
      BY <1>4, <2>1 DEF Begin, CallMoves, Claims, Holding, RanOut
    <2>6. ClaimInv'
      BY <1>0, <2>4, <2>5 DEF IdemInv, ClaimInv
    <2>7. redisKey'[key] = "locked" /\ \A j \in Keys : j # key => redisKey'[j] = redisKey[j]
      BY <1>0, <1>4 DEF TryLock, IdemInv, IdemTypes, IdemTypeOK
    <2>8. HeldInv'
      BY <1>0, <1>4, <2>4, <2>5, <2>7 DEF IdemInv, HeldInv
    <2>9. LockInv'
      BY <1>0, <1>4, <2>5, <2>7 DEF IdemInv, LockInv
    <2> QED BY <2>2, <2>3, <2>6, <2>8, <2>9 DEF IdemInv
  <1> QED BY <1>1, <1>2, <1>3, <1>4 DEF Begin

LEMMA DirectInv == ASSUME IdemInv, NEW r \in Calls, Direct(r) PROVE IdemInv'
  <1>0. call[r].at = "proxy" /\ UNCHANGED << redisKey, gone, unclosed, expired >> /\ nextBackend' \in Nat
    BY DEF Direct, IdemInv, IdemTypes, IdemTypeOK
  <1>1. \/ Move(r, "end", "failure") /\ UNCHANGED work
        \/ Move(r, "wait", "none") /\ work' = [work EXCEPT ![r] = "sent"]
    BY DEF Direct
  <1>2. CASE Move(r, "end", "failure") /\ UNCHANGED work
    <2>1. CallMoves(r, "end", "failure")
      BY <1>2, MoveMoves DEF Phases, Answers
    <2>2. IdemTypes' /\ \A q \in Calls : CallInv(q)'
      BY <1>0, <1>2, <2>1 DEF CallMoves, IdemInv, IdemTypes, IdemTypeOK, CallInv
    <2>3. \A q \in Calls : (Claims(q)' <=> Claims(q)) /\ (Holding(q)' <=> Holding(q))
      BY <1>0, <2>1 DEF CallMoves, Claims, Holding
    <2> QED BY <1>0, <2>2, <2>3, ClaimsKept DEF IdemInv
  <1>3. CASE Move(r, "wait", "none") /\ work' = [work EXCEPT ![r] = "sent"]
    <2>1. CallMoves(r, "wait", "none")
      BY <1>3, MoveMoves DEF Phases, Answers
    <2>2. IdemTypes' /\ \A q \in Calls : CallInv(q)'
      BY <1>0, <1>3, <2>1 DEF CallMoves, IdemInv, IdemTypes, IdemTypeOK, CallInv
    <2>3. \A q \in Calls : (Claims(q)' <=> Claims(q)) /\ (Holding(q)' <=> Holding(q))
      BY <1>0, <2>1 DEF CallMoves, Claims, Holding
    <2> QED BY <1>0, <2>2, <2>3, ClaimsKept DEF IdemInv
  <1> QED BY <1>1, <1>2, <1>3

LEMMA BackendWorksInv == ASSUME IdemInv, NEW r \in Calls, BackendWorks(r) PROVE IdemInv'
  <1>1. IdemTypes' /\ \A q \in Calls : CallInv(q)'
    BY DEF BackendWorks, IdemInv, IdemTypes, IdemTypeOK, CallInv
  <1>2. \A q \in Calls : (Claims(q)' <=> Claims(q)) /\ (Holding(q)' <=> Holding(q))
    BY DEF BackendWorks, Claims, Holding
  <1> QED BY <1>1, <1>2, ClaimsKept DEF IdemInv, BackendWorks

LEMMA AnswerCallInv == ASSUME IdemInv, NEW r \in Calls, Answer(r) PROVE IdemInv'
  <1>1. PICK a \in {"success", "failure"} : Move(r, "end", a)
    BY DEF Answer
  <1>2. CallMoves(r, "end", a)
    BY <1>1, MoveMoves DEF Phases, Answers
  <1>3. IdemTypes' /\ \A q \in Calls : CallInv(q)'
    BY <1>1, <1>2 DEF Answer, CallMoves, IdemInv, IdemTypes, IdemTypeOK, CallInv
  <1>4. \A q \in Calls : (Claims(q)' <=> Claims(q)) /\ (Holding(q)' <=> Holding(q))
    BY <1>1, <1>2 DEF Answer, CallMoves, Claims, Holding
  <1> QED BY <1>3, <1>4, ClaimsKept DEF IdemInv, Answer

LEMMA ClientGoesInv == ASSUME IdemInv, NEW r \in Calls, ClientGoes(r) PROVE IdemInv'
  <1>1. IdemTypes' /\ \A q \in Calls : CallInv(q)'
    BY DEF ClientGoes, IdemInv, IdemTypes, IdemTypeOK, CallInv
  <1>2. \A q \in Calls : (Claims(q)' <=> Claims(q)) /\ (Holding(q)' <=> Holding(q))
    BY DEF ClientGoes, Claims, Holding
  <1> QED BY <1>1, <1>2, ClaimsKept DEF IdemInv, ClientGoes

LEMMA EndCallInv == ASSUME IdemInv, NEW r \in Calls, End(r) PROVE IdemInv'
  <1> DEFINE key == keyOf[r]
  <1>0. key \in Keys /\ keyOf \in [Calls -> Keys] /\ Holding(r) /\ Claims(r)
    BY KeysAssumption DEF End, Holding, Claims
  <1>1. PICK a \in {"success", "failure"} : call[r].answer = a
    BY DEF End, IdemInv, CallInv
  <1>2. CallMoves(r, "over", a)
    BY <1>1, MoveMoves DEF End, Phases, Answers
  <1>3. \A j \in Keys : RanOut(j)' <=> RanOut(j)
    BY DEF End, RanOut
  <1>4. \A q \in Calls : keyOf[q] = key /\ ~RanOut(key) /\ Claims(q) => q = r
    BY <1>0 DEF IdemInv, ClaimInv
  <1>5. CASE unclosed' = unclosed \cup {r} /\ UNCHANGED redisKey
    <2>1. IdemTypes' /\ \A q \in Calls : CallInv(q)'
      BY <1>1, <1>2, <1>5 DEF End, CallMoves, IdemInv, IdemTypes, IdemTypeOK, CallInv
    <2>2. \A q \in Calls : /\ Claims(q)' <=> Claims(q)
                           /\ q # r => (Holding(q)' <=> Holding(q)) /\ (q \in unclosed' <=> q \in unclosed)
      BY <1>0, <1>2, <1>5 DEF CallMoves, Claims, Holding
    <2>3. ~Holding(r)' /\ r \in unclosed'
      BY <1>2, <1>5 DEF CallMoves, Holding
    <2>4. ClaimInv'
      BY <1>0, <1>3, <2>2 DEF IdemInv, ClaimInv
    <2>5. HeldInv'
      BY <1>0, <1>3, <1>5, <2>2, <2>3 DEF IdemInv, HeldInv
    <2>6. LockInv'
      BY <1>0, <1>5, <2>2, <2>3 DEF IdemInv, LockInv
    <2> QED BY <2>1, <2>4, <2>5, <2>6 DEF IdemInv
  <1>6. CASE /\ r \notin gone
             /\ IF call[r].answer = "success" THEN MarkDone(key) ELSE Release(key)
             /\ UNCHANGED unclosed
    <2>1. PICK v \in {"free", "done"} : redisKey' = [redisKey EXCEPT ![key] = v] /\ (v = "done" <=> a = "success")
      BY <1>1, <1>6 DEF MarkDone, Release
    <2>2. IdemTypes' /\ \A q \in Calls : CallInv(q)'
      BY <1>0, <1>1, <1>2, <1>6, <2>1 DEF End, CallMoves, IdemInv, IdemTypes, IdemTypeOK, CallInv
    <2>3. redisKey'[key] = v /\ \A j \in Keys : j # key => redisKey'[j] = redisKey[j]
      BY <1>0, <2>1 DEF IdemInv, IdemTypes, IdemTypeOK
    <2>4. \A q \in Calls : q # r => (Claims(q)' <=> Claims(q)) /\ (Holding(q)' <=> Holding(q))
      BY <1>2, <1>6 DEF CallMoves, Claims, Holding
    <2>5. ~Holding(r)' /\ r \notin unclosed /\ (Claims(r)' <=> a = "success")
      BY <1>2, <1>6 DEF End, CallMoves, Claims, Holding, IdemInv, CallInv
    <2>6. ClaimInv'
      BY <1>0, <1>3, <1>4, <2>4, <2>5 DEF IdemInv, ClaimInv
    <2>7. HeldInv'
      BY <1>0, <1>1, <1>3, <1>4, <1>6, <2>1, <2>3, <2>4, <2>5 DEF IdemInv, HeldInv
    <2>8. LockInv'
      BY <1>0, <1>6, <2>1, <2>3, <2>4, <2>5 DEF IdemInv, LockInv
    <2> QED BY <2>2, <2>6, <2>7, <2>8 DEF IdemInv
  <1> QED BY <1>5, <1>6 DEF End

LEMMA KeyExpiresInv == ASSUME IdemInv, NEW key \in Keys, KeyExpires(key) PROVE IdemInv'
  <1>0. keyOf \in [Calls -> Keys] /\ UNCHANGED << nextBackend, call, gone, work, unclosed >>
    BY KeysAssumption DEF KeyExpires
  <1>1. IdemTypes' /\ \A q \in Calls : CallInv(q)'
    BY <1>0 DEF KeyExpires, IdemInv, IdemTypes, IdemTypeOK, CallInv
  <1>2. RanOut(key)' /\ \A j \in Keys : RanOut(j) => RanOut(j)'
    <2>1. expired \in Seq(Keys) /\ expired' = Append(expired, key)
      BY DEF KeyExpires, IdemInv, IdemTypes
    <2>2. /\ DOMAIN expired = 1 .. Len(expired) /\ DOMAIN expired' = 1 .. Len(expired) + 1
          /\ Len(expired) \in Nat
          /\ expired'[Len(expired) + 1] = key
          /\ \A i \in 1 .. Len(expired) : expired'[i] = expired[i]
      BY <2>1
    <2> QED BY <2>2 DEF RanOut
  <1>3. redisKey'[key] = "free" /\ \A j \in Keys : j # key => redisKey'[j] = redisKey[j]
    BY DEF KeyExpires, IdemInv, IdemTypes, IdemTypeOK
  <1>4. \A q \in Calls : (Claims(q)' <=> Claims(q)) /\ (Holding(q)' <=> Holding(q))
    BY <1>0 DEF Claims, Holding
  <1>5. ClaimInv'
    BY <1>0, <1>2, <1>4 DEF IdemInv, ClaimInv
  <1>6. HeldInv'
    BY <1>0, <1>2, <1>3, <1>4 DEF IdemInv, HeldInv
  <1>7. LockInv'
    BY <1>0, <1>3, <1>4 DEF IdemInv, LockInv
  <1> QED BY <1>1, <1>5, <1>6, <1>7 DEF IdemInv

LEMMA IdemNextInv == IdemInv /\ [IdemNext]_idemVars => IdemInv'
  <1> SUFFICES ASSUME IdemInv, [IdemNext]_idemVars PROVE IdemInv'
    OBVIOUS
  <1>1. CASE UNCHANGED idemVars
    <2>1. UNCHANGED << redisKey, nextBackend, call, gone, work, unclosed, expired >>
      BY <1>1 DEF idemVars
    <2>2. IdemTypes' /\ \A q \in Calls : CallInv(q)'
      BY <2>1 DEF IdemInv, IdemTypes, IdemTypeOK, CallInv
    <2>3. \A q \in Calls : (Claims(q)' <=> Claims(q)) /\ (Holding(q)' <=> Holding(q))
      BY <2>1 DEF Claims, Holding
    <2> QED BY <2>1, <2>2, <2>3, ClaimsKept DEF IdemInv
  <1> QED BY <1>1, BeginInv, DirectInv, BackendWorksInv, AnswerCallInv, ClientGoesInv, EndCallInv, KeyExpiresInv
          DEF IdemNext

\* nextTargetHost names a usable host of the list ...
LEMMA TurnIsUsable ==
  ASSUME NEW services \in Seq(Hosts \cup {NoHost}), NEW s \in Nat,
         NEW x \in nextTargetHost(services, s)
  PROVE  \E i \in DOMAIN services : x = services[i] /\ services[i] # NoHost
  <1> DEFINE n == Len(services)
             From(o) == services[((s + o) % n) + 1]
             Usable == { o \in 0 .. n - 1 : From(o) # NoHost }
             least == CHOOSE o \in Usable : \A i \in Usable : o <= i
  <1>1. n \in Nat /\ DOMAIN services = 1 .. n
    OBVIOUS
  <1>2. Usable # {} /\ x = From(least)
    BY DEF nextTargetHost
  <1>3. Usable \subseteq Nat
    BY <1>1
  <1>4. least \in Usable
    BY <1>2, <1>3, LeastOf
  <1>5. PICK o \in 0 .. n - 1 : o = least /\ From(o) # NoHost
    BY <1>4
  <1>6. n \in Nat \ {0} /\ s + o \in Nat
    BY <1>1
  <1>7. ((s + o) % n) + 1 \in 1 .. n
    <2>1. (s + o) % n \in 0 .. n - 1
      BY <1>6, DivMod
    <2> QED BY <1>6, <2>1
  <1> QED BY <1>1, <1>2, <1>5, <1>7

\* ... and every usable host is named for one of the next values of the counter.
LEMMA TurnComes ==
  ASSUME NEW services \in Seq(Hosts \cup {NoHost}), NEW start \in Nat,
         NEW j \in DOMAIN services, services[j] # NoHost
  PROVE  \E i \in 0 .. Len(services) - 1 : services[j] \in nextTargetHost(services, start + i)
  <1> DEFINE n == Len(services)
             From(s, o) == services[((s + o) % n) + 1]
             Usable(s) == { o \in 0 .. n - 1 : From(s, o) # NoHost }
  <1>1. n \in Nat \ {0} /\ j \in 1 .. n /\ j - 1 \in 0 .. n - 1
    OBVIOUS
  <1>2. PICK i \in 0 .. n - 1 : (start + i) % n = j - 1
    BY <1>1, ModHits
  <1>3. PICK s \in Nat : s = start + i
    BY <1>1
  <1>4. s + 0 = s /\ (s % n) + 1 = j
    BY <1>1, <1>2, <1>3
  <1>5. 0 \in Usable(s) /\ From(s, 0) = services[j]
    BY <1>1, <1>4
  <1>6. Usable(s) \subseteq Nat /\ Usable(s) # {}
    <2>1. \A o \in Usable(s) : o \in Nat
      BY <1>1
    <2> QED BY <1>5, <2>1
  <1>7. (CHOOSE o \in Usable(s) : \A e \in Usable(s) : o <= e) = 0
    <2> DEFINE least == CHOOSE o \in Usable(s) : \A e \in Usable(s) : o <= e
    <2>1. least \in Usable(s) /\ \A e \in Usable(s) : least <= e
      BY <1>6, LeastOf
    <2>2. least \in Nat /\ least <= 0
      BY <1>5, <1>6, <2>1
    <2> QED BY <2>2
  <1>8. nextTargetHost(services, s) = {From(s, 0)}
    BY <1>6, <1>7 DEF nextTargetHost
  <1> QED BY <1>3, <1>5, <1>8

LEMMA TurnsAreTaken ==
  ASSUME NEW services \in Seq(Hosts \cup {NoHost}), NEW start \in Nat
  PROVE  UNION { nextTargetHost(services, start + i) : i \in 0 .. Len(services) - 1 }
           = { services[i] : i \in DOMAIN services } \ {NoHost}
  <1> DEFINE U == UNION { nextTargetHost(services, start + i) : i \in 0 .. Len(services) - 1 }
             V == { services[i] : i \in DOMAIN services } \ {NoHost}
  <1>1. ASSUME NEW x \in U PROVE x \in V
    <2>1. PICK i \in 0 .. Len(services) - 1 : x \in nextTargetHost(services, start + i)
      OBVIOUS
    <2>2. start + i \in Nat
      OBVIOUS
    <2>3. PICK j \in DOMAIN services : x = services[j] /\ services[j] # NoHost
      BY <2>1, <2>2, TurnIsUsable
    <2> QED BY <2>3
  <1>2. ASSUME NEW x \in V PROVE x \in U
    <2>1. PICK j \in DOMAIN services : x = services[j] /\ services[j] # NoHost
      OBVIOUS
    <2>2. \E i \in 0 .. Len(services) - 1 : x \in nextTargetHost(services, start + i)
      BY <2>1, TurnComes
    <2> QED BY <2>2
  <1>3. U = V
    BY <1>1, <1>2
  <1> QED BY <1>3

LEMMA HoldersAtMostOne ==
  ASSUME IdemInv, NEW key \in Keys, ~RanOut(key)
  PROVE  Cardinality({ r \in Calls : keyOf[r] = key /\ Holding(r) }) <= 1
  <1> DEFINE H == { r \in Calls : keyOf[r] = key /\ Holding(r) }
  <1>1. CASE H = {}
    <2>1. Cardinality(H) = 0
      BY <1>1, FS_EmptySet
    <2> QED BY <2>1
  <1>2. CASE H # {}
    <2>1. PICK r \in H : TRUE
      BY <1>2
    <2>2. H = {r}
      BY <2>1 DEF IdemInv, ClaimInv, Claims
    <2>3. Cardinality(H) = 1
      BY <2>2, FS_Singleton
    <2> QED BY <2>3
  <1> QED BY <1>1, <1>2

LEMMA IdemInvImplies == IdemInv => IdempotencyIsSound
  <1> SUFFICES ASSUME IdemInv PROVE IdempotencyIsSound
    OBVIOUS
  <1>0. keyOf \in [Calls -> Keys] /\ ServiceLists \subseteq Seq(Hosts \cup {NoHost})
    BY KeysAssumption
  <1>1. IdemTypeOK
    BY DEF IdemInv, IdemTypes
  <1>2. CarriedOutOnce
    <2> SUFFICES ASSUME NEW q \in Calls, NEW r \in Calls,
                        q # r, keyOf[q] = keyOf[r], work[q] = "did", work[r] = "did",
                        call[q].answer # "failure", call[r].answer # "failure", ~RanOut(keyOf[q])
                 PROVE  FALSE
      BY DEF CarriedOutOnce
    <2>1. Claims(q) /\ Claims(r)
      BY DEF IdemInv, CallInv, Claims, Holding
    <2> QED BY <2>1 DEF IdemInv, ClaimInv
  <1>3. SuccessIsFinal
    BY DEF SuccessIsFinal, IdemInv, HeldInv, Claims, Holding
  <1>4. LockedIsHeld
    <2> SUFFICES ASSUME NEW key \in Keys
                 PROVE  LET holders == { r \in Calls : keyOf[r] = key /\ Holding(r) }
                        IN  /\ RanOut(key) \/ Cardinality(holders) <= 1
                            /\ RanOut(key) \/ holders = {} \/ redisKey[key] = "locked"
                            /\ redisKey[key] = "locked" => holders # {} \/ \E r \in unclosed : keyOf[r] = key
      BY DEF LockedIsHeld
    <2>1. RanOut(key) \/ Cardinality({ r \in Calls : keyOf[r] = key /\ Holding(r) }) <= 1
      BY HoldersAtMostOne
    <2>2. RanOut(key) \/ { r \in Calls : keyOf[r] = key /\ Holding(r) } = {} \/ redisKey[key] = "locked"
      BY DEF IdemInv, HeldInv, Claims
    <2>3. redisKey[key] = "locked" =>
            { r \in Calls : keyOf[r] = key /\ Holding(r) } # {} \/ \E r \in unclosed : keyOf[r] = key
      BY DEF IdemInv, LockInv
    <2> QED BY <2>1, <2>2, <2>3
  <1>5. BackendsTakeTurns
    <2>1. nextBackend \in Nat
      BY <1>1 DEF IdemTypeOK
    <2>2. ASSUME NEW services \in ServiceLists
          PROVE  UNION { nextTargetHost(services, nextBackend + i) : i \in 0 .. Len(services) - 1 }
                   = { services[i] : i \in DOMAIN services } \ {NoHost}
      <3>1. services \in Seq(Hosts \cup {NoHost})
        BY <1>0
      <3> QED BY <2>1, <3>1, TurnsAreTaken
    <2> QED BY <2>2 DEF BackendsTakeTurns
  <1> QED BY <1>1, <1>2, <1>3, <1>4, <1>5 DEF IdempotencyIsSound


-----------------------------------------------------------------------------
(* The HTTP API *)

\* What the forms of the handlers have in common: what is taken from the path is trimmed
\* and checked, and what the tags ask for is asked for by Validate as well.
WellFormed(h) ==
    /\ h.bind \in {"json", "query", "raw", "none"} /\ h.plain \in BOOLEAN
    /\ h.path \subseteq h.request.text /\ h.path \subseteq h.request.checked
    /\ h.request.bound \subseteq h.request.checked
    /\ h.request.checked \subseteq h.request.fields /\ h.request.text \subseteq h.request.fields

\* Handler by handler.
LEMMA AccountPublicRoutesAreWellFormed == \A r \in AccountPublicRoutes : WellFormed(r.handler)
  <1>1. WellFormed(loginHandler)
    BY DEF loginHandler, Handler, LoginRequest, Request, WellFormed, Device
  <1>2. WellFormed(registerHandler)
    BY DEF registerHandler, Handler, RegisterRequest, Request, WellFormed, Device
  <1>3. WellFormed(refreshHandler)
    BY DEF refreshHandler, Handler, RefreshRequest, Request, WellFormed
  <1>4. WellFormed(confirmVerifyEmailHandler)
    BY DEF confirmVerifyEmailHandler, Handler, ConfirmVerifyEmailRequest, Request, WellFormed
  <1>5. WellFormed(loginGoogleHandler)
    BY DEF loginGoogleHandler, Handler, LoginGoogleRequest, Request, WellFormed, NoFields
  <1>6. WellFormed(callbackGoogleHandler)
    BY DEF callbackGoogleHandler, Handler, CallbackGoogleRequest, Request, WellFormed, Device
  <1> QED BY <1>1, <1>2, <1>3, <1>4, <1>5, <1>6 DEF AccountPublicRoutes, Route

LEMMA AccountPrivateRoutesAreWellFormed == \A r \in AccountPrivateRoutes : WellFormed(r.handler)
  <1>1. WellFormed(logoutHandler)
    BY DEF logoutHandler, Handler, LogoutRequest, Request, WellFormed
  <1>2. WellFormed(getProfileHandler)
    BY DEF getProfileHandler, Handler, GetProfileRequest, Request, WellFormed, NoFields
  <1>3. WellFormed(updateProfileHandler)
    BY DEF updateProfileHandler, Handler, UpdateProfileRequest, Request, WellFormed
  <1>4. WellFormed(verifyEmailHandler)
    BY DEF verifyEmailHandler, Handler, VerifyEmailRequest, Request, WellFormed, NoFields
  <1>5. WellFormed(changePasswordHandler)
    BY DEF changePasswordHandler, Handler, ChangePasswordRequest, Request, WellFormed
  <1>6. WellFormed(getAvatarHandler)
    BY DEF getAvatarHandler, Handler, GetAvatarRequest, Request, WellFormed
  <1>7. WellFormed(createPresignedUrlHandler)
    BY DEF createPresignedUrlHandler, Handler, CreatePresignedUrlRequest, Request, WellFormed, NoFields
  <1>8. WellFormed(searchUsersHandler)
    BY DEF searchUsersHandler, Handler, SearchUsersRequest, Request, WellFormed
  <1> QED BY <1>1, <1>2, <1>3, <1>4, <1>5, <1>6, <1>7, <1>8 DEF AccountPrivateRoutes, Route

LEMMA RelationshipPrivateRoutesAreWellFormed == \A r \in RelationshipPrivateRoutes : WellFormed(r.handler)
  <1>1. WellFormed(sendFriendRequestHandler)
    BY DEF sendFriendRequestHandler, Handler, SendFriendRequestRequest, Request, WellFormed
  <1>2. WellFormed(cancelFriendRequestHandler)
    BY DEF cancelFriendRequestHandler, Handler, CancelFriendRequestRequest, Request, WellFormed
  <1>3. WellFormed(acceptFriendRequestHandler)
    BY DEF acceptFriendRequestHandler, Handler, AcceptFriendRequestRequest, Request, WellFormed
  <1>4. WellFormed(rejectFriendRequestHandler)
    BY DEF rejectFriendRequestHandler, Handler, RejectFriendRequestRequest, Request, WellFormed
  <1>5. WellFormed(listIncomingFriendRequestsHandler)
    BY DEF listIncomingFriendRequestsHandler, Handler, ListIncomingFriendRequestsRequest, Request, WellFormed
  <1>6. WellFormed(listOutgoingFriendRequestsHandler)
    BY DEF listOutgoingFriendRequestsHandler, Handler, ListOutgoingFriendRequestsRequest, Request, WellFormed
  <1>7. WellFormed(unfriendUserHandler)
    BY DEF unfriendUserHandler, Handler, UnfriendUserRequest, Request, WellFormed
  <1>8. WellFormed(listFriendsHandler)
    BY DEF listFriendsHandler, Handler, ListFriendsRequest, Request, WellFormed
  <1>9. WellFormed(followUserHandler)
    BY DEF followUserHandler, Handler, FollowUserRequest, Request, WellFormed
  <1>10. WellFormed(unfollowUserHandler)
    BY DEF unfollowUserHandler, Handler, UnfollowUserRequest, Request, WellFormed
  <1>11. WellFormed(listFollowersHandler)
    BY DEF listFollowersHandler, Handler, ListFollowersRequest, Request, WellFormed
  <1>12. WellFormed(listFollowingHandler)
    BY DEF listFollowingHandler, Handler, ListFollowingRequest, Request, WellFormed
  <1>13. WellFormed(blockUserHandler)
    BY DEF blockUserHandler, Handler, BlockUserRequest, Request, WellFormed
  <1>14. WellFormed(unblockUserHandler)
    BY DEF unblockUserHandler, Handler, UnblockUserRequest, Request, WellFormed
  <1>15. WellFormed(listBlockedUsersHandler)
    BY DEF listBlockedUsersHandler, Handler, ListBlockedUsersRequest, Request, WellFormed
  <1>16. WellFormed(getRelationshipStatusHandler)
    BY DEF getRelationshipStatusHandler, Handler, GetRelationshipStatusRequest, Request, WellFormed
  <1>17. WellFormed(getMutualFriendsHandler)
    BY DEF getMutualFriendsHandler, Handler, GetMutualFriendsRequest, Request, WellFormed
  <1>18. WellFormed(getRelationshipSummaryHandler)
    BY DEF getRelationshipSummaryHandler, Handler, GetRelationshipSummaryRequest, Request, WellFormed
  <1> QED BY <1>1, <1>2, <1>3, <1>4, <1>5, <1>6, <1>7, <1>8, <1>9, <1>10, <1>11, <1>12, <1>13, <1>14, <1>15, <1>16, <1>17, <1>18 DEF RelationshipPrivateRoutes, Route

LEMMA RoomPrivateRoutesAreWellFormed == \A r \in RoomPrivateRoutes : WellFormed(r.handler)
  <1>1. WellFormed(createDirectConversationHandler)
    BY DEF createDirectConversationHandler, Handler, CreateDirectConversationRequest, Request, WellFormed
  <1>2. WellFormed(createGroupChatHandler)
    BY DEF createGroupChatHandler, Handler, CreateGroupChatRequest, Request, WellFormed
  <1>3. WellFormed(updateGroupChatHandler)
    BY DEF updateGroupChatHandler, Handler, UpdateGroupChatRequest, Request, WellFormed
  <1>4. WellFormed(listChatConversationsHandler)
    BY DEF listChatConversationsHandler, Handler, ListChatConversationsRequest, Request, WellFormed
  <1>5. WellFormed(getChatConversationHandler)
    BY DEF getChatConversationHandler, Handler, GetChatConversationRequest, Request, WellFormed
  <1>6. WellFormed(getChatConversationMetadataHandler)
    BY DEF getChatConversationMetadataHandler, Handler, GetChatConversationRequest, Request, WellFormed
  <1>7. WellFormed(listChatMessagesHandler)
    BY DEF listChatMessagesHandler, Handler, ListChatMessagesRequest, Request, WellFormed
  <1>8. WellFormed(searchChatMentionsHandler)
    BY DEF searchChatMentionsHandler, Handler, SearchChatMentionsRequest, Request, WellFormed
  <1>9. WellFormed(createChatMessagePresignedURLHandler)
    BY DEF createChatMessagePresignedURLHandler, Handler, CreateChatMessagePresignedURLRequest, Request, WellFormed
  <1>10. WellFormed(getChatMessageMediaHandler)
    BY DEF getChatMessageMediaHandler, Handler, GetChatMessageMediaRequest, Request, WellFormed
  <1>11. WellFormed(sendChatMessageHandler)
    BY DEF sendChatMessageHandler, Handler, SendChatMessageRequest, Request, WellFormed
  <1>12. WellFormed(toggleChatMessageReactionHandler)
    BY DEF toggleChatMessageReactionHandler, Handler, ToggleChatMessageReactionRequest, Request, WellFormed
  <1>13. WellFormed(editChatMessageHandler)
    BY DEF editChatMessageHandler, Handler, EditChatMessageRequest, Request, WellFormed
  <1>14. WellFormed(deleteChatMessageHandler)
    BY DEF deleteChatMessageHandler, Handler, DeleteChatMessageRequest, Request, WellFormed
  <1>15. WellFormed(forwardChatMessageHandler)
    BY DEF forwardChatMessageHandler, Handler, ForwardChatMessageRequest, Request, WellFormed
  <1>16. WellFormed(markChatMessageStatusHandler)
    BY DEF markChatMessageStatusHandler, Handler, MarkChatMessageStatusRequest, Request, WellFormed
  <1>17. WellFormed(addChatMemberHandler)
    BY DEF addChatMemberHandler, Handler, AddChatMemberRequest, Request, WellFormed
  <1>18. WellFormed(removeChatMemberHandler)
    BY DEF removeChatMemberHandler, Handler, RemoveChatMemberRequest, Request, WellFormed
  <1>19. WellFormed(pinChatMessageHandler)
    BY DEF pinChatMessageHandler, Handler, PinChatMessageRequest, Request, WellFormed
  <1>20. WellFormed(getChatPresenceHandler)
    BY DEF getChatPresenceHandler, Handler, GetChatPresenceRequest, Request, WellFormed
  <1> QED BY <1>1, <1>2, <1>3, <1>4, <1>5, <1>6, <1>7, <1>8, <1>9, <1>10, <1>11, <1>12, <1>13, <1>14, <1>15, <1>16, <1>17, <1>18, <1>19, <1>20 DEF RoomPrivateRoutes, Route

LEMMA NotificationPrivateRoutesAreWellFormed == \A r \in NotificationPrivateRoutes : WellFormed(r.handler)
  <1>1. WellFormed(savePushSubscriptionHandler)
    BY DEF savePushSubscriptionHandler, PlainHandler, Handler, SavePushSubscriptionRequest, Request, WellFormed
  <1>2. WellFormed(listNotificationHandler)
    BY DEF listNotificationHandler, PlainHandler, Handler, ListNotificationRequest, Request, WellFormed
  <1>3. WellFormed(markNotificationReadHandler)
    BY DEF markNotificationReadHandler, PlainHandler, Handler, MarkNotificationReadRequest, Request, WellFormed
  <1>4. WellFormed(markAllNotificationsReadHandler)
    BY DEF markAllNotificationsReadHandler, PlainHandler, Handler, MarkAllNotificationsReadRequest, Request, WellFormed, NoFields
  <1>5. WellFormed(getUnreadNotificationCountHandler)
    BY DEF getUnreadNotificationCountHandler, PlainHandler, Handler, GetUnreadNotificationCountRequest, Request, WellFormed, NoFields
  <1> QED BY <1>1, <1>2, <1>3, <1>4, <1>5 DEF NotificationPrivateRoutes, Route

LEMMA PaymentPublicRoutesAreWellFormed == \A r \in PaymentPublicRoutes : WellFormed(r.handler)
  <1>1. WellFormed(processWebhookHandler)
    BY DEF processWebhookHandler, Handler, ProcessWebhookRequest, Request, WellFormed
  <1> QED BY <1>1 DEF PaymentPublicRoutes, Route

LEMMA PaymentPrivateRoutesAreWellFormed == \A r \in PaymentPrivateRoutes : WellFormed(r.handler)
  <1>1. WellFormed(createPaymentHandler)
    BY DEF createPaymentHandler, Handler, CreatePaymentRequest, Request, WellFormed
  <1> QED BY <1>1 DEF PaymentPrivateRoutes, Route

LEMMA LedgerPrivateRoutesAreWellFormed == \A r \in LedgerPrivateRoutes : WellFormed(r.handler)
  <1>1. WellFormed(getAccountBalanceHandler)
    BY DEF getAccountBalanceHandler, Handler, GetAccountBalanceRequest, Request, WellFormed
  <1>2. WellFormed(getTransactionHandler)
    BY DEF getTransactionHandler, Handler, GetTransactionRequest, Request, WellFormed
  <1>3. WellFormed(transferTransactionHandler)
    BY DEF transferTransactionHandler, Handler, TransferTransactionRequest, Request, WellFormed
  <1>4. WellFormed(listTransactionHandler)
    BY DEF listTransactionHandler, Handler, ListTransactionRequest, Request, WellFormed
  <1> QED BY <1>1, <1>2, <1>3, <1>4 DEF LedgerPrivateRoutes, Route

LEMMA RoutesAreWellFormed == \A r \in PublicRoutes \cup PrivateRoutes : WellFormed(r.handler)
  BY AccountPublicRoutesAreWellFormed, AccountPrivateRoutesAreWellFormed,
     RelationshipPrivateRoutesAreWellFormed, RoomPrivateRoutesAreWellFormed,
     NotificationPrivateRoutesAreWellFormed, PaymentPublicRoutesAreWellFormed,
     PaymentPrivateRoutesAreWellFormed, LedgerPrivateRoutesAreWellFormed
  DEF PublicRoutes, PrivateRoutes

\* The two lists of public routes, the core's and the gateway's, route by route.
LEMMA PublicIsWhitelisted == \A r \in PublicRoutes : isWhitelisted(r.path)
  <1>1. \A r \in AccountPublicRoutes : r.path \in publicRouteRules.exact
    BY DEF AccountPublicRoutes, Route, publicRouteRules
  <1>2. \A r \in PaymentPublicRoutes : isWhitelisted(r.path)
    <2> DEFINE rule == << "payment", "webhooks" >>
               path == << "payment", "webhooks", ":provider" >>
    <2>1. Len(rule) = 2 /\ Len(path) = 3
      OBVIOUS
    <2>2. SubSeq(rule, 1, Len(rule)) = SubSeq(path, 1, Len(rule)) /\ rule # path
      OBVIOUS
    <2>3. SX!IsStrictPrefix(rule, path)
      BY <2>1, <2>2 DEF SX!IsStrictPrefix, SX!IsPrefix
    <2> QED BY <2>3 DEF PaymentPublicRoutes, Route, isWhitelisted, publicRouteRules
  <1> QED BY <1>1, <1>2 DEF PublicRoutes, isWhitelisted

\* What the gateway lets through begins with account, auth or payment and then webhooks.
LEMMA WhitelistedBegin ==
  ASSUME NEW path, isWhitelisted(path)
  PROVE  \/ path \in publicRouteRules.exact
         \/ path[1] = "payment" /\ path[2] = "webhooks"
  <1> DEFINE rule == << "payment", "webhooks" >>
  <1> SUFFICES ASSUME SX!IsStrictPrefix(rule, path)
               PROVE  path[1] = "payment" /\ path[2] = "webhooks"
    BY DEF isWhitelisted, publicRouteRules
  <1>1. SubSeq(rule, 1, 2) = SubSeq(path, 1, 2)
    BY DEF SX!IsStrictPrefix, SX!IsPrefix
  <1>2. SubSeq(rule, 1, 2)[1] = "payment" /\ SubSeq(rule, 1, 2)[2] = "webhooks"
    OBVIOUS
  <1>3. SubSeq(path, 1, 2)[1] = path[1] /\ SubSeq(path, 1, 2)[2] = path[2]
    OBVIOUS
  <1> QED BY <1>1, <1>2, <1>3

LEMMA PathsAre ==
  \A r \in PrivateRoutes :
    /\ r.path \notin publicRouteRules.exact
    /\ ~(r.path[1] = "payment" /\ r.path[2] = "webhooks")
  <1>1. ASSUME NEW r \in AccountPrivateRoutes
        PROVE  /\ r.path \notin publicRouteRules.exact
               /\ ~(r.path[1] = "payment" /\ r.path[2] = "webhooks")
    <2>1. r.path \notin publicRouteRules.exact
      BY DEF AccountPrivateRoutes, Route, publicRouteRules
    <2>2. ~(r.path[1] = "payment" /\ r.path[2] = "webhooks")
      BY DEF AccountPrivateRoutes, Route
    <2> QED BY <2>1, <2>2
  <1>2. ASSUME NEW r \in RelationshipPrivateRoutes
        PROVE  /\ r.path \notin publicRouteRules.exact
               /\ ~(r.path[1] = "payment" /\ r.path[2] = "webhooks")
    <2>1. r.path \notin publicRouteRules.exact
      BY DEF RelationshipPrivateRoutes, Route, publicRouteRules
    <2>2. ~(r.path[1] = "payment" /\ r.path[2] = "webhooks")
      BY DEF RelationshipPrivateRoutes, Route
    <2> QED BY <2>1, <2>2
  <1>3. ASSUME NEW r \in RoomPrivateRoutes
        PROVE  /\ r.path \notin publicRouteRules.exact
               /\ ~(r.path[1] = "payment" /\ r.path[2] = "webhooks")
    <2>1. r.path \notin publicRouteRules.exact
      BY DEF RoomPrivateRoutes, Route, publicRouteRules
    <2>2. ~(r.path[1] = "payment" /\ r.path[2] = "webhooks")
      BY DEF RoomPrivateRoutes, Route
    <2> QED BY <2>1, <2>2
  <1>4. ASSUME NEW r \in NotificationPrivateRoutes
        PROVE  /\ r.path \notin publicRouteRules.exact
               /\ ~(r.path[1] = "payment" /\ r.path[2] = "webhooks")
    <2>1. r.path \notin publicRouteRules.exact
      BY DEF NotificationPrivateRoutes, Route, publicRouteRules
    <2>2. ~(r.path[1] = "payment" /\ r.path[2] = "webhooks")
      BY DEF NotificationPrivateRoutes, Route
    <2> QED BY <2>1, <2>2
  <1>5. ASSUME NEW r \in PaymentPrivateRoutes
        PROVE  /\ r.path \notin publicRouteRules.exact
               /\ ~(r.path[1] = "payment" /\ r.path[2] = "webhooks")
    <2>1. r.path \notin publicRouteRules.exact
      BY DEF PaymentPrivateRoutes, Route, publicRouteRules
    <2>2. ~(r.path[1] = "payment" /\ r.path[2] = "webhooks")
      BY DEF PaymentPrivateRoutes, Route
    <2> QED BY <2>1, <2>2
  <1>6. ASSUME NEW r \in LedgerPrivateRoutes
        PROVE  /\ r.path \notin publicRouteRules.exact
               /\ ~(r.path[1] = "payment" /\ r.path[2] = "webhooks")
    <2>1. r.path \notin publicRouteRules.exact
      BY DEF LedgerPrivateRoutes, Route, publicRouteRules
    <2>2. ~(r.path[1] = "payment" /\ r.path[2] = "webhooks")
      BY DEF LedgerPrivateRoutes, Route
    <2> QED BY <2>1, <2>2
  <1> QED BY <1>1, <1>2, <1>3, <1>4, <1>5, <1>6 DEF PrivateRoutes

LEMMA PrivateIsNotWhitelisted == \A r \in PrivateRoutes : ~isWhitelisted(r.path)
  BY PathsAre, WhitelistedBegin

\* What ShouldBind makes of a field, and what Normalize leaves of it.
Value(f) ==
    IF sent[f][2] # "unset" THEN sent[f][2]
    ELSE IF sent[f][1] # "unset" THEN sent[f][1] ELSE "empty"
Trimmed(f) == IF f \in route.handler.request.text /\ Value(f) = "blank" THEN "empty" ELSE Value(f)

\* What a client can have sent.
FieldsInv ==
    LET h == route.handler
    IN  \A f \in h.request.fields :
          /\ sent[f][1] = "blank" => f \in h.request.text
          /\ sent[f][2] = "blank" => f \in h.request.text
          /\ sent[f][2] \in {"unset", "empty", "blank", "body"}
          /\ f \in h.path => sent[f][1] \in {"path", "blank"}

\* A form that passed Validate.
Filled ==
    LET q == route.handler.request
    IN  /\ form = [f \in q.fields |-> Trimmed(f)]
        /\ \A f \in q.checked : Trimmed(f) # "empty"

\* The one answer, and what it says about the request.
Says(x) ==
    /\ answers = << x >>
    /\ x = "unauthorized" => route \in PrivateRoutes
    /\ x = "ok" <=> command = "ok"
    /\ command = "none" /\ x = "internal error" => route.handler.plain

AnswersInv ==
    /\ stage \in {"client", "gateway", "core", "bind", "validate", "dispatch"} =>
          answers = << >> /\ command = "none"
    /\ stage = "return" /\ command # "none" => answers = << >>
    /\ stage = "return" /\ command = "none" =>
          answers = << "bad request" >> \/ (answers = << >> /\ route.handler.plain)
    /\ stage = "answered" =>
          \E x \in {"unauthorized", "bad request", "ok", "refused", "internal error"} : Says(x)

ApiInv ==
    /\ ApiTypeOK
    /\ stage # "client" => route \in PublicRoutes \cup PrivateRoutes /\ FieldsInv
    /\ AnswersInv
    /\ stage \in {"bind", "validate", "dispatch"} \/ command # "none" =>
          (route \in PrivateRoutes => actor /\ token = "access")
    /\ stage = "validate" => form = [f \in route.handler.request.fields |-> Value(f)]
    /\ stage = "dispatch" \/ command # "none" => Filled

LEMMA ApiInitInv == ApiInit => ApiInv
  BY DEF ApiInit, ApiInv, ApiTypeOK, AnswersInv, Says

LEMMA SubmitInv == ASSUME ApiInv, Submit PROVE ApiInv'
  <1>1. /\ stage = "client" /\ stage' = "gateway" /\ route' \in PublicRoutes \cup PrivateRoutes
        /\ token' \in {"none", "forged", "refresh", "access"} /\ outdated' \in BOOLEAN
        /\ UNCHANGED << form, actor, command, answers >>
    BY DEF Submit
  <1>2. PICK h, fs : h = route'.handler /\ fs = h.request.fields
    OBVIOUS
  <1>3. WellFormed(h)
    BY <1>1, <1>2, RoutesAreWellFormed
  <1>4. PICK odd \in SUBSET fs : \E how \in [odd -> ({"path", "header", "blank", "unset"}
                               \X {"unset", "empty", "blank", "body"})] :
              /\ \A f \in odd : how[f] \in Early(h, f) \X Late(h, f)
              /\ sent' = [f \in fs |-> IF f \in odd THEN how[f] ELSE Usual(h, f)]
    BY <1>2 DEF Submit
  <1>5. PICK how \in [odd -> ({"path", "header", "blank", "unset"}
                               \X {"unset", "empty", "blank", "body"})] :
              /\ \A f \in odd : how[f] \in Early(h, f) \X Late(h, f)
              /\ sent' = [f \in fs |-> IF f \in odd THEN how[f] ELSE Usual(h, f)]
    BY <1>4
  <1>6. ASSUME NEW f \in fs
        PROVE  /\ sent'[f][1] = "blank" => f \in h.request.text
               /\ sent'[f][2] = "blank" => f \in h.request.text
               /\ sent'[f][2] \in {"unset", "empty", "blank", "body"}
               /\ f \in h.path => sent'[f][1] \in {"path", "blank"}
    <2>1. CASE f \in odd
      <3>1. sent'[f] = how[f]
        BY <1>5, <2>1
      <3>2. how[f][1] \in Early(h, f) /\ how[f][2] \in Late(h, f)
        BY <1>5, <2>1
      <3>3. how[f][1] = "blank" => f \in h.path
        BY <3>2 DEF Early
      <3>4. f \in h.path => how[f][1] \in {"path", "blank"}
        BY <3>2 DEF Early
      <3>5. how[f][2] = "blank" => f \in h.request.text
        BY <3>2 DEF Late
      <3>6. how[f][2] \in {"unset", "empty", "blank", "body"}
        BY <1>5, <2>1
      <3> QED BY <1>3, <3>1, <3>3, <3>4, <3>5, <3>6 DEF WellFormed
    <2>2. CASE f \notin odd
      BY <1>5, <2>2 DEF Usual
    <2> QED BY <2>1, <2>2
  <1>7. FieldsInv'
    BY <1>2, <1>6 DEF FieldsInv
  <1> QED BY <1>1, <1>7 DEF ApiInv, ApiTypeOK, AnswersInv, Says

LEMMA AuthMiddlewareInv == ASSUME ApiInv, AuthMiddleware PROVE ApiInv'
  <1>0. stage = "gateway" /\ UNCHANGED << route, token, outdated, sent, form, actor, command >>
        /\ answers = << >> /\ command = "none"
    BY DEF AuthMiddleware, ApiInv, AnswersInv
  <1>1. FieldsInv'
    BY <1>0 DEF ApiInv, FieldsInv
  <1>2. CASE stage' = "core" /\ UNCHANGED answers
    BY <1>0, <1>1, <1>2 DEF ApiInv, ApiTypeOK, AnswersInv, Says
  <1>3. CASE /\ ~(isWhitelisted(route.path) \/ token = "access")
             /\ stage' = "answered" /\ answers' = Append(answers, "unauthorized")
    <2>1. answers' = << "unauthorized" >> /\ route' \in PrivateRoutes
      BY <1>0, <1>3, PublicIsWhitelisted DEF ApiInv
    <2> QED BY <1>0, <1>1, <1>3, <2>1 DEF ApiInv, ApiTypeOK, AnswersInv, Says
  <1> QED BY <1>2, <1>3 DEF AuthMiddleware

LEMMA AuthenMiddlewareInv == ASSUME ApiInv, AuthenMiddleware PROVE ApiInv'
  <1>0. stage = "core" /\ UNCHANGED << route, token, outdated, sent, form, command >>
        /\ answers = << >> /\ command = "none"
    BY DEF AuthenMiddleware, ApiInv, AnswersInv
  <1>1. FieldsInv'
    BY <1>0 DEF ApiInv, FieldsInv
  <1>2. CASE route \in PublicRoutes /\ stage' = "bind" /\ UNCHANGED << actor, answers >>
    <2>1. route \notin PrivateRoutes
      BY <1>2, PublicIsWhitelisted, PrivateIsNotWhitelisted
    <2> QED BY <1>0, <1>1, <1>2, <2>1 DEF ApiInv, ApiTypeOK, AnswersInv, Says
  <1>3. CASE ParseAccessToken /\ stage' = "bind" /\ actor' = TRUE /\ UNCHANGED answers
    BY <1>0, <1>1, <1>3 DEF ApiInv, ApiTypeOK, AnswersInv, Says, ParseAccessToken
  <1>4. CASE /\ route \notin PublicRoutes
             /\ stage' = "answered" /\ answers' = Append(answers, "unauthorized") /\ UNCHANGED actor
    <2>1. answers' = << "unauthorized" >> /\ route' \in PrivateRoutes
      BY <1>0, <1>4 DEF ApiInv
    <2> QED BY <1>0, <1>1, <1>4, <2>1 DEF ApiInv, ApiTypeOK, AnswersInv, Says
  <1> QED BY <1>2, <1>3, <1>4 DEF AuthenMiddleware

LEMMA AppendToNone == \A x : Append(<< >>, x) = << x >>
  OBVIOUS

\* Bad input is answered once, or left to Wrap by a plain handler.
LEMMA RejectInv ==
  ASSUME ApiInv, stage \in {"bind", "validate"}, Reject,
         UNCHANGED << route, token, outdated, sent, actor, command >>
  PROVE  ApiInv'
  <1>0. answers = << >> /\ command = "none" /\ stage # "client"
    BY DEF ApiInv, AnswersInv
  <1>1. FieldsInv'
    BY <1>0 DEF ApiInv, FieldsInv
  <1>2. answers' = << "bad request" >> \/ (answers' = << >> /\ route.handler.plain)
    <2>1. CASE route.handler.plain
      BY <1>0, <2>1 DEF Reject
    <2>2. CASE ~route.handler.plain
      <3>1. answers' = Append(<< >>, "bad request")
        BY <1>0, <2>2 DEF Reject
      <3>2. answers' = << "bad request" >>
        BY <3>1, AppendToNone
      <3> QED BY <3>2, Zenon
    <2> QED BY <2>1, <2>2
  <1> QED BY <1>0, <1>1, <1>2 DEF Reject, ApiInv, ApiTypeOK, AnswersInv, Says

LEMMA ShouldBindInv == ASSUME ApiInv, ShouldBind PROVE ApiInv'
  <1>0. /\ stage = "bind" /\ UNCHANGED << route, token, outdated, sent, actor, command >>
        /\ answers = << >> /\ command = "none"
    BY DEF ShouldBind, ApiInv, AnswersInv
  <1>1. FieldsInv'
    BY <1>0 DEF ApiInv, FieldsInv
  <1>2. form' = [f \in route.handler.request.fields |-> Value(f)]
    BY DEF ShouldBind, Value
  <1>3. \A f : Value(f)' = Value(f)
    BY <1>0 DEF Value
  <1>4. CASE stage' = "validate" /\ UNCHANGED answers
    <2>1. (form = [f \in route.handler.request.fields |-> Value(f)])'
      BY <1>0, <1>2, <1>3
    <2> QED BY <1>0, <1>1, <1>4, <2>1 DEF ApiInv, ApiTypeOK, AnswersInv, Says
  <1>5. CASE Reject
    BY <1>0, <1>5, RejectInv
  <1> QED BY <1>4, <1>5 DEF ShouldBind

LEMMA ValidateInv == ASSUME ApiInv, Validate PROVE ApiInv'
  <1>0. /\ stage = "validate" /\ UNCHANGED << route, token, outdated, sent, actor, command >>
        /\ answers = << >> /\ command = "none" /\ route \in PublicRoutes \cup PrivateRoutes
    BY DEF Validate, ApiInv, AnswersInv
  <1>1. FieldsInv'
    BY <1>0 DEF ApiInv, FieldsInv
  <1>2. PICK q : q = route.handler.request
    OBVIOUS
  <1>3. form = [f \in q.fields |-> Value(f)]
    BY <1>0, <1>2 DEF ApiInv
  <1>4. form' = [f \in q.fields |-> Trimmed(f)]
    BY <1>2, <1>3 DEF Validate, Normalize, Trimmed
  <1>5. \A f : Trimmed(f)' = Trimmed(f)
    BY <1>0 DEF Trimmed, Value
  <1>6. CASE (\A f \in q.checked : form'[f] # "empty") /\ stage' = "dispatch" /\ UNCHANGED answers
    <2>1. q.checked \subseteq q.fields
      BY <1>0, <1>2, RoutesAreWellFormed DEF WellFormed
    <2>2. Filled'
      BY <1>0, <1>2, <1>4, <1>5, <1>6, <2>1 DEF Filled
    <2> QED BY <1>0, <1>1, <1>6, <2>2 DEF ApiInv, ApiTypeOK, AnswersInv, Says
  <1>7. CASE Reject
    BY <1>0, <1>7, RejectInv
  <1> QED BY <1>2, <1>6, <1>7 DEF Validate

LEMMA FilledKept == ASSUME Filled, UNCHANGED << route, sent, form >> PROVE Filled'
  <1>1. \A f : Trimmed(f)' = Trimmed(f)
    BY DEF Trimmed, Value
  <1> QED BY <1>1 DEF Filled

LEMMA DispatchInv == ASSUME ApiInv, Dispatch PROVE ApiInv'
  <1>0. /\ stage = "dispatch" /\ UNCHANGED << route, token, outdated, sent, form, actor, answers >>
        /\ answers = << >> /\ Filled
    BY DEF Dispatch, ApiInv, AnswersInv
  <1>1. FieldsInv' /\ Filled'
    BY <1>0, FilledKept DEF ApiInv, FieldsInv
  <1> QED BY <1>0, <1>1 DEF Dispatch, ApiInv, ApiTypeOK, AnswersInv, Says

LEMMA WrapInv == ASSUME ApiInv, Wrap PROVE ApiInv'
  <1>0. /\ stage = "return" /\ stage' = "answered"
        /\ UNCHANGED << route, token, outdated, sent, form, actor, command >>
    BY DEF Wrap
  <1>1. FieldsInv' /\ (command # "none" => Filled')
    BY <1>0, FilledKept DEF ApiInv, FieldsInv
  <1>2. AnswersInv'
    <2>1. CASE answers # << >>
      <3>1. answers' = answers /\ answers = << "bad request" >> /\ command = "none"
        BY <1>0, <2>1 DEF Wrap, ApiInv, AnswersInv
      <3> QED BY <1>0, <3>1 DEF AnswersInv, Says
    <2>2. CASE answers = << >> /\ command = "ok"
      <3>1. answers' = << "ok" >>
        BY <2>2 DEF Wrap
      <3> QED BY <1>0, <2>2, <3>1 DEF AnswersInv, Says
    <2>3. CASE answers = << >> /\ command # "ok"
      <3>1. (answers' = << "refused" >> /\ command = "refused") \/ answers' = << "internal error" >>
        BY <2>3 DEF Wrap
      <3>2. command = "none" => route.handler.plain
        BY <1>0, <2>3 DEF ApiInv, AnswersInv
      <3> QED BY <1>0, <2>3, <3>1, <3>2 DEF AnswersInv, Says
    <2> QED BY <2>1, <2>2, <2>3
  <1> QED BY <1>0, <1>1, <1>2 DEF ApiInv, ApiTypeOK

LEMMA ApiStutter == ASSUME ApiInv, UNCHANGED << stage, route, token, sent, form, actor, command, answers >>,
                           outdated' \in BOOLEAN
                    PROVE  ApiInv'
  <1>1. stage # "client" => FieldsInv'
    BY DEF ApiInv, FieldsInv
  <1>2. stage = "dispatch" \/ command # "none" => Filled'
    BY FilledKept DEF ApiInv
  <1>3. \A f : Value(f)' = Value(f)
    BY DEF Value
  <1>4. stage = "validate" => (form = [f \in route.handler.request.fields |-> Value(f)])'
    BY <1>3 DEF ApiInv
  <1>5. AnswersInv' /\ ApiTypeOK'
    BY DEF ApiInv, ApiTypeOK, AnswersInv, Says
  <1> QED BY <1>1, <1>2, <1>4, <1>5 DEF ApiInv

LEMMA ApiNextInv == ApiInv /\ [ApiNext]_apiVars => ApiInv'
  <1> SUFFICES ASSUME ApiInv, [ApiNext]_apiVars PROVE ApiInv'
    OBVIOUS
  <1>1. CASE UNCHANGED apiVars
    BY <1>1, ApiStutter DEF apiVars, ApiInv, ApiTypeOK
  <1>2. CASE TokenExpires
    BY <1>2, ApiStutter DEF TokenExpires
  <1> QED BY <1>1, <1>2, SubmitInv, AuthMiddlewareInv, AuthenMiddlewareInv, ShouldBindInv, ValidateInv,
             DispatchInv, WrapInv
          DEF ApiNext

LEMMA ApiInvImplies == ApiInv => ApiIsSound
  <1> SUFFICES ASSUME ApiInv PROVE ApiIsSound
    OBVIOUS
  <1>1. ApiTypeOK
    BY DEF ApiInv
  <1>2. stage = "answered" => \E x : Says(x) /\ answers[1] = x /\ Len(answers) = 1
    <2> SUFFICES ASSUME stage = "answered" PROVE \E x : Says(x) /\ answers[1] = x /\ Len(answers) = 1
      OBVIOUS
    <2>1. PICK x : Says(x)
      BY DEF ApiInv, AnswersInv
    <2>2. answers = << x >>
      BY <2>1 DEF Says
    <2>3. answers[1] = x /\ Len(answers) = 1
      BY <2>2
    <2> QED BY <2>1, <2>3
  <1>3. ListsAgree
    <2>1. stage = "answered" /\ answers[1] = "unauthorized" => route \in PrivateRoutes
      BY <1>2 DEF Says
    <2>2. command # "none" /\ route \in PrivateRoutes => actor /\ token = "access"
      BY DEF ApiInv
    <2> QED BY <2>1, <2>2, PublicIsWhitelisted, PrivateIsNotWhitelisted DEF ListsAgree
  <1>4. command # "none" => stage # "client" /\ Filled /\ FieldsInv /\ WellFormed(route.handler)
    BY RoutesAreWellFormed DEF ApiInv, AnswersInv
  <1>5. CommandsGetWholeRequests
    <2> SUFFICES ASSUME command # "none", NEW q, q = route.handler.request
                 PROVE  /\ \A f \in q.bound \cup q.checked : form[f] \notin {"empty", "blank"}
                        /\ \A f \in q.text : form[f] # "blank"
      BY DEF CommandsGetWholeRequests
    <2>1. q.bound \subseteq q.checked /\ q.checked \subseteq q.fields /\ q.text \subseteq q.fields
      BY <1>4 DEF WellFormed
    <2>2. \A f \in q.fields : form[f] = Trimmed(f)
      BY <1>4 DEF Filled
    <2>3. \A f \in q.fields : Trimmed(f) # "blank"
      BY <1>4 DEF Trimmed, Value, FieldsInv
    <2>4. \A f \in q.checked : Trimmed(f) # "empty"
      BY <1>4 DEF Filled
    <2> QED BY <2>1, <2>2, <2>3, <2>4
  <1>6. PathNamesTheTarget
    <2> SUFFICES ASSUME command # "none", NEW f \in route.handler.path
                 PROVE  form[f] = IF sent[f][2] = "body" THEN "body" ELSE "path"
      BY DEF PathNamesTheTarget
    <2>1. PICK q : q = route.handler.request
      OBVIOUS
    <2>2. f \in q.text /\ f \in q.checked /\ f \in q.fields
      BY <1>4, <2>1 DEF WellFormed
    <2>3. form[f] = Trimmed(f) /\ Trimmed(f) # "empty"
      BY <1>4, <2>1, <2>2 DEF Filled
    <2>4. sent[f][2] \in {"unset", "empty", "blank", "body"} /\ sent[f][1] \in {"path", "blank"}
      BY <1>4, <2>1, <2>2 DEF FieldsInv
    <2>5. Trimmed(f) = IF Value(f) = "blank" THEN "empty" ELSE Value(f)
      BY <2>1, <2>2 DEF Trimmed
    <2>6. CASE sent[f][2] = "unset"
      <3>1. Value(f) = sent[f][1]
        BY <2>4, <2>6 DEF Value
      <3> QED BY <2>3, <2>4, <2>5, <2>6, <3>1
    <2>7. CASE sent[f][2] # "unset"
      <3>1. Value(f) = sent[f][2]
        BY <2>7 DEF Value
      <3> QED BY <2>3, <2>4, <2>5, <2>7, <3>1
    <2> QED BY <2>6, <2>7
  <1>7. OneTrueAnswer
    <2>1. Len(answers) = 0 \/ Len(answers) = 1
      <3>1. CASE stage = "answered"
        BY <1>2, <3>1
      <3>2. CASE stage # "answered"
        <4>1. answers = << >> \/ answers = << "bad request" >>
          BY <3>2 DEF ApiInv, ApiTypeOK, AnswersInv
        <4>2. CASE answers = << >>
          BY <4>2
        <4>3. CASE answers = << "bad request" >>
          BY <4>3
        <4> QED BY <4>1, <4>2, <4>3
      <3> QED BY <3>1, <3>2
    <2>2. Len(answers) <= 1
      <3>1. ASSUME NEW n, n = 0 \/ n = 1 PROVE n <= 1
        BY <3>1
      <3> QED BY <2>1, <3>1
    <2>3. stage = "answered" => Len(answers) = 1
      BY <1>2
    <2>4. stage = "answered" => (answers[1] = "ok" <=> command = "ok")
      BY <1>2 DEF Says
    <2>5. stage = "answered" => (command = "none" /\ answers[1] = "internal error" => route.handler.plain)
      BY <1>2 DEF Says
    <2> QED BY <2>2, <2>3, <2>4, <2>5, Zenon DEF OneTrueAnswer
  <1> QED BY <1>1, <1>3, <1>5, <1>6, <1>7 DEF ApiIsSound

-----------------------------------------------------------------------------
(* The parts together *)

MCVars == << vars, busVars, limiterVars, idemVars, migrationVars, lifeVars, apiVars, story >>

\* In every story the other parts stand still.
LEMMA PartsStep ==
  [MCNext]_MCVars => /\ [LimiterNext]_limiterVars /\ [IdemNext]_idemVars /\ [ApiNext]_apiVars
                     /\ [MigrationNext]_migrationVars /\ [LifeNext]_lifeVars
  BY DEF MCNext, MCVars, Tells

\* What stands between a client and a command holds for every number of requests, keys,
\* hosts and window and however the steps of the requests interleave: the sliding window of
\* sliding_window.go lets no more than the limit through, an Idempotency-Key is carried out
\* once unless a failure was reported or the key ran out, the backends take their turns,
\* and a handler dispatches whole requests of the right account only and answers once.
THEOREM GatewayStaysSound == MCSpec => []GatewayIsSound
  <1> DEFINE GInv == LimiterInv /\ IdemInv /\ ApiInv
  <1>1. MCInit => GInv
    BY LimiterInitInv, IdemInitInv, ApiInitInv DEF MCInit
  <1>2. GInv /\ [MCNext]_MCVars => GInv'
    BY PartsStep, LimiterStep, IdemNextInv, ApiNextInv
  <1>3. GInv => GatewayIsSound
    BY LimiterInvImplies, IdemInvImplies, ApiInvImplies DEF GatewayIsSound
  <1> QED BY <1>1, <1>2, <1>3, PTL DEF MCSpec, MCVars

\* However many processes migrate the same databases at once and die at any statement, the
\* versions on record are applied whole and in order; and a process serves, is listed and
\* uses its connections only as the order of start and shutdown in server.go allows.
THEOREM StartupStaysSound == MCSpec => []StartupIsSound
  <1> DEFINE SInv == MigrationInv /\ LifeInv
  <1>1. MCInit => SInv
    BY MigrationInitInv, LifeInitInv DEF MCInit
  <1>2. SInv /\ [MCNext]_MCVars => SInv'
    BY PartsStep, MigrationStepInv, RuntimesStep, ListingStep DEF LifeInv
  <1>3. SInv => StartupIsSound
    BY MigrationInvImplies, LifeInvImplies DEF StartupIsSound
  <1> QED BY <1>1, <1>2, <1>3, PTL DEF MCSpec, MCVars
=============================================================================
