------------------------------ MODULE LocalBus ------------------------------
(***************************************************************************)
(* The bus inside the process: the command handlers publish what a client  *)
(* should see at once, the websocket handlers of the room and notification  *)
(* modules subscribe and pass it on to their hubs.                          *)
(*                                                                          *)
(* Each subscription is a channel with a bounded queue.  The bus has a      *)
(* lock over its table of subscriptions, held only for a look-up; each      *)
(* subscription has a read-write lock of its own, which a publisher holds   *)
(* for reading while it waits for room in the queue and close takes for     *)
(* writing.  As Go's RWMutex has it, a waiting writer lets no new reader in. *)
(* The application uses the blocking mode, so that mode is modelled.        *)
(***************************************************************************)
EXTENDS Integers, Sequences

CONSTANTS Topics, Publishers, Subs,
          topicOf,       \* the topic of a subscription
          Leaving,       \* the subscriptions whose handler unsubscribes when it is closed
          bufferSize,
          MaxPublished   \* bound: calls of Publish a publisher makes

ASSUME BusAssumption ==
    /\ topicOf \in [Subs -> Topics] /\ Leaving \subseteq Subs
    /\ bufferSize \in Nat \ {0} /\ MaxPublished \in [Publishers -> Nat]

VARIABLES
    busClosed, topics,  \* Bus: the flag and the table of subscriptions
    status, queue,      \* Subscription: none, open or closed; its channel
    got,                \* what the goroutine ranging over the channel has received
    publisher,          \* a call of publish: where it is and whom it has yet to serve
    closing,            \* who waits for a subscription's lock in close
    unsubscribing,      \* Unsubscribe of a subscription: no, removed or done
    closer,             \* the call of Close: idle, closing or done
    closeTodo,          \* the subscriptions Close has yet to close
    returned            \* history: calls of publish that returned nil

busVars == << busClosed, topics, status, queue, got, publisher, closing,
              unsubscribing, closer, closeTodo, returned >>

Idle(n) == [pc |-> "idle", n |-> n, todo |-> {}, at |-> {}, served |-> {}]

BusInit ==
    /\ busClosed = FALSE /\ topics = [t \in Topics |-> {}]
    /\ status = [s \in Subs |-> "none"]
    /\ queue = [s \in Subs |-> << >>] /\ got = [s \in Subs |-> {}]
    /\ publisher = [p \in Publishers |-> Idle(0)]
    /\ closing = [s \in Subs |-> {}]
    /\ unsubscribing = [s \in Subs |-> "no"]
    /\ closer = "idle" /\ closeTodo = {}
    /\ returned = {}

\* The readers of a subscription's lock: publishers waiting for room in its queue.
Holders(s) == { p \in Publishers : publisher[p].at = {s} }

-----------------------------------------------------------------------------

\* Subscribe; on a closed bus the handler gets an error and no subscription.
Subscribe(s) ==
    /\ status[s] = "none" /\ ~busClosed
    /\ status' = [status EXCEPT ![s] = "open"]
    /\ topics' = [topics EXCEPT ![topicOf[s]] = @ \cup {s}]
    /\ UNCHANGED << busClosed, queue, got, publisher, closing, unsubscribing,
                    closer, closeTodo, returned >>

\* publish leaves subscription s behind; after the last one it returns nil.
Advance(p, s, served) ==
    LET call == publisher[p]
        todo == call.todo \ {s}
        all  == call.served \cup served
    IN  IF todo = {}
        THEN /\ publisher' = [publisher EXCEPT ![p] = Idle(call.n)]
             /\ returned' = returned \cup {[msg |-> << p, call.n >>, served |-> all]}
        ELSE /\ publisher' = [publisher EXCEPT ![p] =
                    [@ EXCEPT !.pc = "deliver", !.todo = todo, !.at = {}, !.served = all]]
             /\ UNCHANGED returned

\* publish looks the subscriptions up under the lock of the bus.  It fails on a closed
\* bus and is done at once when there are none.
Publish(p) ==
    /\ publisher[p].pc = "idle" /\ publisher[p].n < MaxPublished[p]
    /\ LET n == publisher[p].n + 1
       IN  \E t \in Topics :
              IF busClosed \/ topics[t] = {}
              THEN publisher' = [publisher EXCEPT ![p] = Idle(n)]
              ELSE publisher' = [publisher EXCEPT ![p] =
                       [Idle(n) EXCEPT !.pc = "deliver", !.todo = topics[t]]]
    /\ UNCHANGED << busClosed, topics, status, queue, got, closing, unsubscribing,
                    closer, closeTodo, returned >>

\* deliver takes the lock for reading; a closed subscription is left out.
Deliver(p) ==
    /\ publisher[p].pc = "deliver"
    /\ \E s \in publisher[p].todo :
          \/ status[s] = "closed" /\ Advance(p, s, {})
          \/ /\ status[s] = "open" /\ closing[s] = {}
             /\ publisher' = [publisher EXCEPT ![p].pc = "send", ![p].at = {s}]
             /\ UNCHANGED returned
    /\ UNCHANGED << busClosed, topics, status, queue, got, closing, unsubscribing,
                    closer, closeTodo >>

\* The channel has room.
Send(p) ==
    /\ publisher[p].pc = "send"
    /\ \E s \in publisher[p].at :
          /\ Len(queue[s]) < bufferSize
          /\ queue' = [queue EXCEPT ![s] = Append(@, << p, publisher[p].n >>)]
          /\ Advance(p, s, {s})
    /\ UNCHANGED << busClosed, topics, status, got, closing, unsubscribing, closer, closeTodo >>

\* The context of the request ends while it waits; the remaining subscriptions get nothing.
GiveUp(p) ==
    /\ publisher[p].pc = "send"
    /\ publisher' = [publisher EXCEPT ![p] = Idle(@.n)]
    /\ UNCHANGED << busClosed, topics, status, queue, got, closing, unsubscribing,
                    closer, closeTodo, returned >>

\* Mutant: the goroutine stops reading when the bus is closed.
ReceiveUnlessClosed(s) ==
    /\ queue[s] # << >> /\ ~busClosed
    /\ got' = [got EXCEPT ![s] = @ \cup {Head(queue[s])}]
    /\ queue' = [queue EXCEPT ![s] = Tail(@)]
    /\ UNCHANGED << busClosed, topics, status, publisher, closing, unsubscribing,
                    closer, closeTodo, returned >>

\* The goroutine NewWSHandler starts ranges over the channel until it is closed and empty.
Receive(s) ==
    /\ queue[s] # << >>
    /\ got' = [got EXCEPT ![s] = @ \cup {Head(queue[s])}]
    /\ queue' = [queue EXCEPT ![s] = Tail(@)]
    /\ UNCHANGED << busClosed, topics, status, publisher, closing, unsubscribing,
                    closer, closeTodo, returned >>

\* Unsubscribe, up to the lock of the subscription.
RemoveSubscription(s) ==
    /\ s \in Leaving /\ status[s] # "none" /\ unsubscribing[s] = "no"
    /\ topics' = [topics EXCEPT ![topicOf[s]] = @ \ {s}]
    /\ unsubscribing' = [unsubscribing EXCEPT ![s] = "removed"]
    /\ closing' = [closing EXCEPT ![s] = @ \cup {"unsubscribe"}]
    /\ UNCHANGED << busClosed, status, queue, got, publisher, closer, closeTodo, returned >>

\* Mutant: close does not wait for the publishers that hold the lock.
CloseSubscriptionAtOnce(s) ==
    /\ \E who \in closing[s] :
          /\ closing' = [closing EXCEPT ![s] = @ \ {who}]
          /\ IF who = "unsubscribe"
             THEN unsubscribing' = [unsubscribing EXCEPT ![s] = "done"] /\ UNCHANGED closeTodo
             ELSE closeTodo' = closeTodo \ {s} /\ UNCHANGED unsubscribing
    /\ status' = [status EXCEPT ![s] = "closed"]
    /\ UNCHANGED << busClosed, topics, queue, got, publisher, closer, returned >>

\* close of a subscription: the first to get the lock closes the channel, the other finds
\* it closed.
CloseSubscription(s) ==
    /\ Holders(s) = {}
    /\ CloseSubscriptionAtOnce(s)

\* Close empties the table of the bus under its lock...
Close ==
    /\ closer = "idle"
    /\ busClosed' = TRUE
    /\ closer' = "closing"
    /\ closeTodo' = UNION { topics[t] : t \in Topics }
    /\ topics' = [t \in Topics |-> {}]
    /\ UNCHANGED << status, queue, got, publisher, closing, unsubscribing, returned >>

\* ... and closes the subscriptions one by one.
CloseNext ==
    /\ closer = "closing"
    /\ \A s \in Subs : "close" \notin closing[s]
    /\ IF closeTodo = {}
       THEN closer' = "done" /\ UNCHANGED closing
       ELSE /\ \E s \in closeTodo : closing' = [closing EXCEPT ![s] = @ \cup {"close"}]
            /\ UNCHANGED closer
    /\ UNCHANGED << busClosed, topics, status, queue, got, publisher, unsubscribing,
                    closeTodo, returned >>

BusNext ==
    \/ \E p \in Publishers : Publish(p) \/ Deliver(p) \/ Send(p) \/ GiveUp(p)
    \/ \E s \in Subs : Subscribe(s) \/ Receive(s) \/ RemoveSubscription(s) \/ CloseSubscription(s)
    \/ Close \/ CloseNext

\* Goroutines run: a call of publish and of close goes on when it can, and the reader of a
\* channel reads.  Nobody has to cancel a context.
PublisherGoesOn(p) == Deliver(p) \/ Send(p)
BusFairness ==
    /\ \A p \in Publishers : WF_busVars(PublisherGoesOn(p))
    /\ \A s \in Subs : WF_busVars(Receive(s)) /\ WF_busVars(CloseSubscription(s))
    /\ WF_busVars(CloseNext)

-----------------------------------------------------------------------------
(* Properties *)

BusTypeOK ==
    /\ busClosed \in BOOLEAN
    /\ topics \in [Topics -> SUBSET Subs]
    /\ status \in [Subs -> {"none", "open", "closed"}]
    /\ \A s \in Subs : Len(queue[s]) <= bufferSize
    /\ closing \in [Subs -> SUBSET {"unsubscribe", "close"}]
    /\ closer \in {"idle", "closing", "done"} /\ closeTodo \subseteq Subs

\* Nobody sends on a closed channel, which would end the process: a publisher in front of
\* a channel keeps it open.
NoSendOnClosed == \A p \in Publishers : \A s \in publisher[p].at : status[s] = "open"

\* A subscription receives the messages of a publisher once each and in their order,
\* however the calls of several publishers interleave.
InOrderOnce ==
    \A s \in Subs : \A i \in DOMAIN queue[s] :
        LET earlier == got[s] \cup { queue[s][j] : j \in 1 .. i - 1 }
        IN  \A m \in earlier : m[1] = queue[s][i][1] => m[2] < queue[s][i][2]

\* What publish said it delivered is in the channel or was read, also when the
\* subscription was closed in the meantime.
ReturnedIsDelivered ==
    \A r \in returned : \A s \in r.served : r.msg \in got[s] \cup { queue[s][i] : i \in DOMAIN queue[s] }

\* Close and Unsubscribe may pass each other, but no channel stays open for which nobody
\* is left to close it, and no closed one is still in the table.
NoChannelIsForgotten ==
    \A s \in Subs :
        /\ s \in topics[topicOf[s]] => status[s] = "open"
        /\ closer = "done" => status[s] # "open" \/ closing[s] # {}

BusIsSound ==
    /\ BusTypeOK
    /\ NoSendOnClosed
    /\ InOrderOnce
    /\ ReturnedIsDelivered
    /\ NoChannelIsForgotten

\* Close returns although publishers wait for full queues under the locks it needs, and
\* what is in the channels by then is read.
BusShutsDown ==
    (closer = "closing") ~> (closer = "done" /\ \A s \in Subs : queue[s] = << >>)
=============================================================================
