------------------------------ MODULE RoomHub ------------------------------
(***************************************************************************)
(* The websocket hub of one API process.  Connections of clients join and   *)
(* leave rooms; a room with clients is fed by one subscription to the room's *)
(* Redis channel, read by a consumer goroutine that broadcasts each message  *)
(* to the clients of the room.                                               *)
(*                                                                           *)
(* Every critical section of the hub's mutex is one step, and so is every    *)
(* call made outside it.  A connection has two goroutines: the read pump,    *)
(* which runs the handlers one after the other and unregisters the client    *)
(* when it ends (pc), and the write pump (writer).  Two connections may carry *)
(* the same client id (it is a parameter of the URL), as when a client       *)
(* reconnects before its old connection was noticed to be dead.              *)
(*                                                                           *)
(* The messages themselves are left out: what matters here is which clients  *)
(* are in a room and whether a live subscription feeds it.  A send channel   *)
(* that is full, which closes the client, can be met at any time.            *)
(***************************************************************************)
EXTENDS Integers, FiniteSets

CONSTANTS Conns,             \* websocket connections
          ClientIDs,         \* client ids a connection may be opened with
          Users, userOf,     \* the account it belongs to
          Rooms,
          None,              \* no room, no connection
          Subs               \* bound: subscription objects alive at a time

NoSub == 0

ASSUME UserAssumption == userOf \in [Conns -> Users]
ASSUME NoneAssumption == None \notin Rooms \cup Conns
ASSUME SubsAssumption == Subs \subseteq Nat \ {NoSub}

VARIABLES
    idOf,           \* the client id a connection is opened with
    isClosed,       \* the hub was closed
    clients,        \* connections registered, one per client id
    rooms,          \* clients of a room, one per client id; {}: no such room
    clientRooms,    \* rooms of a client id
    subscriptions,  \* the registered subscription of a room
    sub,            \* the subscription objects and their consumers
    pc, target,     \* the read pump's phase and the room it works on
    held,           \* the subscription it has in hand
    ending,         \* the read pump has left its loop
    leaving,        \* rooms Unregister has still to leave
    writer,         \* the write pump runs
    open,           \* Client.Close was not called yet
    online,         \* the presence key of a user; "stale": a deletion of it failed
    silenced        \* history: how a room lost its last subscription

hub == << idOf, isClosed, clients, rooms, clientRooms, subscriptions >>
pump == << pc, target, held, ending, leaving, writer, open >>
vars == << hub, sub, pump, online, silenced >>

Phases == {"new", "announce", "read", "subscribe", "receive", "unsubscribe", "close",
           "unregister", "leave", "withdraw", "gone"}

Free == [of |-> None, owner |-> None, state |-> "free"]

SubStates == {"free",       \* not made, or returned and forgotten by everyone
              "pending",    \* registered, waiting for Redis to confirm
              "consuming",  \* its consumer runs
              "closed",     \* Close was called
              "ended"}      \* its consumer has returned, or never started

\* A Go map keyed by client id holds at most one connection per id.
OnePerId(S) == \A c, d \in S : idOf[c] = idOf[d] => c = d

TypeOK ==
    /\ idOf \in [Conns -> ClientIDs]
    /\ isClosed \in BOOLEAN
    /\ clients \subseteq Conns /\ OnePerId(clients)
    /\ rooms \in [Rooms -> SUBSET Conns] /\ \A r \in Rooms : OnePerId(rooms[r])
    /\ clientRooms \in [ClientIDs -> SUBSET Rooms]
    /\ subscriptions \in [Rooms -> Subs \cup {NoSub}]
    /\ sub \in [Subs -> [of : Rooms \cup {None}, owner : Conns \cup {None}, state : SubStates]]
    /\ pc \in [Conns -> Phases]
    /\ target \in [Conns -> Rooms \cup {None}]
    /\ held \in [Conns -> Subs \cup {NoSub}]
    /\ ending \in [Conns -> BOOLEAN]
    /\ leaving \in [Conns -> SUBSET Rooms]
    /\ writer \in [Conns -> BOOLEAN] /\ open \in [Conns -> BOOLEAN]
    /\ online \in [Users -> {"off", "on", "stale"}]
    /\ silenced \in [Rooms -> {"no", "redis", "owner", "race"}]

Init ==
    /\ idOf \in [Conns -> ClientIDs]
    /\ isClosed = FALSE
    /\ clients = {}
    /\ rooms = [r \in Rooms |-> {}]
    /\ clientRooms = [i \in ClientIDs |-> {}]
    /\ subscriptions = [r \in Rooms |-> NoSub]
    /\ sub = [s \in Subs |-> Free]
    /\ pc = [c \in Conns |-> "new"]
    /\ target = [c \in Conns |-> None]
    /\ held = [c \in Conns |-> NoSub]
    /\ ending = [c \in Conns |-> FALSE]
    /\ leaving = [c \in Conns |-> {}]
    /\ writer = [c \in Conns |-> FALSE]
    /\ open = [c \in Conns |-> TRUE]
    /\ online = [u \in Users |-> "off"]
    /\ silenced = [r \in Rooms |-> "no"]

-----------------------------------------------------------------------------

\* Maps keyed by client id: a connection replaces one that has its id.
Put(S, c) == { d \in S : idOf[d] # idOf[c] } \cup {c}
Without(S, c) == { d \in S : idOf[d] # idOf[c] }
Holds(S, c) == \E d \in S : idOf[d] = idOf[c]

Goto(c, phase) == pc' = [pc EXCEPT ![c] = phase]

\* Back to the loop of the read pump, or to the one of Unregister.
Return(c) == Goto(c, IF ending[c] THEN "leave" ELSE "read")

\* clientCtx is cancelled once one of the two pumps has returned.
ctxDone(c) == pc[c] = "gone" \/ (pc[c] \notin {"new", "announce"} /\ ~writer[c])

SetSub(s, state) == sub' = [sub EXCEPT ![s].state = state]

\* The subscription is over; connection c, which had it in hand, is done with it.
Drop(s, c) ==
    sub' = [sub EXCEPT ![s] = IF \E d \in Conns \ {c} : held[d] = s
                              THEN [@ EXCEPT !.state = "ended"] ELSE Free]

Available == { s \in Subs : sub[s].state = "free" }

Silence(r, why) == silenced' = [silenced EXCEPT ![r] = why]

-----------------------------------------------------------------------------
(* Connections. *)

\* Register: a closed hub closes the client, whose pumps are started anyway.
Register(c) ==
    /\ pc[c] = "new"
    /\ IF isClosed
       THEN /\ open' = [open EXCEPT ![c] = FALSE]
            /\ writer' = [writer EXCEPT ![c] = TRUE]
            /\ Goto(c, "read")
            /\ UNCHANGED clients
       ELSE /\ clients' = Put(clients, c)
            /\ Goto(c, "announce")
            /\ UNCHANGED << open, writer >>
    /\ UNCHANGED << idOf, isClosed, rooms, clientRooms, subscriptions, sub, target, held, ending,
                    leaving, online, silenced >>

\* publishPresence "online" at the end of Register, then the pumps start.
AnnounceOnline(c) ==
    /\ pc[c] = "announce"
    /\ online' = [online EXCEPT ![userOf[c]] = "on"]
    /\ writer' = [writer EXCEPT ![c] = TRUE]
    /\ Goto(c, "read")
    /\ UNCHANGED << hub, sub, target, held, ending, leaving, open, silenced >>

\* The "presence" message a client sends to keep its key from expiring.
RefreshPresence(c) ==
    /\ pc[c] = "read" /\ open[c]
    /\ online' = [online EXCEPT ![userOf[c]] = "on"]
    /\ UNCHANGED << hub, sub, pump, silenced >>

\* The key's TTL runs out.
PresenceExpires(u) ==
    /\ online[u] # "off"
    /\ online' = [online EXCEPT ![u] = "off"]
    /\ UNCHANGED << hub, sub, pump, silenced >>

\* Client.Close by a Send that finds the channel full.
SendOverflows(c) ==
    /\ pc[c] \notin {"new", "gone"} /\ open[c]
    /\ open' = [open EXCEPT ![c] = FALSE]
    /\ UNCHANGED << hub, sub, pc, target, held, ending, leaving, writer, online, silenced >>

\* WritePump returns, on a failed write or because the channel was closed, and
\* closes the client.
WritePumpEnds(c) ==
    /\ writer[c]
    /\ writer' = [writer EXCEPT ![c] = FALSE]
    /\ open' = [open EXCEPT ![c] = FALSE]
    /\ UNCHANGED << hub, sub, pc, target, held, ending, leaving, online, silenced >>

\* ReadPump leaves its loop, the peer being gone or the connection closed.
ReadPumpEnds(c) ==
    /\ pc[c] = "read"
    /\ ending' = [ending EXCEPT ![c] = TRUE]
    /\ Goto(c, "unregister")
    /\ UNCHANGED << hub, sub, target, held, leaving, writer, open, online, silenced >>

\* Unregister, first critical section: it asks whether the id is registered,
\* not whether this connection is.
Unregister(c) ==
    /\ pc[c] = "unregister"
    /\ IF Holds(clients, c)
       THEN /\ clients' = Without(clients, c)
            /\ leaving' = [leaving EXCEPT ![c] = clientRooms[idOf[c]]]
            /\ Goto(c, "leave")
            /\ UNCHANGED open
       ELSE /\ open' = [open EXCEPT ![c] = FALSE]
            /\ Goto(c, "gone")
            /\ UNCHANGED << clients, leaving >>
    /\ UNCHANGED << idOf, isClosed, rooms, clientRooms, subscriptions, sub, target, held, ending,
                    writer, online, silenced >>

\* Unregister, after the rooms were left: the entry of clientRooms goes.
Forget(c) ==
    /\ pc[c] = "leave" /\ leaving[c] = {}
    /\ clientRooms' = [clientRooms EXCEPT ![idOf[c]] = {}]
    /\ Goto(c, "withdraw")
    /\ UNCHANGED << idOf, isClosed, clients, rooms, subscriptions, sub, target, held, ending, leaving,
                    writer, open, online, silenced >>

\* publishPresence "offline" and Client.Close; the read pump returns.  The key
\* is deleted with the context of the connection, which is cancelled if the
\* write pump returned first; the error is ignored.
AnnounceOffline(c) ==
    /\ pc[c] = "withdraw"
    /\ online' = [online EXCEPT ![userOf[c]] =
                    IF ~ctxDone(c) THEN "off" ELSE IF @ = "on" THEN "stale" ELSE @]
    /\ open' = [open EXCEPT ![c] = FALSE]
    /\ Goto(c, "gone")
    /\ UNCHANGED << hub, sub, target, held, ending, leaving, writer, silenced >>

-----------------------------------------------------------------------------
(* Rooms. *)

\* JoinRoom up to the end of its critical section.  On a closed hub it returns
\* an error and nothing changes.
JoinRoom(c, r) ==
    /\ pc[c] = "read" /\ open[c] /\ ~isClosed
    /\ Cardinality({ d \in Conns : pc[d] = "subscribe" }) < Cardinality(Available)
    /\ clients' = IF Holds(clients, c) THEN clients ELSE clients \cup {c}
    /\ rooms' = [rooms EXCEPT ![r] = Put(@, c)]
    /\ clientRooms' = [clientRooms EXCEPT ![idOf[c]] = @ \cup {r}]
    /\ target' = [target EXCEPT ![c] = r]
    /\ Goto(c, "subscribe")
    /\ UNCHANGED << idOf, isClosed, subscriptions, sub, held, ending, leaving, writer, open,
                    online, silenced >>

\* subscribeRoom, its critical section: an existing subscription is enough.
SubscribeRoom(c) ==
    /\ pc[c] = "subscribe"
    /\ IF isClosed \/ subscriptions[target[c]] # NoSub
       THEN /\ Return(c)
            /\ target' = [target EXCEPT ![c] = None]
            /\ UNCHANGED << subscriptions, sub, held, silenced >>
       ELSE \E s \in Subs :
            /\ s \in Available /\ \A t \in Available : s <= t
            /\ sub' = [sub EXCEPT ![s] = [of |-> target[c], owner |-> c, state |-> "pending"]]
            /\ subscriptions' = [subscriptions EXCEPT ![target[c]] = s]
            /\ Silence(target[c], "no")
            /\ held' = [held EXCEPT ![c] = s]
            /\ Goto(c, "receive")
            /\ UNCHANGED target
    /\ UNCHANGED << idOf, isClosed, clients, rooms, clientRooms, ending, leaving, writer, open, online >>

\* removeSubscription: only the subscription it was called for.
removeSubscription(s) ==
    subscriptions' = [subscriptions EXCEPT ![sub[s].of] = IF @ = s THEN NoSub ELSE @]

\* pubsub.Receive: Redis confirms and the consumer starts, or it fails and the
\* subscription goes.  The client stays in the room either way.
Receive(c) ==
    /\ pc[c] = "receive"
    /\ \/ /\ sub[held[c]].state = "pending" /\ ~ctxDone(c)
          /\ SetSub(held[c], "consuming")
          /\ UNCHANGED << subscriptions, silenced >>
       \/ /\ Drop(held[c], c)
          /\ removeSubscription(held[c])
          /\ IF subscriptions[target[c]] = held[c]
             THEN Silence(target[c], "redis")
             ELSE UNCHANGED silenced
    /\ held' = [held EXCEPT ![c] = NoSub]
    /\ target' = [target EXCEPT ![c] = None]
    /\ Return(c)
    /\ UNCHANGED << idOf, isClosed, clients, rooms, clientRooms, ending, leaving, writer, open, online >>

\* Mutant: the last client to leave keeps the subscription.
LeaveOnly(c, r) ==
    /\ \/ pc[c] = "read" /\ open[c]
       \/ pc[c] = "leave" /\ r \in leaving[c]
    /\ rooms' = [rooms EXCEPT ![r] = Without(@, c)]
    /\ clientRooms' = [clientRooms EXCEPT ![idOf[c]] = @ \ {r}]
    /\ leaving' = [leaving EXCEPT ![c] = @ \ {r}]
    /\ UNCHANGED << idOf, isClosed, clients, subscriptions, sub, pc, target, held, ending, writer,
                    open, online, silenced >>

\* Mutant: the leaver unsubscribes the room whether or not others are in it.
LeaveAndUnsubscribe(c, r) ==
    /\ \/ pc[c] = "read" /\ open[c]
       \/ pc[c] = "leave" /\ r \in leaving[c]
    /\ rooms' = [rooms EXCEPT ![r] = Without(@, c)]
    /\ clientRooms' = [clientRooms EXCEPT ![idOf[c]] = @ \ {r}]
    /\ leaving' = [leaving EXCEPT ![c] = @ \ {r}]
    /\ subscriptions' = [subscriptions EXCEPT ![r] = NoSub]
    /\ UNCHANGED << idOf, isClosed, clients, sub, pc, target, held, ending, writer, open,
                    online, silenced >>

\* LeaveRoom's critical section, for the room of a message or the next one
\* Unregister leaves; it unsubscribes afterwards if it saw the room empty.
LeaveRoom(c, r) ==
    /\ \/ pc[c] = "read" /\ open[c]
       \/ pc[c] = "leave" /\ r \in leaving[c]
    /\ rooms' = [rooms EXCEPT ![r] = Without(@, c)]
    /\ clientRooms' = [clientRooms EXCEPT ![idOf[c]] = @ \ {r}]
    /\ leaving' = [leaving EXCEPT ![c] = @ \ {r}]
    /\ IF rooms[r] # {} /\ Without(rooms[r], c) = {}
       THEN Goto(c, "unsubscribe") /\ target' = [target EXCEPT ![c] = r]
       ELSE UNCHANGED << pc, target >>
    /\ UNCHANGED << idOf, isClosed, clients, subscriptions, sub, held, ending, writer, open,
                    online, silenced >>

\* unsubscribeRoom: the subscription the room has by now is detached.
detachSubscription(c) ==
    /\ pc[c] = "unsubscribe"
    /\ subscriptions' = [subscriptions EXCEPT ![target[c]] = NoSub]
    /\ IF subscriptions[target[c]] = NoSub
       THEN /\ Return(c)
            /\ target' = [target EXCEPT ![c] = None]
            /\ UNCHANGED << held, silenced >>
       ELSE /\ held' = [held EXCEPT ![c] = subscriptions[target[c]]]
            /\ IF rooms[target[c]] # {} THEN Silence(target[c], "race") ELSE UNCHANGED silenced
            /\ Goto(c, "close")
            /\ UNCHANGED target
    /\ UNCHANGED << idOf, isClosed, clients, rooms, clientRooms, sub, ending, leaving, writer, open,
                    online >>

\* Mutant: Close waits for a consumer, also for one that has returned already.
CloseWaits(c) ==
    /\ pc[c] = "close" /\ sub[held[c]].state # "ended"
    /\ SetSub(held[c], "closed")
    /\ held' = [held EXCEPT ![c] = NoSub]
    /\ target' = [target EXCEPT ![c] = None]
    /\ Return(c)
    /\ UNCHANGED << hub, ending, leaving, writer, open, online, silenced >>

\* sub.Close after the detachment.
CloseDetached(c) ==
    /\ pc[c] = "close"
    /\ IF sub[held[c]].state = "ended" THEN Drop(held[c], c) ELSE SetSub(held[c], "closed")
    /\ held' = [held EXCEPT ![c] = NoSub]
    /\ target' = [target EXCEPT ![c] = None]
    /\ Return(c)
    /\ UNCHANGED << hub, ending, leaving, writer, open, online, silenced >>

\* consumeRoomMessages returns when its context is cancelled, which is the
\* context of the client that joined first, or when the subscription is closed.
ConsumerEnds(s) ==
    /\ \/ sub[s].state = "consuming" /\ ctxDone(sub[s].owner)
       \/ sub[s].state = "closed" /\ \A c \in Conns : held[c] # s
    /\ Drop(s, None)
    /\ removeSubscription(s)
    /\ IF subscriptions[sub[s].of] = s THEN Silence(sub[s].of, "owner") ELSE UNCHANGED silenced
    /\ UNCHANGED << idOf, isClosed, clients, rooms, clientRooms, pump, online >>

\* Hub.Close: everything is dropped, subscriptions and clients are closed.
Close ==
    /\ ~isClosed
    /\ isClosed' = TRUE
    /\ clients' = {}
    /\ rooms' = [r \in Rooms |-> {}]
    /\ clientRooms' = [i \in ClientIDs |-> {}]
    /\ subscriptions' = [r \in Rooms |-> NoSub]
    /\ sub' = [s \in Subs |->
                 IF \E r \in Rooms : subscriptions[r] = s /\ sub[s].state # "ended"
                 THEN [sub[s] EXCEPT !.state = "closed"] ELSE sub[s]]
    /\ open' = [c \in Conns |-> open[c] /\ c \notin clients]
    /\ UNCHANGED << idOf, pc, target, held, ending, leaving, writer, online, silenced >>

-----------------------------------------------------------------------------

\* Steps of the goroutines that are already under way.
Step(c) ==
    \/ AnnounceOnline(c) \/ Unregister(c) \/ Forget(c) \/ AnnounceOffline(c)
    \/ SubscribeRoom(c) \/ Receive(c) \/ detachSubscription(c) \/ CloseDetached(c)
    \/ \E r \in Rooms : pc[c] = "leave" /\ LeaveRoom(c, r)

\* A pump whose connection was closed, by either side, notices it.
Notice(c) == ~open[c] /\ (ReadPumpEnds(c) \/ WritePumpEnds(c))

Next ==
    \/ \E c \in Conns :
        \/ Register(c) \/ RefreshPresence(c) \/ SendOverflows(c)
        \/ WritePumpEnds(c) \/ ReadPumpEnds(c) \/ Step(c)
        \/ \E r \in Rooms : JoinRoom(c, r) \/ LeaveRoom(c, r)
    \/ \E u \in Users : PresenceExpires(u)
    \/ \E s \in Subs : ConsumerEnds(s)
    \/ Close

\* Goroutines are scheduled; nobody has to publish, join or disconnect.
Fairness == \A c \in Conns : WF_vars(Step(c)) /\ WF_vars(Notice(c))

Spec == Init /\ [][Next]_vars
FairSpec == Spec /\ Fairness

-----------------------------------------------------------------------------
(* Properties. *)

\* The connection's client id is used by no other connection.
Unshared(c) == \A d \in Conns : idOf[d] = idOf[c] => d = c

\* Some read pump is between a critical section about room r and what it does after.
Unsettled(r) == \E c \in Conns : target[c] = r

\* A room with clients is fed by its subscription.  When it is not, and nobody
\* is on the way to subscribe it, its last subscription failed at Redis, died
\* with the connection that had made it, or was taken away by a leaver who saw
\* the room empty before the present clients came.  LeaveRoom in hub.go decides
\* under the mutex and unsubscribes after it.
SilenceIsExplained ==
    \A r \in Rooms :
        rooms[r] # {} /\ subscriptions[r] = NoSub /\ ~Unsettled(r) => silenced[r] # "no"

\* A consumer that still runs is the one the room is registered with, or it is
\* about to stop: its context was cancelled or somebody holds it to close it.
\* No room is fed twice for good, and none by a consumer nobody can reach.
NoOrphanConsumer ==
    \A s \in Subs :
        sub[s].state = "consuming" =>
            \/ subscriptions[sub[s].of] = s
            \/ ctxDone(sub[s].owner)
            \/ \E c \in Conns : pc[c] = "close" /\ held[c] = s

\* A subscription does not outlive its audience: a room without clients has none,
\* unless somebody is at work on it, or the connection that made it shares its
\* client id with one that left in its name.
SubscriptionsHaveAudience ==
    \A r \in Rooms :
        subscriptions[r] # NoSub /\ rooms[r] = {} /\ ~Unsettled(r)
            => ~Unshared(sub[subscriptions[r]].owner)

\* A connection that is gone is in no room: Unregister leaves every room the
\* client had joined, whatever joined or left in between.
NoGhosts ==
    \A c \in Conns : pc[c] = "gone" /\ Unshared(c) => \A r \in Rooms : c \notin rooms[r]

\* A user none of whose connections is left is not shown online, unless the key
\* could not be deleted, the hub was shut down or two of the connections had the
\* same client id.
OfflineIsAnnounced ==
    \A u \in Users :
        LET mine == { c \in Conns : userOf[c] = u }
        IN  ~isClosed /\ (\A c \in mine : pc[c] \in {"new", "gone"} /\ Unshared(c)) => online[u] # "on"

\* Who left is gone from everywhere: from the rooms, from Redis, from the
\* presence keys; and no consumer is left behind.
HubIsSound ==
    TypeOK /\ NoOrphanConsumer /\ SubscriptionsHaveAudience /\ NoGhosts /\ OfflineIsAnnounced

\* A connection whose write pump gave up, or that was closed because its buffer
\* was full, is eventually unregistered: neither pump is left behind.
ClosedConnectionsLeave == \A c \in Conns : ~open[c] ~> pc[c] = "gone" /\ ~writer[c]

=============================================================================
