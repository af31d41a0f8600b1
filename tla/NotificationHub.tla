--------------------------- MODULE NotificationHub ---------------------------
(***************************************************************************)
(* The websocket hub of the notification module.  Every account has one      *)
(* room: a connection is registered, joins the room of its account and stays *)
(* until its read pump ends.  A room is fed by one subscription to its Redis *)
(* channel, which is made by the connection that finds none, in the context  *)
(* of the HTTP request that opened that connection; the request ends when    *)
(* the handler returns, and with it the consumer of the subscription.        *)
(*                                                                           *)
(* Every critical section of the hub's mutex is a step.  A subscription that *)
(* was taken out of the hub is out of everyone's reach: closing it belongs   *)
(* to the step that took it out.  Two connections may carry the same client  *)
(* id, a parameter of the URL.  The messages are left out: a client that is  *)
(* in its room hears what a live consumer reads, or loses it to a full       *)
(* channel.                                                                  *)
(***************************************************************************)
EXTENDS Integers, FiniteSets

CONSTANTS Conns,                  \* websocket connections
          Owners, ownerOf,        \* the account of a connection
          ClientIDs,
          Nobody                  \* no connection

ASSUME OwnerAssumption ==
    /\ ownerOf \in [Conns -> Owners]
    /\ Nobody \notin Conns /\ Nobody \notin Owners

VARIABLES
    isClosed,       \* the hub was closed
    clients,        \* client id |-> connection registered
    rooms,          \* account |-> client id |-> connection in its room
    clientRooms,    \* client id |-> rooms it joined, or NoEntry
    subscriptions,  \* account |-> connection whose subscription is registered
    sub,            \* the subscription a connection made, if any
    conn,           \* phase of a connection's handler, then of its read pump
    idOf,           \* its client id
    leaving,        \* rooms Unregister has still to leave
    shut,           \* its websocket was closed
    silenced        \* history: how a room lost its subscription or a client its place

hub == << isClosed, clients, rooms, clientRooms, subscriptions >>
hubVars == << hub, sub, conn, idOf, leaving, shut, silenced >>

Phases == {"new", "join", "subscribe", "receive", "return", "read", "unregister",
           "leave", "gone", "failed"}
SubStates == {"none",        \* not made
              "opening",     \* Redis has not confirmed it
              "live",        \* its consumer runs
              "dead",        \* its consumer has ended, its connection to Redis is open
              "closed"}
NoEntry == {Nobody}
Reasons == {"request ended", "not confirmed", "same id", "hub closed"}

HubInit ==
    /\ isClosed = FALSE
    /\ clients = [i \in ClientIDs |-> Nobody]
    /\ rooms = [a \in Owners |-> [i \in ClientIDs |-> Nobody]]
    /\ clientRooms = [i \in ClientIDs |-> NoEntry]
    /\ subscriptions = [a \in Owners |-> Nobody]
    /\ sub = [c \in Conns |-> "none"]
    /\ conn = [c \in Conns |-> "new"]
    /\ idOf \in [Conns -> ClientIDs]
    /\ leaving = [c \in Conns |-> {}]
    /\ shut = [c \in Conns |-> FALSE]
    /\ silenced = [a \in Owners |-> {}]

-----------------------------------------------------------------------------
IsEmpty(room) == \A i \in ClientIDs : room[i] = Nobody
Silence(a, why) == silenced' = [silenced EXCEPT ![a] = @ \cup {why}]
Phase(c, p) == conn' = [conn EXCEPT ![c] = p]

\* Someone else has, or had, the place of c.
Displaces(c) == \E d \in Conns \ {c} : idOf[d] = idOf[c] /\ conn[d] # "new"

Register(c) ==
    /\ conn[c] = "new"
    /\ clients' = [clients EXCEPT ![idOf[c]] = c]
    /\ clientRooms' = [clientRooms EXCEPT ![idOf[c]] = IF @ = NoEntry THEN {} ELSE @]
    /\ Phase(c, "join")
    /\ UNCHANGED << isClosed, rooms, subscriptions, sub, idOf, leaving, shut, silenced >>

JoinRoom(c) ==
    /\ conn[c] = "join"
    /\ LET i == idOf[c]
           a == ownerOf[c]
       IN  /\ rooms' = [rooms EXCEPT ![a][i] = c]
           /\ clientRooms' = [clientRooms EXCEPT ![i] = (IF @ = NoEntry THEN {} ELSE @) \cup {a}]
           /\ IF Displaces(c) THEN Silence(a, "same id") ELSE UNCHANGED silenced
    /\ Phase(c, "subscribe")
    /\ UNCHANGED << isClosed, clients, subscriptions, sub, idOf, leaving, shut >>

\* subscribeRoom up to the unlock.  A handler that is refused closes the websocket and
\* returns; nobody unregisters the client.
SubscribeRoom(c) ==
    /\ conn[c] = "subscribe"
    /\ LET a == ownerOf[c]
       IN  CASE isClosed ->
                  /\ Phase(c, "failed") /\ shut' = [shut EXCEPT ![c] = TRUE]
                  /\ UNCHANGED << subscriptions, sub >>
             [] ~isClosed /\ subscriptions[a] # Nobody ->
                  Phase(c, "return") /\ UNCHANGED << subscriptions, sub, shut >>
             [] OTHER ->
                  /\ subscriptions' = [subscriptions EXCEPT ![a] = c]
                  /\ sub' = [sub EXCEPT ![c] = "opening"]
                  /\ Phase(c, "receive") /\ UNCHANGED shut
    /\ UNCHANGED << isClosed, clients, rooms, clientRooms, idOf, leaving, silenced >>

\* Redis confirms the subscription and its consumer is started.
Confirmed(c) ==
    /\ conn[c] = "receive" /\ sub[c] = "opening"
    /\ sub' = [sub EXCEPT ![c] = "live"]
    /\ Phase(c, "return")
    /\ UNCHANGED << hub, idOf, leaving, shut, silenced >>

\* It does not: the entry is withdrawn if it is still this one.
NotConfirmed(c) ==
    /\ conn[c] = "receive"
    /\ LET a == ownerOf[c]
       IN  /\ subscriptions' = [subscriptions EXCEPT ![a] = IF @ = c THEN Nobody ELSE @]
           /\ Silence(a, "not confirmed")
    /\ sub' = [sub EXCEPT ![c] = "closed"]
    /\ shut' = [shut EXCEPT ![c] = TRUE]
    /\ Phase(c, "failed")
    /\ UNCHANGED << isClosed, clients, rooms, clientRooms, idOf, leaving >>

\* Handle starts the pumps and returns, which ends the request and its context.
HandleReturns(c) ==
    /\ conn[c] = "return"
    /\ Phase(c, "read")
    /\ UNCHANGED << hub, sub, idOf, leaving, shut, silenced >>

\* The consumer of a subscription whose context has ended notices it.
ConsumerEnds(c) ==
    /\ sub[c] = "live" /\ conn[c] \notin {"receive", "return"}
    /\ sub' = [sub EXCEPT ![c] = "dead"]
    /\ Silence(ownerOf[c], "request ended")
    /\ UNCHANGED << hub, conn, idOf, leaving, shut >>

\* The peer goes away, a ping or a write fails, or the hub has closed the websocket.
ReadFails(c) ==
    /\ conn[c] = "read"
    /\ shut' = [shut EXCEPT ![c] = TRUE]
    /\ Phase(c, "unregister")
    /\ UNCHANGED << hub, sub, idOf, leaving, silenced >>

Unregister(c) ==
    /\ conn[c] = "unregister"
    /\ LET i == idOf[c]
       IN  /\ clients' = [clients EXCEPT ![i] = Nobody]
           /\ leaving' = [leaving EXCEPT ![c] = clientRooms[i] \ NoEntry]
           /\ clientRooms' = [clientRooms EXCEPT ![i] = NoEntry]
    /\ Phase(c, "leave")
    /\ UNCHANGED << isClosed, rooms, subscriptions, sub, idOf, shut, silenced >>

\* Mutant: the subscription is closed but its entry stays.
KeepsEntry(c) ==
    /\ conn[c] = "leave"
    /\ \E a \in leaving[c] :
          LET room == [rooms[a] EXCEPT ![idOf[c]] = Nobody]
          IN  /\ rooms' = [rooms EXCEPT ![a] = room]
              /\ leaving' = [leaving EXCEPT ![c] = @ \ {a}]
              /\ sub' = IF IsEmpty(room) /\ subscriptions[a] # Nobody
                        THEN [sub EXCEPT ![subscriptions[a]] = "closed"] ELSE sub
    /\ UNCHANGED << isClosed, clients, clientRooms, subscriptions, conn, idOf, shut, silenced >>

LeaveRoom(c) ==
    /\ conn[c] = "leave"
    /\ \E a \in leaving[c] :
          LET i == idOf[c]
              room == [rooms[a] EXCEPT ![i] = Nobody]
              s == subscriptions[a]
          IN  /\ rooms' = [rooms EXCEPT ![a] = room]
              /\ clientRooms' = [clientRooms EXCEPT ![i] = IF @ = NoEntry THEN @ ELSE @ \ {a}]
              /\ IF IsEmpty(room)
                 THEN /\ subscriptions' = [subscriptions EXCEPT ![a] = Nobody]
                      /\ sub' = IF s = Nobody THEN sub ELSE [sub EXCEPT ![s] = "closed"]
                 ELSE UNCHANGED << subscriptions, sub >>
              /\ IF Displaces(c) THEN Silence(a, "same id") ELSE UNCHANGED silenced
              /\ leaving' = [leaving EXCEPT ![c] = @ \ {a}]
    /\ UNCHANGED << isClosed, clients, conn, idOf, shut >>

Left(c) ==
    /\ conn[c] = "leave" /\ leaving[c] = {}
    /\ Phase(c, "gone")
    /\ UNCHANGED << hub, sub, idOf, leaving, shut, silenced >>

\* Hub.Close empties the hub, then closes what was in it.
CloseHub ==
    /\ ~isClosed
    /\ isClosed' = TRUE
    /\ clients' = [i \in ClientIDs |-> Nobody]
    /\ rooms' = [a \in Owners |-> [i \in ClientIDs |-> Nobody]]
    /\ clientRooms' = [i \in ClientIDs |-> NoEntry]
    /\ subscriptions' = [a \in Owners |-> Nobody]
    /\ sub' = [c \in Conns |-> IF \E a \in Owners : subscriptions[a] = c THEN "closed" ELSE sub[c]]
    /\ shut' = [c \in Conns |-> shut[c] \/ \E i \in ClientIDs : clients[i] = c]
    /\ silenced' = [a \in Owners |-> silenced[a] \cup {"hub closed"}]
    /\ UNCHANGED << conn, idOf, leaving >>

HubNext ==
    \/ \E c \in Conns :
          \/ Register(c) \/ JoinRoom(c) \/ SubscribeRoom(c) \/ Confirmed(c) \/ NotConfirmed(c)
          \/ HandleReturns(c) \/ ConsumerEnds(c) \/ ReadFails(c)
          \/ Unregister(c) \/ LeaveRoom(c) \/ Left(c)
    \/ CloseHub

HubSpec == HubInit /\ [][HubNext]_hubVars

-----------------------------------------------------------------------------
(* Properties. *)

HubTypeOK ==
    /\ isClosed \in BOOLEAN
    /\ clients \in [ClientIDs -> Conns \cup {Nobody}]
    /\ rooms \in [Owners -> [ClientIDs -> Conns \cup {Nobody}]]
    /\ subscriptions \in [Owners -> Conns \cup {Nobody}]
    /\ sub \in [Conns -> SubStates] /\ conn \in [Conns -> Phases]
    /\ silenced \in [Owners -> SUBSET Reasons]

\* No connection to Redis is left behind: a subscription that is not closed is the one
\* registered for its account, or one whose handler is about to give it up.
NoOrphanSubscription ==
    \A c \in Conns : sub[c] \in {"opening", "live", "dead"} => subscriptions[ownerOf[c]] = c

\* A room without clients has no subscription, unless a client id was used twice.
NobodySubscribesForNobody ==
    \A a \in Owners :
        subscriptions[a] # Nobody /\ IsEmpty(rooms[a]) => "same id" \in silenced[a]

\* A connection that is being read has its place in the room and a subscription is
\* registered for it, unless the id was used twice, another connection's subscription was
\* not confirmed, or the hub was closed.  That subscription has a consumer until the
\* request that made it ends, and never again: a room that was once joined stays silent
\* for everyone who joins it before the last of them has left.
ReadersAreServed ==
    \A c \in Conns : conn[c] \in {"return", "read"} =>
        LET a == ownerOf[c]
        IN  \/ /\ rooms[a][idOf[c]] = c
               /\ subscriptions[a] # Nobody
               /\ sub[subscriptions[a]] = "dead" => "request ended" \in silenced[a]
            \/ silenced[a] \cap {"same id", "not confirmed", "hub closed"} # {}

\* Whoever has left keeps no place in a room, unless a client id was used twice; one whose
\* handler failed keeps it for good.
LeaversAreGone ==
    \A a \in Owners : \A i \in ClientIDs :
        rooms[a][i] # Nobody /\ conn[rooms[a][i]] = "gone" => Displaces(rooms[a][i])

\* Once the hub is closed no subscription is registered, not even by a handler that was
\* on its way.
ClosedIsClosed ==
    isClosed => \A a \in Owners : subscriptions[a] = Nobody

NotificationHubIsSound ==
    /\ HubTypeOK
    /\ NoOrphanSubscription
    /\ NobodySubscribesForNobody
    /\ ReadersAreServed
    /\ LeaversAreGone
    /\ ClosedIsClosed
=============================================================================
