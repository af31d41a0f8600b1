-------------------------- MODULE NotificationProofs --------------------------
(***************************************************************************)
(* Proofs about notifications.  First the socket hub, for every number of   *)
(* accounts, connections and client ids: joining, subscribing, leaving and  *)
(* closing in any order, with ids that are used twice and requests that     *)
(* end first.  Then the tables behind it, for every set of accounts, events *)
(* and workers: events that come again and out of order, handlers that fail *)
(* between two writes, requests that read and mark meanwhile.               *)
(***************************************************************************)
EXTENDS Notification, NotificationHub, FiniteSetTheorems, WellFoundedInduction, TLAPS

\* Phases of a connection between JoinRoom and LeaveRoom.
Joined == {"subscribe", "receive", "return", "read", "unregister", "failed"}

\* The rest of the type invariant.
PlacesTypeOK ==
    /\ clientRooms \in [ClientIDs -> (SUBSET Owners) \cup {NoEntry}]
    /\ idOf \in [Conns -> ClientIDs]
    /\ leaving \in [Conns -> SUBSET Owners]
    /\ shut \in [Conns -> BOOLEAN]

\* A subscription is registered for the account of its connection, and the consumer of one
\* that is dead ended with its request.
SubscriptionsInv ==
    /\ \A a \in Owners : subscriptions[a] # Nobody => ownerOf[subscriptions[a]] = a
    /\ \A c \in Conns : sub[c] = "dead" => "request ended" \in silenced[ownerOf[c]]
    /\ \A a \in Owners : "hub closed" \in silenced[a] => isClosed

\* Who has joined has its place, unless it was taken.
PlaceKept(c) ==
    conn[c] \in Joined =>
        \/ rooms[ownerOf[c]][idOf[c]] = c
        \/ "same id" \in silenced[ownerOf[c]]
        \/ "hub closed" \in silenced[ownerOf[c]]

\* Whoever has a place got it by joining, and will find the room it has to leave, unless its
\* id was used twice.
Placed(x, a, i) ==
    /\ idOf[x] = i /\ ownerOf[x] = a
    /\ conn[x] \notin {"new", "join"}
    /\ ~ Displaces(x) =>
          /\ conn[x] \in Joined => a \in clientRooms[i]
          /\ conn[x] = "leave" => a \in leaving[x]
          /\ conn[x] # "gone"
PlaceGiven(a, i) == \A x \in Conns : rooms[a][i] = x => Placed(x, a, i)

PlacesInv ==
    /\ \A c \in Conns : PlaceKept(c)
    /\ \A a \in Owners, i \in ClientIDs : PlaceGiven(a, i)

HubInv ==
    /\ HubTypeOK /\ PlacesTypeOK
    /\ SubscriptionsInv /\ PlacesInv
    /\ NoOrphanSubscription /\ NobodySubscribesForNobody /\ ReadersAreServed /\ ClosedIsClosed

\* LeaveRoom for the room of account a.
LeavesRoom(c, a) ==
    /\ rooms' = [rooms EXCEPT ![a] = [rooms[a] EXCEPT ![idOf[c]] = Nobody]]
    /\ clientRooms' = [clientRooms EXCEPT ![idOf[c]] =
                         IF clientRooms[idOf[c]] = NoEntry THEN NoEntry ELSE clientRooms[idOf[c]] \ {a}]
    /\ IF IsEmpty([rooms[a] EXCEPT ![idOf[c]] = Nobody])
       THEN /\ subscriptions' = [subscriptions EXCEPT ![a] = Nobody]
            /\ sub' = IF subscriptions[a] = Nobody THEN sub
                      ELSE [sub EXCEPT ![subscriptions[a]] = "closed"]
       ELSE UNCHANGED << subscriptions, sub >>
    /\ IF Displaces(c) THEN Silence(a, "same id") ELSE UNCHANGED silenced
    /\ leaving' = [leaving EXCEPT ![c] = leaving[c] \ {a}]

\* The three outcomes of SubscribeRoom.
Refused(c) ==
    /\ isClosed /\ conn' = [conn EXCEPT ![c] = "failed"] /\ shut' = [shut EXCEPT ![c] = TRUE]
    /\ subscriptions' = subscriptions /\ sub' = sub
Follows(c) ==
    /\ subscriptions[ownerOf[c]] # Nobody /\ conn' = [conn EXCEPT ![c] = "return"]
    /\ subscriptions' = subscriptions /\ sub' = sub /\ shut' = shut
Opens(c) ==
    /\ ~isClosed /\ subscriptions[ownerOf[c]] = Nobody
    /\ subscriptions' = [subscriptions EXCEPT ![ownerOf[c]] = c]
    /\ sub' = [sub EXCEPT ![c] = "opening"]
    /\ conn' = [conn EXCEPT ![c] = "receive"] /\ shut' = shut

LEMMA Subscribes ==
  ASSUME NEW c \in Conns, SubscribeRoom(c)
  PROVE  /\ Refused(c) \/ Follows(c) \/ Opens(c)
         /\ conn[c] = "subscribe"
         /\ UNCHANGED << isClosed, clients, rooms, clientRooms, idOf, leaving, silenced >>
  <1>1. CASE isClosed
    BY <1>1, Zenon DEF SubscribeRoom, Refused, Phase
  <1>2. CASE ~isClosed /\ subscriptions[ownerOf[c]] # Nobody
    BY <1>2, Zenon DEF SubscribeRoom, Follows, Phase
  <1>3. CASE ~isClosed /\ subscriptions[ownerOf[c]] = Nobody
    BY <1>3, Zenon DEF SubscribeRoom, Opens, Phase
  <1> QED BY <1>1, <1>2, <1>3, Zenon

\* What Silence writes down.
LEMMA SilenceStep ==
  ASSUME silenced \in [Owners -> SUBSET Reasons], NEW a \in Owners, NEW why \in Reasons,
         Silence(a, why)
  PROVE  /\ silenced' \in [Owners -> SUBSET Reasons]
         /\ why \in silenced'[a]
         /\ \A b \in Owners : silenced[b] \subseteq silenced'[b]
         /\ why # "hub closed" =>
              \A b \in Owners : "hub closed" \in silenced'[b] => "hub closed" \in silenced[b]
  <1>1. silenced' = [silenced EXCEPT ![a] = silenced[a] \cup {why}]
    BY DEF Silence
  <1>2. silenced'[a] = silenced[a] \cup {why}
    BY <1>1
  <1>3. \A b \in Owners : b # a => silenced'[b] = silenced[b]
    BY <1>1
  <1>4. silenced[a] \cup {why} \in SUBSET Reasons
    OBVIOUS
  <1>5. silenced' \in [Owners -> SUBSET Reasons]
    BY <1>1, <1>4
  <1> QED BY <1>2, <1>3, <1>5

LEMMA LeavesARoom ==
  ASSUME PlacesTypeOK, NEW c \in Conns, LeaveRoom(c)
  PROVE  \E a \in leaving[c] : a \in Owners /\ LeavesRoom(c, a)
  <1>1. leaving[c] \in SUBSET Owners /\ idOf[c] \in ClientIDs
    BY DEF PlacesTypeOK
  <1>2. clientRooms \in [ClientIDs -> (SUBSET Owners) \cup {NoEntry}] /\ leaving \in [Conns -> SUBSET Owners]
    BY DEF PlacesTypeOK
  <1> QED BY <1>1, <1>2 DEF LeaveRoom, LeavesRoom

LEMMA HubTypeStep == HubTypeOK /\ PlacesTypeOK /\ [HubNext]_hubVars => HubTypeOK' /\ PlacesTypeOK'
  <1> SUFFICES ASSUME HubTypeOK, PlacesTypeOK, [HubNext]_hubVars PROVE HubTypeOK' /\ PlacesTypeOK'
    OBVIOUS
  <1> USE OwnerAssumption DEF HubTypeOK, PlacesTypeOK, Phase, Phases, SubStates, Reasons, hub
  <1>1. CASE UNCHANGED hubVars
    BY <1>1 DEF hubVars
  <1>2. ASSUME NEW c \in Conns, Register(c) PROVE HubTypeOK' /\ PlacesTypeOK'
    BY <1>2 DEF Register
  <1>3. ASSUME NEW c \in Conns, JoinRoom(c) PROVE HubTypeOK' /\ PlacesTypeOK'
    <2>1. ownerOf[c] \in Owners /\ idOf[c] \in ClientIDs
      OBVIOUS
    <2>2. rooms' \in [Owners -> [ClientIDs -> Conns \cup {Nobody}]]
      BY <1>3, <2>1 DEF JoinRoom
    <2>3. clientRooms' \in [ClientIDs -> (SUBSET Owners) \cup {NoEntry}]
      <3>1. clientRooms[idOf[c]] = NoEntry \/ clientRooms[idOf[c]] \in SUBSET Owners
        BY <2>1
      <3>2. PICK R \in SUBSET Owners :
                R = (IF clientRooms[idOf[c]] = NoEntry THEN {} ELSE clientRooms[idOf[c]]) \cup {ownerOf[c]}
        BY <3>1, <2>1
      <3>3. clientRooms' = [clientRooms EXCEPT ![idOf[c]] = R]
        BY <1>3, <2>1, <3>2 DEF JoinRoom
      <3> QED BY <2>1, <3>3
    <2>4. silenced' \in [Owners -> SUBSET Reasons]
      <3>1. Silence(ownerOf[c], "same id") \/ UNCHANGED silenced
        BY <1>3 DEF JoinRoom
      <3> QED BY <2>1, <3>1, SilenceStep
    <2> QED BY <1>3, <2>2, <2>3, <2>4 DEF JoinRoom
  <1>4. ASSUME NEW c \in Conns, SubscribeRoom(c) PROVE HubTypeOK' /\ PlacesTypeOK'
    <2>1. /\ Refused(c) \/ Follows(c) \/ Opens(c)
          /\ UNCHANGED << isClosed, clients, rooms, clientRooms, idOf, leaving, silenced >>
      BY <1>4, Subscribes
    <2>2. CASE Refused(c)
      BY <2>1, <2>2 DEF Refused
    <2>3. CASE Follows(c)
      BY <2>1, <2>3 DEF Follows
    <2>4. CASE Opens(c)
      BY <2>1, <2>4 DEF Opens
    <2> QED BY <2>1, <2>2, <2>3, <2>4
  <1>5. ASSUME NEW c \in Conns, Confirmed(c) PROVE HubTypeOK' /\ PlacesTypeOK'
    BY <1>5 DEF Confirmed
  <1>6. ASSUME NEW c \in Conns, NotConfirmed(c) PROVE HubTypeOK' /\ PlacesTypeOK'
    BY <1>6 DEF NotConfirmed, Silence
  <1>7. ASSUME NEW c \in Conns, HandleReturns(c) PROVE HubTypeOK' /\ PlacesTypeOK'
    BY <1>7 DEF HandleReturns
  <1>8. ASSUME NEW c \in Conns, ConsumerEnds(c) PROVE HubTypeOK' /\ PlacesTypeOK'
    BY <1>8 DEF ConsumerEnds, Silence
  <1>9. ASSUME NEW c \in Conns, ReadFails(c) PROVE HubTypeOK' /\ PlacesTypeOK'
    BY <1>9 DEF ReadFails
  <1>10. ASSUME NEW c \in Conns, Unregister(c) PROVE HubTypeOK' /\ PlacesTypeOK'
    <2>1. idOf[c] \in ClientIDs
      OBVIOUS
    <2>2. clientRooms[idOf[c]] \ NoEntry \in SUBSET Owners
      BY <2>1 DEF NoEntry
    <2> QED BY <1>10, <2>1, <2>2 DEF Unregister
  <1>11. ASSUME NEW c \in Conns, LeaveRoom(c) PROVE HubTypeOK' /\ PlacesTypeOK'
    <2>1. PICK a \in leaving[c] : a \in Owners /\ LeavesRoom(c, a)
      BY <1>11, LeavesARoom
    <2>2. a \in Owners /\ idOf[c] \in ClientIDs
      BY <2>1
    <2>3. rooms' \in [Owners -> [ClientIDs -> Conns \cup {Nobody}]]
      BY <2>1, <2>2 DEF LeavesRoom
    <2>4. clientRooms' \in [ClientIDs -> (SUBSET Owners) \cup {NoEntry}]
      <3>1. clientRooms[idOf[c]] = NoEntry \/ clientRooms[idOf[c]] \in SUBSET Owners
        BY <2>2
      <3>2. (IF clientRooms[idOf[c]] = NoEntry THEN NoEntry ELSE clientRooms[idOf[c]] \ {a})
              \in (SUBSET Owners) \cup {NoEntry}
        BY <3>1
      <3> QED BY <2>1, <2>2, <3>2 DEF LeavesRoom
    <2>5. silenced' \in [Owners -> SUBSET Reasons]
      <3>1. Silence(a, "same id") \/ UNCHANGED silenced
        BY <2>1 DEF LeavesRoom
      <3> QED BY <2>2, <3>1, SilenceStep
    <2>6. subscriptions' \in [Owners -> Conns \cup {Nobody}] /\ sub' \in [Conns -> SubStates]
      BY <2>1, <2>2 DEF LeavesRoom
    <2>7. leaving' \in [Conns -> SUBSET Owners]
      BY <2>1 DEF LeavesRoom
    <2> QED BY <1>11, <2>3, <2>4, <2>5, <2>6, <2>7 DEF LeaveRoom
  <1>12. ASSUME NEW c \in Conns, Left(c) PROVE HubTypeOK' /\ PlacesTypeOK'
    BY <1>12 DEF Left
  <1>13. CASE CloseHub
    <2>1. shut' \in [Conns -> BOOLEAN]
      BY <1>13, Zenon DEF CloseHub
    <2>2. /\ isClosed' \in BOOLEAN
          /\ clients' \in [ClientIDs -> Conns \cup {Nobody}]
          /\ rooms' \in [Owners -> [ClientIDs -> Conns \cup {Nobody}]]
          /\ subscriptions' \in [Owners -> Conns \cup {Nobody}]
          /\ sub' \in [Conns -> SubStates] /\ conn' \in [Conns -> Phases]
          /\ silenced' \in [Owners -> SUBSET Reasons]
          /\ clientRooms' \in [ClientIDs -> (SUBSET Owners) \cup {NoEntry}]
      BY <1>13 DEF CloseHub
    <2> QED BY <1>13, <2>1, <2>2 DEF CloseHub
  <1> QED BY <1>1, <1>2, <1>3, <1>4, <1>5, <1>6, <1>7, <1>8, <1>9, <1>10, <1>11, <1>12, <1>13
          DEF HubNext

\* What every step keeps: the ids, the reasons given so far, and that a connection was made.
Grows ==
    /\ idOf' = idOf
    /\ \A a \in Owners : silenced[a] \subseteq silenced'[a]
    /\ \A c \in Conns : conn[c] # "new" => conn'[c] # "new"

LEMMA HubGrows ==
  ASSUME HubTypeOK, PlacesTypeOK, HubNext PROVE Grows
  <1> USE OwnerAssumption DEF HubTypeOK, PlacesTypeOK, Phase, hub, Grows
  <1>2. ASSUME NEW c \in Conns, Register(c) PROVE Grows
    BY <1>2 DEF Register
  <1>3. ASSUME NEW c \in Conns, JoinRoom(c) PROVE Grows
    <2>1. Silence(ownerOf[c], "same id") \/ UNCHANGED silenced
      BY <1>3 DEF JoinRoom
    <2>2. ownerOf[c] \in Owners /\ "same id" \in Reasons
      BY DEF Reasons
    <2>3. \A a \in Owners : silenced[a] \subseteq silenced'[a]
      BY <2>1, <2>2, SilenceStep
    <2> QED BY <1>3, <2>3 DEF JoinRoom
  <1>4. ASSUME NEW c \in Conns, SubscribeRoom(c) PROVE Grows
    BY <1>4, Subscribes DEF Refused, Follows, Opens
  <1>5. ASSUME NEW c \in Conns, Confirmed(c) PROVE Grows
    BY <1>5 DEF Confirmed
  <1>6. ASSUME NEW c \in Conns, NotConfirmed(c) PROVE Grows
    <2>1. ownerOf[c] \in Owners /\ "not confirmed" \in Reasons
      BY DEF Reasons
    <2>2. Silence(ownerOf[c], "not confirmed")
      BY <1>6 DEF NotConfirmed
    <2>3. \A a \in Owners : silenced[a] \subseteq silenced'[a]
      BY <2>1, <2>2, SilenceStep
    <2> QED BY <1>6, <2>3 DEF NotConfirmed
  <1>7. ASSUME NEW c \in Conns, HandleReturns(c) PROVE Grows
    BY <1>7 DEF HandleReturns
  <1>8. ASSUME NEW c \in Conns, ConsumerEnds(c) PROVE Grows
    BY <1>8 DEF ConsumerEnds, Silence
  <1>9. ASSUME NEW c \in Conns, ReadFails(c) PROVE Grows
    BY <1>9 DEF ReadFails
  <1>10. ASSUME NEW c \in Conns, Unregister(c) PROVE Grows
    BY <1>10 DEF Unregister
  <1>11. ASSUME NEW c \in Conns, LeaveRoom(c) PROVE Grows
    <2>1. PICK a \in leaving[c] : a \in Owners /\ LeavesRoom(c, a)
      BY <1>11, LeavesARoom
    <2>2. Silence(a, "same id") \/ UNCHANGED silenced
      BY <2>1 DEF LeavesRoom
    <2>3. "same id" \in Reasons
      BY DEF Reasons
    <2>4. \A b \in Owners : silenced[b] \subseteq silenced'[b]
      BY <2>1, <2>2, <2>3, SilenceStep
    <2> QED BY <1>11, <2>4 DEF LeaveRoom
  <1>12. ASSUME NEW c \in Conns, Left(c) PROVE Grows
    BY <1>12 DEF Left
  <1>13. ASSUME CloseHub PROVE Grows
    BY <1>13 DEF CloseHub
  <1> QED BY <1>2, <1>3, <1>4, <1>5, <1>6, <1>7, <1>8, <1>9, <1>10, <1>11, <1>12, <1>13
          DEF HubNext

LEMMA DisplacesGrows ==
  ASSUME Grows, NEW x, Displaces(x) PROVE Displaces(x)'
  BY DEF Grows, Displaces

-----------------------------------------------------------------------------
LEMMA SubscriptionsStep ==
  ASSUME HubInv, HubNext PROVE SubscriptionsInv'
  <1> USE OwnerAssumption DEF HubInv, HubTypeOK, PlacesTypeOK, SubscriptionsInv, Phase, hub
  <1>0. Grows
    BY HubGrows
  <1> USE <1>0 DEF Grows
  <1>2. ASSUME NEW c \in Conns, Register(c) PROVE SubscriptionsInv'
    BY <1>2 DEF Register
  <1>3. ASSUME NEW c \in Conns, JoinRoom(c) PROVE SubscriptionsInv'
    <2>1. Silence(ownerOf[c], "same id") \/ UNCHANGED silenced
      BY <1>3 DEF JoinRoom
    <2>2. ownerOf[c] \in Owners /\ "same id" \in Reasons /\ "same id" # "hub closed"
      BY DEF Reasons
    <2>3. \A a \in Owners : "hub closed" \in silenced'[a] => "hub closed" \in silenced[a]
      BY <2>1, <2>2, SilenceStep
    <2> QED BY <1>3, <2>3 DEF JoinRoom
  <1>4. ASSUME NEW c \in Conns, SubscribeRoom(c) PROVE SubscriptionsInv'
    <2>1. /\ Refused(c) \/ Follows(c) \/ Opens(c)
          /\ UNCHANGED << isClosed, silenced >>
      BY <1>4, Subscribes
    <2>2. CASE Refused(c) \/ Follows(c)
      BY <2>1, <2>2 DEF Refused, Follows
    <2>3. CASE Opens(c)
      <3>1. \A a \in Owners : subscriptions'[a] = IF a = ownerOf[c] THEN c ELSE subscriptions[a]
        BY <2>3 DEF Opens
      <3>2. \A d \in Conns : sub'[d] = "dead" => sub[d] = "dead"
        BY <2>3 DEF Opens
      <3> QED BY <2>1, <3>1, <3>2
    <2> QED BY <2>1, <2>2, <2>3
  <1>5. ASSUME NEW c \in Conns, Confirmed(c) PROVE SubscriptionsInv'
    BY <1>5 DEF Confirmed
  <1>6. ASSUME NEW c \in Conns, NotConfirmed(c) PROVE SubscriptionsInv'
    <2>1. Silence(ownerOf[c], "not confirmed")
      BY <1>6 DEF NotConfirmed
    <2>2. ownerOf[c] \in Owners /\ "not confirmed" \in Reasons /\ "not confirmed" # "hub closed"
      BY DEF Reasons
    <2>3. \A a \in Owners : "hub closed" \in silenced'[a] => "hub closed" \in silenced[a]
      BY <2>1, <2>2, SilenceStep
    <2>4. isClosed' = isClosed
      BY <1>6 DEF NotConfirmed
    <2>5. \A a \in Owners : subscriptions'[a] \in {subscriptions[a], Nobody}
      BY <1>6 DEF NotConfirmed
    <2>6. \A d \in Conns : sub'[d] = "dead" => sub[d] = "dead"
      BY <1>6 DEF NotConfirmed
    <2> QED BY <2>3, <2>4, <2>5, <2>6
  <1>7. ASSUME NEW c \in Conns, HandleReturns(c) PROVE SubscriptionsInv'
    BY <1>7 DEF HandleReturns
  <1>8. ASSUME NEW c \in Conns, ConsumerEnds(c) PROVE SubscriptionsInv'
    <2>1. Silence(ownerOf[c], "request ended")
      BY <1>8 DEF ConsumerEnds
    <2>2. ownerOf[c] \in Owners /\ "request ended" \in Reasons /\ "request ended" # "hub closed"
      BY DEF Reasons
    <2>3. /\ \A a \in Owners : "hub closed" \in silenced'[a] => "hub closed" \in silenced[a]
          /\ "request ended" \in silenced'[ownerOf[c]]
      BY <2>1, <2>2, SilenceStep
    <2>4. UNCHANGED << subscriptions, isClosed >>
      BY <1>8 DEF ConsumerEnds
    <2>5. \A a \in Owners : subscriptions'[a] # Nobody => ownerOf[subscriptions'[a]] = a
      BY <2>4
    <2>6. \A d \in Conns : d # c => sub'[d] = sub[d]
      BY <1>8 DEF ConsumerEnds
    <2>7. \A d \in Conns : sub'[d] = "dead" => "request ended" \in silenced'[ownerOf[d]]
      BY <2>3, <2>6
    <2> QED BY <2>3, <2>4, <2>5, <2>7
  <1>9. ASSUME NEW c \in Conns, ReadFails(c) PROVE SubscriptionsInv'
    BY <1>9 DEF ReadFails
  <1>10. ASSUME NEW c \in Conns, Unregister(c) PROVE SubscriptionsInv'
    BY <1>10 DEF Unregister
  <1>11. ASSUME NEW c \in Conns, LeaveRoom(c) PROVE SubscriptionsInv'
    <2>1. PICK a \in leaving[c] : a \in Owners /\ LeavesRoom(c, a)
      BY <1>11, LeavesARoom
    <2>2. Silence(a, "same id") \/ UNCHANGED silenced
      BY <2>1 DEF LeavesRoom
    <2>3. "same id" \in Reasons /\ "same id" # "hub closed"
      BY DEF Reasons
    <2>4. \A b \in Owners : "hub closed" \in silenced'[b] => "hub closed" \in silenced[b]
      BY <2>1, <2>2, <2>3, SilenceStep
    <2>5. \A b \in Owners : subscriptions'[b] \in {subscriptions[b], Nobody}
      <3>1. subscriptions' = subscriptions \/ subscriptions' = [subscriptions EXCEPT ![a] = Nobody]
        BY <2>1, Zenon DEF LeavesRoom
      <3> QED BY <3>1
    <2>6. sub' = sub \/ sub' = [sub EXCEPT ![subscriptions[a]] = "closed"]
      BY <2>1, Zenon DEF LeavesRoom
    <2>7. \A d \in Conns : sub'[d] = "dead" => sub[d] = "dead"
      BY <2>6
    <2> QED BY <1>11, <2>4, <2>5, <2>7 DEF LeaveRoom
  <1>12. ASSUME NEW c \in Conns, Left(c) PROVE SubscriptionsInv'
    BY <1>12 DEF Left
  <1>13. ASSUME CloseHub PROVE SubscriptionsInv'
    BY <1>13 DEF CloseHub
  <1> QED BY <1>2, <1>3, <1>4, <1>5, <1>6, <1>7, <1>8, <1>9, <1>10, <1>11, <1>12, <1>13
          DEF HubNext

LEMMA PlaceKeptStep ==
  ASSUME HubInv, HubNext, NEW x \in Conns PROVE PlaceKept(x)'
  <1> USE OwnerAssumption DEF HubInv, HubTypeOK, PlacesTypeOK, PlacesInv, Phase, hub, Joined
  <1>0. Grows
    BY HubGrows
  <1>1. PlaceKept(x)
    OBVIOUS
  <1>a. ownerOf[x] \in Owners /\ idOf[x] \in ClientIDs
    OBVIOUS
  <1> USE <1>0, <1>1, <1>a DEF Grows, PlaceKept
  <1>2. ASSUME NEW c \in Conns, Register(c) PROVE PlaceKept(x)'
    BY <1>2 DEF Register
  <1>3. ASSUME NEW c \in Conns, JoinRoom(c) PROVE PlaceKept(x)'
    <2>1. CASE x = c
      BY <1>3, <2>1 DEF JoinRoom
    <2>2. CASE x # c /\ conn[x] \in Joined /\ idOf[x] = idOf[c] /\ ownerOf[x] = ownerOf[c]
      <3>1. Displaces(c)
        BY <2>2 DEF Displaces
      <3>2. Silence(ownerOf[c], "same id")
        BY <1>3, <3>1 DEF JoinRoom
      <3>3. "same id" \in silenced'[ownerOf[c]]
        BY <3>2, SilenceStep DEF Reasons
      <3> QED BY <2>2, <3>3
    <2>3. CASE x # c /\ ~(idOf[x] = idOf[c] /\ ownerOf[x] = ownerOf[c])
      <3>1. rooms'[ownerOf[x]][idOf[x]] = rooms[ownerOf[x]][idOf[x]]
        BY <1>3, <2>3 DEF JoinRoom
      <3> QED BY <1>3, <2>3, <3>1 DEF JoinRoom
    <2>4. CASE x # c /\ conn[x] \notin Joined
      BY <1>3, <2>4 DEF JoinRoom
    <2> QED BY <2>1, <2>2, <2>3, <2>4
  <1>4. ASSUME NEW c \in Conns, SubscribeRoom(c) PROVE PlaceKept(x)'
    <2>1. UNCHANGED << rooms, silenced, idOf >> /\ conn[c] \in Joined
      BY <1>4 DEF SubscribeRoom, Joined
    <2>2. Refused(c) \/ Follows(c) \/ Opens(c)
      BY <1>4, Subscribes
    <2>3. \E v : conn' = [conn EXCEPT ![c] = v]
      BY <2>2, Zenon DEF Refused, Follows, Opens
    <2>4. \A d \in Conns : d # c => conn'[d] = conn[d]
      BY <2>3
    <2> QED BY <2>1, <2>4
  <1>5. ASSUME NEW c \in Conns, Confirmed(c) PROVE PlaceKept(x)'
    BY <1>5 DEF Confirmed
  <1>6. ASSUME NEW c \in Conns, NotConfirmed(c) PROVE PlaceKept(x)'
    BY <1>6 DEF NotConfirmed
  <1>7. ASSUME NEW c \in Conns, HandleReturns(c) PROVE PlaceKept(x)'
    BY <1>7 DEF HandleReturns
  <1>8. ASSUME NEW c \in Conns, ConsumerEnds(c) PROVE PlaceKept(x)'
    BY <1>8 DEF ConsumerEnds
  <1>9. ASSUME NEW c \in Conns, ReadFails(c) PROVE PlaceKept(x)'
    BY <1>9 DEF ReadFails
  <1>10. ASSUME NEW c \in Conns, Unregister(c) PROVE PlaceKept(x)'
    BY <1>10 DEF Unregister
  <1>11. ASSUME NEW c \in Conns, LeaveRoom(c) PROVE PlaceKept(x)'
    <2>1. PICK a \in leaving[c] : a \in Owners /\ LeavesRoom(c, a)
      BY <1>11, LeavesARoom
    <2>2. conn[c] = "leave" /\ conn' = conn
      BY <1>11 DEF LeaveRoom
    <2>3. CASE conn[x] \in Joined /\ idOf[x] = idOf[c] /\ ownerOf[x] = a
      <3>1. x # c
        BY <2>2, <2>3
      <3>2. x \in Conns \ {c} /\ idOf[x] = idOf[c] /\ conn[x] # "new"
        BY <2>3, <3>1
      <3>5. Displaces(c)
        BY <3>2, Zenon DEF Displaces
      <3>3. Silence(a, "same id")
        BY <2>1, <3>5 DEF LeavesRoom
      <3>4. "same id" \in silenced'[a]
        BY <2>1, <3>3, SilenceStep DEF Reasons
      <3> QED BY <2>3, <3>4
    <2>4. CASE ~(idOf[x] = idOf[c] /\ ownerOf[x] = a)
      <3>1. rooms'[ownerOf[x]][idOf[x]] = rooms[ownerOf[x]][idOf[x]]
        BY <2>1, <2>4 DEF LeavesRoom
      <3> QED BY <2>2, <3>1
    <2>5. CASE conn[x] \notin Joined
      BY <2>2, <2>5
    <2> QED BY <2>3, <2>4, <2>5
  <1>12. ASSUME NEW c \in Conns, Left(c) PROVE PlaceKept(x)'
    BY <1>12 DEF Left
  <1>13. ASSUME CloseHub PROVE PlaceKept(x)'
    BY <1>13 DEF CloseHub
  <1> QED BY <1>2, <1>3, <1>4, <1>5, <1>6, <1>7, <1>8, <1>9, <1>10, <1>11, <1>12, <1>13
          DEF HubNext

LEMMA PlaceGivenStep ==
  ASSUME HubInv, HubNext, NEW a \in Owners, NEW i \in ClientIDs, NEW x \in Conns,
         rooms'[a][i] = x
  PROVE  Placed(x, a, i)'
  <1> USE OwnerAssumption DEF HubInv, HubTypeOK, PlacesTypeOK, PlacesInv, Phase, hub, Joined
  <1>0. Grows
    BY HubGrows
  <1>a. ownerOf[x] \in Owners /\ idOf[x] \in ClientIDs /\ a # Nobody /\ x # Nobody
    OBVIOUS
  <1>b. Displaces(x) => Displaces(x)'
    BY <1>0, DisplacesGrows
  <1>c. rooms[a][i] = x => Placed(x, a, i)
    BY DEF PlaceGiven
  <1>d. clientRooms[i] = NoEntry => a \notin clientRooms[i]
    BY DEF NoEntry
  <1> USE <1>0, <1>a, <1>b, <1>c, <1>d DEF Grows, Placed
  <1>2. ASSUME NEW c \in Conns, Register(c) PROVE Placed(x, a, i)'
    <2>1. Placed(x, a, i) /\ x # c
      BY <1>2 DEF Register
    <2>2. a \in clientRooms[i] => a \in clientRooms'[i]
      BY <1>2 DEF Register
    <2> QED BY <1>2, <2>1, <2>2 DEF Register
  <1>3. ASSUME NEW c \in Conns, JoinRoom(c) PROVE Placed(x, a, i)'
    <2>1. CASE a = ownerOf[c] /\ i = idOf[c]
      <3>1. x = c
        BY <1>3, <2>1 DEF JoinRoom
      <3>2. a \in clientRooms'[i] /\ conn'[c] = "subscribe"
        BY <1>3, <2>1 DEF JoinRoom
      <3> QED BY <2>1, <3>1, <3>2
    <2>2. CASE ~(a = ownerOf[c] /\ i = idOf[c])
      <3>1. rooms[a][i] = x
        BY <1>3, <2>2 DEF JoinRoom
      <3>2. Placed(x, a, i) /\ x # c
        BY <1>3, <3>1 DEF JoinRoom
      <3>3. a \in clientRooms[i] => a \in clientRooms'[i]
        BY <1>3 DEF JoinRoom
      <3> QED BY <1>3, <3>2, <3>3 DEF JoinRoom
    <2> QED BY <2>1, <2>2
  <1>4. ASSUME NEW c \in Conns, SubscribeRoom(c) PROVE Placed(x, a, i)'
    <2>1. Placed(x, a, i) /\ clientRooms' = clientRooms /\ leaving' = leaving /\ conn[c] = "subscribe"
      BY <1>4, Subscribes
    <2>2. \E p \in {"failed", "return", "receive"} : conn' = [conn EXCEPT ![c] = p]
      BY <1>4, Subscribes DEF Refused, Follows, Opens
    <2> QED BY <2>1, <2>2
  <1>5. ASSUME NEW c \in Conns, Confirmed(c) PROVE Placed(x, a, i)'
    BY <1>5 DEF Confirmed
  <1>6. ASSUME NEW c \in Conns, NotConfirmed(c) PROVE Placed(x, a, i)'
    BY <1>6 DEF NotConfirmed
  <1>7. ASSUME NEW c \in Conns, HandleReturns(c) PROVE Placed(x, a, i)'
    BY <1>7 DEF HandleReturns
  <1>8. ASSUME NEW c \in Conns, ConsumerEnds(c) PROVE Placed(x, a, i)'
    BY <1>8 DEF ConsumerEnds
  <1>9. ASSUME NEW c \in Conns, ReadFails(c) PROVE Placed(x, a, i)'
    BY <1>9 DEF ReadFails
  <1>10. ASSUME NEW c \in Conns, Unregister(c) PROVE Placed(x, a, i)'
    <2>1. Placed(x, a, i) /\ conn[c] = "unregister" /\ conn' = [conn EXCEPT ![c] = "leave"]
      BY <1>10 DEF Unregister
    <2>2. CASE x = c
      <3>1. leaving'[c] = clientRooms[i] \ NoEntry
        BY <1>10, <2>1, <2>2 DEF Unregister
      <3>2. a \in clientRooms[i] => a \in leaving'[c]
        BY <3>1 DEF NoEntry
      <3> QED BY <2>1, <2>2, <3>2
    <2>3. CASE x # c /\ idOf[c] = i
      <3>1. c \in Conns \ {x} /\ idOf[c] = idOf[x] /\ conn[c] # "new"
        BY <2>1, <2>3
      <3>2. Displaces(x)
        BY <3>1, Zenon DEF Displaces
      <3> QED BY <2>1, <2>3, <3>2
    <2>4. CASE x # c /\ idOf[c] # i
      <3>1. clientRooms'[i] = clientRooms[i] /\ leaving'[x] = leaving[x] /\ conn'[x] = conn[x]
        BY <1>10, <2>4 DEF Unregister
      <3> QED BY <2>1, <3>1
    <2> QED BY <2>2, <2>3, <2>4
  <1>11. ASSUME NEW c \in Conns, LeaveRoom(c) PROVE Placed(x, a, i)'
    <2>1. PICK b \in leaving[c] : b \in Owners /\ LeavesRoom(c, b)
      BY <1>11, LeavesARoom
    <2>2. conn[c] = "leave" /\ conn' = conn
      BY <1>11 DEF LeaveRoom
    <2>3. ~(b = a /\ idOf[c] = i)
      BY <2>1 DEF LeavesRoom
    <2>4. Placed(x, a, i)
      BY <2>1, <2>3 DEF LeavesRoom
    <2>5. CASE x = c
      <3>1. a # b
        BY <2>3, <2>4, <2>5
      <3>2. leaving'[c] = leaving[c] \ {b}
        BY <2>1 DEF LeavesRoom
      <3> QED BY <2>2, <2>4, <2>5, <3>1, <3>2
    <2>6. CASE x # c /\ idOf[c] = i
      <3>1. c \in Conns \ {x} /\ idOf[c] = idOf[x] /\ conn[c] # "new"
        BY <2>2, <2>4, <2>6
      <3>2. Displaces(x)
        BY <3>1, Zenon DEF Displaces
      <3> QED BY <2>2, <2>4, <3>2
    <2>7. CASE x # c /\ idOf[c] # i
      <3>1. clientRooms'[i] = clientRooms[i] /\ leaving'[x] = leaving[x]
        BY <2>1, <2>7 DEF LeavesRoom
      <3> QED BY <2>2, <2>4, <3>1
    <2> QED BY <2>5, <2>6, <2>7
  <1>12. ASSUME NEW c \in Conns, Left(c) PROVE Placed(x, a, i)'
    BY <1>12 DEF Left
  <1>13. ASSUME CloseHub PROVE Placed(x, a, i)'
    BY <1>13 DEF CloseHub
  <1> QED BY <1>2, <1>3, <1>4, <1>5, <1>6, <1>7, <1>8, <1>9, <1>10, <1>11, <1>12, <1>13
          DEF HubNext

-----------------------------------------------------------------------------
LEMMA NoOrphanStep ==
  ASSUME HubInv, HubNext PROVE NoOrphanSubscription'
  <1> USE OwnerAssumption DEF HubInv, HubTypeOK, PlacesTypeOK, Phase, hub, NoOrphanSubscription
  <1>2. ASSUME NEW c \in Conns, Register(c) PROVE NoOrphanSubscription'
    BY <1>2 DEF Register
  <1>3. ASSUME NEW c \in Conns, JoinRoom(c) PROVE NoOrphanSubscription'
    BY <1>3 DEF JoinRoom
  <1>4. ASSUME NEW c \in Conns, SubscribeRoom(c) PROVE NoOrphanSubscription'
    <2>1. Refused(c) \/ Follows(c) \/ Opens(c)
      BY <1>4, Subscribes
    <2>2. CASE Refused(c) \/ Follows(c)
      BY <2>2 DEF Refused, Follows
    <2>3. CASE Opens(c)
      <3>1. \A d \in Conns : ownerOf[d] = ownerOf[c] => sub[d] \notin {"opening", "live", "dead"}
        BY <2>3 DEF Opens
      <3>2. /\ \A d \in Conns : d # c => sub'[d] = sub[d]
            /\ \A b \in Owners : subscriptions'[b] = IF b = ownerOf[c] THEN c ELSE subscriptions[b]
        BY <2>3 DEF Opens
      <3> QED BY <3>1, <3>2
    <2> QED BY <2>1, <2>2, <2>3
  <1>5. ASSUME NEW c \in Conns, Confirmed(c) PROVE NoOrphanSubscription'
    BY <1>5 DEF Confirmed
  <1>6. ASSUME NEW c \in Conns, NotConfirmed(c) PROVE NoOrphanSubscription'
    BY <1>6 DEF NotConfirmed
  <1>7. ASSUME NEW c \in Conns, HandleReturns(c) PROVE NoOrphanSubscription'
    BY <1>7 DEF HandleReturns
  <1>8. ASSUME NEW c \in Conns, ConsumerEnds(c) PROVE NoOrphanSubscription'
    BY <1>8 DEF ConsumerEnds
  <1>9. ASSUME NEW c \in Conns, ReadFails(c) PROVE NoOrphanSubscription'
    BY <1>9 DEF ReadFails
  <1>10. ASSUME NEW c \in Conns, Unregister(c) PROVE NoOrphanSubscription'
    BY <1>10 DEF Unregister
  <1>11. ASSUME NEW c \in Conns, LeaveRoom(c) PROVE NoOrphanSubscription'
    <2>1. PICK a \in leaving[c] : a \in Owners /\ LeavesRoom(c, a)
      BY <1>11, LeavesARoom
    <2>2. CASE subscriptions' = subscriptions /\ sub' = sub
      BY <2>2
    <2>3. CASE ~(subscriptions' = subscriptions /\ sub' = sub)
      <3>1. /\ subscriptions' = [subscriptions EXCEPT ![a] = Nobody]
            /\ sub' = IF subscriptions[a] = Nobody THEN sub
                      ELSE [sub EXCEPT ![subscriptions[a]] = "closed"]
        BY <2>1, <2>3, Zenon DEF LeavesRoom
      <3>2. ASSUME NEW d \in Conns, sub'[d] \in {"opening", "live", "dead"}
            PROVE  subscriptions'[ownerOf[d]] = d
        <4>1. sub'[d] = sub[d]
          BY <3>1, <3>2
        <4>2. subscriptions[ownerOf[d]] = d
          BY <3>2, <4>1
        <4>3. ownerOf[d] # a
          BY <3>1, <3>2, <4>2
        <4> QED BY <2>1, <3>1, <4>2, <4>3
      <3> QED BY <3>2
    <2> QED BY <2>2, <2>3
  <1>12. ASSUME NEW c \in Conns, Left(c) PROVE NoOrphanSubscription'
    BY <1>12 DEF Left
  <1>13. ASSUME CloseHub PROVE NoOrphanSubscription'
    BY <1>13 DEF CloseHub
  <1> QED BY <1>2, <1>3, <1>4, <1>5, <1>6, <1>7, <1>8, <1>9, <1>10, <1>11, <1>12, <1>13
          DEF HubNext

LEMMA NobodySubscribesStep ==
  ASSUME HubInv, HubNext PROVE NobodySubscribesForNobody'
  <1> SUFFICES ASSUME NEW a \in Owners, subscriptions'[a] # Nobody, IsEmpty(rooms'[a])
               PROVE  "same id" \in silenced'[a]
    BY DEF NobodySubscribesForNobody, IsEmpty
  <1> USE OwnerAssumption DEF HubInv, HubTypeOK, PlacesTypeOK, Phase, hub
  <1>0. Grows
    BY HubGrows
  <1>1. subscriptions[a] # Nobody /\ IsEmpty(rooms[a]) => "same id" \in silenced[a]
    BY DEF NobodySubscribesForNobody
  <1>a. \A i \in ClientIDs : rooms'[a][i] = Nobody
    BY DEF IsEmpty
  <1> USE <1>0, <1>1 DEF Grows
  <1>2. ASSUME NEW c \in Conns, Register(c) PROVE "same id" \in silenced'[a]
    BY <1>2 DEF Register
  <1>3. ASSUME NEW c \in Conns, JoinRoom(c) PROVE "same id" \in silenced'[a]
    <2>1. ownerOf[c] # a
      BY <1>3, <1>a DEF JoinRoom
    <2>2. rooms'[a] = rooms[a] /\ subscriptions' = subscriptions
      BY <1>3, <2>1 DEF JoinRoom
    <2> QED BY <2>2
  <1>4. ASSUME NEW c \in Conns, SubscribeRoom(c) PROVE "same id" \in silenced'[a]
    <2>1. /\ Refused(c) \/ Follows(c) \/ Opens(c)
          /\ conn[c] = "subscribe" /\ rooms' = rooms /\ silenced' = silenced
      BY <1>4, Subscribes
    <2>2. CASE subscriptions[a] # Nobody
      BY <2>1, <2>2
    <2>3. CASE subscriptions[a] = Nobody
      <3>1. Opens(c) /\ a = ownerOf[c]
        BY <2>1, <2>3 DEF Refused, Follows, Opens
      <3>2. PlaceKept(c) /\ idOf[c] \in ClientIDs
        BY DEF PlacesInv
      <3>3. rooms[a][idOf[c]] # c
        BY <1>a, <2>1, <3>2
      <3>4. "hub closed" \notin silenced[a]
        BY <3>1 DEF Opens, SubscriptionsInv
      <3> QED BY <2>1, <3>1, <3>2, <3>3, <3>4 DEF PlaceKept, Joined
    <2> QED BY <2>2, <2>3
  <1>5. ASSUME NEW c \in Conns, Confirmed(c) PROVE "same id" \in silenced'[a]
    BY <1>5 DEF Confirmed
  <1>6. ASSUME NEW c \in Conns, NotConfirmed(c) PROVE "same id" \in silenced'[a]
    <2>1. subscriptions[a] # Nobody /\ rooms' = rooms
      BY <1>6 DEF NotConfirmed
    <2> QED BY <2>1
  <1>7. ASSUME NEW c \in Conns, HandleReturns(c) PROVE "same id" \in silenced'[a]
    BY <1>7 DEF HandleReturns
  <1>8. ASSUME NEW c \in Conns, ConsumerEnds(c) PROVE "same id" \in silenced'[a]
    BY <1>8 DEF ConsumerEnds
  <1>9. ASSUME NEW c \in Conns, ReadFails(c) PROVE "same id" \in silenced'[a]
    BY <1>9 DEF ReadFails
  <1>10. ASSUME NEW c \in Conns, Unregister(c) PROVE "same id" \in silenced'[a]
    BY <1>10 DEF Unregister
  <1>11. ASSUME NEW c \in Conns, LeaveRoom(c) PROVE "same id" \in silenced'[a]
    <2>1. PICK b \in leaving[c] : b \in Owners /\ LeavesRoom(c, b)
      BY <1>11, LeavesARoom
    <2>2. a # b
      <3>1. SUFFICES ASSUME a = b PROVE FALSE
        OBVIOUS
      <3>2. rooms'[a] = [rooms[a] EXCEPT ![idOf[c]] = Nobody]
        BY <2>1, <3>1 DEF LeavesRoom
      <3>3. IsEmpty([rooms[a] EXCEPT ![idOf[c]] = Nobody])
        BY <3>2
      <3>4. subscriptions' = [subscriptions EXCEPT ![a] = Nobody]
        BY <2>1, <3>1, <3>3, Zenon DEF LeavesRoom
      <3> QED BY <3>4
    <2>3. rooms'[a] = rooms[a] /\ subscriptions'[a] = subscriptions[a]
      BY <2>1, <2>2 DEF LeavesRoom
    <2> QED BY <2>3
  <1>12. ASSUME NEW c \in Conns, Left(c) PROVE "same id" \in silenced'[a]
    BY <1>12 DEF Left
  <1>13. ASSUME CloseHub PROVE "same id" \in silenced'[a]
    BY <1>13 DEF CloseHub
  <1> QED BY <1>2, <1>3, <1>4, <1>5, <1>6, <1>7, <1>8, <1>9, <1>10, <1>11, <1>12, <1>13
          DEF HubNext

\* A reader is served, or there is a reason why it is not.
Served(x) ==
    /\ rooms[ownerOf[x]][idOf[x]] = x
    /\ subscriptions[ownerOf[x]] # Nobody
    /\ sub[subscriptions[ownerOf[x]]] = "dead" => "request ended" \in silenced[ownerOf[x]]
Excused(x) ==
    \/ "same id" \in silenced[ownerOf[x]]
    \/ "not confirmed" \in silenced[ownerOf[x]]
    \/ "hub closed" \in silenced[ownerOf[x]]

LEMMA ReadersMeans ==
  ReadersAreServed <=> \A x \in Conns : conn[x] \in {"return", "read"} => Served(x) \/ Excused(x)
  <1>1. ASSUME NEW x \in Conns
        PROVE  Excused(x) <=> silenced[ownerOf[x]] \cap {"same id", "not confirmed", "hub closed"} # {}
    BY DEF Excused
  <1> QED BY <1>1, Zenon DEF ReadersAreServed, Served

LEMMA ReadersStep ==
  ASSUME HubInv, SubscriptionsInv', HubTypeOK', HubNext, NEW x \in Conns,
         conn'[x] \in {"return", "read"}
  PROVE  Served(x)' \/ Excused(x)'
  <1> USE OwnerAssumption DEF HubInv, HubTypeOK, PlacesTypeOK, Phase, hub
  <1>0. Grows
    BY HubGrows
  <1>1. conn[x] \in {"return", "read"} => Served(x) \/ Excused(x)
    BY ReadersMeans, Zenon
  <1>a. ownerOf[x] \in Owners /\ idOf[x] \in ClientIDs /\ x # Nobody
    OBVIOUS
  <1>b. Excused(x) => Excused(x)'
    BY <1>0, <1>a DEF Excused, Grows
  <1>c. PlaceKept(x)
    BY DEF PlacesInv
  <1>d. subscriptions'[ownerOf[x]] # Nobody =>
           (sub'[subscriptions'[ownerOf[x]]] = "dead" => "request ended" \in silenced'[ownerOf[x]])
    BY <1>a DEF SubscriptionsInv
  <1>e. ASSUME rooms'[ownerOf[x]][idOf[x]] = x, subscriptions'[ownerOf[x]] # Nobody
        PROVE  Served(x)'
    BY <1>0, <1>d, <1>e DEF Served, Grows
  <1>f. ASSUME conn[x] \in {"return", "read"}, ~Excused(x)'
        PROVE  rooms[ownerOf[x]][idOf[x]] = x /\ subscriptions[ownerOf[x]] # Nobody
    BY <1>1, <1>b, <1>f DEF Served
  <1>2. ASSUME NEW c \in Conns, Register(c) PROVE Served(x)' \/ Excused(x)'
    BY <1>2, <1>e, <1>f DEF Register
  <1>3. ASSUME NEW c \in Conns, JoinRoom(c) PROVE Served(x)' \/ Excused(x)'
    <2>1. x # c /\ conn[x] \in {"return", "read"} /\ subscriptions' = subscriptions
      BY <1>3 DEF JoinRoom
    <2>2. CASE idOf[x] = idOf[c] /\ ownerOf[x] = ownerOf[c]
      <3>1. x \in Conns \ {c} /\ idOf[x] = idOf[c] /\ conn[x] # "new"
        BY <2>1, <2>2
      <3>2. Displaces(c)
        BY <3>1, Zenon DEF Displaces
      <3>3. Silence(ownerOf[c], "same id")
        BY <1>3, <3>2 DEF JoinRoom
      <3>4. "same id" \in silenced'[ownerOf[c]]
        BY <3>3, <2>2, <1>a, SilenceStep DEF Reasons
      <3> QED BY <2>2, <3>4 DEF Excused
    <2>3. CASE ~(idOf[x] = idOf[c] /\ ownerOf[x] = ownerOf[c])
      <3>1. rooms'[ownerOf[x]][idOf[x]] = rooms[ownerOf[x]][idOf[x]]
        BY <1>3, <2>3, <1>a DEF JoinRoom
      <3> QED BY <2>1, <3>1, <1>e, <1>f
    <2> QED BY <2>2, <2>3
  <1>4. ASSUME NEW c \in Conns, SubscribeRoom(c) PROVE Served(x)' \/ Excused(x)'
    <2>1. /\ Refused(c) \/ Follows(c) \/ Opens(c)
          /\ conn[c] = "subscribe" /\ rooms' = rooms /\ silenced' = silenced
      BY <1>4, Subscribes
    <2>2. CASE x = c
      <3>1. Follows(c)
        BY <2>1, <2>2 DEF Refused, Opens
      <3>2. rooms[ownerOf[x]][idOf[x]] = x \/ Excused(x)
        BY <1>c, <2>1, <2>2 DEF PlaceKept, Joined, Excused
      <3>3. subscriptions'[ownerOf[x]] # Nobody
        BY <3>1, <2>2 DEF Follows
      <3> QED BY <1>b, <1>e, <2>1, <3>2, <3>3
    <2>3. CASE x # c
      <3>1. conn[x] \in {"return", "read"}
        BY <2>1, <2>3 DEF Refused, Follows, Opens
      <3>2. subscriptions[ownerOf[x]] # Nobody => subscriptions'[ownerOf[x]] # Nobody
        BY <2>1, <1>a DEF Refused, Follows, Opens
      <3> QED BY <1>e, <1>f, <2>1, <3>1, <3>2
    <2> QED BY <2>2, <2>3
  <1>5. ASSUME NEW c \in Conns, Confirmed(c) PROVE Served(x)' \/ Excused(x)'
    <2>1. conn[c] = "receive" /\ sub[c] = "opening" /\ rooms' = rooms /\ subscriptions' = subscriptions
      BY <1>5 DEF Confirmed
    <2>2. CASE x = c
      <3>1. subscriptions[ownerOf[x]] = x
        BY <2>1, <2>2 DEF NoOrphanSubscription
      <3>2. rooms[ownerOf[x]][idOf[x]] = x \/ Excused(x)
        BY <1>c, <2>1, <2>2 DEF PlaceKept, Joined, Excused
      <3> QED BY <1>a, <1>b, <1>e, <2>1, <3>1, <3>2
    <2>3. CASE x # c
      <3>1. conn[x] \in {"return", "read"}
        BY <1>5, <2>3 DEF Confirmed
      <3> QED BY <1>e, <1>f, <2>1, <3>1
    <2> QED BY <2>2, <2>3
  <1>6. ASSUME NEW c \in Conns, NotConfirmed(c) PROVE Served(x)' \/ Excused(x)'
    <2>1. x # c /\ conn[x] \in {"return", "read"} /\ rooms' = rooms
      BY <1>6 DEF NotConfirmed
    <2>2. CASE ownerOf[x] = ownerOf[c]
      <3>1. Silence(ownerOf[c], "not confirmed")
        BY <1>6 DEF NotConfirmed
      <3>2. "not confirmed" \in silenced'[ownerOf[c]]
        BY <3>1, <2>2, <1>a, SilenceStep DEF Reasons
      <3> QED BY <2>2, <3>2 DEF Excused
    <2>3. CASE ownerOf[x] # ownerOf[c]
      <3>1. subscriptions'[ownerOf[x]] = subscriptions[ownerOf[x]]
        BY <1>6, <2>3, <1>a DEF NotConfirmed
      <3> QED BY <1>e, <1>f, <2>1, <3>1
    <2> QED BY <2>2, <2>3
  <1>7. ASSUME NEW c \in Conns, HandleReturns(c) PROVE Served(x)' \/ Excused(x)'
    BY <1>7, <1>e, <1>f DEF HandleReturns
  <1>8. ASSUME NEW c \in Conns, ConsumerEnds(c) PROVE Served(x)' \/ Excused(x)'
    BY <1>8, <1>e, <1>f DEF ConsumerEnds
  <1>9. ASSUME NEW c \in Conns, ReadFails(c) PROVE Served(x)' \/ Excused(x)'
    BY <1>9, <1>e, <1>f DEF ReadFails
  <1>10. ASSUME NEW c \in Conns, Unregister(c) PROVE Served(x)' \/ Excused(x)'
    BY <1>10, <1>e, <1>f DEF Unregister
  <1>11. ASSUME NEW c \in Conns, LeaveRoom(c) PROVE Served(x)' \/ Excused(x)'
    <2>1. PICK a \in leaving[c] : a \in Owners /\ LeavesRoom(c, a)
      BY <1>11, LeavesARoom
    <2>2. conn[c] = "leave" /\ conn' = conn
      BY <1>11 DEF LeaveRoom
    <2>3. x # c /\ conn[x] \in {"return", "read"}
      BY <2>2
    <2>4. CASE idOf[x] = idOf[c] /\ ownerOf[x] = a
      <3>1. x \in Conns \ {c} /\ idOf[x] = idOf[c] /\ conn[x] # "new"
        BY <2>3, <2>4
      <3>2. Displaces(c)
        BY <3>1, Zenon DEF Displaces
      <3>3. Silence(a, "same id")
        BY <2>1, <3>2 DEF LeavesRoom
      <3>4. "same id" \in silenced'[a]
        BY <2>1, <3>3, SilenceStep DEF Reasons
      <3> QED BY <2>4, <3>4 DEF Excused
    <2>5. CASE ownerOf[x] # a
      <3>1. /\ rooms'[ownerOf[x]] = rooms[ownerOf[x]]
            /\ subscriptions'[ownerOf[x]] = subscriptions[ownerOf[x]]
        BY <2>1, <2>5, <1>a DEF LeavesRoom
      <3> QED BY <1>e, <1>f, <2>3, <3>1
    <2>6. CASE idOf[x] # idOf[c] /\ ownerOf[x] = a
      <3>1. SUFFICES ASSUME ~Excused(x)' PROVE Served(x)'
        OBVIOUS
      <3>2. rooms[a][idOf[x]] = x /\ subscriptions[a] # Nobody
        BY <1>f, <2>3, <2>6, <3>1
      <3>3. [rooms[a] EXCEPT ![idOf[c]] = Nobody][idOf[x]] = x
        BY <2>1, <2>6, <3>2, <1>a
      <3>4. ~IsEmpty([rooms[a] EXCEPT ![idOf[c]] = Nobody])
        BY <3>3, <1>a, Zenon DEF IsEmpty
      <3>5. subscriptions' = subscriptions
        BY <2>1, <3>4 DEF LeavesRoom
      <3>6. rooms'[a][idOf[x]] = x
        BY <2>1, <3>3 DEF LeavesRoom
      <3> QED BY <1>e, <2>6, <3>2, <3>5, <3>6
    <2> QED BY <2>4, <2>5, <2>6
  <1>12. ASSUME NEW c \in Conns, Left(c) PROVE Served(x)' \/ Excused(x)'
    BY <1>12, <1>e, <1>f DEF Left
  <1>13. ASSUME CloseHub PROVE Served(x)' \/ Excused(x)'
    BY <1>13, <1>a DEF CloseHub, Excused
  <1> QED BY <1>2, <1>3, <1>4, <1>5, <1>6, <1>7, <1>8, <1>9, <1>10, <1>11, <1>12, <1>13
          DEF HubNext

LEMMA ClosedStep ==
  ASSUME HubInv, HubNext PROVE ClosedIsClosed'
  <1> USE OwnerAssumption DEF HubInv, HubTypeOK, PlacesTypeOK, hub, ClosedIsClosed
  <1>2. ASSUME NEW c \in Conns, SubscribeRoom(c) PROVE ClosedIsClosed'
    BY <1>2, Subscribes DEF Refused, Follows, Opens
  <1>3. ASSUME NEW c \in Conns, NotConfirmed(c) PROVE ClosedIsClosed'
    BY <1>3 DEF NotConfirmed
  <1>4. ASSUME NEW c \in Conns, LeaveRoom(c) PROVE ClosedIsClosed'
    <2>1. PICK a \in leaving[c] : a \in Owners /\ LeavesRoom(c, a)
      BY <1>4, LeavesARoom
    <2>2. \A b \in Owners : subscriptions'[b] \in {subscriptions[b], Nobody}
      BY <2>1 DEF LeavesRoom
    <2> QED BY <1>4, <2>2 DEF LeaveRoom
  <1>5. ASSUME CloseHub PROVE ClosedIsClosed'
    BY <1>5 DEF CloseHub
  <1>6. ASSUME UNCHANGED << isClosed, subscriptions >> PROVE ClosedIsClosed'
    BY <1>6
  <1> QED BY <1>2, <1>3, <1>4, <1>5, <1>6, Zenon
          DEF HubNext, Register, JoinRoom, Confirmed, HandleReturns, ConsumerEnds, ReadFails,
              Unregister, Left

-----------------------------------------------------------------------------
LEMMA HubInvInit == HubInit => HubInv
  <1> SUFFICES ASSUME HubInit PROVE HubInv
    OBVIOUS
  <1> USE OwnerAssumption DEF HubInit
  <1>1. HubTypeOK /\ PlacesTypeOK
    BY DEF HubTypeOK, PlacesTypeOK, SubStates, Phases, Reasons
  <1>2. SubscriptionsInv /\ NoOrphanSubscription /\ NobodySubscribesForNobody /\ ClosedIsClosed
    BY DEF SubscriptionsInv, NoOrphanSubscription, NobodySubscribesForNobody, ClosedIsClosed
  <1>3. PlacesInv
    BY DEF PlacesInv, PlaceKept, PlaceGiven, Joined
  <1>4. ReadersAreServed
    BY DEF ReadersAreServed
  <1> QED BY <1>1, <1>2, <1>3, <1>4 DEF HubInv

LEMMA HubInvStep == HubInv /\ [HubNext]_hubVars => HubInv'
  <1> SUFFICES ASSUME HubInv, [HubNext]_hubVars PROVE HubInv'
    OBVIOUS
  <1>1. CASE UNCHANGED hubVars
    <2>1. /\ isClosed' = isClosed /\ clients' = clients /\ rooms' = rooms
          /\ clientRooms' = clientRooms /\ subscriptions' = subscriptions /\ sub' = sub
          /\ conn' = conn /\ idOf' = idOf /\ leaving' = leaving /\ shut' = shut
          /\ silenced' = silenced
      BY <1>1 DEF hubVars, hub
    <2> USE <2>1 DEF HubInv
    <2>2. HubTypeOK' /\ PlacesTypeOK'
      BY DEF HubTypeOK, PlacesTypeOK
    <2>3. SubscriptionsInv'
      BY DEF SubscriptionsInv
    <2>4. PlacesInv'
      <3>1. \A c \in Conns : PlaceKept(c)'
        BY DEF PlacesInv, PlaceKept
      <3>2. ASSUME NEW x \in Conns, NEW a \in Owners, NEW i \in ClientIDs, Placed(x, a, i)
            PROVE  Placed(x, a, i)'
        BY <3>2 DEF Placed, Displaces
      <3>3. \A a \in Owners, i \in ClientIDs : PlaceGiven(a, i)'
        BY <3>2 DEF PlacesInv, PlaceGiven
      <3> QED BY <3>1, <3>3 DEF PlacesInv
    <2>5. NoOrphanSubscription' /\ ClosedIsClosed'
      BY DEF NoOrphanSubscription, ClosedIsClosed
    <2>6. NobodySubscribesForNobody' /\ ReadersAreServed'
      BY DEF NobodySubscribesForNobody, ReadersAreServed, IsEmpty
    <2> QED BY <2>2, <2>3, <2>4, <2>5, <2>6
  <1>2. CASE HubNext
    <2>1. HubTypeOK' /\ PlacesTypeOK'
      BY <1>2, HubTypeStep DEF HubInv
    <2>2. SubscriptionsInv'
      BY <1>2, SubscriptionsStep
    <2>3. \A c \in Conns : PlaceKept(c)'
      BY <1>2, PlaceKeptStep
    <2>4. \A a \in Owners, i \in ClientIDs : \A x \in Conns : rooms'[a][i] = x => Placed(x, a, i)'
      BY <1>2, PlaceGivenStep
    <2>5. PlacesInv'
      BY <2>3, <2>4, Zenon DEF PlacesInv, PlaceGiven
    <2>6. \A x \in Conns : conn'[x] \in {"return", "read"} => Served(x)' \/ Excused(x)'
      BY <1>2, <2>1, <2>2, ReadersStep
    <2>7. ReadersAreServed'
      <3>1. (ReadersAreServed <=> \A x \in Conns : conn[x] \in {"return", "read"} => Served(x) \/ Excused(x))'
        BY ReadersMeans, PTL
      <3> QED BY <2>6, <3>1
    <2>8. NoOrphanSubscription' /\ NobodySubscribesForNobody' /\ ClosedIsClosed'
      BY <1>2, NoOrphanStep, NobodySubscribesStep, ClosedStep
    <2> QED BY <2>1, <2>2, <2>5, <2>7, <2>8 DEF HubInv
  <1> QED BY <1>1, <1>2

LEMMA HubInvImplies == HubInv => NotificationHubIsSound
  <1> SUFFICES ASSUME HubInv PROVE NotificationHubIsSound
    OBVIOUS
  <1>1. LeaversAreGone
    <2> SUFFICES ASSUME NEW a \in Owners, NEW i \in ClientIDs, rooms[a][i] # Nobody,
                        conn[rooms[a][i]] = "gone"
                 PROVE  Displaces(rooms[a][i])
      BY DEF LeaversAreGone
    <2>1. PICK x \in Conns : x = rooms[a][i]
      BY DEF HubInv, HubTypeOK
    <2>2. Placed(x, a, i)
      BY <2>1 DEF HubInv, PlacesInv, PlaceGiven
    <2>3. Displaces(x)
      BY <2>1, <2>2 DEF Placed
    <2> QED BY <2>1, <2>3
  <1> QED BY <1>1 DEF HubInv, NotificationHubIsSound

\* Every account with a connection that reads has a subscription that feeds it, or a recorded
\* reason why not; no subscription outlives the room it is for, no connection that has left
\* keeps a place unless its id was used twice, and none is subscribed once the hub is closed:
\* hub.go, room.go and handler.go, whatever order their callers come in.
THEOREM NotificationHubSound == HubSpec => []NotificationHubIsSound
  <1>1. HubSpec => []HubInv
    BY HubInvInit, HubInvStep, PTL DEF HubSpec
  <1> QED BY <1>1, HubInvImplies, PTL

-----------------------------------------------------------------------------
(* The tables: the inductive invariant *)

Early == {"previous", "delete", "byID"}
Late == {"byAccount", "unread", "group"}
Busy == Early \cup Late \cup {"emit", "email"}

Snaps == [read : BOOLEAN, sort : Nat, count : Nat, last : Nat, lastAt : Nat]

Jobs == [op : {"none", "event", "read", "readAll"},
         pc : {"idle", "load"} \cup Busy, e : Events \cup {NoEvent}, todo : Seq(Accounts),
         ids : SUBSET IDs, id : IDs \cup {NoID}, n : Snaps, prev : Snaps]

\* What is left to do is the end of the list of recipients.
EndOf(todo, all) ==
    /\ Len(todo) \in 1..Len(all)
    /\ \A i \in 1..Len(todo) : todo[i] = all[Len(all) - Len(todo) + i]

\* What a worker has in hand belongs to what it is doing.
JobInv(w) ==
    /\ job[w].op = "none" <=> job[w].pc = "idle"
    /\ job[w].op = "event" =>
         /\ job[w].e \in Events /\ EndOf(job[w].todo, Recipients(job[w].e))
         /\ job[w].pc # "load" =>
                job[w].id = NotificationID(job[w].e, Head(job[w].todo)) /\ ~job[w].n.read
    /\ job[w].op # "event" => job[w].e = NoEvent
    /\ job[w].op = "read" => job[w].pc \notin {"load", "email"} /\ job[w].id \in DOMAIN byID
    /\ job[w].op = "readAll" =>
         /\ job[w].pc \notin {"emit", "email"} /\ job[w].ids \subseteq DOMAIN byID
         /\ job[w].pc # "load" => job[w].id \in job[w].ids
    /\ job[w].pc \in Busy => job[w].id \in IDs
    /\ job[w].pc \in Late \cup {"emit", "email"} => job[w].id \in DOMAIN byID
    /\ job[w].pc = "group" => IsMessageKind(job[w].id)
    /\ job[w].pc = "email" => job[w].e.kind = "welcome" /\ << job[w].id, 0 >> \in announced

TablesType ==
    /\ NotificationTypeOK
    /\ byID \in [DOMAIN byID -> Snaps] /\ groups \in [DOMAIN groups -> Snaps]
    /\ IsFiniteSet(byAccount) /\ \A r \in byAccount : r = [id |-> r.id, n |-> r.n] /\ r.n \in Snaps
    /\ \A id \in DOMAIN groups : IsMessageKind(id)
    /\ job \in [Workers -> Jobs]

\* At most one consumer of a topic is at work.
OnePerTopic ==
    \A v, w \in Workers :
        job[v].op = "event" /\ job[w].op = "event" /\ Topic(job[v].e) = Topic(job[w].e) => v = w

-----------------------------------------------------------------------------
(* What a notification says *)

InFlight(id, e) == \E w \in Workers : job[w].op = "event" /\ job[w].pc \in Busy /\ job[w].e = e /\ job[w].id = id

\* The event was announced under the id, or it was cut, or somebody is about to.
Told(id, e) ==
    \/ e \in cut \/ InFlight(id, e)
    \/ IF e.kind = "message" THEN << id, e.id >> \in announced
       ELSE << id, 0 >> \in announced /\ (e.kind = "welcome" => id.account \in emailed)

Mark(e) == [last |-> e.id, lastAt |-> Stored(e.at)]
UpTo(id, m) == {e.id : e \in {e \in Messages(id) : NotAhead(Mark(e), m)}}

\* A stored notification of a room has a last message and counts none twice.
ValueOK(id, m) ==
    /\ m \in Snaps /\ m.sort > 0 /\ m.sort = Stored(m.sort)
    /\ IsMessageKind(id) =>
         \E g \in Messages(id) :
            /\ m.last = g.id /\ m.lastAt = Stored(g.at) /\ Told(id, g)
            /\ SameMillisecond(id) \/ m.count <= Cardinality(UpTo(id, m))
    /\ ~IsMessageKind(id) => m.last = 0

ValuesInv ==
    /\ \A id \in DOMAIN byID : ValueOK(id, byID[id])
    /\ \A id \in DOMAIN groups : ValueOK(id, groups[id])
    /\ \A r \in byAccount : ValueOK(r.id, r.n)
    /\ \A w \in Workers : job[w].pc \in Busy => ValueOK(job[w].id, Row(job[w].n))
    /\ \A w \in Workers : job[w].op = "event" /\ job[w].pc \in Busy /\ IsMessageKind(job[w].id) =>
          job[w].n.last = job[w].e.id /\ Stored(job[w].n.lastAt) = Stored(job[w].e.at)
    /\ \A id \in DOMAIN byID, e \in Events :
          ~IsMessageKind(id) /\ NotificationID(e, id.account) = id => Told(id, e)

-----------------------------------------------------------------------------
(* What the four tables have of a notification nobody raced for *)

Listed(id) ==
    /\ \A r \in RowsOf(id) : id \in DOMAIN byID /\ r.n.sort = byID[id].sort
    /\ \A r, s \in RowsOf(id) : r = s

Behind(id, m) == id \in DOMAIN groups => NotAhead(groups[id], m) \/ SameMillisecond(id)

Agreed(id) ==
    /\ id \in DOMAIN byID => RowsOf(id) = {[id |-> id, n |-> byID[id]]} /\ OnlyGroups(id)
    /\ id \in unread <=> id \in DOMAIN byID /\ ~byID[id].read

\* A save that has changed something.
Dirty(w, id) ==
    /\ job[w].id = id
    /\ job[w].pc \in Late \/ (job[w].pc = "byID" /\ ListsAnew(job[w].prev, job[w].n))

\* A save knows what it found, and the tables have what it wrote.
SaveInv(w) ==
    LET j == job[w] IN
    /\ j.pc \in Early => Behind(j.id, Row(j.n)) /\ (j.n.read => j.id \in DOMAIN byID /\ ~byID[j.id].read)
    /\ j.pc \in {"delete", "byID"} => j.prev = getNotificationByID(j.id)
    /\ j.pc = "delete" => ListsAnew(j.prev, j.n)
    /\ j.pc = "byID" /\ ListsAnew(j.prev, j.n) => RowsOf(j.id) = {}
    /\ j.pc \in Late => byID[j.id] = Row(j.n) /\ (j.n.read => j.prev # None /\ ~j.prev.read)
    /\ j.pc \in {"unread", "group"} => RowsOf(j.id) = {[id |-> j.id, n |-> Row(j.n)]}
    /\ j.pc = "group" => (j.id \in unread <=> ~j.n.read)

Once(id) == id.kind \in {"welcome", "sent", "cancelled", "accepted", "rejected"}

NotRacedInv(id) ==
    /\ Listed(id)
    /\ id \in DOMAIN groups => Behind(id, byID[id])
    /\ id \notin torn /\ (\A w \in Workers : ~Dirty(w, id)) => Agreed(id)
    /\ \A v, w \in Workers : Holds(v, id) /\ Holds(w, id) => v = w
    /\ \A w \in Workers : Holds(w, id) => SaveInv(w)
    /\ id \in marked /\ Once(id) => byID[id].read /\ id \notin unread /\ Quiet(id)

-----------------------------------------------------------------------------
(* What was handled, and the reader of the list *)

Reflected(e, a) ==
    LET id == NotificationID(e, a)
    IN  /\ id \in DOMAIN byID
        /\ e.kind = "message" /\ id \notin raced =>
              id \in DOMAIN groups /\ (NotAhead(Mark(e), groups[id]) \/ SameMillisecond(id))

Announced(e, a) ==
    LET id == NotificationID(e, a)
        later == {f \in Messages(id) : f.at > e.at \/ (f.at = e.at /\ f.id >= e.id)}
    IN  /\ IF IsMessageKind(id)
           THEN \E f \in later : << id, f.id >> \in announced \/ f \in cut
           ELSE << id, 0 >> \in announced
        /\ e.kind = "welcome" => a \in emailed

Reached(e, a) == Reflected(e, a) /\ (e \in cut \/ Announced(e, a))

HandledInv ==
    /\ \A e \in handled : \A i \in DOMAIN Recipients(e) : Reached(e, Recipients(e)[i])
    /\ \A w \in Workers : job[w].op = "event" =>
         /\ \A i \in 1..(Len(Recipients(job[w].e)) - Len(job[w].todo)) : Reached(job[w].e, Recipients(job[w].e)[i])
         /\ job[w].pc \in {"emit", "email"} => Reflected(job[w].e, Head(job[w].todo))

After(c, p) == c.sort = 0 \/ Above(c, p)

ReaderInv ==
    /\ reader = [state |-> reader.state, account |-> reader.account, cursor |-> reader.cursor,
                 seen |-> reader.seen, twice |-> reader.twice, moved |-> reader.moved]
    /\ reader.state \in {"off", "reading", "done"}
    /\ reader.cursor.sort \in Nat /\ reader.cursor.id.key \in Nat
    /\ \A id \in IDs \ (reader.moved \cup raced) :
         /\ reader.state # "off" => id \notin reader.twice
         /\ id.account = reader.account =>
             \A r \in RowsOf(id) :
               /\ reader.state = "reading" => (After(reader.cursor, Position(r)) <=> id \notin reader.seen)
               /\ reader.state = "done" => id \in reader.seen

TablesInv ==
    /\ TablesType /\ (\A w \in Workers : JobInv(w)) /\ OnePerTopic /\ ValuesInv
    /\ (\A id \in IDs \ raced : NotRacedInv(id))
    /\ HandledInv /\ ReaderInv

-----------------------------------------------------------------------------
(* Times, events and ids *)

LEMMA EventFacts ==
    \A e \in Events :
        /\ e.kind \in {"welcome", "mention", "message", "sent", "cancelled", "accepted", "rejected"}
        /\ e.id \in Nat /\ e.room \in Nat /\ e.at \in Nat /\ e.at >= Milli
        /\ e.from \in Accounts /\ e.to \in Seq(Accounts)
        /\ e.kind \in {"sent", "cancelled"} => e.to # << >>
  BY EventsAssumption

LEMMA Bounds == Milli \in Nat \ {0} /\ PageLimit \in Nat \ {0}
  BY BoundsAssumption

\* A stored time is the last multiple of a millisecond before it.
LEMMA StoredIs ==
    ASSUME NEW t \in Nat
    PROVE  \E k \in Nat : Stored(t) = Milli * k /\ Milli * k <= t /\ t < Milli * k + Milli
  <1>1. t = Milli * (t \div Milli) + (t % Milli) /\ t % Milli \in 0..(Milli - 1) /\ t \div Milli \in Nat
    BY Bounds
  <1>2. PICK k \in Nat : k = t \div Milli
    BY <1>1
  <1>3. Milli * k \in Nat
    BY <1>2, Bounds
  <1>4. Stored(t) = Milli * k
    BY <1>1, <1>2, <1>3, Bounds DEF Stored
  <1>5. Milli * k <= t /\ t < Milli * k + Milli
    BY <1>1, <1>2, <1>3, Bounds
  <1> QED BY <1>4, <1>5

LEMMA Multiples ==
    ASSUME NEW j \in Nat, NEW k \in Nat, Milli * j < Milli * k + Milli
    PROVE  Milli * j <= Milli * k
  <1>1. CASE j <= k
    <2>1. PICK d \in Nat : k = j + d
      <3>1. k - j \in Nat /\ k = j + (k - j)
        BY <1>1
      <3> QED BY <3>1
    <2>2. Milli * k = Milli * j + Milli * d /\ Milli * d \in Nat /\ Milli * j \in Nat
      BY <2>1, Bounds
    <2> QED BY <2>2
  <1>2. CASE j >= k + 1
    <2>1. PICK d \in Nat : j = k + 1 + d
      <3>1. j - k - 1 \in Nat /\ j = k + 1 + (j - k - 1)
        BY <1>2
      <3> QED BY <3>1
    <2>2. Milli * j = Milli * k + Milli + Milli * d /\ Milli * d \in Nat /\ Milli * k \in Nat
      BY <2>1, Bounds
    <2> QED BY <2>2, Bounds
  <1> QED BY <1>1, <1>2

LEMMA StoredType ==
    ASSUME NEW t \in Nat
    PROVE  Stored(t) \in Nat /\ Stored(t) <= t /\ t < Stored(t) + Milli /\ (t >= Milli => Stored(t) > 0)
  <1>1. PICK k \in Nat : Stored(t) = Milli * k /\ Milli * k <= t /\ t < Milli * k + Milli
    BY StoredIs
  <1>2. Milli * k \in Nat
    BY Bounds
  <1> QED BY <1>1, <1>2, Bounds

LEMMA StoredBefore ==
    ASSUME NEW s \in Nat, NEW t \in Nat, Stored(s) < Stored(t)
    PROVE  s < Stored(t)
  <1>1. PICK j \in Nat : Stored(s) = Milli * j /\ Milli * j <= s /\ s < Milli * j + Milli
    BY StoredIs
  <1>2. PICK k \in Nat : Stored(t) = Milli * k
    BY StoredIs
  <1>3. Milli * j \in Nat /\ Milli * k \in Nat
    BY Bounds
  <1>4. Milli * k >= Milli * j + Milli
    BY <1>1, <1>2, <1>3, Multiples, Bounds
  <1> QED BY <1>1, <1>2, <1>3, <1>4, Bounds

LEMMA StoredTwice ==
    ASSUME NEW t \in Nat
    PROVE  Stored(Stored(t)) = Stored(t)
  <1>1. PICK s \in Nat : s = Stored(t)
    BY StoredType
  <1>2. Stored(s) <= s /\ Stored(s) \in Nat /\ s < Stored(s) + Milli
    BY StoredType
  <1>3. ~ (Stored(s) < Stored(t))
    <2>1. ASSUME Stored(s) < Stored(t) PROVE FALSE
      <3>1. s < Stored(t)
        BY <2>1, StoredBefore
      <3> QED BY <1>1, <3>1
    <2> QED BY <2>1
  <1> QED BY <1>1, <1>2, <1>3

\* A row is what was saved, with the times stored.
LEMMA RowIs ==
    ASSUME NEW n \in Snaps
    PROVE  /\ Row(n) \in Snaps
           /\ Row(n).sort = Stored(n.sort) /\ Row(n).lastAt = Stored(n.lastAt)
           /\ Row(n).count = n.count /\ Row(n).last = n.last /\ (Row(n).read <=> n.read)
           /\ n.sort \in Nat /\ n.lastAt \in Nat /\ n.count \in Nat /\ n.last \in Nat
  <1>1. n.sort \in Nat /\ n.lastAt \in Nat /\ n.count \in Nat /\ n.last \in Nat
    BY DEF Snaps
  <1>2. PICK s \in Nat : s = Stored(n.sort)
    BY <1>1, StoredType
  <1>3. PICK t \in Nat : t = Stored(n.lastAt)
    BY <1>1, StoredType
  <1>4. Row(n) = [n EXCEPT !.sort = s, !.lastAt = t]
    BY <1>2, <1>3, Zenon DEF Row
  <1> QED BY <1>1, <1>2, <1>3, <1>4 DEF Snaps

LEMMA NoneType == None \in Snaps /\ None.sort = 0
  BY DEF None, Snaps

\* What is stored already is stored as it is.
LEMMA RowTwice ==
    ASSUME NEW n \in Snaps, n.sort = Stored(n.sort), n.lastAt = Stored(n.lastAt)
    PROVE  Row(n) = n
  <1>1. Row(n) = [n EXCEPT !.sort = n.sort, !.lastAt = n.lastAt]
    BY Zenon DEF Row
  <1>2. [n EXCEPT !.sort = n.sort, !.lastAt = n.lastAt] = n
    BY DEF Snaps
  <1> QED BY <1>1, <1>2

\* Ids.
LEMMA IDOf ==
    ASSUME NEW e \in Events, NEW a \in Accounts
    PROVE  /\ NotificationID(e, a) \in IDs
           /\ NotificationID(e, a).kind = e.kind /\ NotificationID(e, a).account = a
           /\ NotificationID(e, a).key = IF e.kind = "message" THEN e.room ELSE e.id
           /\ NotificationID(e, a).key \in Nat
           /\ IsMessageKind(NotificationID(e, a)) <=> e.kind = "message"
           /\ e.kind = "message" => e \in Messages(NotificationID(e, a))
  <1>1. NotificationID(e, a) \in IDs
    BY DEF IDs
  <1>2. /\ NotificationID(e, a).kind = e.kind /\ NotificationID(e, a).account = a
        /\ NotificationID(e, a).key = IF e.kind = "message" THEN e.room ELSE e.id
    BY DEF NotificationID
  <1>3. NotificationID(e, a).key \in Nat
    BY <1>2, EventFacts
  <1> QED BY <1>1, <1>2, <1>3 DEF IsMessageKind, Messages

LEMMA IDFrom ==
    ASSUME NEW id \in IDs
    PROVE  /\ \E e \in Events : id = NotificationID(e, id.account) /\ id.kind = e.kind
           /\ id.account \in Accounts /\ id.key \in Nat
           /\ id = [kind |-> id.kind, key |-> id.key, account |-> id.account]
  <1>1. PICK e \in Events, a \in Accounts : id = NotificationID(e, a)
    BY DEF IDs
  <1>2. id.account = a /\ id.key \in Nat /\ id.kind = e.kind
    BY <1>1, IDOf
  <1>3. id = [kind |-> id.kind, key |-> id.key, account |-> id.account]
    BY <1>1 DEF NotificationID
  <1> QED BY <1>1, <1>2, <1>3

LEMMA NoIDIsNone == NoID \notin IDs
  <1>1. ASSUME NoID \in IDs PROVE FALSE
    <2>1. PICK e \in Events : NoID.kind = e.kind
      BY <1>1, IDFrom
    <2>2. NoID.kind = "none"
      BY DEF NoID
    <2>3. e.kind # "none"
      BY EventFacts
    <2> QED BY <2>1, <2>2, <2>3
  <1> QED BY <1>1

LEMMA NoEventIsNone == NoEvent \notin Events /\ NoEvent.kind = "none"
  BY EventFacts DEF NoEvent

\* An id that is no room's is of one event.
LEMMA OneEvent ==
    ASSUME NEW e \in Events, NEW f \in Events, NEW a \in Accounts, NEW b \in Accounts,
           NotificationID(e, a) = NotificationID(f, b), e.kind # "message"
    PROVE  e = f /\ a = b
  <1>1. e.kind = f.kind /\ e.id = f.id /\ a = b
    BY IDOf
  <1> QED BY <1>1, IDsAssumption

LEMMA OneKey ==
    ASSUME NEW x \in IDs, NEW y \in IDs, x.account = y.account, x.key = y.key
    PROVE  x = y
  <1>1. PICK e \in Events : x = NotificationID(e, x.account) /\ x.kind = e.kind
    BY IDFrom
  <1>2. PICK f \in Events : y = NotificationID(f, y.account) /\ y.kind = f.kind
    BY IDFrom
  <1>3. x.account \in Accounts
    BY IDFrom
  <1>4. e.kind = f.kind
    BY <1>1, <1>2, <1>3, IDsAssumption
  <1> QED BY <1>1, <1>2, <1>4, IDFrom

\* Messages of one room.
LEMMA MessageFacts ==
    ASSUME NEW id \in IDs, NEW e \in Messages(id)
    PROVE  e \in Events /\ e.kind = "message" /\ e.id \in Nat /\ e.at \in Nat /\ e.at >= Milli
           /\ Stored(e.at) \in Nat /\ Stored(e.at) <= e.at /\ e.room = id.key
  <1>1. e \in Events /\ e.kind = "message" /\ e.room = id.key
    BY DEF Messages
  <1> QED BY <1>1, EventFacts, StoredType

LEMMA OneMessage ==
    ASSUME NEW id \in IDs, NEW e \in Messages(id), NEW f \in Messages(id), e.id = f.id
    PROVE  e.at = f.at
  <1>1. e \in Events /\ f \in Events /\ e.kind = "message" /\ f.kind = "message"
    BY MessageFacts
  <1> QED BY <1>1, IDsAssumption

\* Of two messages that are not of the same millisecond, the one that looks stale is not the later one.
LEMMA StaleIsNotLater ==
    ASSUME NEW id \in IDs, NEW e \in Messages(id), NEW g \in Messages(id), NEW m,
           m.last = g.id, m.lastAt = Stored(g.at), ~SameMillisecond(id)
    PROVE  isMessageActivityStale(m, e) <=> NotAhead(Mark(e), m)
  <1>0. /\ e.id \in Nat /\ e.at \in Nat /\ Stored(e.at) \in Nat /\ Stored(e.at) <= e.at
        /\ g.id \in Nat /\ g.at \in Nat /\ Stored(g.at) \in Nat /\ Stored(g.at) <= g.at
    BY MessageFacts
  <1>1. Mark(e).last = e.id /\ Mark(e).lastAt = Stored(e.at)
    BY DEF Mark
  <1>2. isMessageActivityStale(m, e) <=> (g.id = e.id \/ e.at < Stored(g.at) \/ (e.at = Stored(g.at) /\ e.id <= g.id))
    BY DEF isMessageActivityStale
  <1>3. NotAhead(Mark(e), m) <=> (Stored(e.at) < Stored(g.at) \/ (Stored(e.at) = Stored(g.at) /\ e.id <= g.id))
    BY <1>1 DEF NotAhead
  <1>4. CASE e.id = g.id
    <2>1. e.at = g.at
      BY <1>4, OneMessage
    <2> QED BY <1>0, <1>2, <1>3, <1>4, <2>1
  <1>5. CASE e.id # g.id
    <2>1. CASE Stored(e.at) = Stored(g.at)
      <3>1. e.at = Stored(e.at)
        BY <1>5, <2>1 DEF SameMillisecond
      <3> QED BY <1>0, <1>2, <1>3, <1>5, <2>1, <3>1
    <2>2. CASE Stored(e.at) < Stored(g.at)
      <3>1. e.at < Stored(g.at)
        BY <1>0, <2>2, StoredBefore
      <3> QED BY <1>2, <1>3, <2>2, <3>1
    <2>3. CASE Stored(e.at) > Stored(g.at)
      BY <1>0, <1>2, <1>3, <1>5, <2>3
    <2> QED BY <1>0, <2>1, <2>2, <2>3
  <1> QED BY <1>4, <1>5

-----------------------------------------------------------------------------
(* Counting *)

\* The elements of a finite set of numbers have ranks without gaps.
Lower(P, k) == {j \in P : j < k}

LEMMA LowerSize ==
    ASSUME NEW P, P \subseteq Nat, IsFiniteSet(P), NEW k
    PROVE  IsFiniteSet(Lower(P, k)) /\ Cardinality(Lower(P, k)) \in Nat /\ Cardinality(P) \in Nat
  <1>1. Lower(P, k) \in SUBSET P
    BY DEF Lower
  <1> QED BY <1>1, FS_Subset, FS_CardinalityType

LEMMA Ranks ==
    ASSUME NEW P, P \subseteq Nat, IsFiniteSet(P)
    PROVE  \A i \in 1..Cardinality(P) : \E k \in P : Cardinality(Lower(P, k)) = i - 1
  <1>0. Cardinality(P) \in Nat
    BY FS_CardinalityType
  <1> DEFINE f == [k \in P |-> Cardinality(Lower(P, k)) + 1]
  <1>1. ASSUME NEW k \in P PROVE Cardinality(Lower(P, k)) + 1 \in 1..Cardinality(P)
    <2>1. Lower(P, k) \in SUBSET P
      BY DEF Lower
    <2>2. k \notin Lower(P, k)
      BY DEF Lower
    <2>3. Cardinality(Lower(P, k)) <= Cardinality(P) /\ Cardinality(Lower(P, k)) # Cardinality(P)
      BY <2>1, <2>2, FS_Subset
    <2>4. Cardinality(Lower(P, k)) \in Nat
      BY LowerSize
    <2> QED BY <1>0, <2>3, <2>4
  <1>2. ASSUME NEW j \in P, NEW k \in P, j < k PROVE Cardinality(Lower(P, j)) < Cardinality(Lower(P, k))
    <2>0. \A x \in P : x \in Nat
      OBVIOUS
    <2>1. ASSUME NEW x \in Lower(P, j) PROVE x \in Lower(P, k)
      <3>1. x \in P /\ x \in Nat /\ j \in Nat /\ k \in Nat /\ x < j
        BY <2>0 DEF Lower
      <3>2. x < k
        BY <1>2, <3>1
      <3> QED BY <3>1, <3>2 DEF Lower
    <2>2. j \in Lower(P, k) /\ j \notin Lower(P, j)
      BY <1>2 DEF Lower
    <2>3. Lower(P, j) \in SUBSET Lower(P, k) /\ Lower(P, j) # Lower(P, k)
      BY <2>1, <2>2
    <2>4. Cardinality(Lower(P, j)) <= Cardinality(Lower(P, k)) /\ Cardinality(Lower(P, j)) # Cardinality(Lower(P, k))
      BY <2>3, LowerSize, FS_Subset
    <2>5. Cardinality(Lower(P, j)) \in Nat
      BY LowerSize
    <2>6. Cardinality(Lower(P, k)) \in Nat
      BY LowerSize
    <2> QED BY <2>4, <2>5, <2>6
  <1>3. ASSUME NEW j \in P, NEW k \in P, j # k PROVE Cardinality(Lower(P, j)) # Cardinality(Lower(P, k))
    <2>1. j < k \/ k < j
      BY <1>3
    <2>2. Cardinality(Lower(P, j)) \in Nat /\ Cardinality(Lower(P, k)) \in Nat
      BY LowerSize
    <2>3. CASE j < k
      BY <1>2, <2>2, <2>3
    <2>4. CASE k < j
      BY <1>2, <2>2, <2>4
    <2> QED BY <2>1, <2>3, <2>4
  <1>4. f \in Injection(P, 1..Cardinality(P))
    <2>1. ASSUME NEW j \in P, NEW k \in P, Cardinality(Lower(P, j)) + 1 = Cardinality(Lower(P, k)) + 1 PROVE j = k
      <3>1. Cardinality(Lower(P, j)) \in Nat
        BY LowerSize
      <3>2. Cardinality(Lower(P, k)) \in Nat
        BY LowerSize
      <3> QED BY <1>3, <2>1, <3>1, <3>2
    <2> QED BY <1>1, <2>1 DEF Injection, IsInjective
  <1>5. PICK n \in Nat : n = Cardinality(P)
    BY <1>0
  <1>6. PICK T : T = 1..n
    OBVIOUS
  <1>7. IsFiniteSet(T) /\ Cardinality(T) = n
    BY <1>6, FS_Interval
  <1> HIDE DEF f
  <1>8. f \in Surjection(P, T)
    BY <1>4, <1>5, <1>6, <1>7, FS_Injection
  <1>9. \A i \in T : \E k \in P : f[k] = i
    BY <1>8 DEF Surjection
  <1>10. ASSUME NEW i \in 1..Cardinality(P) PROVE \E k \in P : Cardinality(Lower(P, k)) = i - 1
    <2>1. PICK k \in P : f[k] = i
      BY <1>5, <1>6, <1>9
    <2>2. Cardinality(Lower(P, k)) + 1 = i
      BY <2>1 DEF f
    <2>3. Cardinality(Lower(P, k)) \in Nat
      BY LowerSize
    <2> QED BY <2>2, <2>3
  <1> QED BY <1>10

\* The recipients of an event are accounts.
LEMMA PickedType ==
    ASSUME NEW e \in Events, NEW P, P \subseteq DOMAIN e.to
    PROVE  Picked(e, P) \in Seq(Accounts)
  <1>1. e.to \in Seq(Accounts)
    BY EventFacts
  <1>2. PICK n \in Nat : n = Len(e.to) /\ DOMAIN e.to = 1..n
    BY <1>1
  <1>3. PICK T : T = 1..n
    OBVIOUS
  <1>9. IsFiniteSet(T)
    BY <1>3, FS_Interval
  <1>4. IsFiniteSet(T) /\ P \in SUBSET T /\ P \subseteq Nat
    BY <1>2, <1>3, <1>9
  <1>5. IsFiniteSet(P) /\ Cardinality(P) \in Nat
    BY <1>4, FS_Subset, FS_CardinalityType
  <1>6. ASSUME NEW i \in 1..Cardinality(P) PROVE Picked(e, P)[i] \in Accounts
    <2> DEFINE c == CHOOSE k \in P : Cardinality({j \in P : j < k}) = i - 1
    <2>1. Picked(e, P)[i] = e.to[c]
      BY DEF Picked
    <2>2. PICK k \in P : Cardinality(Lower(P, k)) = i - 1
      BY <1>4, <1>5, Ranks
    <2>3. Cardinality({j \in P : j < k}) = i - 1
      BY <2>2, Zenon DEF Lower
    <2>4. c \in P
      BY <2>3, Zenon
    <2> HIDE DEF c
    <2>5. c \in 1..n /\ n = Len(e.to)
      BY <1>2, <2>4
    <2> QED BY <1>1, <2>1, <2>5
  <1>7. PICK m \in Nat : m = Cardinality(P)
    BY <1>5
  <1>8. Picked(e, P) \in [1..m -> Accounts]
    BY <1>6, <1>7 DEF Picked
  <1> QED BY <1>8

LEMMA RecipientsType ==
    ASSUME NEW e \in Events
    PROVE  Recipients(e) \in Seq(Accounts)
  <1>0. e.from \in Accounts /\ e.to \in Seq(Accounts) /\ (e.kind \in {"sent", "cancelled"} => e.to # << >>)
    BY EventFacts
  <1>1. NotSender(e) \subseteq DOMAIN e.to
    BY DEF NotSender
  <1>2. CASE e.kind = "message"
    <2>1. Recipients(e) = << >> \/ Recipients(e) = Picked(e, NotSender(e))
      <3>1. CASE e.deleted
        BY <1>2, <3>1 DEF Recipients, IsFriendRequest
      <3>2. CASE ~e.deleted
        BY <1>2, <3>2 DEF Recipients, IsFriendRequest
      <3> QED BY <3>1, <3>2
    <2>2. Picked(e, NotSender(e)) \in Seq(Accounts)
      BY <1>1, PickedType
    <2>3. << >> \in Seq(Accounts)
      OBVIOUS
    <2> QED BY <2>1, <2>2, <2>3
  <1>3. CASE e.kind = "mention"
    <2>1. Recipients(e) = MentionRecipients(e)
      BY <1>3 DEF Recipients, IsFriendRequest
    <2>2. PICK P : P = {k \in NotSender(e) : \A j \in 1..(k - 1) : e.to[j] # e.to[k]}
      OBVIOUS
    <2>3. P \subseteq DOMAIN e.to /\ MentionRecipients(e) = Picked(e, P)
      BY <1>1, <2>2 DEF MentionRecipients
    <2> QED BY <2>1, <2>3, PickedType
  <1>4. CASE e.kind = "welcome"
    <2>1. Recipients(e) = e.to
      BY <1>4 DEF Recipients, IsFriendRequest
    <2> QED BY <1>0, <2>1
  <1>5. CASE IsFriendRequest(e)
    <2>1. Recipients(e) = << FriendRequestRecipient(e) >>
      BY <1>5 DEF Recipients, IsFriendRequest
    <2>2. FriendRequestRecipient(e) \in Accounts
      <3>1. CASE e.kind \in {"accepted", "rejected"}
        BY <1>0, <3>1 DEF FriendRequestRecipient
      <3>2. CASE e.kind \notin {"accepted", "rejected"}
        <4>1. e.kind \in {"sent", "cancelled"}
          BY <1>5, <3>2 DEF IsFriendRequest
        <4>2. e.to[1] \in Accounts
          BY <1>0, <4>1
        <4> QED BY <3>2, <4>2 DEF FriendRequestRecipient
      <3> QED BY <3>1, <3>2
    <2> QED BY <2>1, <2>2
  <1> QED BY <1>2, <1>3, <1>4, <1>5, EventFacts DEF IsFriendRequest

-----------------------------------------------------------------------------
(* Counted messages *)

LEMMA UpToFinite ==
    ASSUME NEW id, NEW m
    PROVE  IsFiniteSet(UpTo(id, m)) /\ Cardinality(UpTo(id, m)) \in Nat
  <1>1. PICK S : S = {e \in Messages(id) : NotAhead(Mark(e), m)}
    OBVIOUS
  <1>2. S \in SUBSET Events
    BY <1>1 DEF Messages
  <1>3. IsFiniteSet(S)
    BY <1>2, EventsAssumption, FS_Subset
  <1> DEFINE f == [e \in S |-> e.id]
  <1>4. UpTo(id, m) = {e.id : e \in S}
    BY <1>1 DEF UpTo
  <1>5. f \in Surjection(S, UpTo(id, m))
    BY <1>4 DEF Surjection
  <1> HIDE DEF f
  <1>6. IsFiniteSet(UpTo(id, m))
    BY <1>3, <1>5, FS_Surjection
  <1> QED BY <1>6, FS_CardinalityType

\* NotAhead is the order of times and numbers.
LEMMA NotAheadOrder ==
    ASSUME NEW a, NEW b, NEW c, a.last \in Nat, a.lastAt \in Nat, b.last \in Nat, b.lastAt \in Nat,
           c.last \in Nat, c.lastAt \in Nat
    PROVE  /\ NotAhead(a, a)
           /\ NotAhead(a, b) /\ NotAhead(b, c) => NotAhead(a, c)
           /\ NotAhead(a, b) \/ NotAhead(b, a)
  BY DEF NotAhead

\* m is of the message e.
Of(m, e) == m.last = e.id /\ m.lastAt = Stored(e.at)

LEMMA MarkIs ==
    ASSUME NEW id \in IDs, NEW e \in Messages(id)
    PROVE  Of(Mark(e), e) /\ Mark(e).last \in Nat /\ Mark(e).lastAt \in Nat
  <1>1. Mark(e).last = e.id /\ Mark(e).lastAt = Stored(e.at)
    BY DEF Mark
  <1> QED BY <1>1, MessageFacts DEF Of

LEMMA NotAheadOf ==
    ASSUME NEW x, NEW y, NEW a, NEW b, x.last = a.last, x.lastAt = a.lastAt, y.last = b.last, y.lastAt = b.lastAt
    PROVE  NotAhead(x, y) <=> NotAhead(a, b)
  BY DEF NotAhead

LEMMA UpToSelf ==
    ASSUME NEW id \in IDs, NEW e \in Messages(id), NEW m, Of(m, e)
    PROVE  e.id \in UpTo(id, m) /\ Cardinality(UpTo(id, m)) >= 1
  <1>1. NotAhead(Mark(e), m)
    BY MessageFacts DEF NotAhead, Mark, Of
  <1>2. e.id \in UpTo(id, m)
    BY <1>1 DEF UpTo
  <1>3. UpTo(id, m) # {}
    BY <1>2
  <1>4. Cardinality(UpTo(id, m)) # 0 /\ Cardinality(UpTo(id, m)) \in Nat
    BY <1>3, UpToFinite, FS_EmptySet
  <1> QED BY <1>2, <1>4

LEMMA UpToMore ==
    ASSUME NEW id \in IDs, NEW g \in Messages(id), NEW e \in Messages(id), NEW m, NEW n,
           Of(m, g), Of(n, e), ~NotAhead(Mark(e), m)
    PROVE  Cardinality(UpTo(id, n)) >= Cardinality(UpTo(id, m)) + 1 /\ NotAhead(m, n)
  <1>1. /\ m.last \in Nat /\ m.lastAt \in Nat /\ n.last \in Nat /\ n.lastAt \in Nat
        /\ Mark(e).last = n.last /\ Mark(e).lastAt = n.lastAt
    BY MessageFacts, MarkIs DEF Of
  <1>2. NotAhead(m, n)
    BY <1>1 DEF NotAhead
  <1>3. UpTo(id, m) \subseteq UpTo(id, n)
    <2>1. ASSUME NEW f \in Messages(id), NotAhead(Mark(f), m) PROVE NotAhead(Mark(f), n)
      <3>1. Mark(f).last \in Nat /\ Mark(f).lastAt \in Nat
        BY MarkIs
      <3> QED BY <1>1, <1>2, <2>1, <3>1, NotAheadOrder
    <2> QED BY <2>1 DEF UpTo
  <1>4. e.id \notin UpTo(id, m)
    <2> SUFFICES ASSUME e.id \in UpTo(id, m) PROVE FALSE
      OBVIOUS
    <2>1. PICK f \in Messages(id) : NotAhead(Mark(f), m) /\ f.id = e.id
      BY DEF UpTo
    <2>2. Mark(f) = Mark(e)
      BY <2>1, OneMessage DEF Mark
    <2> QED BY <2>1, <2>2
  <1>5. e.id \in UpTo(id, n)
    BY UpToSelf
  <1>6. UpTo(id, m) \in SUBSET UpTo(id, n) /\ UpTo(id, m) # UpTo(id, n)
    BY <1>3, <1>4, <1>5
  <1>7. Cardinality(UpTo(id, m)) <= Cardinality(UpTo(id, n)) /\ Cardinality(UpTo(id, m)) # Cardinality(UpTo(id, n))
    BY <1>6, UpToFinite, FS_Subset
  <1>8. Cardinality(UpTo(id, m)) \in Nat /\ Cardinality(UpTo(id, n)) \in Nat
    BY UpToFinite
  <1> QED BY <1>2, <1>7, <1>8

\* Which messages are counted depends on the last one only.
LEMMA UpToSame ==
    ASSUME NEW id, NEW m, NEW n, m.last = n.last, m.lastAt = n.lastAt
    PROVE  UpTo(id, m) = UpTo(id, n)
  BY DEF UpTo, NotAhead

-----------------------------------------------------------------------------
(* A step changes the job of one worker *)

OthersSame(w) == job' \in [Workers -> Jobs] /\ \A v \in Workers : v # w => job'[v] = job[v]

\* What never shrinks.
TablesGrow ==
    /\ DOMAIN byID \subseteq DOMAIN byID' /\ DOMAIN groups \subseteq DOMAIN groups'
    /\ announced \subseteq announced' /\ emailed \subseteq emailed' /\ cut \subseteq cut'
    /\ raced \subseteq raced'

\* Nobody else works on the topic.
TopicFree(w, e) == \A v \in Workers : v # w /\ job[v].op = "event" => Topic(job[v].e) # Topic(e)

Core == TablesType /\ (\A w \in Workers : JobInv(w)) /\ OnePerTopic

LEMMA IdleType ==
    /\ Idle \in Jobs /\ Idle.op = "none" /\ Idle.pc = "idle" /\ Idle.e = NoEvent
    /\ Idle.id = NoID /\ Idle.todo = << >> /\ Idle.ids = {}
  <1>1. << >> \in Seq(Accounts)
    OBVIOUS
  <1>2. None \in Snaps
    BY NoneType
  <1> QED BY <1>1, <1>2 DEF Idle, Jobs, Busy, Early, Late

LEMMA JobType ==
    ASSUME TablesType, NEW w \in Workers
    PROVE  /\ job[w] \in Jobs /\ job[w].n \in Snaps /\ job[w].prev \in Snaps /\ job[w].todo \in Seq(Accounts)
           /\ job[w].ids \in SUBSET IDs /\ job[w].id \in IDs \cup {NoID} /\ job[w].e \in Events \cup {NoEvent}
  BY DEF TablesType, Jobs

LEMMA CoreOf ==
    ASSUME Core, NEW w \in Workers
    PROVE  TablesType /\ JobInv(w) /\ OnePerTopic
  BY DEF Core

LEMMA OneJob ==
    ASSUME Core, NEW w \in Workers, OthersSame(w), TablesGrow, JobInv(w)',
           job'[w].op = "event" => (job[w].op = "event" /\ job'[w].e = job[w].e) \/ TopicFree(w, job'[w].e)
    PROVE  (\A v \in Workers : JobInv(v)') /\ OnePerTopic'
  <1>1. ASSUME NEW v \in Workers PROVE JobInv(v)'
    <2>1. CASE v = w
      BY <2>1
    <2>2. CASE v # w
      <3>1. job'[v] = job[v] /\ JobInv(v)
        BY <2>2 DEF Core, OthersSame
      <3> QED BY <3>1 DEF JobInv, TablesGrow
    <2> QED BY <2>1, <2>2
  <1>2. ASSUME NEW u \in Workers, NEW v \in Workers, job'[u].op = "event", job'[v].op = "event",
               Topic(job'[u].e) = Topic(job'[v].e), u # v
        PROVE  FALSE
    <2>1. \A x, y \in Workers : job[x].op = "event" /\ job[y].op = "event" /\ Topic(job[x].e) = Topic(job[y].e) => x = y
      BY DEF Core, OnePerTopic
    <2>2. CASE u = w
      <3>1. job'[v] = job[v]
        BY <1>2, <2>2 DEF OthersSame
      <3> QED BY <1>2, <2>1, <2>2, <3>1 DEF TopicFree
    <2>3. CASE v = w
      <3>1. job'[u] = job[u]
        BY <1>2, <2>3 DEF OthersSame
      <3> QED BY <1>2, <2>1, <2>3, <3>1 DEF TopicFree
    <2>4. CASE u # w /\ v # w
      <3>1. job'[u] = job[u] /\ job'[v] = job[v]
        BY <2>4 DEF OthersSame
      <3> QED BY <1>2, <2>1, <3>1
    <2> QED BY <2>2, <2>3, <2>4
  <1> QED BY <1>1, <1>2 DEF OnePerTopic

\* A worker that goes idle.
LEMMA GoesIdle ==
    ASSUME TablesType, NEW w \in Workers, job' = [job EXCEPT ![w] = Idle]
    PROVE  OthersSame(w) /\ job'[w] = Idle
  BY IdleType DEF TablesType, OthersSame

\* A worker that goes on to its next statement.
LEMMA GotoIs ==
    ASSUME TablesType, NEW w \in Workers, NEW pc \in {"idle", "load"} \cup Busy, Goto(w, pc)
    PROVE  /\ OthersSame(w) /\ job'[w].pc = pc /\ job'[w].op = job[w].op /\ job'[w].e = job[w].e
           /\ job'[w].todo = job[w].todo /\ job'[w].ids = job[w].ids /\ job'[w].id = job[w].id
           /\ job'[w].n = job[w].n /\ job'[w].prev = job[w].prev
  <1>1. job \in [Workers -> Jobs]
    BY DEF TablesType
  <1>2. PICK j : j = [job[w] EXCEPT !.pc = pc]
    OBVIOUS
  <1>3. job' = [job EXCEPT ![w] = j]
    BY <1>2 DEF Goto
  <1>4. /\ j \in Jobs /\ j.pc = pc /\ j.op = job[w].op /\ j.e = job[w].e /\ j.todo = job[w].todo
        /\ j.ids = job[w].ids /\ j.id = job[w].id /\ j.n = job[w].n /\ j.prev = job[w].prev
    BY <1>1, <1>2 DEF Jobs
  <1> QED BY <1>1, <1>3, <1>4 DEF OthersSame

LEMMA WillSaveIs ==
    ASSUME TablesType, NEW w \in Workers, NEW id \in IDs, NEW n \in Snaps, WillSave(w, id, n)
    PROVE  /\ OthersSame(w) /\ job'[w].pc = "previous" /\ job'[w].op = job[w].op /\ job'[w].e = job[w].e
           /\ job'[w].todo = job[w].todo /\ job'[w].ids = job[w].ids /\ job'[w].id = id /\ job'[w].n = n
  <1>1. job \in [Workers -> Jobs]
    BY DEF TablesType
  <1>2. PICK j : j = [job[w] EXCEPT !.pc = "previous", !.id = id, !.n = n]
    OBVIOUS
  <1>3. job' = [job EXCEPT ![w] = j]
    BY <1>2 DEF WillSave
  <1>4. /\ j \in Jobs /\ j.pc = "previous" /\ j.op = job[w].op /\ j.e = job[w].e /\ j.todo = job[w].todo
        /\ j.ids = job[w].ids /\ j.id = id /\ j.n = n
    BY <1>1, <1>2 DEF Jobs, Busy, Early
  <1> QED BY <1>1, <1>3, <1>4 DEF OthersSame

LEMMA StartIs ==
    ASSUME NEW e \in Events
    PROVE  /\ Start(e) \in Jobs /\ Start(e).op = "event" /\ Start(e).pc = "load" /\ Start(e).e = e
           /\ Start(e).todo = Recipients(e) /\ Start(e).id = NoID
  <1>1. Recipients(e) \in Seq(Accounts)
    BY RecipientsType
  <1> QED BY <1>1, IdleType DEF Start, Jobs

\* The first of the recipients that are left.
LEMMA HeadIs ==
    ASSUME NEW e \in Events, NEW todo \in Seq(Accounts), EndOf(todo, Recipients(e))
    PROVE  /\ Head(todo) \in Accounts /\ Len(todo) \in Nat /\ Len(todo) >= 1 /\ Len(Recipients(e)) \in Nat
           /\ Len(todo) <= Len(Recipients(e))
           /\ Head(todo) = Recipients(e)[Len(Recipients(e)) - Len(todo) + 1]
           /\ NotificationID(e, Head(todo)) \in IDs
  <1>1. Recipients(e) \in Seq(Accounts)
    BY RecipientsType
  <1>2. Len(todo) \in Nat /\ Len(todo) >= 1 /\ Len(Recipients(e)) \in Nat /\ Len(todo) <= Len(Recipients(e))
    BY <1>1 DEF EndOf
  <1>3. Head(todo) = todo[1] /\ todo[1] \in Accounts
    BY <1>2
  <1>4. todo[1] = Recipients(e)[Len(Recipients(e)) - Len(todo) + 1]
    BY <1>2 DEF EndOf
  <1> QED BY <1>2, <1>3, <1>4, IDOf

LEMMA WholeEnd ==
    ASSUME NEW e \in Events, Recipients(e) # << >>
    PROVE  EndOf(Recipients(e), Recipients(e))
  <1>1. PICK s \in Seq(Accounts) : s = Recipients(e)
    BY RecipientsType
  <1>2. Len(s) \in Nat /\ Len(s) # 0
    BY <1>1
  <1>3. Len(s) \in 1..Len(s) /\ \A i \in 1..Len(s) : s[i] = s[Len(s) - Len(s) + i]
    BY <1>2
  <1> QED BY <1>1, <1>3 DEF EndOf

LEMMA TailEnd ==
    ASSUME NEW e \in Events, NEW todo \in Seq(Accounts), EndOf(todo, Recipients(e)), Len(todo) > 1
    PROVE  Tail(todo) \in Seq(Accounts) /\ EndOf(Tail(todo), Recipients(e)) /\ Len(Tail(todo)) = Len(todo) - 1
  <1>1. PICK s \in Seq(Accounts) : s = Recipients(e)
    BY RecipientsType
  <1>2. Len(todo) \in 1..Len(s) /\ \A i \in 1..Len(todo) : todo[i] = s[Len(s) - Len(todo) + i]
    BY <1>1 DEF EndOf
  <1>3. PICK t \in Seq(Accounts) : t = Tail(todo) /\ Len(t) = Len(todo) - 1 /\ \A i \in 1..Len(t) : t[i] = todo[i + 1]
    <2>1. Tail(todo) \in Seq(Accounts) /\ Len(Tail(todo)) = Len(todo) - 1
      BY <1>2
    <2>2. \A i \in 1..(Len(todo) - 1) : Tail(todo)[i] = todo[i + 1]
      BY <1>2
    <2> QED BY <2>1, <2>2
  <1>4. ASSUME NEW i \in 1..Len(t) PROVE t[i] = s[Len(s) - Len(t) + i]
    <2>1. i + 1 \in 1..Len(todo) /\ Len(s) - Len(todo) + (i + 1) = Len(s) - Len(t) + i
      BY <1>2, <1>3
    <2> QED BY <1>2, <1>3, <2>1
  <1>5. EndOf(t, s)
    BY <1>2, <1>3, <1>4 DEF EndOf
  <1> QED BY <1>1, <1>3, <1>5

\* One recipient more is done.
OnOrDone(w) ==
    \/ /\ Len(job[w].todo) > 1 /\ handled' = handled
       /\ job'[w].op = "event" /\ job'[w].pc = "load" /\ job'[w].e = job[w].e
       /\ Len(job'[w].todo) = Len(job[w].todo) - 1
    \/ /\ Len(job[w].todo) = 1 /\ handled' = handled \cup {job[w].e}
       /\ job'[w] = Idle

LEMMA NextRecipientIs ==
    ASSUME Core, NEW w \in Workers, job[w].op = "event", NextRecipient(w)
    PROVE  OthersSame(w) /\ JobInv(w)' /\ OnOrDone(w)
  <1>1. TablesType /\ job \in [Workers -> Jobs]
    BY DEF Core, TablesType
  <1>2. PICK e \in Events : e = job[w].e
    BY DEF Core, JobInv
  <1>3. PICK todo \in Seq(Accounts) : todo = job[w].todo
    BY <1>1, JobType
  <1>4. EndOf(todo, Recipients(e)) /\ Len(todo) \in Nat /\ Len(todo) >= 1
    BY <1>2, <1>3, HeadIs DEF Core, JobInv
  <1>5. CASE Len(todo) > 1
    <2>1. Tail(todo) \in Seq(Accounts) /\ EndOf(Tail(todo), Recipients(e)) /\ Len(Tail(todo)) = Len(todo) - 1
      BY <1>4, <1>5, TailEnd
    <2>2. PICK t \in Seq(Accounts) : t = Tail(todo)
      BY <2>1
    <2>3. PICK j : j = [Idle EXCEPT !.op = "event", !.pc = "load", !.e = e, !.todo = t]
      OBVIOUS
    <2>4. j \in Jobs /\ j.op = "event" /\ j.pc = "load" /\ j.e = e /\ j.todo = t
      BY <2>3, IdleType DEF Jobs
    <2>5. job' = [job EXCEPT ![w] = j] /\ handled' = handled
      BY <1>2, <1>3, <1>5, <2>2, <2>3 DEF NextRecipient
    <2>6. OthersSame(w) /\ job'[w] = j
      BY <1>1, <2>4, <2>5 DEF OthersSame
    <2>7. JobInv(w)'
      BY <2>1, <2>2, <2>4, <2>6 DEF JobInv, Busy, Early, Late
    <2> QED BY <1>2, <1>3, <1>5, <2>1, <2>2, <2>4, <2>5, <2>6, <2>7 DEF OnOrDone
  <1>6. CASE Len(todo) = 1
    <2>1. job' = [job EXCEPT ![w] = Idle] /\ handled' = handled \cup {job[w].e}
      BY <1>3, <1>6 DEF NextRecipient
    <2>2. OthersSame(w) /\ job'[w] = Idle
      BY <1>1, <2>1, GoesIdle
    <2>3. JobInv(w)'
      BY <2>2, IdleType DEF JobInv, Busy, Early, Late
    <2> QED BY <1>3, <1>6, <2>1, <2>2, <2>3 DEF OnOrDone
  <1>7. Len(todo) > 1 \/ Len(todo) = 1
    <2>1. PICK k \in Nat : k = Len(todo) /\ k >= 1
      BY <1>4
    <2> QED BY <2>1
  <1> QED BY <1>5, <1>6, <1>7

-----------------------------------------------------------------------------
(* What notifications say stays true *)

\* The worker goes on with what it has in hand.
Keeps(w) ==
    /\ job[w].pc \in Busy /\ job'[w].pc \in Busy /\ job'[w].op = job[w].op /\ job'[w].e = job[w].e
    /\ job'[w].todo = job[w].todo /\ job'[w].id = job[w].id /\ job'[w].n = job[w].n

\* What a worker was about to announce is announced or cut when it lets go of it.
ToldStep(w) ==
    job[w].op = "event" /\ job[w].pc \in Busy =>
        Keeps(w) \/ \A i, x : i = job[w].id /\ x = job[w].e => Told(i, x)'

LEMMA ToldStays ==
    ASSUME NEW w \in Workers, OthersSame(w), TablesGrow, ToldStep(w), NEW id, NEW e, Told(id, e)
    PROVE  Told(id, e)'
  <1>1. CASE InFlight(id, e)
    <2>1. PICK v \in Workers : job[v].op = "event" /\ job[v].pc \in Busy /\ job[v].e = e /\ job[v].id = id
      BY <1>1 DEF InFlight
    <2>2. CASE v # w
      <3>1. job'[v] = job[v]
        BY <2>2 DEF OthersSame
      <3>2. InFlight(id, e)'
        BY <2>1, <3>1 DEF InFlight
      <3> QED BY <3>2 DEF Told
    <2>3. CASE v = w
      <3>1. CASE Keeps(w)
        <4>1. InFlight(id, e)'
          BY <2>1, <2>3, <3>1 DEF InFlight, Keeps
        <4> QED BY <4>1 DEF Told
      <3>2. CASE ~Keeps(w)
        BY <2>1, <2>3, <3>2 DEF ToldStep
      <3> QED BY <3>1, <3>2
    <2> QED BY <2>2, <2>3
  <1>2. CASE ~InFlight(id, e)
    BY <1>2 DEF Told, TablesGrow
  <1> QED BY <1>1, <1>2

LEMMA ValueStays ==
    ASSUME NEW w \in Workers, OthersSame(w), TablesGrow, ToldStep(w), NEW id, NEW m, ValueOK(id, m)
    PROVE  ValueOK(id, m)'
  <1>1. CASE IsMessageKind(id)
    <2>1. PICK g \in Messages(id) :
            /\ m.last = g.id /\ m.lastAt = Stored(g.at) /\ Told(id, g)
            /\ SameMillisecond(id) \/ m.count <= Cardinality(UpTo(id, m))
      BY <1>1 DEF ValueOK
    <2>2. Told(id, g)'
      BY <2>1, ToldStays
    <2> QED BY <1>1, <2>1, <2>2 DEF ValueOK
  <1>2. CASE ~IsMessageKind(id)
    BY <1>2 DEF ValueOK
  <1> QED BY <1>1, <1>2

\* A table has what it had, or what the worker had in hand.
Written(w) ==
    /\ \A i \in DOMAIN byID' : \/ i \in DOMAIN byID /\ byID'[i] = byID[i]
                               \/ i = job[w].id /\ byID'[i] = Row(job[w].n) /\ Keeps(w)
    /\ \A i \in DOMAIN groups' : \/ i \in DOMAIN groups /\ groups'[i] = groups[i]
                                 \/ i = job[w].id /\ groups'[i] = Row(job[w].n) /\ job[w].pc \in Busy
    /\ \A r \in byAccount' : \/ r \in byAccount
                             \/ r.id = job[w].id /\ r.n = Row(job[w].n) /\ job[w].pc \in Busy

\* What the worker has in hand now.
InHand(w, id, n) ==
    /\ ValueOK(id, Row(n))
    /\ job[w].op = "event" /\ IsMessageKind(id) =>
          n.last = job[w].e.id /\ Stored(n.lastAt) = Stored(job[w].e.at)

HandStep(w) == Keeps(w) \/ job'[w].pc \notin Busy \/ (\A i, m : i = job'[w].id /\ m = job'[w].n => InHand(w, i, m)')

LEMMA ValuesStay ==
    ASSUME Core, ValuesInv, NEW w \in Workers, OthersSame(w), TablesGrow, ToldStep(w), Written(w), HandStep(w)
    PROVE  ValuesInv'
  <1>0. TablesType /\ JobInv(w) /\ job \in [Workers -> Jobs]
    BY DEF Core, TablesType
  <1>1. job[w].pc \in Busy => ValueOK(job[w].id, Row(job[w].n))
    BY DEF ValuesInv
  <1>2. PICK x, y, m : x = job[w].id /\ y = job[w].n /\ m = Row(y)
    OBVIOUS
  <1>3. job[w].pc \in Busy => ValueOK(x, m)'
    BY <1>1, <1>2, ValueStays
  <1>4. ASSUME NEW i \in DOMAIN byID' PROVE ValueOK(i, byID[i])'
    <2>1. PICK k : k = byID'[i]
      OBVIOUS
    <2>2. ValueOK(i, k)'
      <3>1. CASE i \in DOMAIN byID /\ k = byID[i]
        <4>1. ValueOK(i, k)
          BY <3>1 DEF ValuesInv
        <4> QED BY <4>1, ValueStays
      <3>2. CASE i = x /\ k = m /\ job[w].pc \in Busy
        BY <1>3, <3>2
      <3> QED BY <1>2, <2>1, <3>1, <3>2 DEF Written, Keeps
    <2> QED BY <2>1, <2>2
  <1>5. ASSUME NEW i \in DOMAIN groups' PROVE ValueOK(i, groups[i])'
    <2>1. PICK k : k = groups'[i]
      OBVIOUS
    <2>2. ValueOK(i, k)'
      <3>1. CASE i \in DOMAIN groups /\ k = groups[i]
        <4>1. ValueOK(i, k)
          BY <3>1 DEF ValuesInv
        <4> QED BY <4>1, ValueStays
      <3>2. CASE i = x /\ k = m /\ job[w].pc \in Busy
        BY <1>3, <3>2
      <3> QED BY <1>2, <2>1, <3>1, <3>2 DEF Written
    <2> QED BY <2>1, <2>2
  <1>6. ASSUME NEW r \in byAccount' PROVE ValueOK(r.id, r.n)'
    <2>1. CASE r \in byAccount
      <3>1. ValueOK(r.id, r.n)
        BY <2>1 DEF ValuesInv
      <3> QED BY <3>1, ValueStays
    <2>2. CASE r.id = x /\ r.n = m /\ job[w].pc \in Busy
      BY <1>3, <2>2
    <2> QED BY <1>2, <2>1, <2>2 DEF Written
  <1>7. ASSUME NEW v \in Workers, job'[v].pc \in Busy PROVE InHand(v, job[v].id, job[v].n)'
    <2>1. PICK i, k : i = job'[v].id /\ k = job'[v].n
      OBVIOUS
    <2>2. ASSUME job'[v].op = job[v].op, job'[v].e = job[v].e, job[v].pc \in Busy, i = job[v].id, k = job[v].n
          PROVE  InHand(v, i, k)'
      <3>1. ValueOK(i, Row(k))
        BY <2>2 DEF ValuesInv
      <3>2. PICK z : z = Row(k)
        OBVIOUS
      <3>3. ValueOK(i, z)'
        BY <3>1, <3>2, ValueStays
      <3>4. job[v].op = "event" /\ IsMessageKind(i) => k.last = job[v].e.id /\ Stored(k.lastAt) = Stored(job[v].e.at)
        BY <2>2 DEF ValuesInv
      <3> QED BY <2>2, <3>2, <3>3, <3>4 DEF InHand
    <2>3. CASE v # w
      <3>1. job'[v] = job[v]
        BY <2>3 DEF OthersSame
      <3>2. InHand(v, i, k)'
        BY <1>7, <2>1, <2>2, <3>1
      <3> QED BY <2>1, <3>2
    <2>4. CASE v = w /\ Keeps(w)
      <3>1. InHand(v, i, k)'
        BY <1>7, <2>1, <2>2, <2>4 DEF Keeps
      <3> QED BY <2>1, <3>1
    <2>5. CASE v = w /\ ~Keeps(w)
      <3>1. InHand(v, i, k)'
        BY <1>7, <2>1, <2>5 DEF HandStep
      <3> QED BY <2>1, <3>1
    <2> QED BY <2>3, <2>4, <2>5
  <1>8. ASSUME NEW i \in DOMAIN byID', NEW e \in Events, ~IsMessageKind(i), NotificationID(e, i.account) = i
        PROVE  Told(i, e)'
    <2>1. CASE i \in DOMAIN byID
      <3>1. Told(i, e)
        BY <1>8, <2>1 DEF ValuesInv
      <3> QED BY <3>1, ToldStays
    <2>2. CASE i \notin DOMAIN byID
      <3>1. i = job[w].id /\ Keeps(w)
        BY <2>2 DEF Written
      <3>2. job[w].op = "event"
        BY <1>0, <2>2, <3>1 DEF JobInv, Jobs, Keeps, Busy, Early, Late
      <3>3. PICK f \in Events : f = job[w].e /\ i = NotificationID(f, Head(job[w].todo))
        BY <1>0, <3>1, <3>2 DEF JobInv, Keeps, Busy, Early, Late
      <3>4. Head(job[w].todo) \in Accounts
        BY <1>0, <3>2, <3>3, HeadIs, JobType DEF JobInv
      <3>5. i.account \in Accounts /\ i.kind = f.kind /\ e.kind = i.kind
        BY <3>3, <3>4, IDOf, IDFrom, <1>8
      <3>6. e = f
        BY <1>8, <3>3, <3>4, <3>5, OneEvent DEF IsMessageKind
      <3>7. InFlight(i, e)'
        BY <3>1, <3>2, <3>3, <3>6 DEF InFlight, Keeps
      <3> QED BY <3>7 DEF Told
    <2> QED BY <2>1, <2>2
  <1> QED BY <1>4, <1>5, <1>6, <1>7, <1>8 DEF ValuesInv, InHand

-----------------------------------------------------------------------------
(* Notifications nobody raced for *)

\* The tables have of a notification what they had.
SameAt(id) ==
    /\ id \in DOMAIN byID' <=> id \in DOMAIN byID
    /\ id \in DOMAIN byID => byID'[id] = byID[id]
    /\ id \in DOMAIN groups' <=> id \in DOMAIN groups
    /\ id \in DOMAIN groups => groups'[id] = groups[id]
    /\ RowsOf(id)' = RowsOf(id)
    /\ id \in unread' <=> id \in unread

LEMMA DirtyHolds ==
    ASSUME NEW w \in Workers, NEW id, Dirty(w, id)
    PROVE  Holds(w, id)
  BY DEF Dirty, Holds, Late

LEMMA SameFacts ==
    ASSUME TablesType, NEW id, SameAt(id)
    PROVE  /\ Listed(id) => Listed(id)'
           /\ Agreed(id) => Agreed(id)'
           /\ (id \in DOMAIN groups => Behind(id, byID[id])) => (id \in DOMAIN groups => Behind(id, byID[id]))'
           /\ getNotificationByID(id)' = getNotificationByID(id)
  <1>0. id \in DOMAIN groups => id \in DOMAIN byID
    BY DEF TablesType, NotificationTypeOK
  <1>1. Listed(id) => Listed(id)'
    BY DEF Listed, SameAt
  <1>2. Agreed(id) => Agreed(id)'
    BY DEF Agreed, SameAt, OnlyGroups
  <1>3. (id \in DOMAIN groups => Behind(id, byID[id])) => (id \in DOMAIN groups => Behind(id, byID[id]))'
    BY <1>0 DEF SameAt, Behind
  <1>4. getNotificationByID(id)' = getNotificationByID(id)
    BY DEF getNotificationByID, SameAt
  <1> QED BY <1>1, <1>2, <1>3, <1>4

LEMMA SaveStays ==
    ASSUME TablesType, NEW v \in Workers, JobInv(v), job'[v] = job[v], NEW id, job[v].id = id,
           SameAt(id), SaveInv(v)
    PROVE  SaveInv(v)'
  <1>1. PICK j : j = job[v] /\ j = job'[v] /\ id = j.id
    OBVIOUS
  <1>2. SameAt(id) /\ (j.pc \in Late => id \in DOMAIN byID)
    BY <1>1 DEF JobInv
  <1>3. getNotificationByID(id)' = getNotificationByID(id)
    BY <1>2, SameFacts
  <1>4. j.pc \in Early => Behind(j.id, Row(j.n))' /\ (j.n.read => j.id \in DOMAIN byID' /\ ~byID'[j.id].read)
    BY <1>1, <1>2 DEF SaveInv, Behind, SameAt
  <1>5. /\ j.pc \in {"delete", "byID"} => j.prev = getNotificationByID(id)'
        /\ j.pc = "delete" => ListsAnew(j.prev, j.n)
        /\ j.pc = "byID" /\ ListsAnew(j.prev, j.n) => RowsOf(id)' = {}
        /\ j.pc \in Late => byID'[id] = Row(j.n) /\ (j.n.read => j.prev # None /\ ~j.prev.read)
        /\ j.pc \in {"unread", "group"} => RowsOf(id)' = {[id |-> id, n |-> Row(j.n)]}
        /\ j.pc = "group" => (id \in unread' <=> ~j.n.read)
    BY <1>1, <1>2, <1>3 DEF SaveInv, SameAt
  <1> QED BY <1>1, <1>4, <1>5 DEF SaveInv

\* A step of a worker that holds the notification neither before nor after it.
LEMMA Untouched ==
    ASSUME Core, NEW w \in Workers, NEW id \in IDs, NotRacedInv(id), OthersSame(w), SameAt(id),
           ~Holds(w, id), ~Holds(w, id)', id \in torn => id \in torn', id \in marked' => id \in marked
    PROVE  NotRacedInv(id)'
  <1>0. TablesType /\ marked \subseteq DOMAIN byID
    BY DEF Core, TablesType, NotificationTypeOK
  <1>1. ASSUME NEW v \in Workers, Holds(v, id)' PROVE v # w /\ Holds(v, id) /\ job'[v] = job[v]
    BY <1>1 DEF OthersSame, Holds
  <1>2. ASSUME NEW v \in Workers, Dirty(v, id) PROVE Dirty(v, id)'
    <2>1. v # w
      BY <1>2, DirtyHolds
    <2> QED BY <1>2, <2>1 DEF OthersSame, Dirty
  <1>3. (id \notin torn /\ (\A v \in Workers : ~Dirty(v, id)) => Agreed(id))'
    BY <1>0, <1>2, SameFacts DEF NotRacedInv
  <1>4. Listed(id)' /\ (id \in DOMAIN groups => Behind(id, byID[id]))'
    BY <1>0, SameFacts DEF NotRacedInv
  <1>5. \A u, v \in Workers : Holds(u, id)' /\ Holds(v, id)' => u = v
    BY <1>1 DEF NotRacedInv
  <1>6. ASSUME NEW v \in Workers, Holds(v, id)' PROVE SaveInv(v)'
    <2>1. Holds(v, id) /\ job'[v] = job[v] /\ JobInv(v) /\ job[v].id = id /\ SaveInv(v)
      BY <1>1, <1>6 DEF Core, Holds, NotRacedInv
    <2> QED BY <1>0, <2>1, SaveStays
  <1>7. ASSUME id \in marked', Once(id) PROVE byID'[id].read /\ id \notin unread' /\ Quiet(id)'
    <2>1. id \in marked /\ byID[id].read /\ id \notin unread /\ Quiet(id)
      BY <1>7 DEF NotRacedInv
    <2>2. Quiet(id)'
      BY <1>1, <2>1 DEF Quiet
    <2> QED BY <1>0, <2>1, <2>2 DEF SameAt
  <1> QED BY <1>3, <1>4, <1>5, <1>6, <1>7 DEF NotRacedInv

-----------------------------------------------------------------------------
(* A worker takes up a notification to save it *)

TablesSame ==
    /\ byID' = byID /\ byAccount' = byAccount /\ unread' = unread /\ groups' = groups

\* What it has in hand agrees with what the tables have.
Fits(id, n) ==
    /\ id \in IDs /\ n \in Snaps
    /\ Once(id) /\ id \in DOMAIN byID => ~byID[id].read
    /\ n.read => id \in DOMAIN byID /\ ~byID[id].read
    /\ id \notin raced => Behind(id, Row(n))

TakesUp(w, id, n) ==
    /\ OthersSame(w) /\ TablesSame /\ JobInv(w)'
    /\ job[w].pc \in {"idle", "load"} /\ job'[w].pc = "previous" /\ job'[w].id = id /\ job'[w].n = n
    /\ job'[w].op = "event" => job[w].op = "event" /\ job'[w].e = job[w].e /\ job'[w].todo = job[w].todo
    /\ raced' = IF \E v \in Workers \ {w} : Holds(v, id) THEN raced \cup {id} ELSE raced
    /\ handled' = handled /\ announced' = announced /\ emailed' = emailed /\ marked' = marked
    /\ cut' = cut /\ torn' = torn /\ reader' = reader
    /\ Fits(id, n) /\ InHand(w, id, n)'

LEMMA SameTables ==
    ASSUME TablesSame, NEW id
    PROVE  SameAt(id)
  BY DEF TablesSame, SameAt, RowsOf

LEMMA TakenUp ==
    ASSUME Core, NEW w \in Workers, NEW i \in IDs \ raced', NEW id, NEW n, TakesUp(w, id, n), NotRacedInv(i)
    PROVE  NotRacedInv(i)'
  <1>0. OthersSame(w) /\ SameAt(i) /\ TablesType
    BY SameTables DEF TakesUp, Core
  <1>1. CASE i # id
    <2>1. ~Holds(w, i) /\ ~Holds(w, i)'
      BY <1>1 DEF TakesUp, Holds
    <2> QED BY <1>0, <2>1, Untouched DEF TakesUp
  <1>2. CASE i = id
    <2>1. \A v \in Workers : v # w => ~Holds(v, i)
      BY <1>2 DEF TakesUp
    <2>2. \A v \in Workers : ~Holds(v, i)
      BY <2>1 DEF TakesUp, Holds
    <2>3. \A v \in Workers : ~Dirty(v, i)
      BY <2>2, DirtyHolds
    <2>4. \A v \in Workers : v # w => ~Holds(v, i)'
      BY <1>0, <2>2 DEF OthersSame, Holds
    <2>5. (id \notin torn /\ (\A v \in Workers : ~Dirty(v, i)) => Agreed(i))'
      BY <1>0, <1>2, <2>3, SameFacts DEF NotRacedInv, TakesUp
    <2>6. Listed(i)' /\ (i \in DOMAIN groups => Behind(i, byID[i]))'
      BY <1>0, SameFacts DEF NotRacedInv
    <2>7. SaveInv(w)'
      <3>1. Behind(i, Row(n))'
        BY <1>0, <1>2 DEF TakesUp, Fits, TablesSame, Behind
      <3> QED BY <1>2, <3>1 DEF TakesUp, Fits, TablesSame, SaveInv, Early, Late
    <2>8. ~(i \in marked' /\ Once(i))
      <3>1. ASSUME i \in marked', Once(i) PROVE FALSE
        <4>1. i \in marked /\ i \in DOMAIN byID /\ byID[i].read
          BY <1>0, <3>1 DEF TakesUp, NotRacedInv, TablesType, NotificationTypeOK
        <4> QED BY <1>2, <3>1, <4>1 DEF TakesUp, Fits
      <3> QED BY <3>1
    <2>9. (\A u, v \in Workers : Holds(u, i) /\ Holds(v, i) => u = v)' /\ (\A v \in Workers : Holds(v, i) => SaveInv(v))'
      BY <2>4, <2>7
    <2> QED BY <1>2, <2>5, <2>6, <2>8, <2>9 DEF NotRacedInv
  <1> QED BY <1>1, <1>2

-----------------------------------------------------------------------------
(* A worker lets go of what it has in hand *)

LetsGo(w) ==
    /\ OthersSame(w) /\ TablesSame /\ JobInv(w)' /\ TablesGrow
    /\ job'[w].pc \notin Early \cup Late
    /\ raced' = raced /\ marked' = marked /\ reader' = reader
    /\ torn \subseteq torn' /\ (Dirty(w, job[w].id) => job[w].id \in torn')

LEMMA LetGo ==
    ASSUME Core, NEW w \in Workers, NEW i \in IDs, LetsGo(w), NotRacedInv(i)
    PROVE  NotRacedInv(i)'
  <1>0. OthersSame(w) /\ SameAt(i) /\ TablesType /\ ~Holds(w, i)'
    BY SameTables DEF LetsGo, Core, Holds, Early, Late
  <1>1. CASE ~Holds(w, i)
    BY <1>0, <1>1, Untouched DEF LetsGo
  <1>2. CASE Holds(w, i)
    <2>1. job[w].id = i /\ \A v \in Workers : v # w => ~Holds(v, i)
      BY <1>2 DEF Holds, NotRacedInv
    <2>2. \A v \in Workers : ~Holds(v, i)'
      BY <1>0, <2>1 DEF OthersSame, Holds
    <2>3. i \notin torn' => i \notin torn /\ \A v \in Workers : ~Dirty(v, i)
      BY <2>1, DirtyHolds DEF LetsGo
    <2>4. (i \notin torn /\ (\A v \in Workers : ~Dirty(v, i)) => Agreed(i))'
      BY <1>0, <2>3, SameFacts DEF NotRacedInv
    <2>5. Listed(i)' /\ (i \in DOMAIN groups => Behind(i, byID[i]))'
      BY <1>0, SameFacts DEF NotRacedInv
    <2>6. ~(i \in marked' /\ Once(i))
      BY <1>2 DEF LetsGo, NotRacedInv, Quiet
    <2> QED BY <2>2, <2>4, <2>5, <2>6 DEF NotRacedInv
  <1> QED BY <1>1, <1>2

-----------------------------------------------------------------------------
(* The statements of a save *)

\* What the worker has in hand stays; the histories that only handlers write, too.
SaveFrame(w) ==
    /\ OthersSame(w) /\ JobInv(w)' /\ job[w].pc \in Early \cup Late
    /\ job'[w].op = job[w].op /\ job'[w].e = job[w].e /\ job'[w].todo = job[w].todo
    /\ job'[w].id = job[w].id /\ job'[w].n = job[w].n
    /\ job[w].op = "event" => job'[w].pc \in Busy
    /\ handled' = handled /\ announced' = announced /\ emailed' = emailed /\ cut' = cut /\ raced' = raced

LEMMA PutIs ==
    ASSUME NEW t, NEW D, t \in [D -> Snaps], NEW id, NEW n \in Snaps
    PROVE  /\ DOMAIN Put(t, id, n) = D \cup {id} /\ Put(t, id, n)[id] = Row(n)
           /\ \A i \in D : i # id => Put(t, id, n)[i] = t[i]
           /\ Put(t, id, n) \in [D \cup {id} -> Snaps]
  <1>1. Row(n) \in Snaps
    BY RowIs
  <1>2. PICK m \in Snaps : m = Row(n)
    BY <1>1
  <1>3. Put(t, id, n) = [i \in D \cup {id} |-> IF i = id THEN m ELSE t[i]]
    BY <1>2 DEF Put
  <1> QED BY <1>2, <1>3

\* A worker in a save has a notification and knows what it is.
LEMMA InSave ==
    ASSUME Core, NEW w \in Workers, job[w].pc \in Early \cup Late
    PROVE  /\ TablesType /\ JobInv(w) /\ job[w].id \in IDs /\ job[w].n \in Snaps /\ job[w].prev \in Snaps
           /\ job[w].pc \in Busy /\ Row(job[w].n) \in Snaps
           /\ job[w].op \in {"event", "read", "readAll"} /\ job[w].pc \notin {"idle", "load"}
  <1>1. TablesType /\ JobInv(w) /\ job[w] \in Jobs
    BY JobType DEF Core
  <1>2. job[w].pc \in Busy /\ job[w].pc \notin {"idle", "load"}
    BY DEF Early, Late, Busy
  <1>3. job[w].id \in IDs
    BY <1>1, <1>2 DEF JobInv
  <1>4. job[w].op \in {"event", "read", "readAll"}
    BY <1>1, <1>2 DEF JobInv, Jobs
  <1>5. job[w].n \in Snaps /\ job[w].prev \in Snaps
    BY <1>1 DEF Jobs
  <1>6. Row(job[w].n) \in Snaps
    BY <1>5, RowIs
  <1> QED BY <1>1, <1>2, <1>3, <1>4, <1>5, <1>6

LEMMA ReadPreviousIs ==
    ASSUME Core, NEW w \in Workers, ReadPrevious(w)
    PROVE  /\ SaveFrame(w) /\ TablesSame /\ reader' = reader /\ torn' = torn /\ marked' = marked
           /\ job[w].pc = "previous" /\ job'[w].prev = getNotificationByID(job[w].id)
           /\ job'[w].pc = IF ListsAnew(job'[w].prev, job[w].n) THEN "delete" ELSE "byID"
  <1>0. job[w].pc = "previous"
    BY DEF ReadPrevious, At
  <1>1. TablesType /\ JobInv(w) /\ job[w].pc \in Early \cup Late /\ job \in [Workers -> Jobs] /\ job[w].pc # "load"
    BY <1>0 DEF Core, Early, TablesType
  <1>2. PICK p : p = getNotificationByID(job[w].id)
    OBVIOUS
  <1>3. p \in Snaps
    BY <1>1, <1>2, NoneType DEF getNotificationByID, TablesType
  <1>4. PICK c \in {"delete", "byID"} : c = IF ListsAnew(p, job[w].n) THEN "delete" ELSE "byID"
    OBVIOUS
  <1>5. PICK j : j = [job[w] EXCEPT !.prev = p, !.pc = c]
    OBVIOUS
  <1>6. job' = [job EXCEPT ![w] = j]
    BY <1>2, <1>4, <1>5 DEF ReadPrevious
  <1>7. /\ j \in Jobs /\ j.pc = c /\ j.op = job[w].op /\ j.e = job[w].e /\ j.todo = job[w].todo
        /\ j.ids = job[w].ids /\ j.id = job[w].id /\ j.n = job[w].n /\ j.prev = p
    BY <1>1, <1>3, <1>5 DEF Jobs, Busy, Early
  <1>8. OthersSame(w) /\ job'[w] = j
    BY <1>1, <1>6, <1>7 DEF OthersSame
  <1>9. TablesSame /\ reader' = reader /\ torn' = torn /\ marked' = marked /\ handled' = handled
        /\ announced' = announced /\ emailed' = emailed /\ cut' = cut /\ raced' = raced
    BY DEF ReadPrevious, tables, notes, TablesSame
  <1>10. JobInv(w)'
    BY <1>0, <1>1, <1>7, <1>8, <1>9 DEF JobInv, Busy, Early, Late, TablesSame
  <1> QED BY <1>0, <1>1, <1>2, <1>4, <1>7, <1>8, <1>9, <1>10 DEF SaveFrame, Busy, Early

LEMMA DeletePreviousIs ==
    ASSUME Core, NEW w \in Workers, DeletePrevious(w)
    PROVE  /\ SaveFrame(w) /\ torn' = torn /\ marked' = marked /\ Moves(job[w].id)
           /\ byID' = byID /\ unread' = unread /\ groups' = groups
           /\ byAccount' = {r \in byAccount : r.id # job[w].id \/ r.n.sort # job[w].prev.sort}
           /\ job[w].pc = "delete" /\ job'[w].prev = job[w].prev /\ job'[w].pc = "byID"
  <1>0. job[w].pc = "delete" /\ Goto(w, "byID")
    BY DEF DeletePrevious, At
  <1>1. TablesType /\ JobInv(w) /\ job[w].pc \in Early \cup Late /\ job[w].pc # "load" /\ "byID" \in Busy
    BY <1>0 DEF Core, Early, Busy
  <1>2. /\ OthersSame(w) /\ job'[w].pc = "byID" /\ job'[w].op = job[w].op /\ job'[w].e = job[w].e
        /\ job'[w].todo = job[w].todo /\ job'[w].ids = job[w].ids /\ job'[w].id = job[w].id
        /\ job'[w].n = job[w].n /\ job'[w].prev = job[w].prev
    BY <1>0, <1>1, GotoIs
  <1>3. /\ torn' = torn /\ marked' = marked /\ handled' = handled
        /\ announced' = announced /\ emailed' = emailed /\ cut' = cut /\ raced' = raced
        /\ byID' = byID /\ unread' = unread /\ groups' = groups /\ Moves(job[w].id)
        /\ byAccount' = {r \in byAccount : r.id # job[w].id \/ r.n.sort # job[w].prev.sort}
    BY DEF DeletePrevious, notes, deleteNotificationByAccount
  <1>4. JobInv(w)'
    BY <1>0, <1>1, <1>2, <1>3 DEF JobInv, Busy, Early, Late
  <1> QED BY <1>0, <1>1, <1>2, <1>3, <1>4 DEF SaveFrame

LEMMA SaveByIDIs ==
    ASSUME Core, NEW w \in Workers, SaveByID(w)
    PROVE  /\ SaveFrame(w) /\ torn' = torn /\ marked' = marked /\ reader' = reader
           /\ byAccount' = byAccount /\ unread' = unread /\ groups' = groups
           /\ byID' = Put(byID, job[w].id, job[w].n)
           /\ job[w].pc = "byID" /\ job'[w].prev = job[w].prev /\ job'[w].pc = "byAccount"
  <1>0. job[w].pc = "byID" /\ Goto(w, "byAccount")
    BY DEF SaveByID, At
  <1>1. /\ TablesType /\ JobInv(w) /\ job[w].pc \in Early \cup Late /\ job[w].pc # "load" /\ "byAccount" \in Busy
        /\ job[w].n \in Snaps /\ byID \in [DOMAIN byID -> Snaps]
    BY <1>0, JobType DEF Core, Early, Late, Busy, TablesType
  <1>2. /\ OthersSame(w) /\ job'[w].pc = "byAccount" /\ job'[w].op = job[w].op /\ job'[w].e = job[w].e
        /\ job'[w].todo = job[w].todo /\ job'[w].ids = job[w].ids /\ job'[w].id = job[w].id
        /\ job'[w].n = job[w].n /\ job'[w].prev = job[w].prev
    BY <1>0, <1>1, GotoIs
  <1>3. /\ torn' = torn /\ marked' = marked /\ handled' = handled /\ reader' = reader
        /\ announced' = announced /\ emailed' = emailed /\ cut' = cut /\ raced' = raced
        /\ byAccount' = byAccount /\ unread' = unread /\ groups' = groups
        /\ byID' = Put(byID, job[w].id, job[w].n)
    BY DEF SaveByID, notes, upsertNotificationByID
  <1>4. DOMAIN byID' = DOMAIN byID \cup {job[w].id}
    BY <1>3 DEF Put
  <1>5. JobInv(w)'
    BY <1>0, <1>1, <1>2, <1>3, <1>4 DEF JobInv, Busy, Early, Late
  <1> QED BY <1>0, <1>1, <1>2, <1>3, <1>5 DEF SaveFrame

LEMMA SaveByAccountIs ==
    ASSUME Core, NEW w \in Workers, SaveByAccount(w)
    PROVE  /\ SaveFrame(w) /\ torn' = torn /\ marked' = marked /\ Moves(job[w].id)
           /\ byID' = byID /\ unread' = unread /\ groups' = groups
           /\ byAccount' = {r \in byAccount : r.id # job[w].id \/ r.n.sort # Stored(job[w].n.sort)}
                               \cup {[id |-> job[w].id, n |-> Row(job[w].n)]}
           /\ job[w].pc = "byAccount" /\ job'[w].prev = job[w].prev /\ job'[w].pc = "unread"
  <1>0. job[w].pc = "byAccount" /\ Goto(w, "unread")
    BY DEF SaveByAccount, At
  <1>1. TablesType /\ JobInv(w) /\ job[w].pc \in Early \cup Late /\ job[w].pc # "load" /\ "unread" \in Busy
    BY <1>0 DEF Core, Late, Busy
  <1>2. /\ OthersSame(w) /\ job'[w].pc = "unread" /\ job'[w].op = job[w].op /\ job'[w].e = job[w].e
        /\ job'[w].todo = job[w].todo /\ job'[w].ids = job[w].ids /\ job'[w].id = job[w].id
        /\ job'[w].n = job[w].n /\ job'[w].prev = job[w].prev
    BY <1>0, <1>1, GotoIs
  <1>3. /\ torn' = torn /\ marked' = marked /\ handled' = handled
        /\ announced' = announced /\ emailed' = emailed /\ cut' = cut /\ raced' = raced
        /\ byID' = byID /\ unread' = unread /\ groups' = groups /\ Moves(job[w].id)
        /\ byAccount' = {r \in byAccount : r.id # job[w].id \/ r.n.sort # Stored(job[w].n.sort)}
                               \cup {[id |-> job[w].id, n |-> Row(job[w].n)]}
    BY DEF SaveByAccount, notes, upsertNotificationByAccount
  <1>4. JobInv(w)'
    BY <1>0, <1>1, <1>2, <1>3 DEF JobInv, Busy, Early, Late
  <1> QED BY <1>0, <1>1, <1>2, <1>3, <1>4 DEF SaveFrame

\* The last statement of a save.
Finishes(w) ==
    /\ job'[w].pc = IF job[w].op = "readAll" THEN "load" ELSE "emit"
    /\ torn' = torn \ {job[w].id}
    /\ marked' = IF job[w].n.read THEN marked \cup {job[w].id} ELSE marked

LEMMA SavedIs ==
    ASSUME Core, NEW w \in Workers, job[w].pc \in {"unread", "group"}, Saved(w), byID' = byID, handled' = handled
    PROVE  SaveFrame(w) /\ Finishes(w)
  <1>1. /\ TablesType /\ JobInv(w) /\ job[w].pc \in Early \cup Late /\ job[w].pc # "load" /\ "emit" \in Busy
        /\ job[w].id \in DOMAIN byID /\ job \in [Workers -> Jobs] /\ job[w].id \in IDs
    BY DEF Core, Late, Busy, JobInv, TablesType
  <1>2. /\ torn' = torn \ {job[w].id} /\ announced' = announced /\ emailed' = emailed /\ cut' = cut /\ raced' = raced
        /\ marked' = IF job[w].n.read THEN marked \cup {job[w].id} ELSE marked
    BY DEF Saved
  <1>3. CASE job[w].op = "readAll"
    <2>1. PICK j : j = [job[w] EXCEPT !.pc = "load", !.ids = job[w].ids \ {job[w].id}]
      OBVIOUS
    <2>2. job' = [job EXCEPT ![w] = j]
      BY <1>3, <2>1 DEF Saved
    <2>3. /\ j \in Jobs /\ j.pc = "load" /\ j.op = job[w].op /\ j.e = job[w].e /\ j.todo = job[w].todo
          /\ j.ids = job[w].ids \ {job[w].id} /\ j.id = job[w].id /\ j.n = job[w].n
      BY <1>1, <2>1 DEF Jobs
    <2>4. OthersSame(w) /\ job'[w] = j
      BY <1>1, <2>2, <2>3 DEF OthersSame
    <2>5. JobInv(w)'
      BY <1>1, <1>3, <2>3, <2>4 DEF JobInv, Busy, Early, Late
    <2> QED BY <1>1, <1>2, <1>3, <2>3, <2>4, <2>5 DEF SaveFrame, Finishes
  <1>4. CASE job[w].op # "readAll"
    <2>1. Goto(w, "emit")
      BY <1>4 DEF Saved, Goto
    <2>2. /\ OthersSame(w) /\ job'[w].pc = "emit" /\ job'[w].op = job[w].op /\ job'[w].e = job[w].e
          /\ job'[w].todo = job[w].todo /\ job'[w].ids = job[w].ids /\ job'[w].id = job[w].id
          /\ job'[w].n = job[w].n
      BY <1>1, <2>1, GotoIs
    <2>3. JobInv(w)'
      BY <1>1, <1>2, <1>4, <2>2 DEF JobInv, Busy, Early, Late
    <2> QED BY <1>1, <1>2, <1>4, <2>2, <2>3 DEF SaveFrame, Finishes
  <1> QED BY <1>3, <1>4

LEMMA SaveUnreadIs ==
    ASSUME Core, NEW w \in Workers, SaveUnread(w)
    PROVE  /\ SaveFrame(w) /\ reader' = reader /\ job[w].pc = "unread"
           /\ byID' = byID /\ byAccount' = byAccount /\ groups' = groups
           /\ syncUnreadIndex(job[w].id, job[w].prev, job[w].n)
           /\ \/ /\ IsMessageKind(job[w].id) /\ torn' = torn /\ marked' = marked
                 /\ job'[w].prev = job[w].prev /\ job'[w].pc = "group"
              \/ ~IsMessageKind(job[w].id) /\ Finishes(w)
  <1>0. /\ job[w].pc = "unread" /\ byID' = byID /\ byAccount' = byAccount /\ groups' = groups
        /\ handled' = handled /\ reader' = reader /\ syncUnreadIndex(job[w].id, job[w].prev, job[w].n)
    BY DEF SaveUnread, At
  <1>1. TablesType /\ JobInv(w) /\ job[w].pc \in Early \cup Late /\ job[w].pc # "load" /\ "group" \in Busy
    BY <1>0 DEF Core, Late, Busy
  <1>2. CASE IsMessageKind(job[w].id)
    <2>1. Goto(w, "group") /\ UNCHANGED notes
      BY <1>2 DEF SaveUnread
    <2>2. /\ OthersSame(w) /\ job'[w].pc = "group" /\ job'[w].op = job[w].op /\ job'[w].e = job[w].e
          /\ job'[w].todo = job[w].todo /\ job'[w].ids = job[w].ids /\ job'[w].id = job[w].id
          /\ job'[w].n = job[w].n /\ job'[w].prev = job[w].prev
      BY <1>1, <2>1, GotoIs
    <2>3. torn' = torn /\ marked' = marked /\ announced' = announced /\ emailed' = emailed /\ cut' = cut /\ raced' = raced
      BY <2>1 DEF notes
    <2>4. JobInv(w)'
      BY <1>0, <1>1, <1>2, <2>2, <2>3 DEF JobInv, Busy, Early, Late
    <2> QED BY <1>0, <1>1, <1>2, <2>2, <2>3, <2>4 DEF SaveFrame
  <1>3. CASE ~IsMessageKind(job[w].id)
    <2>1. Saved(w)
      BY <1>3 DEF SaveUnread
    <2> QED BY <1>0, <1>3, <2>1, SavedIs
  <1> QED BY <1>2, <1>3

LEMMA SaveGroupIs ==
    ASSUME Core, NEW w \in Workers, SaveGroup(w)
    PROVE  /\ SaveFrame(w) /\ reader' = reader /\ job[w].pc = "group" /\ Finishes(w)
           /\ byID' = byID /\ byAccount' = byAccount /\ unread' = unread
           /\ groups' = Put(groups, job[w].id, job[w].n)
  BY SavedIs DEF SaveGroup, At, upsertMessageGroup

LEMMA SaveKeeps ==
    ASSUME NEW w \in Workers, SaveFrame(w)
    PROVE  /\ ToldStep(w) /\ HandStep(w) /\ (job'[w].pc \in Busy => Keeps(w))
           /\ raced \subseteq raced' /\ announced \subseteq announced' /\ emailed \subseteq emailed' /\ cut \subseteq cut'
  <1>1. job[w].pc \in Busy
    BY DEF SaveFrame, Busy
  <1>2. job'[w].pc \in Busy => Keeps(w)
    BY <1>1 DEF SaveFrame, Keeps
  <1>3. ToldStep(w)
    BY <1>2 DEF ToldStep, SaveFrame
  <1>4. HandStep(w)
    BY <1>2 DEF HandStep
  <1> QED BY <1>2, <1>3, <1>4 DEF SaveFrame

\* The other notifications.
LEMMA SaveOther ==
    ASSUME Core, NEW w \in Workers, SaveFrame(w), NEW i \in IDs, i # job[w].id, NotRacedInv(i), SameAt(i),
           i \in torn => i \in torn', i \in marked' => i \in marked
    PROVE  NotRacedInv(i)'
  <1>1. ~Holds(w, i) /\ ~Holds(w, i)'
    BY DEF SaveFrame, Holds
  <1> QED BY <1>1, Untouched DEF SaveFrame

\* A worker that holds a notification nobody raced for is the only one.
LEMMA SaveAlone ==
    ASSUME Core, NEW w \in Workers, SaveFrame(w), NEW i \in IDs, i = job[w].id, NotRacedInv(i),
           Listed(i)', (i \in DOMAIN groups => Behind(i, byID[i]))',
           i \notin torn' /\ ~Dirty(w, i)' => Agreed(i)', Holds(w, i)' => SaveInv(w)',
           i \in marked' => i \in marked \/ (byID'[i].read /\ i \notin unread' /\ ~Holds(w, i)')
    PROVE  NotRacedInv(i)'
  <1>1. Holds(w, i)
    BY DEF Holds, SaveFrame, Early, Late
  <1>2. \A v \in Workers : v # w => ~Holds(v, i)
    BY <1>1 DEF NotRacedInv
  <1>3. ~(i \in marked /\ Once(i))
    BY <1>1 DEF NotRacedInv, Quiet
  <1>4. \A v \in Workers : v # w => ~Holds(v, i)'
    BY <1>2 DEF SaveFrame, OthersSame, Holds
  <1>5. (\A u, v \in Workers : Holds(u, i) /\ Holds(v, i) => u = v)' /\ (\A v \in Workers : Holds(v, i) => SaveInv(v))'
    BY <1>4
  <1>6. (i \in marked /\ Once(i) => byID[i].read /\ i \notin unread /\ Quiet(i))'
    BY <1>3, <1>4 DEF Quiet
  <1>7. (i \notin torn /\ (\A v \in Workers : ~Dirty(v, i)) => Agreed(i))'
    OBVIOUS
  <1> QED BY <1>5, <1>6, <1>7 DEF NotRacedInv

\* What a save knows of its notification.
LEMMA SaveKnows ==
    ASSUME Core, ValuesInv, NEW w \in Workers, job[w].pc \in Early \cup Late, NotRacedInv(job[w].id)
    PROVE  /\ SaveInv(w) /\ Listed(job[w].id)
           /\ (job[w].id \in DOMAIN groups => Behind(job[w].id, byID[job[w].id]))
           /\ ~Dirty(w, job[w].id) /\ job[w].id \notin torn => Agreed(job[w].id)
           /\ job[w].id \in DOMAIN byID => byID[job[w].id] # None
  <1>1. Holds(w, job[w].id)
    BY DEF Holds, Early, Late
  <1>2. \A v \in Workers : v # w => ~Dirty(v, job[w].id)
    BY <1>1, DirtyHolds DEF NotRacedInv
  <1>3. job[w].id \in DOMAIN byID => byID[job[w].id] # None
    BY NoneType DEF ValuesInv, ValueOK
  <1> QED BY <1>1, <1>2, <1>3 DEF NotRacedInv

LEMMA AfterReadPrevious ==
    ASSUME Core, ValuesInv, NEW w \in Workers, ReadPrevious(w)
    PROVE  /\ TablesType' /\ TablesGrow /\ Written(w)
           /\ \A i \in IDs : NotRacedInv(i) => NotRacedInv(i)'
  <1>1. /\ SaveFrame(w) /\ TablesSame /\ reader' = reader /\ torn' = torn /\ marked' = marked
        /\ job[w].pc = "previous" /\ job'[w].prev = getNotificationByID(job[w].id)
        /\ job'[w].pc = IF ListsAnew(job'[w].prev, job[w].n) THEN "delete" ELSE "byID"
    BY ReadPreviousIs
  <1>2. TablesType /\ job[w].pc \in Early \cup Late
    BY <1>1 DEF Core, Early
  <1>3. TablesType'
    BY <1>1, <1>2 DEF TablesType, NotificationTypeOK, TablesSame, SaveFrame, OthersSame
  <1>4. TablesGrow /\ Written(w)
    BY <1>1, SaveKeeps DEF TablesGrow, Written, TablesSame
  <1>5. ASSUME NEW i \in IDs, NotRacedInv(i) PROVE NotRacedInv(i)'
    <2>0. SameAt(i)
      BY <1>1, SameTables
    <2>1. CASE i # job[w].id
      BY <1>1, <1>5, <2>0, <2>1, SaveOther
    <2>2. CASE i = job[w].id
      <3>1. /\ SaveInv(w) /\ Listed(i) /\ (i \in DOMAIN groups => Behind(i, byID[i]))
            /\ ~Dirty(w, i) /\ i \notin torn => Agreed(i)
        BY <1>2, <1>5, <2>2, SaveKnows
      <3>2. Listed(i)' /\ (i \in DOMAIN groups => Behind(i, byID[i]))' /\ (Agreed(i) => Agreed(i)')
            /\ getNotificationByID(i)' = getNotificationByID(i)
        BY <1>2, <2>0, <3>1, SameFacts
      <3>3. ~Dirty(w, i)
        BY <1>1 DEF Dirty, Late
      <3>4. PICK n, p : n = job[w].n /\ p = getNotificationByID(i)
        OBVIOUS
      <3>5. job'[w].id = i /\ job'[w].n = n /\ job'[w].prev = p
        BY <1>1, <2>2, <3>4 DEF SaveFrame
      <3>6. SaveInv(w)'
        <4>1. Behind(i, Row(n)) /\ (n.read => i \in DOMAIN byID /\ ~byID[i].read)
          BY <1>1, <2>2, <3>1, <3>4 DEF SaveInv, Early
        <4>2. Behind(i, Row(n))' /\ (n.read => i \in DOMAIN byID' /\ ~byID'[i].read)
          BY <1>1, <4>1 DEF Behind, TablesSame
        <4>3. job'[w].pc = "byID" => ~ListsAnew(p, n)
          BY <1>1, <3>4, <3>5
        <4>4. job'[w].pc = "delete" => ListsAnew(p, n)
          BY <1>1, <3>4, <3>5
        <4>5. job'[w].pc \in {"byID", "delete"}
          BY <1>1
        <4> QED BY <3>2, <3>4, <3>5, <4>2, <4>3, <4>4, <4>5 DEF SaveInv, Late
      <3> QED BY <1>1, <1>5, <2>2, <3>1, <3>2, <3>3, <3>6, SaveAlone
    <2> QED BY <2>1, <2>2
  <1> QED BY <1>3, <1>4, <1>5

LEMMA AfterDeletePrevious ==
    ASSUME Core, ValuesInv, NEW w \in Workers, DeletePrevious(w)
    PROVE  /\ TablesType' /\ TablesGrow /\ Written(w)
           /\ \A i \in IDs : NotRacedInv(i) => NotRacedInv(i)'
  <1>1. /\ SaveFrame(w) /\ torn' = torn /\ marked' = marked
        /\ byID' = byID /\ unread' = unread /\ groups' = groups
        /\ byAccount' = {r \in byAccount : r.id # job[w].id \/ r.n.sort # job[w].prev.sort}
        /\ job[w].pc = "delete" /\ job'[w].prev = job[w].prev /\ job'[w].pc = "byID"
    BY DeletePreviousIs
  <1>2. TablesType /\ job[w].pc \in Early \cup Late
    BY <1>1 DEF Core, Early
  <1>3. byAccount' \in SUBSET byAccount /\ IsFiniteSet(byAccount)
    BY <1>1, <1>2 DEF TablesType
  <1>4. IsFiniteSet(byAccount')
    BY <1>3, FS_Subset
  <1>5. TablesType'
    BY <1>1, <1>2, <1>3, <1>4 DEF TablesType, NotificationTypeOK, SaveFrame, OthersSame
  <1>6. TablesGrow /\ Written(w)
    BY <1>1, <1>3, SaveKeeps DEF TablesGrow, Written
  <1>7. ASSUME NEW i \in IDs, NotRacedInv(i) PROVE NotRacedInv(i)'
    <2>1. CASE i # job[w].id
      <3>1. RowsOf(i)' = RowsOf(i)
        BY <1>1, <2>1 DEF RowsOf
      <3>2. SameAt(i)
        BY <1>1, <3>1 DEF SameAt
      <3> QED BY <1>1, <1>7, <2>1, <3>2, SaveOther
    <2>2. CASE i = job[w].id
      <3>1. SaveInv(w) /\ Listed(i) /\ (i \in DOMAIN groups => Behind(i, byID[i]))
        BY <1>2, <1>7, <2>2, SaveKnows
      <3>2. PICK n, p : n = job[w].n /\ p = job[w].prev
        OBVIOUS
      <3>3. p = getNotificationByID(i) /\ ListsAnew(p, n)
        BY <1>1, <2>2, <3>1, <3>2 DEF SaveInv
      <3>4. i \in DOMAIN byID /\ p = byID[i]
        BY <3>3 DEF getNotificationByID, ListsAnew
      <3>5. RowsOf(i)' = {}
        BY <1>1, <2>2, <3>1, <3>2, <3>4 DEF RowsOf, Listed
      <3>6. Listed(i)' /\ (i \in DOMAIN groups => Behind(i, byID[i]))'
        BY <1>1, <3>1, <3>5 DEF Listed, Behind
      <3>7. job'[w].id = i /\ job'[w].n = n /\ job'[w].prev = p
        BY <1>1, <2>2, <3>2 DEF SaveFrame
      <3>8. Dirty(w, i)'
        BY <1>1, <3>3, <3>7 DEF Dirty
      <3>9. SaveInv(w)'
        <4>1. Behind(i, Row(n)) /\ (n.read => i \in DOMAIN byID /\ ~byID[i].read)
          BY <1>1, <2>2, <3>1, <3>2 DEF SaveInv, Early
        <4>2. Behind(i, Row(n))' /\ (n.read => i \in DOMAIN byID' /\ ~byID'[i].read)
          BY <1>1, <4>1 DEF Behind
        <4>3. getNotificationByID(i)' = p
          BY <1>1, <3>3 DEF getNotificationByID
        <4> QED BY <1>1, <3>3, <3>5, <3>7, <4>2, <4>3 DEF SaveInv, Late
      <3> QED BY <1>1, <1>7, <2>2, <3>6, <3>8, <3>9, SaveAlone
    <2> QED BY <2>1, <2>2
  <1> QED BY <1>5, <1>6, <1>7

LEMMA AfterSaveByID ==
    ASSUME Core, ValuesInv, NEW w \in Workers, SaveByID(w)
    PROVE  /\ TablesType' /\ TablesGrow /\ Written(w)
           /\ \A i \in IDs : NotRacedInv(i) => NotRacedInv(i)'
  <1>1. /\ SaveFrame(w) /\ torn' = torn /\ marked' = marked /\ reader' = reader
        /\ byAccount' = byAccount /\ unread' = unread /\ groups' = groups
        /\ byID' = Put(byID, job[w].id, job[w].n)
        /\ job[w].pc = "byID" /\ job'[w].prev = job[w].prev /\ job'[w].pc = "byAccount"
    BY SaveByIDIs
  <1>2. TablesType /\ job[w].pc \in Early \cup Late
    BY <1>1 DEF Core, Early
  <1>3. PICK x \in IDs, n \in Snaps : x = job[w].id /\ n = job[w].n
    BY <1>2, InSave
  <1>4. PICK D : D = DOMAIN byID /\ byID \in [D -> Snaps]
    BY <1>2 DEF TablesType
  <1>5. PICK t : t = byID
    OBVIOUS
  <1>6. byID' = Put(t, x, n) /\ t \in [D -> Snaps]
    BY <1>1, <1>3, <1>4, <1>5
  <1>7. t \in [D -> Snaps]
    BY <1>6
  <1>8. /\ DOMAIN Put(t, x, n) = D \cup {x} /\ Put(t, x, n)[x] = Row(n)
        /\ \A i \in D : i # x => Put(t, x, n)[i] = t[i]
        /\ Put(t, x, n) \in [D \cup {x} -> Snaps]
    BY <1>7, PutIs, Zenon
  <1>9. /\ DOMAIN byID' = D \cup {x} /\ byID'[x] = Row(n) /\ (\A i \in D : i # x => byID'[i] = byID[i])
        /\ byID' \in [D \cup {x} -> Snaps]
    BY <1>5, <1>6, <1>8
  <1>10. TablesType'
    BY <1>1, <1>2, <1>4, <1>9 DEF TablesType, NotificationTypeOK, SaveFrame, OthersSame
  <1>11. Keeps(w)
    BY <1>1, SaveKeeps DEF Busy, Late
  <1>12. TablesGrow /\ Written(w)
    BY <1>1, <1>3, <1>4, <1>9, <1>11, SaveKeeps DEF TablesGrow, Written
  <1>13. ASSUME NEW i \in IDs, NotRacedInv(i) PROVE NotRacedInv(i)'
    <2>1. CASE i # x
      <3>1. SameAt(i)
        BY <1>1, <1>4, <1>9, <2>1 DEF SameAt, RowsOf
      <3> QED BY <1>1, <1>3, <1>13, <2>1, <3>1, SaveOther
    <2>2. CASE i = x
      <3>1. /\ SaveInv(w) /\ Listed(i) /\ (i \in DOMAIN groups => Behind(i, byID[i]))
            /\ (i \in DOMAIN byID => byID[i] # None)
        BY <1>2, <1>3, <1>13, <2>2, SaveKnows
      <3>2. PICK p : p = job[w].prev
        OBVIOUS
      <3>3. /\ p = getNotificationByID(i) /\ (ListsAnew(p, n) => RowsOf(i) = {})
            /\ Behind(i, Row(n)) /\ (n.read => i \in DOMAIN byID /\ ~byID[i].read)
        BY <1>1, <1>3, <2>2, <3>1, <3>2 DEF SaveInv, Early
      <3>4. job'[w].id = i /\ job'[w].n = n /\ job'[w].prev = p
        BY <1>1, <1>3, <2>2, <3>2 DEF SaveFrame
      <3>5. ASSUME NEW r \in RowsOf(i) PROVE r.n.sort = Row(n).sort
        <4>1. i \in DOMAIN byID /\ r.n.sort = byID[i].sort
          BY <3>1 DEF Listed
        <4>2. p = byID[i] /\ p # None /\ ~ListsAnew(p, n)
          BY <3>1, <3>3, <4>1 DEF getNotificationByID
        <4>3. p.sort = n.sort
          BY <4>2 DEF ListsAnew
        <4>4. ValueOK(i, p)
          BY <4>1, <4>2 DEF ValuesInv
        <4>5. p.sort = Stored(p.sort)
          BY <4>4 DEF ValueOK
        <4> QED BY <4>1, <4>2, <4>3, <4>5, RowIs
      <3>6. Listed(i)'
        BY <1>1, <1>9, <2>2, <3>1, <3>5 DEF Listed, RowsOf
      <3>7. (i \in DOMAIN groups => Behind(i, byID[i]))'
        BY <1>1, <1>9, <2>2, <3>3 DEF Behind
      <3>8. Dirty(w, i)'
        BY <1>1, <3>4 DEF Dirty, Late
      <3>9. n.read => p # None /\ ~p.read
        BY <3>1, <3>3 DEF getNotificationByID
      <3>10. SaveInv(w)'
        BY <1>1, <1>9, <2>2, <3>4, <3>9 DEF SaveInv, Early, Late
      <3> QED BY <1>1, <1>3, <1>13, <2>2, <3>6, <3>7, <3>8, <3>10, SaveAlone
    <2> QED BY <2>1, <2>2
  <1> QED BY <1>10, <1>12, <1>13

LEMMA AfterSaveByAccount ==
    ASSUME Core, ValuesInv, NEW w \in Workers, SaveByAccount(w)
    PROVE  /\ TablesType' /\ TablesGrow /\ Written(w)
           /\ \A i \in IDs : NotRacedInv(i) => NotRacedInv(i)'
  <1>1. /\ SaveFrame(w) /\ torn' = torn /\ marked' = marked
        /\ byID' = byID /\ unread' = unread /\ groups' = groups
        /\ byAccount' = {r \in byAccount : r.id # job[w].id \/ r.n.sort # Stored(job[w].n.sort)}
                            \cup {[id |-> job[w].id, n |-> Row(job[w].n)]}
        /\ job[w].pc = "byAccount" /\ job'[w].prev = job[w].prev /\ job'[w].pc = "unread"
    BY SaveByAccountIs
  <1>2. TablesType /\ job[w].pc \in Early \cup Late
    BY <1>1 DEF Core, Late
  <1>3. PICK x \in IDs, n \in Snaps : x = job[w].id /\ n = job[w].n
    BY <1>2, InSave
  <1>4. PICK m \in Snaps : m = Row(n) /\ m.sort = Stored(n.sort)
    BY RowIs
  <1>5. PICK old : old = {r \in byAccount : r.id # x \/ r.n.sort # m.sort}
    OBVIOUS
  <1>6. PICK new : new = [id |-> x, n |-> m]
    OBVIOUS
  <1>7. /\ old = {r \in byAccount : r.id # x \/ r.n.sort # m.sort}
        /\ new = [id |-> x, n |-> m] /\ new.id = x /\ new.n = m
    BY <1>5, <1>6
  <1>8. byAccount' = old \cup {new} /\ old \in SUBSET byAccount /\ IsFiniteSet(byAccount)
    BY <1>1, <1>2, <1>3, <1>4, <1>7 DEF TablesType
  <1>9. IsFiniteSet(old)
    BY <1>8, FS_Subset
  <1>10. IsFiniteSet(byAccount')
    BY <1>8, <1>9, FS_AddElement
  <1>11. \A r \in byAccount' : r = [id |-> r.id, n |-> r.n] /\ r.n \in Snaps /\ r.id \in IDs
    BY <1>2, <1>7, <1>8 DEF TablesType, NotificationTypeOK
  <1>12. TablesType'
    BY <1>1, <1>2, <1>10, <1>11 DEF TablesType, NotificationTypeOK, SaveFrame, OthersSame
  <1>13. Keeps(w)
    BY <1>1, SaveKeeps DEF Busy, Late
  <1>14. TablesGrow /\ Written(w)
    BY <1>1, <1>3, <1>4, <1>7, <1>8, <1>13, SaveKeeps DEF TablesGrow, Written, Keeps
  <1>15. ASSUME NEW i \in IDs, NotRacedInv(i) PROVE NotRacedInv(i)'
    <2>1. CASE i # x
      <3>1. RowsOf(i)' = RowsOf(i)
        BY <1>7, <1>8, <2>1 DEF RowsOf
      <3>2. SameAt(i)
        BY <1>1, <3>1 DEF SameAt
      <3> QED BY <1>1, <1>3, <1>15, <2>1, <3>2, SaveOther
    <2>2. CASE i = x
      <3>1. SaveInv(w) /\ Listed(i) /\ (i \in DOMAIN groups => Behind(i, byID[i]))
        BY <1>2, <1>3, <1>15, <2>2, SaveKnows
      <3>2. PICK p : p = job[w].prev
        OBVIOUS
      <3>3. byID[i] = m /\ (n.read => p # None /\ ~p.read) /\ i \in DOMAIN byID
        BY <1>1, <1>3, <1>4, <2>2, <3>1, <3>2 DEF SaveInv, Late, Core, JobInv
      <3>4. job'[w].id = i /\ job'[w].n = n /\ job'[w].prev = p
        BY <1>1, <1>3, <2>2, <3>2 DEF SaveFrame
      <3>5. RowsOf(i)' = {new}
        BY <1>7, <1>8, <2>2, <3>1, <3>3 DEF RowsOf, Listed
      <3>6. Listed(i)' /\ (i \in DOMAIN groups => Behind(i, byID[i]))'
        BY <1>1, <1>7, <3>1, <3>3, <3>5 DEF Listed, Behind
      <3>7. Dirty(w, i)'
        BY <1>1, <3>4 DEF Dirty, Late
      <3>8. SaveInv(w)'
        BY <1>1, <1>4, <1>7, <2>2, <3>3, <3>4, <3>5 DEF SaveInv, Early, Late
      <3> QED BY <1>1, <1>3, <1>15, <2>2, <3>6, <3>7, <3>8, SaveAlone
    <2> QED BY <2>1, <2>2
  <1> QED BY <1>12, <1>14, <1>15

LEMMA AfterSaveUnread ==
    ASSUME Core, ValuesInv, NEW w \in Workers, SaveUnread(w)
    PROVE  /\ TablesType' /\ TablesGrow /\ Written(w)
           /\ \A i \in IDs : NotRacedInv(i) => NotRacedInv(i)'
  <1>1. /\ SaveFrame(w) /\ reader' = reader /\ job[w].pc = "unread"
        /\ byID' = byID /\ byAccount' = byAccount /\ groups' = groups
        /\ syncUnreadIndex(job[w].id, job[w].prev, job[w].n)
        /\ \/ /\ IsMessageKind(job[w].id) /\ torn' = torn /\ marked' = marked
              /\ job'[w].prev = job[w].prev /\ job'[w].pc = "group"
           \/ ~IsMessageKind(job[w].id) /\ Finishes(w)
    BY SaveUnreadIs
  <1>2. TablesType /\ job[w].pc \in Early \cup Late /\ job[w].id \in DOMAIN byID
    BY <1>1 DEF Core, Late, JobInv
  <1>3. PICK x \in IDs, n \in Snaps : x = job[w].id /\ n = job[w].n
    BY <1>2, InSave
  <1>4. \A i : i # x => (i \in unread' <=> i \in unread) /\ (i \in torn' <=> i \in torn) /\ (i \in marked' <=> i \in marked)
    BY <1>1, <1>3 DEF syncUnreadIndex, Finishes
  <1>5. TablesType'
    <2>1. unread' \subseteq DOMAIN byID /\ torn' \subseteq IDs /\ marked' \subseteq DOMAIN byID
      BY <1>1, <1>2, <1>3, <1>4 DEF TablesType, NotificationTypeOK
    <2> QED BY <1>1, <1>2, <2>1 DEF TablesType, NotificationTypeOK, SaveFrame, OthersSame
  <1>6. TablesGrow /\ Written(w)
    BY <1>1, SaveKeeps DEF TablesGrow, Written
  <1>7. ASSUME NEW i \in IDs, NotRacedInv(i) PROVE NotRacedInv(i)'
    <2>0. RowsOf(i)' = RowsOf(i)
      BY <1>1 DEF RowsOf
    <2>1. CASE i # x
      <3>1. SameAt(i)
        BY <1>1, <1>4, <2>0, <2>1 DEF SameAt
      <3> QED BY <1>1, <1>3, <1>4, <1>7, <2>1, <3>1, SaveOther
    <2>2. CASE i = x
      <3>1. SaveInv(w) /\ Listed(i) /\ (i \in DOMAIN groups => Behind(i, byID[i]))
        BY <1>2, <1>3, <1>7, <2>2, SaveKnows
      <3>2. PICK p : p = job[w].prev
        OBVIOUS
      <3>3. byID[i] = Row(n) /\ (n.read => p # None /\ ~p.read) /\ RowsOf(i) = {[id |-> i, n |-> Row(n)]}
        BY <1>1, <1>3, <2>2, <3>1, <3>2 DEF SaveInv, Late
      <3>4. Row(n).read <=> n.read
        BY RowIs
      <3>5. i \in unread' <=> ~n.read
        BY <1>1, <1>3, <2>2, <3>2, <3>3 DEF syncUnreadIndex
      <3>6. Listed(i)' /\ (i \in DOMAIN groups => Behind(i, byID[i]))'
        BY <1>1, <2>0, <3>1 DEF Listed, Behind
      <3>7. job'[w].id = i /\ job'[w].n = n
        BY <1>1, <1>3, <2>2 DEF SaveFrame
      <3>8. CASE IsMessageKind(i)
        <4>1. torn' = torn /\ marked' = marked /\ job'[w].prev = p /\ job'[w].pc = "group"
          BY <1>1, <1>3, <2>2, <3>2, <3>8
        <4>2. Dirty(w, i)'
          BY <3>7, <4>1 DEF Dirty, Late
        <4>3. SaveInv(w)'
          BY <1>1, <2>0, <3>3, <3>5, <3>7, <4>1 DEF SaveInv, Early, Late
        <4> QED BY <1>1, <1>3, <1>7, <2>2, <3>6, <4>1, <4>2, <4>3, SaveAlone
      <3>9. CASE ~IsMessageKind(i)
        <4>1. Finishes(w)
          BY <1>1, <1>3, <2>2, <3>9
        <4>2. ~Holds(w, i)'
          BY <4>1 DEF Finishes, Holds
        <4>3. Agreed(i)'
          BY <1>1, <1>2, <1>3, <2>0, <2>2, <3>3, <3>4, <3>5, <3>9 DEF Agreed, OnlyGroups
        <4>4. i \in marked' => i \in marked \/ (byID'[i].read /\ i \notin unread' /\ ~Holds(w, i)')
          BY <1>1, <1>3, <2>2, <3>3, <3>4, <3>5, <4>1, <4>2 DEF Finishes
        <4> QED BY <1>1, <1>3, <1>7, <2>2, <3>6, <4>2, <4>3, <4>4, SaveAlone
      <3> QED BY <3>8, <3>9
    <2> QED BY <2>1, <2>2
  <1> QED BY <1>5, <1>6, <1>7

LEMMA AfterSaveGroup ==
    ASSUME Core, ValuesInv, NEW w \in Workers, SaveGroup(w)
    PROVE  /\ TablesType' /\ TablesGrow /\ Written(w)
           /\ \A i \in IDs : NotRacedInv(i) => NotRacedInv(i)'
  <1>1. /\ SaveFrame(w) /\ reader' = reader /\ job[w].pc = "group" /\ Finishes(w)
        /\ byID' = byID /\ byAccount' = byAccount /\ unread' = unread
        /\ groups' = Put(groups, job[w].id, job[w].n)
    BY SaveGroupIs
  <1>2. TablesType /\ job[w].pc \in Early \cup Late /\ job[w].id \in DOMAIN byID /\ IsMessageKind(job[w].id)
    BY <1>1 DEF Core, Late, JobInv
  <1>3. PICK x \in IDs, n \in Snaps : x = job[w].id /\ n = job[w].n
    BY <1>2, InSave
  <1>4. PICK D : D = DOMAIN groups /\ groups \in [D -> Snaps]
    BY <1>2 DEF TablesType
  <1>5. PICK t : t = groups
    OBVIOUS
  <1>6. groups' = Put(t, x, n) /\ t \in [D -> Snaps]
    BY <1>1, <1>3, <1>4, <1>5
  <1>7. t \in [D -> Snaps]
    BY <1>6
  <1>8. /\ DOMAIN Put(t, x, n) = D \cup {x} /\ Put(t, x, n)[x] = Row(n)
        /\ \A i \in D : i # x => Put(t, x, n)[i] = t[i]
        /\ Put(t, x, n) \in [D \cup {x} -> Snaps]
    BY <1>7, PutIs, Zenon
  <1>9. /\ DOMAIN groups' = D \cup {x} /\ groups'[x] = Row(n) /\ (\A i \in D : i # x => groups'[i] = groups[i])
        /\ groups' \in [D \cup {x} -> Snaps]
    BY <1>5, <1>6, <1>8
  <1>10. \A i : i # x => (i \in torn' <=> i \in torn) /\ (i \in marked' <=> i \in marked)
    BY <1>1, <1>3 DEF Finishes
  <1>11. TablesType'
    <2>1. torn' \subseteq IDs /\ marked' \subseteq DOMAIN byID
      BY <1>2, <1>3, <1>10 DEF TablesType, NotificationTypeOK
    <2> QED BY <1>1, <1>2, <1>3, <1>4, <1>9, <2>1 DEF TablesType, NotificationTypeOK, SaveFrame, OthersSame
  <1>12. job[w].pc \in Busy
    BY <1>1 DEF Busy, Late
  <1>13. TablesGrow /\ Written(w)
    BY <1>1, <1>3, <1>4, <1>9, <1>12, SaveKeeps DEF TablesGrow, Written
  <1>14. ASSUME NEW i \in IDs, NotRacedInv(i) PROVE NotRacedInv(i)'
    <2>0. RowsOf(i)' = RowsOf(i)
      BY <1>1 DEF RowsOf
    <2>1. CASE i # x
      <3>1. SameAt(i)
        BY <1>1, <1>4, <1>9, <2>0, <2>1 DEF SameAt
      <3> QED BY <1>1, <1>3, <1>10, <1>14, <2>1, <3>1, SaveOther
    <2>2. CASE i = x
      <3>1. SaveInv(w) /\ Listed(i) /\ (i \in DOMAIN groups => Behind(i, byID[i]))
        BY <1>2, <1>3, <1>14, <2>2, SaveKnows
      <3>2. byID[i] = Row(n) /\ RowsOf(i) = {[id |-> i, n |-> Row(n)]} /\ (i \in unread <=> ~n.read)
        BY <1>1, <1>3, <2>2, <3>1 DEF SaveInv, Late
      <3>3. (Row(n).read <=> n.read) /\ Row(n) \in Snaps /\ Row(n).last \in Nat /\ Row(n).lastAt \in Nat
        BY RowIs DEF Snaps
      <3>4. Listed(i)'
        BY <1>1, <2>0, <3>1 DEF Listed
      <3>5. (i \in DOMAIN groups => Behind(i, byID[i]))'
        BY <1>1, <1>9, <2>2, <3>2, <3>3, NotAheadOrder DEF Behind
      <3>6. ~Holds(w, i)'
        BY <1>1 DEF Finishes, Holds
      <3>7. Agreed(i)'
        BY <1>1, <1>2, <1>3, <1>9, <2>0, <2>2, <3>2, <3>3 DEF Agreed, OnlyGroups
      <3>8. i \in marked' => i \in marked \/ (byID'[i].read /\ i \notin unread' /\ ~Holds(w, i)')
        BY <1>1, <1>3, <2>2, <3>2, <3>3, <3>6 DEF Finishes
      <3> QED BY <1>1, <1>3, <1>14, <2>2, <3>4, <3>5, <3>6, <3>7, <3>8, SaveAlone
    <2> QED BY <2>1, <2>2
  <1> QED BY <1>11, <1>13, <1>14

-----------------------------------------------------------------------------
(* What is taken up to be saved *)

RestSame ==
    /\ handled' = handled /\ announced' = announced /\ emailed' = emailed /\ marked' = marked
    /\ cut' = cut /\ torn' = torn /\ reader' = reader

NotRaced == \A id \in IDs \ raced : NotRacedInv(id)

\* A handler's notification says what the event says.
Says(e, id, n) ==
    /\ n \in Snaps /\ ~n.read /\ n.sort = e.at
    /\ e.kind # "message" => n.last = 0
    /\ e.kind = "message" =>
          /\ n.last = e.id /\ n.lastAt = e.at
          /\ SameMillisecond(id) \/ n.count <= Cardinality(UpTo(id, Row(n)))

LEMMA TakenIsFree ==
    ASSUME NEW w \in Workers, OthersSame(w), TablesSame, RestSame, raced \subseteq raced', job[w].pc \notin Busy
    PROVE  TablesGrow /\ ToldStep(w) /\ Written(w)
  BY DEF TablesGrow, ToldStep, Written, TablesSame, RestSame

LEMMA SaysValue ==
    ASSUME NEW w \in Workers, NEW e \in Events, NEW a \in Accounts, NEW id, id = NotificationID(e, a), NEW n,
           Says(e, id, n), job'[w].op = "event", job'[w].pc = "previous", job'[w].e = e, job'[w].id = id
    PROVE  InHand(w, id, n)'
  <1>1. /\ id \in IDs /\ id.kind = e.kind /\ (IsMessageKind(id) <=> e.kind = "message")
        /\ (e.kind = "message" => e \in Messages(id)) /\ e.at \in Nat /\ e.at >= Milli
    BY IDOf, EventFacts
  <1>2. PICK m \in Snaps : /\ m = Row(n) /\ m.sort = Stored(n.sort) /\ m.lastAt = Stored(n.lastAt)
                           /\ m.count = n.count /\ m.last = n.last
    BY RowIs DEF Says
  <1>3. m.sort > 0 /\ m.sort = Stored(m.sort)
    BY <1>1, <1>2, StoredType, StoredTwice DEF Says
  <1>4. Told(id, e)'
    <2>1. InFlight(id, e)'
      BY DEF InFlight, Busy, Early
    <2> QED BY <2>1 DEF Told
  <1>5. ValueOK(id, m)'
    <2>1. CASE IsMessageKind(id)
      BY <1>1, <1>2, <1>3, <1>4, <2>1 DEF ValueOK, Says
    <2>2. CASE ~IsMessageKind(id)
      BY <1>1, <1>2, <1>3, <2>2 DEF ValueOK, Says
    <2> QED BY <2>1, <2>2
  <1> QED BY <1>1, <1>2, <1>5 DEF InHand, Says

LEMMA HandlerTakes ==
    ASSUME Core, NEW w \in Workers, job[w].op = "event", job[w].pc = "load", NEW e \in Events, e = job[w].e,
           NEW id, id = NotificationID(e, Head(job[w].todo)), NEW n, Says(e, id, n),
           WillSave(w, id, n), TablesSame, RestSame,
           Once(id) /\ id \in DOMAIN byID => ~byID[id].read,
           id \notin raced => Behind(id, Row(n))
    PROVE  TakesUp(w, id, n)
  <1>1. TablesType /\ JobInv(w)
    BY DEF Core
  <1>2. PICK todo \in Seq(Accounts) : todo = job[w].todo /\ EndOf(todo, Recipients(e))
    BY <1>1, JobType DEF JobInv
  <1>3. PICK a \in Accounts : a = Head(todo)
    BY <1>2, HeadIs
  <1>4. id \in IDs /\ n \in Snaps /\ ~n.read
    BY <1>2, <1>3, IDOf DEF Says
  <1>5. /\ OthersSame(w) /\ job'[w].pc = "previous" /\ job'[w].op = job[w].op /\ job'[w].e = job[w].e
        /\ job'[w].todo = job[w].todo /\ job'[w].ids = job[w].ids /\ job'[w].id = id /\ job'[w].n = n
    BY <1>1, <1>4, WillSaveIs
  <1>6. JobInv(w)'
    BY <1>2, <1>4, <1>5 DEF JobInv, Busy, Early, Late
  <1>7. InHand(w, id, n)'
    BY <1>2, <1>3, <1>5, SaysValue
  <1> QED BY <1>4, <1>5, <1>6, <1>7 DEF TakesUp, Fits, WillSave, RestSame

\* A notification that is marked read.
LEMMA MarkReadIs ==
    ASSUME NEW m \in Snaps
    PROVE  /\ MarkRead(m) \in Snaps /\ MarkRead(m).read /\ MarkRead(m).sort = m.sort /\ MarkRead(m).count = m.count
           /\ MarkRead(m).last = m.last /\ MarkRead(m).lastAt = m.lastAt
  BY DEF MarkRead, Snaps

LEMMA RequestTakes ==
    ASSUME Core, ValuesInv, NotRaced, NEW w \in Workers, NEW id \in DOMAIN byID, ~byID[id].read,
           NEW n, n = MarkRead(byID[id]), OthersSame(w), TablesSame, RestSame, JobInv(w)',
           job[w].pc \in {"idle", "load"}, job'[w].pc = "previous", job'[w].id = id, job'[w].n = n, job'[w].op # "event",
           raced' = IF \E v \in Workers \ {w} : Holds(v, id) THEN raced \cup {id} ELSE raced
    PROVE  TakesUp(w, id, n)
  <1>1. TablesType /\ id \in IDs
    BY DEF Core, TablesType, NotificationTypeOK
  <1>2. PICK m \in Snaps : m = byID[id] /\ ValueOK(id, m)
    BY <1>1 DEF ValuesInv, TablesType
  <1>3. n \in Snaps /\ n.sort = m.sort /\ n.count = m.count /\ n.last = m.last /\ n.lastAt = m.lastAt
    BY <1>2, MarkReadIs
  <1>4. PICK k \in Snaps : /\ k = Row(n) /\ k.sort = Stored(m.sort) /\ k.lastAt = Stored(m.lastAt)
                           /\ k.count = m.count /\ k.last = m.last
    BY <1>3, RowIs
  <1>5. IsMessageKind(id) => k.lastAt = m.lastAt
    <2>1. ASSUME IsMessageKind(id) PROVE k.lastAt = m.lastAt
      <3>1. PICK g \in Messages(id) : m.lastAt = Stored(g.at)
        BY <1>2, <2>1 DEF ValueOK
      <3>2. g.at \in Nat
        BY <1>1, MessageFacts
      <3> QED BY <1>4, <3>1, <3>2, StoredTwice
    <2> QED BY <2>1
  <1>6. k.sort = m.sort /\ m.sort > 0
    BY <1>2, <1>4 DEF ValueOK
  <1>7. ValueOK(id, k)
    <2>1. CASE IsMessageKind(id)
      <3>1. UpTo(id, k) = UpTo(id, m)
        BY <1>4, <1>5, <2>1, UpToSame
      <3> QED BY <1>2, <1>4, <1>5, <1>6, <2>1, <3>1 DEF ValueOK
    <2>2. CASE ~IsMessageKind(id)
      BY <1>2, <1>4, <1>6, <2>2 DEF ValueOK
    <2> QED BY <2>1, <2>2
  <1>8. TablesGrow /\ ToldStep(w)
    BY TakenIsFree DEF Busy, Early, Late
  <1>9. ValueOK(id, k)'
    BY <1>7, <1>8, ValueStays
  <1>10. InHand(w, id, n)'
    BY <1>4, <1>9 DEF InHand
  <1>11. id \notin raced => Behind(id, Row(n))
    <2>1. ASSUME id \notin raced, id \in DOMAIN groups PROVE NotAhead(groups[id], k) \/ SameMillisecond(id)
      <3>1. Behind(id, m) /\ IsMessageKind(id)
        BY <1>1, <1>2, <2>1 DEF NotRaced, NotRacedInv, TablesType
      <3> QED BY <1>4, <1>5, <2>1, <3>1 DEF Behind, NotAhead
    <2> QED BY <1>4, <2>1 DEF Behind
  <1>12. Fits(id, n)
    BY <1>1, <1>3, <1>11 DEF Fits
  <1> QED BY <1>10, <1>12 DEF TakesUp, RestSame

-----------------------------------------------------------------------------
(* The handlers take up a notification, or find that there is nothing to do *)

TopicStep(w) ==
    job'[w].op = "event" => (job[w].op = "event" /\ job'[w].e = job[w].e) \/ TopicFree(w, job'[w].e)

\* A handler starts over, goes on with its recipient, had none, or has reached one more.
HandledStep(w) ==
    \/ /\ handled' = handled
       /\ job'[w].op = "event" => job'[w].pc = "load" /\ job'[w].todo = Recipients(job'[w].e)
    \/ /\ handled' = handled /\ job[w].op = "event" /\ job'[w].e = job[w].e /\ job'[w].todo = job[w].todo
       /\ job'[w].pc \in {"emit", "email"} =>
             \A e, a : e = job[w].e /\ a = Head(job[w].todo) => Reflected(e, a)'
    \/ /\ job'[w].op # "event"
       /\ \E e \in Events : Recipients(e) = << >> /\ handled' = handled \cup {e}
    \/ /\ job[w].op = "event" /\ OnOrDone(w)
       /\ \A e, a : e = job[w].e /\ a = Head(job[w].todo) => Reached(e, a)'

Lets(w) == LetsGo(w) /\ ToldStep(w) /\ HandStep(w) /\ HandledStep(w) /\ TopicStep(w) /\ TablesType'

\* The handler is done with one recipient.
LEMMA Advances ==
    ASSUME Core, NEW w \in Workers, NEW e \in Events, NEW a, job[w].op = "event", job[w].e = e, Head(job[w].todo) = a,
           job[w].pc \in {"load", "emit", "email"}, NextRecipient(w), TablesSame, TablesGrow, cut' \subseteq Events,
           raced' = raced, marked' = marked, reader' = reader, torn' = torn, Reached(e, a)',
           job[w].pc \in Busy => Told(NotificationID(e, a), e)'
    PROVE  Lets(w)
  <1>1. TablesType /\ JobInv(w) /\ OthersSame(w) /\ JobInv(w)' /\ OnOrDone(w)
    BY NextRecipientIs DEF Core
  <1>2. job'[w].pc \in {"idle", "load"} /\ job'[w].pc \notin Busy
    BY <1>1, IdleType DEF OnOrDone, Busy, Early, Late
  <1>3. ~Dirty(w, job[w].id)
    BY DEF Dirty, Late
  <1>4. LetsGo(w)
    BY <1>1, <1>2, <1>3 DEF LetsGo, Early, Late
  <1>5. ToldStep(w)
    BY <1>1 DEF ToldStep, JobInv, Busy, Early, Late
  <1>6. HandStep(w) /\ HandledStep(w)
    BY <1>1, <1>2 DEF HandStep, HandledStep
  <1>7. TopicStep(w)
    BY <1>1, IdleType DEF TopicStep, OnOrDone
  <1>8. handled' \subseteq Events
    BY <1>1 DEF OnOrDone, TablesType, NotificationTypeOK
  <1>9. TablesType'
    BY <1>1, <1>8 DEF TablesType, NotificationTypeOK, OthersSame, TablesSame
  <1> QED BY <1>4, <1>5, <1>6, <1>7, <1>9 DEF Lets

\* A worker that has not taken anything up is the only one that could announce its event.
LEMMA NotInFlight ==
    ASSUME Core, NEW w \in Workers, job[w].op = "event", job[w].pc = "load", NEW f, Topic(f) = Topic(job[w].e), NEW id
    PROVE  ~InFlight(id, f)
  <1>1. ASSUME InFlight(id, f) PROVE FALSE
    <2>1. PICK v \in Workers : job[v].op = "event" /\ job[v].pc \in Busy /\ job[v].e = f
      BY <1>1 DEF InFlight
    <2>2. v = w
      BY <2>1 DEF Core, OnePerTopic
    <2> QED BY <2>1, <2>2 DEF Busy, Early, Late
  <1> QED BY <1>1

\* What a handler in its loop has.
LEMMA Loads ==
    ASSUME Core, NEW w \in Workers, job[w].op = "event"
    PROVE  \E e \in Events, a \in Accounts :
              /\ e = job[w].e /\ a = Head(job[w].todo) /\ NotificationID(e, a) \in IDs
              /\ \E i \in DOMAIN Recipients(e) : Recipients(e)[i] = a
  <1>1. TablesType /\ JobInv(w)
    BY DEF Core
  <1>2. PICK e \in Events, todo \in Seq(Accounts) : e = job[w].e /\ todo = job[w].todo /\ EndOf(todo, Recipients(e))
    BY <1>1, JobType DEF JobInv
  <1>3. PICK s \in Seq(Accounts) : s = Recipients(e)
    BY RecipientsType
  <1>4. /\ Head(todo) \in Accounts /\ Len(todo) \in Nat /\ Len(todo) >= 1 /\ Len(s) \in Nat /\ Len(todo) <= Len(s)
        /\ Head(todo) = s[Len(s) - Len(todo) + 1] /\ NotificationID(e, Head(todo)) \in IDs
    BY <1>2, <1>3, HeadIs
  <1>5. Len(s) - Len(todo) + 1 \in DOMAIN s
    BY <1>3, <1>4
  <1> QED BY <1>2, <1>3, <1>4, <1>5

LEMMA CreateSays ==
    ASSUME NEW e \in Events, NEW id, e.kind # "message"
    PROVE  Says(e, id, Create(e))
  <1>1. e.at \in Nat
    BY EventFacts
  <1>2. Create(e) \in Snaps /\ Create(e).sort = e.at /\ Create(e).last = 0 /\ ~Create(e).read
    BY <1>1 DEF Create, None, Snaps
  <1> QED BY <1>2 DEF Says

LEMMA CreateUnlessThereIs ==
    ASSUME Core, ValuesInv, NEW w \in Workers, job[w].op = "event", job[w].pc = "load",
           job[w].e.kind \notin {"message", "mention"}, CreateUnlessThere(w)
    PROVE  Lets(w) \/ \E id, n : TakesUp(w, id, n)
  <1>1. PICK e \in Events, a \in Accounts : e = job[w].e /\ a = Head(job[w].todo) /\ NotificationID(e, a) \in IDs
    BY Loads
  <1>2. PICK id, n : id \in IDs /\ id = NotificationID(e, a) /\ n = Create(e)
    BY <1>1
  <1>3. TablesType /\ id.kind = e.kind /\ ~IsMessageKind(id) /\ id.account = a
    BY <1>1, <1>2, IDOf DEF Core
  <1>4. TablesSame /\ announced' = announced /\ emailed' = emailed /\ marked' = marked /\ cut' = cut
        /\ torn' = torn /\ reader' = reader
    BY DEF CreateUnlessThere, tables, TablesSame
  <1>5. CASE getNotificationByID(id) # None
    <2>1. NextRecipient(w) /\ raced' = raced
      BY <1>1, <1>2, <1>5 DEF CreateUnlessThere
    <2>2. id \in DOMAIN byID
      BY <1>5 DEF getNotificationByID
    <2>3. Told(id, e)
      BY <1>1, <1>2, <1>3, <2>2 DEF ValuesInv
    <2>4. ~InFlight(id, e)
      BY <1>1, NotInFlight
    <2>5. Reached(e, a)'
      <3>1. e \in cut' \/ (<< id, 0 >> \in announced' /\ (e.kind = "welcome" => id.account \in emailed'))
        BY <1>1, <1>4, <2>3, <2>4 DEF Told
      <3>2. Reflected(e, a)'
        BY <1>1, <1>2, <1>4, <2>2 DEF Reflected, TablesSame
      <3>3. e \in cut' \/ Announced(e, a)'
        BY <1>2, <1>3, <3>1 DEF Announced
      <3> QED BY <3>2, <3>3 DEF Reached
    <2>6. TablesGrow /\ cut' \subseteq Events
      BY <1>3, <1>4, <2>1 DEF TablesGrow, TablesSame, TablesType, NotificationTypeOK
    <2>7. job[w].pc \notin Busy
      BY DEF Busy, Early, Late
    <2> QED BY <1>1, <1>4, <2>1, <2>5, <2>6, <2>7, Advances
  <1>6. CASE getNotificationByID(id) = None
    <2>1. WillSave(w, id, n) /\ handled' = handled
      BY <1>1, <1>2, <1>6 DEF CreateUnlessThere
    <2>2. id \notin DOMAIN byID
      BY <1>6, NoneType DEF getNotificationByID, ValuesInv, ValueOK
    <2>3. Behind(id, Row(n))
      BY <1>3 DEF Behind, TablesType
    <2>4. Says(e, id, n)
      BY <1>1, <1>2, CreateSays
    <2>5. RestSame
      BY <1>4, <2>1 DEF RestSame
    <2>6. TakesUp(w, id, n)
      BY <1>1, <1>2, <1>4, <2>1, <2>2, <2>3, <2>4, <2>5, HandlerTakes
    <2> QED BY <2>6
  <1> QED BY <1>5, <1>6

LEMMA MentionIs ==
    ASSUME Core, ValuesInv, NEW w \in Workers, handleRoomMentionNotificationEvent(w)
    PROVE  \E id, n : TakesUp(w, id, n)
  <1>0. job[w].op = "event" /\ job[w].pc = "load" /\ job[w].e.kind = "mention"
    BY DEF handleRoomMentionNotificationEvent, At
  <1>1. PICK e \in Events, a \in Accounts : e = job[w].e /\ a = Head(job[w].todo) /\ NotificationID(e, a) \in IDs
    BY <1>0, Loads
  <1>2. PICK id, n : id \in IDs /\ id = NotificationID(e, a) /\ n = Create(e)
    BY <1>1
  <1>3. TablesType /\ id.kind = "mention" /\ ~IsMessageKind(id) /\ ~Once(id)
    BY <1>0, <1>1, <1>2, IDOf DEF Core, Once
  <1>4. TablesSame /\ RestSame /\ WillSave(w, id, n)
    BY <1>1, <1>2 DEF handleRoomMentionNotificationEvent, tables, TablesSame, RestSame
  <1>5. Behind(id, Row(n))
    BY <1>3 DEF Behind, TablesType
  <1>6. Says(e, id, n)
    BY <1>0, <1>1, <1>2, CreateSays
  <1>7. TakesUp(w, id, n)
    BY <1>0, <1>1, <1>2, <1>3, <1>4, <1>5, <1>6, HandlerTakes
  <1> QED BY <1>7

LEMMA CreateMessageSays ==
    ASSUME NEW e \in Events, NEW a \in Accounts, NEW id, id = NotificationID(e, a), e.kind = "message"
    PROVE  Says(e, id, CreateMessageNotification(e))
  <1>1. id \in IDs /\ e \in Messages(id) /\ e.at \in Nat /\ e.id \in Nat
    BY IDOf, EventFacts
  <1>2. PICK n \in Snaps : /\ n = CreateMessageNotification(e) /\ n.sort = e.at /\ n.last = e.id /\ n.lastAt = e.at
                           /\ n.count = 1 /\ ~n.read
    <2>1. PICK x : x = CreateMessageNotification(e)
      OBVIOUS
    <2>2. x = [read |-> FALSE, sort |-> e.at, count |-> 1, last |-> e.id, lastAt |-> e.at]
      BY <2>1 DEF CreateMessageNotification
    <2>3. x \in Snaps /\ x.sort = e.at /\ x.last = e.id /\ x.lastAt = e.at /\ x.count = 1 /\ ~x.read
      BY <1>1, <2>2 DEF Snaps
    <2> QED BY <2>1, <2>3
  <1>3. Of(Row(n), e)
    BY <1>2, RowIs DEF Of
  <1>4. Cardinality(UpTo(id, Row(n))) >= 1 /\ Cardinality(UpTo(id, Row(n))) \in Nat
    BY <1>1, <1>3, UpToSelf, UpToFinite
  <1> QED BY <1>2, <1>4 DEF Says

\* A message that does not look stale is after the last one, and counts.
LEMMA ApplySays ==
    ASSUME NEW e \in Events, NEW a \in Accounts, NEW id, id = NotificationID(e, a), e.kind = "message",
           NEW m, ValueOK(id, m), ~isMessageActivityStale(m, e)
    PROVE  /\ Says(e, id, ApplyMessageActivity(m, e))
           /\ NotAhead(m, Row(ApplyMessageActivity(m, e))) \/ SameMillisecond(id)
  <1>1. id \in IDs /\ e \in Messages(id) /\ e.at \in Nat /\ e.id \in Nat /\ IsMessageKind(id)
    BY IDOf, EventFacts
  <1>2. PICK g \in Messages(id) : /\ m \in Snaps /\ m.last = g.id /\ m.lastAt = Stored(g.at)
                                  /\ SameMillisecond(id) \/ m.count <= Cardinality(UpTo(id, m))
    BY <1>1 DEF ValueOK
  <1>3. m.count \in Nat
    BY <1>2 DEF Snaps
  <1>4. PICK n \in Snaps : /\ n = ApplyMessageActivity(m, e) /\ n.sort = e.at /\ n.last = e.id /\ n.lastAt = e.at
                           /\ (n.count = 1 \/ n.count = m.count + 1) /\ ~n.read
    <2>1. PICK c \in Nat : c = (IF m.read THEN 1 ELSE m.count + 1) /\ (c = 1 \/ c = m.count + 1)
      BY <1>3
    <2>2. PICK x : x = ApplyMessageActivity(m, e)
      OBVIOUS
    <2>3. x = [read |-> FALSE, sort |-> e.at, count |-> c, last |-> e.id, lastAt |-> e.at]
      BY <2>1, <2>2 DEF ApplyMessageActivity
    <2>4. x \in Snaps /\ x.sort = e.at /\ x.last = e.id /\ x.lastAt = e.at /\ x.count = c /\ ~x.read
      BY <1>1, <2>3 DEF Snaps
    <2> QED BY <2>1, <2>2, <2>4
  <1>5. Of(Row(n), e) /\ Of(m, g)
    BY <1>2, <1>4, RowIs DEF Of
  <1>6. CASE SameMillisecond(id)
    BY <1>4, <1>6 DEF Says
  <1>7. CASE ~SameMillisecond(id)
    <2>1. ~NotAhead(Mark(e), m)
      BY <1>1, <1>2, <1>7, StaleIsNotLater
    <2>2. Cardinality(UpTo(id, Row(n))) >= Cardinality(UpTo(id, m)) + 1 /\ NotAhead(m, Row(n))
      BY <1>1, <1>5, <2>1, UpToMore
    <2>3. Cardinality(UpTo(id, Row(n))) \in Nat
      BY UpToFinite
    <2>4. Cardinality(UpTo(id, m)) \in Nat
      BY UpToFinite
    <2>5. n.count <= Cardinality(UpTo(id, Row(n)))
      BY <1>2, <1>3, <1>4, <1>7, <2>2, <2>3, <2>4
    <2> QED BY <1>4, <2>2, <2>5 DEF Says
  <1> QED BY <1>6, <1>7

\* A message that looks stale is reflected, and a message that is not earlier was announced.
LEMMA StaleIsServed ==
    ASSUME NEW e \in Events, NEW a \in Accounts, NEW id, id = NotificationID(e, a), e.kind = "message",
           NEW m, ValueOK(id, m), isMessageActivityStale(m, e)
    PROVE  /\ NotAhead(Mark(e), m) \/ SameMillisecond(id)
           /\ \E g \in Messages(id) : Told(id, g) /\ (g.at > e.at \/ (g.at = e.at /\ g.id >= e.id))
  <1>1. id \in IDs /\ e \in Messages(id) /\ e.at \in Nat /\ e.id \in Nat /\ IsMessageKind(id)
    BY IDOf, EventFacts
  <1>2. PICK g \in Messages(id) : m.last = g.id /\ m.lastAt = Stored(g.at) /\ Told(id, g)
    BY <1>1 DEF ValueOK
  <1>3. NotAhead(Mark(e), m) \/ SameMillisecond(id)
    BY <1>1, <1>2, StaleIsNotLater
  <1>4. g.at \in Nat /\ g.id \in Nat /\ Stored(g.at) \in Nat /\ Stored(g.at) <= g.at
    BY <1>1, MessageFacts
  <1>5. g.at > e.at \/ (g.at = e.at /\ g.id >= e.id)
    <2>1. CASE g.id = e.id
      <3>1. g.at = e.at
        BY <1>1, <2>1, OneMessage
      <3> QED BY <1>1, <2>1, <3>1
    <2>2. CASE g.id # e.id
      <3>1. e.at < Stored(g.at) \/ (e.at = Stored(g.at) /\ e.id <= g.id)
        BY <1>2, <2>2 DEF isMessageActivityStale
      <3> QED BY <1>1, <1>4, <3>1
    <2> QED BY <2>1, <2>2
  <1> QED BY <1>2, <1>3, <1>5

LEMMA MessageIs ==
    ASSUME Core, ValuesInv, NEW w \in Workers, handleRoomMessageProjectionEvent(w)
    PROVE  Lets(w) \/ \E id, n : TakesUp(w, id, n)
  <1>0. job[w].op = "event" /\ job[w].pc = "load" /\ job[w].e.kind = "message"
    BY DEF handleRoomMessageProjectionEvent, At
  <1>1. PICK e \in Events, a \in Accounts : e = job[w].e /\ a = Head(job[w].todo) /\ NotificationID(e, a) \in IDs
    BY <1>0, Loads
  <1>2. PICK id, m : id \in IDs /\ id = NotificationID(e, a) /\ m = getMessageGroupRow(id)
    BY <1>1
  <1>3. TablesType /\ id.kind = e.kind /\ IsMessageKind(id) /\ ~Once(id)
    BY <1>0, <1>1, <1>2, IDOf DEF Core, Once
  <1>4. TablesSame /\ announced' = announced /\ emailed' = emailed /\ marked' = marked /\ cut' = cut
        /\ torn' = torn /\ reader' = reader
    BY DEF handleRoomMessageProjectionEvent, tables, TablesSame
  <1>5. m # None <=> id \in DOMAIN groups
    BY <1>2, NoneType DEF getMessageGroupRow, ValuesInv, ValueOK
  <1>6. m # None => m = groups[id] /\ ValueOK(id, m) /\ id \in DOMAIN byID
    BY <1>2, <1>3, <1>5 DEF getMessageGroupRow, ValuesInv, TablesType, NotificationTypeOK
  <1>7. CASE m = None
    <2>1. PICK n : n = CreateMessageNotification(e)
      OBVIOUS
    <2>2. WillSave(w, id, n) /\ handled' = handled
      BY <1>1, <1>2, <1>7, <2>1 DEF handleRoomMessageProjectionEvent
    <2>3. Behind(id, Row(n)) /\ RestSame
      BY <1>4, <1>5, <1>7, <2>2 DEF Behind, RestSame
    <2>4. Says(e, id, n)
      BY <1>0, <1>1, <1>2, <2>1, CreateMessageSays
    <2>5. TakesUp(w, id, n)
      BY <1>0, <1>1, <1>2, <1>3, <1>4, <2>2, <2>3, <2>4, HandlerTakes
    <2> QED BY <2>5
  <1>8. CASE m # None /\ isMessageActivityStale(m, e)
    <2>1. NextRecipient(w) /\ raced' = raced
      BY <1>1, <1>2, <1>8 DEF handleRoomMessageProjectionEvent
    <2>2. NotAhead(Mark(e), m) \/ SameMillisecond(id)
      BY <1>0, <1>1, <1>2, <1>6, <1>8, StaleIsServed
    <2>3. PICK g \in Messages(id) : Told(id, g) /\ (g.at > e.at \/ (g.at = e.at /\ g.id >= e.id))
      BY <1>0, <1>1, <1>2, <1>6, <1>8, StaleIsServed
    <2>4. ~InFlight(id, g)
      <3>1. g.kind = "message"
        BY <1>2, MessageFacts
      <3>2. Topic(g) = Topic(e)
        BY <1>0, <1>1, <3>1 DEF Topic, IsFriendRequest
      <3> QED BY <1>0, <1>1, <3>2, NotInFlight
    <2>5. g.kind = "message" /\ (g \in cut' \/ << id, g.id >> \in announced')
      BY <1>2, <1>4, <2>3, <2>4, MessageFacts DEF Told
    <2>6. Reached(e, a)'
      <3>1. Reflected(e, a)'
        BY <1>2, <1>4, <1>5, <1>6, <1>8, <2>2 DEF Reflected, TablesSame
      <3>2. Announced(e, a)'
        BY <1>0, <1>1, <1>2, <1>3, <2>3, <2>5 DEF Announced
      <3> QED BY <3>1, <3>2 DEF Reached
    <2>7. TablesGrow /\ cut' \subseteq Events
      BY <1>3, <1>4, <2>1 DEF TablesGrow, TablesSame, TablesType, NotificationTypeOK
    <2>8. job[w].pc \notin Busy
      BY <1>0 DEF Busy, Early, Late
    <2> QED BY <1>0, <1>1, <1>4, <2>1, <2>6, <2>7, <2>8, Advances
  <1>9. CASE m # None /\ ~isMessageActivityStale(m, e)
    <2>1. PICK n : n = ApplyMessageActivity(m, e)
      OBVIOUS
    <2>2. WillSave(w, id, n) /\ handled' = handled
      BY <1>1, <1>2, <1>9, <2>1 DEF handleRoomMessageProjectionEvent
    <2>3. Says(e, id, n) /\ (NotAhead(m, Row(n)) \/ SameMillisecond(id))
      BY <1>0, <1>1, <1>2, <1>6, <1>9, <2>1, ApplySays
    <2>4. Behind(id, Row(n)) /\ RestSame
      BY <1>4, <1>6, <1>9, <2>2, <2>3 DEF Behind, RestSame
    <2>5. TakesUp(w, id, n)
      BY <1>0, <1>1, <1>2, <1>3, <1>4, <2>2, <2>3, <2>4, HandlerTakes
    <2> QED BY <2>5
  <1> QED BY <1>7, <1>8, <1>9

-----------------------------------------------------------------------------
(* Requests *)

\* A step after which the worker has nothing in hand.
LEMMA LetsSimply ==
    ASSUME Core, NEW w \in Workers, OthersSame(w), JobInv(w)', TablesSame, TablesGrow, job'[w].pc \in {"idle", "load"},
           raced' = raced, marked' = marked, reader' = reader, torn \subseteq torn', torn' \subseteq IDs,
           Dirty(w, job[w].id) => job[w].id \in torn', cut' \subseteq Events, handled' \subseteq Events,
           ToldStep(w), HandledStep(w), TopicStep(w)
    PROVE  Lets(w)
  <1>1. TablesType /\ job'[w].pc \notin Busy /\ job'[w].pc \notin Early \cup Late
    BY DEF Core, Busy, Early, Late
  <1>2. LetsGo(w) /\ HandStep(w)
    BY <1>1 DEF LetsGo, HandStep
  <1>3. TablesType'
    BY <1>1 DEF TablesType, NotificationTypeOK, OthersSame, TablesSame
  <1> QED BY <1>2, <1>3 DEF Lets

LEMMA MarkNotificationReadIs ==
    ASSUME Core, ValuesInv, NotRaced, NEW w \in Workers, NEW id \in DOMAIN byID, MarkNotificationRead(w, id)
    PROVE  \E n : TakesUp(w, id, n)
  <1>0. TablesType /\ JobInv(w) /\ job \in [Workers -> Jobs] /\ id \in IDs /\ job[w].pc = "idle"
    BY DEF Core, TablesType, NotificationTypeOK, MarkNotificationRead, IsIdle
  <1>1. PICK n \in Snaps : n = MarkRead(byID[id])
    BY <1>0, MarkReadIs DEF TablesType
  <1>2. PICK j : j = [Idle EXCEPT !.op = "read", !.pc = "previous", !.id = id, !.n = n]
    OBVIOUS
  <1>3. /\ j \in Jobs /\ j.op = "read" /\ j.pc = "previous" /\ j.id = id /\ j.n = n /\ j.e = NoEvent
    BY <1>0, <1>1, <1>2, IdleType DEF Jobs, Busy, Early
  <1>4. job' = [job EXCEPT ![w] = j] /\ ~byID[id].read
    BY <1>1, <1>2 DEF MarkNotificationRead
  <1>5. OthersSame(w) /\ job'[w] = j
    BY <1>0, <1>3, <1>4 DEF OthersSame
  <1>6. TablesSame /\ RestSame
    BY DEF MarkNotificationRead, tables, TablesSame, RestSame
  <1>7. JobInv(w)'
    BY <1>0, <1>3, <1>5, <1>6 DEF JobInv, Busy, Early, Late, TablesSame
  <1>8. raced' = IF \E v \in Workers \ {w} : Holds(v, id) THEN raced \cup {id} ELSE raced
    <2>1. ~Holds(w, id)
      BY <1>0 DEF Holds
    <2>2. (\E v \in Workers : Holds(v, id)) <=> (\E v \in Workers \ {w} : Holds(v, id))
      BY <2>1
    <2> QED BY <2>2 DEF MarkNotificationRead
  <1>9. TakesUp(w, id, n)
    BY <1>0, <1>1, <1>3, <1>4, <1>5, <1>6, <1>7, <1>8, RequestTakes
  <1> QED BY <1>9

LEMMA MarkAllIs ==
    ASSUME Core, NEW w \in Workers, NEW a \in Accounts, MarkAllNotificationsRead(w, a)
    PROVE  Lets(w)
  <1>0. TablesType /\ JobInv(w) /\ job \in [Workers -> Jobs] /\ job[w].pc = "idle"
    BY DEF Core, TablesType, MarkAllNotificationsRead, IsIdle
  <1>1. PICK S : S = ListUnreadByAccountID(a)
    OBVIOUS
  <1>2. S \subseteq DOMAIN byID /\ S \in SUBSET IDs
    BY <1>0, <1>1 DEF ListUnreadByAccountID, TablesType, NotificationTypeOK
  <1>3. PICK j : j = [Idle EXCEPT !.op = "readAll", !.pc = "load", !.ids = S]
    OBVIOUS
  <1>4. j \in Jobs /\ j.op = "readAll" /\ j.pc = "load" /\ j.ids = S /\ j.e = NoEvent
    BY <1>2, <1>3, IdleType DEF Jobs
  <1>5. job' = [job EXCEPT ![w] = j]
    BY <1>1, <1>3 DEF MarkAllNotificationsRead
  <1>6. OthersSame(w) /\ job'[w] = j
    BY <1>0, <1>4, <1>5 DEF OthersSame
  <1>7. TablesSame /\ RestSame /\ raced' = raced
    BY DEF MarkAllNotificationsRead, tables, notes, TablesSame, RestSame
  <1>8. JobInv(w)'
    BY <1>2, <1>4, <1>6, <1>7 DEF JobInv, Busy, Early, Late, TablesSame
  <1>9. TablesGrow /\ ToldStep(w)
    BY <1>0, <1>6, <1>7, TakenIsFree DEF Busy, Early, Late
  <1>10. HandledStep(w) /\ TopicStep(w) /\ ~Dirty(w, job[w].id)
    BY <1>0, <1>4, <1>6, <1>7 DEF HandledStep, TopicStep, RestSame, Dirty, Late
  <1> QED BY <1>0, <1>4, <1>6, <1>7, <1>8, <1>9, <1>10, LetsSimply DEF RestSame, TablesType, NotificationTypeOK

LEMMA MarkNextIs ==
    ASSUME Core, ValuesInv, NotRaced, NEW w \in Workers, MarkNext(w)
    PROVE  Lets(w) \/ \E id, n : TakesUp(w, id, n)
  <1>0. /\ TablesType /\ JobInv(w) /\ job \in [Workers -> Jobs] /\ job[w].pc = "load" /\ job[w].op = "readAll"
        /\ job[w].ids \subseteq DOMAIN byID
    BY DEF Core, TablesType, MarkNext, At, JobInv
  <1>1. TablesSame /\ RestSame
    BY DEF MarkNext, tables, TablesSame, RestSame
  <1>2. ASSUME OthersSame(w), JobInv(w)', job'[w].op # "event", job'[w].pc \in {"idle", "load"}, raced' = raced PROVE Lets(w)
    <2>1. TablesGrow /\ ToldStep(w)
      BY <1>0, <1>1, <1>2, TakenIsFree DEF Busy, Early, Late
    <2>2. HandledStep(w) /\ TopicStep(w) /\ ~Dirty(w, job[w].id)
      BY <1>0, <1>1, <1>2 DEF HandledStep, TopicStep, RestSame, Dirty, Late
    <2> QED BY <1>0, <1>1, <1>2, <2>1, <2>2, LetsSimply DEF RestSame, TablesType, NotificationTypeOK
  <1>3. CASE job' = [job EXCEPT ![w] = Idle] /\ raced' = raced
    <2>1. OthersSame(w) /\ job'[w] = Idle
      BY <1>0, <1>3, GoesIdle
    <2>2. JobInv(w)'
      BY <2>1, IdleType DEF JobInv, Busy, Early, Late
    <2> QED BY <1>2, <1>3, <2>1, <2>2, IdleType
  <1>4. ASSUME NEW id \in job[w].ids, job' = [job EXCEPT ![w].ids = @ \ {id}], raced' = raced PROVE Lets(w)
    <2>1. PICK j : j = [job[w] EXCEPT !.ids = job[w].ids \ {id}]
      OBVIOUS
    <2>2. j \in Jobs /\ j.op = "readAll" /\ j.pc = "load" /\ j.ids = job[w].ids \ {id} /\ j.e = job[w].e
      BY <1>0, <2>1 DEF Jobs
    <2>3. OthersSame(w) /\ job'[w] = j
      BY <1>0, <1>4, <2>1, <2>2 DEF OthersSame
    <2>4. JobInv(w)'
      BY <1>0, <1>1, <2>2, <2>3 DEF JobInv, Busy, Early, Late, TablesSame
    <2> QED BY <1>2, <1>4, <2>2, <2>3, <2>4
  <1>5. ASSUME NEW id \in job[w].ids, ~byID[id].read, WillSave(w, id, MarkRead(byID[id])) PROVE \E n : TakesUp(w, id, n)
    <2>1. id \in DOMAIN byID /\ id \in IDs
      BY <1>0 DEF TablesType, NotificationTypeOK
    <2>2. PICK n \in Snaps : n = MarkRead(byID[id])
      BY <1>0, <2>1, MarkReadIs DEF TablesType
    <2>3. WillSave(w, id, n)
      BY <1>5, <2>2
    <2>4. /\ OthersSame(w) /\ job'[w].pc = "previous" /\ job'[w].op = job[w].op /\ job'[w].e = job[w].e
          /\ job'[w].todo = job[w].todo /\ job'[w].ids = job[w].ids /\ job'[w].id = id /\ job'[w].n = n
      BY <1>0, <2>1, <2>3, WillSaveIs
    <2>5. JobInv(w)'
      BY <1>0, <1>1, <2>1, <2>4 DEF JobInv, Busy, Early, Late, TablesSame
    <2>6. raced' = IF \E v \in Workers \ {w} : Holds(v, id) THEN raced \cup {id} ELSE raced
      BY <2>3 DEF WillSave
    <2>7. TakesUp(w, id, n)
      BY <1>0, <1>1, <1>5, <2>1, <2>2, <2>4, <2>5, <2>6, RequestTakes
    <2> QED BY <2>7
  <1> QED BY <1>3, <1>4, <1>5 DEF MarkNext

-----------------------------------------------------------------------------
(* Consumers *)

LEMMA ConsumeIs ==
    ASSUME Core, NEW w \in Workers, NEW e \in Events, Consume(w, e)
    PROVE  Lets(w)
  <1>0. TablesType /\ JobInv(w) /\ job \in [Workers -> Jobs] /\ job[w].pc = "idle" /\ job[w].op = "none"
    BY DEF Core, TablesType, Consume, IsIdle, JobInv
  <1>1. /\ TablesSame /\ announced' = announced /\ emailed' = emailed /\ marked' = marked
        /\ cut' = cut /\ torn' = torn /\ reader' = reader /\ raced' = raced
    BY DEF Consume, tables, notes, TablesSame
  <1>2. TablesGrow /\ ToldStep(w) /\ ~Dirty(w, job[w].id)
    BY <1>0, <1>1 DEF TablesGrow, ToldStep, TablesSame, Dirty, Late
  <1>3. cut' \subseteq Events /\ handled \subseteq Events /\ torn' \subseteq IDs
    BY <1>0, <1>1 DEF TablesType, NotificationTypeOK
  <1>4. CASE Recipients(e) = << >>
    <2>1. handled' = handled \cup {e} /\ job' = job
      BY <1>4 DEF Consume
    <2>2. OthersSame(w) /\ job'[w] = job[w]
      BY <1>0, <2>1 DEF OthersSame
    <2>3. JobInv(w)'
      BY <1>0, <1>1, <2>2 DEF JobInv, TablesSame
    <2>4. HandledStep(w) /\ TopicStep(w) /\ handled' \subseteq Events
      BY <1>0, <1>3, <1>4, <2>1, <2>2 DEF HandledStep, TopicStep
    <2> QED BY <1>0, <1>1, <1>2, <1>3, <2>2, <2>3, <2>4, LetsSimply
  <1>5. CASE Recipients(e) # << >>
    <2>1. handled' = handled /\ job' = [job EXCEPT ![w] = Start(e)]
      BY <1>5 DEF Consume
    <2>2. OthersSame(w) /\ job'[w] = Start(e)
      BY <1>0, <2>1, StartIs DEF OthersSame
    <2>3. JobInv(w)'
      BY <1>5, <2>2, StartIs, WholeEnd DEF JobInv, Busy, Early, Late
    <2>4. TopicFree(w, e)
      BY DEF Consume, TopicFree
    <2>5. HandledStep(w) /\ TopicStep(w) /\ handled' \subseteq Events
      BY <1>3, <2>1, <2>2, <2>4, StartIs DEF HandledStep, TopicStep
    <2> QED BY <1>1, <1>2, <1>3, <2>2, <2>3, <2>5, StartIs, LetsSimply
  <1> QED BY <1>4, <1>5

LEMMA FailIs ==
    ASSUME Core, NEW w \in Workers, Fail(w)
    PROVE  Lets(w)
  <1>0. TablesType /\ JobInv(w) /\ job \in [Workers -> Jobs] /\ job[w].pc # "idle"
    BY DEF Core, TablesType, Fail, IsIdle
  <1>1. /\ TablesSame /\ announced' = announced /\ emailed' = emailed /\ marked' = marked
        /\ handled' = handled /\ reader' = reader /\ raced' = raced
        /\ cut' = IF job[w].op = "event" THEN cut \cup {job[w].e} ELSE cut
    BY DEF Fail, tables, TablesSame
  <1>2. torn' = IF Dirty(w, job[w].id) THEN torn \cup {job[w].id} ELSE torn
    BY DEF Fail, Dirty, Late
  <1>3. torn \subseteq torn' /\ torn' \subseteq IDs /\ (Dirty(w, job[w].id) => job[w].id \in torn')
    BY <1>0, <1>2 DEF TablesType, NotificationTypeOK, Dirty, JobInv, Busy, Early, Late
  <1>4. cut' \subseteq Events /\ handled' \subseteq Events
    BY <1>0, <1>1 DEF TablesType, NotificationTypeOK, JobInv
  <1>5. TablesGrow
    BY <1>1 DEF TablesGrow, TablesSame
  <1>6. ToldStep(w)
    BY <1>1 DEF ToldStep, Told
  <1>7. CASE job' = [job EXCEPT ![w] = Idle]
    <2>1. OthersSame(w) /\ job'[w] = Idle
      BY <1>0, <1>7, GoesIdle
    <2>2. JobInv(w)'
      BY <2>1, IdleType DEF JobInv, Busy, Early, Late
    <2>3. HandledStep(w) /\ TopicStep(w)
      BY <1>1, <2>1, IdleType DEF HandledStep, TopicStep
    <2> QED BY <1>1, <1>3, <1>4, <1>5, <1>6, <2>1, <2>2, <2>3, IdleType, LetsSimply
  <1>8. CASE job[w].op = "event" /\ job' = [job EXCEPT ![w] = Start(job[w].e)]
    <2>1. PICK e \in Events, todo \in Seq(Accounts) : e = job[w].e /\ todo = job[w].todo /\ EndOf(todo, Recipients(e))
      BY <1>0, <1>8, JobType DEF JobInv
    <2>2. OthersSame(w) /\ job'[w] = Start(e)
      BY <1>0, <1>8, <2>1, StartIs DEF OthersSame
    <2>3. Recipients(e) # << >>
      <3>1. Len(Recipients(e)) \in Nat /\ Len(Recipients(e)) >= 1
        BY <2>1, HeadIs
      <3> QED BY <3>1
    <2>4. JobInv(w)'
      BY <2>2, <2>3, StartIs, WholeEnd DEF JobInv, Busy, Early, Late
    <2>5. HandledStep(w) /\ TopicStep(w)
      BY <1>1, <1>8, <2>1, <2>2, StartIs DEF HandledStep, TopicStep
    <2> QED BY <1>1, <1>3, <1>4, <1>5, <1>6, <2>2, <2>4, <2>5, StartIs, LetsSimply
  <1> QED BY <1>7, <1>8 DEF Fail

-----------------------------------------------------------------------------
(* The client is told *)

\* What a handler announces is the message it handles, or nothing's number.
LEMMA Announces ==
    ASSUME Core, ValuesInv, HandledInv, NEW w \in Workers, job[w].op = "event", job[w].pc \in {"emit", "email"}
    PROVE  \E e \in Events, a \in Accounts :
              /\ e = job[w].e /\ a = Head(job[w].todo) /\ NotificationID(e, a) \in IDs
              /\ job[w].id = NotificationID(e, a) /\ Reflected(e, a)
              /\ job[w].n.last = IF e.kind = "message" THEN e.id ELSE 0
  <1>1. PICK e \in Events, a \in Accounts : e = job[w].e /\ a = Head(job[w].todo) /\ NotificationID(e, a) \in IDs
    BY Loads
  <1>2. TablesType /\ JobInv(w) /\ job[w].n \in Snaps
    BY JobType DEF Core
  <1>3. job[w].id = NotificationID(e, a) /\ Reflected(e, a)
    BY <1>1, <1>2 DEF JobInv, HandledInv
  <1>4. ValueOK(job[w].id, Row(job[w].n)) /\ (IsMessageKind(job[w].id) => job[w].n.last = e.id)
    BY <1>1 DEF ValuesInv, Busy
  <1>5. Row(job[w].n).last = job[w].n.last
    BY <1>2, RowIs
  <1>6. IsMessageKind(job[w].id) <=> e.kind = "message"
    BY <1>1, <1>3, IDOf
  <1>7. job[w].n.last = IF e.kind = "message" THEN e.id ELSE 0
    BY <1>4, <1>5, <1>6 DEF ValueOK
  <1> QED BY <1>1, <1>3, <1>7

LEMMA ReflectedStays ==
    ASSUME TablesSame, raced' = raced, NEW e, NEW a, Reflected(e, a)
    PROVE  Reflected(e, a)'
  BY DEF Reflected, TablesSame

\* An announced event has reached its recipient.
LEMMA AnnouncedReaches ==
    ASSUME NEW e \in Events, NEW a \in Accounts, NEW id, id = NotificationID(e, a), Reflected(e, a)',
           << id, IF e.kind = "message" THEN e.id ELSE 0 >> \in announced', e.kind = "welcome" => a \in emailed'
    PROVE  Reached(e, a)' /\ Told(id, e)'
  <1>1. (IsMessageKind(id) <=> e.kind = "message") /\ id.account = a /\ (e.kind = "message" => e \in Messages(id))
        /\ e.at \in Nat /\ e.id \in Nat
    BY IDOf, EventFacts
  <1>2. Announced(e, a)'
    <2>1. CASE e.kind = "message"
      BY <1>1, <2>1 DEF Announced
    <2>2. CASE e.kind # "message"
      BY <1>1, <2>2 DEF Announced
    <2> QED BY <2>1, <2>2
  <1>3. Told(id, e)'
    <2>1. CASE e.kind = "message"
      BY <2>1 DEF Told
    <2>2. CASE e.kind # "message"
      BY <1>1, <2>2 DEF Told
    <2> QED BY <2>1, <2>2
  <1> QED BY <1>2, <1>3 DEF Reached

LEMMA EmitMessageIs ==
    ASSUME Core, ValuesInv, HandledInv, NEW w \in Workers, EmitMessage(w)
    PROVE  Lets(w)
  <1>0. TablesType /\ JobInv(w) /\ job[w].pc = "emit" /\ GoOn(w) /\ job[w].op \in {"event", "read"}
    BY JobType DEF Core, EmitMessage, At, JobInv, Jobs
  <1>1. /\ TablesSame /\ emailed' = emailed /\ marked' = marked
        /\ cut' = cut /\ torn' = torn /\ reader' = reader /\ raced' = raced
        /\ announced' = IF job[w].op = "event" THEN announced \cup {<< job[w].id, job[w].n.last >>} ELSE announced
    BY DEF EmitMessage, tables, TablesSame
  <1>2. TablesGrow /\ cut' \subseteq Events /\ handled \subseteq Events /\ torn' \subseteq IDs /\ ~Dirty(w, job[w].id)
    BY <1>0, <1>1 DEF TablesGrow, TablesSame, TablesType, NotificationTypeOK, Dirty, Late
  <1>3. CASE job[w].op = "read"
    <2>1. job' = [job EXCEPT ![w] = Idle] /\ handled' = handled
      BY <1>0, <1>3 DEF GoOn
    <2>2. OthersSame(w) /\ job'[w] = Idle
      BY <1>0, <2>1, GoesIdle
    <2>3. JobInv(w)'
      BY <2>2, IdleType DEF JobInv, Busy, Early, Late
    <2>4. ToldStep(w) /\ HandledStep(w) /\ TopicStep(w)
      BY <1>3, <2>1, <2>2, IdleType DEF ToldStep, HandledStep, TopicStep
    <2> QED BY <1>1, <1>2, <2>1, <2>2, <2>3, <2>4, IdleType, LetsSimply
  <1>4. CASE job[w].op = "event"
    <2>1. PICK e \in Events, a \in Accounts :
              /\ e = job[w].e /\ a = Head(job[w].todo) /\ NotificationID(e, a) \in IDs
              /\ job[w].id = NotificationID(e, a) /\ Reflected(e, a)
              /\ job[w].n.last = IF e.kind = "message" THEN e.id ELSE 0
      BY <1>0, <1>4, Announces
    <2>2. PICK id : id = NotificationID(e, a)
      OBVIOUS
    <2>3. << id, IF e.kind = "message" THEN e.id ELSE 0 >> \in announced' /\ Reflected(e, a)'
      BY <1>1, <1>4, <2>1, <2>2, ReflectedStays
    <2>4. CASE e.kind = "welcome"
      <3>1. Goto(w, "email") /\ handled' = handled
        BY <1>0, <1>4, <2>1, <2>4 DEF GoOn
      <3>2. /\ OthersSame(w) /\ job'[w].pc = "email" /\ job'[w].op = job[w].op /\ job'[w].e = job[w].e
            /\ job'[w].todo = job[w].todo /\ job'[w].ids = job[w].ids /\ job'[w].id = job[w].id
            /\ job'[w].n = job[w].n
        BY <1>0, <3>1, GotoIs DEF Busy
      <3>3. JobInv(w)'
        BY <1>0, <1>1, <1>4, <2>1, <2>2, <2>3, <2>4, <3>2 DEF JobInv, TablesSame, Busy, Early, Late
      <3>4. Keeps(w)
        BY <1>0, <3>2 DEF Keeps, Busy
      <3>5. ToldStep(w) /\ HandStep(w) /\ TopicStep(w)
        BY <1>4, <3>2, <3>4 DEF ToldStep, HandStep, TopicStep
      <3>6. HandledStep(w)
        BY <1>4, <2>1, <2>3, <3>1, <3>2 DEF HandledStep
      <3>7. LetsGo(w)
        BY <1>1, <1>2, <3>2, <3>3 DEF LetsGo, Early, Late
      <3>8. TablesType'
        BY <1>0, <1>1, <1>2, <3>1, <3>2 DEF TablesType, NotificationTypeOK, OthersSame, TablesSame
      <3> QED BY <3>5, <3>6, <3>7, <3>8 DEF Lets
    <2>5. CASE e.kind # "welcome"
      <3>1. NextRecipient(w)
        BY <1>0, <1>4, <2>1, <2>5 DEF GoOn
      <3>2. Reached(e, a)' /\ Told(id, e)'
        BY <2>2, <2>3, <2>5, AnnouncedReaches
      <3> QED BY <1>0, <1>1, <1>2, <1>4, <2>1, <2>2, <3>1, <3>2, Advances
    <2> QED BY <2>4, <2>5
  <1> QED BY <1>0, <1>3, <1>4

LEMMA SendTemplateIs ==
    ASSUME Core, ValuesInv, HandledInv, NEW w \in Workers, SendTemplate(w)
    PROVE  Lets(w)
  <1>0. /\ TablesType /\ JobInv(w) /\ job[w].pc = "email" /\ NextRecipient(w) /\ job[w].op = "event"
        /\ job[w].e.kind = "welcome" /\ << job[w].id, 0 >> \in announced
    BY JobType DEF Core, SendTemplate, At, JobInv, Jobs
  <1>1. /\ TablesSame /\ announced' = announced /\ marked' = marked
        /\ cut' = cut /\ torn' = torn /\ reader' = reader /\ raced' = raced
        /\ emailed' = emailed \cup {job[w].id.account}
    BY DEF SendTemplate, tables, TablesSame
  <1>2. TablesGrow /\ cut' \subseteq Events
    BY <1>0, <1>1 DEF TablesGrow, TablesSame, TablesType, NotificationTypeOK
  <1>3. PICK e \in Events, a \in Accounts :
            /\ e = job[w].e /\ a = Head(job[w].todo) /\ NotificationID(e, a) \in IDs
            /\ job[w].id = NotificationID(e, a) /\ Reflected(e, a)
    BY <1>0, Announces
  <1>4. PICK id : id = NotificationID(e, a) /\ id.account = a
    BY IDOf
  <1>5. << id, IF e.kind = "message" THEN e.id ELSE 0 >> \in announced' /\ Reflected(e, a)' /\ a \in emailed'
    BY <1>0, <1>1, <1>3, <1>4, ReflectedStays
  <1>6. Reached(e, a)' /\ Told(id, e)'
    BY <1>4, <1>5, AnnouncedReaches
  <1> QED BY <1>0, <1>1, <1>2, <1>3, <1>4, <1>6, Advances

LEMMA FailsQuietlyIs ==
    ASSUME Core, ValuesInv, HandledInv, NEW w \in Workers, FailsQuietly(w)
    PROVE  Lets(w)
  <1>0. TablesType /\ JobInv(w) /\ job[w].pc \in {"emit", "email"} /\ job[w].op = "event" /\ NextRecipient(w)
    <2>1. TablesType /\ JobInv(w) /\ job[w] \in Jobs
      BY JobType DEF Core
    <2>2. CASE At(w, "email") /\ NextRecipient(w)
      BY <2>1, <2>2 DEF At, JobInv, Jobs
    <2>3. CASE At(w, "emit") /\ (job[w].e.kind = "mention" \/ IsFriendRequest(job[w].e)) /\ GoOn(w)
      <3>1. job[w].e # NoEvent /\ job[w].e.kind # "welcome"
        BY <2>3, NoEventIsNone DEF IsFriendRequest
      <3>2. job[w].op = "event"
        BY <2>1, <3>1 DEF JobInv
      <3> QED BY <2>1, <2>3, <3>1, <3>2 DEF GoOn, At
    <2> QED BY <2>2, <2>3 DEF FailsQuietly
  <1>1. /\ TablesSame /\ announced' = announced /\ marked' = marked /\ emailed' = emailed
        /\ torn' = torn /\ reader' = reader /\ raced' = raced /\ cut' = cut \cup {job[w].e}
    BY DEF FailsQuietly, tables, TablesSame
  <1>2. PICK e \in Events, a \in Accounts :
            /\ e = job[w].e /\ a = Head(job[w].todo) /\ NotificationID(e, a) \in IDs
            /\ job[w].id = NotificationID(e, a) /\ Reflected(e, a)
    BY <1>0, Announces
  <1>3. TablesGrow /\ cut' \subseteq Events /\ e \in cut'
    BY <1>0, <1>1, <1>2 DEF TablesGrow, TablesSame, TablesType, NotificationTypeOK
  <1>4. Reached(e, a)' /\ Told(NotificationID(e, a), e)'
    BY <1>1, <1>2, <1>3, ReflectedStays DEF Reached, Told
  <1> QED BY <1>0, <1>1, <1>2, <1>3, <1>4, Advances

-----------------------------------------------------------------------------
(* What was handled stays reflected and announced *)

\* A room never counts on from an earlier message.
GroupsStep == \A id \in DOMAIN groups \ raced' : SameMillisecond(id) \/ NotAhead(groups[id], groups'[id])

LEMMA GroupsSame ==
    ASSUME TablesType, groups' = groups
    PROVE  GroupsStep
  <1>1. ASSUME NEW id \in DOMAIN groups PROVE NotAhead(groups[id], groups[id])
    <2>1. groups[id].last \in Nat /\ groups[id].lastAt \in Nat
      BY DEF TablesType, Snaps
    <2> QED BY <2>1, NotAheadOrder
  <1> QED BY <1>1 DEF GroupsStep

LEMMA ReflectedMore ==
    ASSUME TablesType, TablesType', TablesGrow, GroupsStep, NEW e \in Events, NEW a \in Accounts, Reflected(e, a)
    PROVE  Reflected(e, a)'
  <1>1. PICK id \in IDs : id = NotificationID(e, a) /\ (e.kind = "message" => e \in Messages(id))
    BY IDOf
  <1>2. id \in DOMAIN byID'
    BY <1>1 DEF Reflected, TablesGrow
  <1>3. ASSUME e.kind = "message", id \notin raced'
        PROVE  id \in DOMAIN groups' /\ (NotAhead(Mark(e), groups'[id]) \/ SameMillisecond(id))
    <2>1. id \notin raced /\ id \in DOMAIN groups /\ (NotAhead(Mark(e), groups[id]) \/ SameMillisecond(id))
      BY <1>1, <1>3 DEF Reflected, TablesGrow
    <2>2. id \in DOMAIN groups' /\ (SameMillisecond(id) \/ NotAhead(groups[id], groups'[id]))
      BY <1>3, <2>1 DEF TablesGrow, GroupsStep
    <2>3. groups[id] \in Snaps /\ groups'[id] \in Snaps
      BY <2>1, <2>2 DEF TablesType
    <2>4. Mark(e).last \in Nat /\ Mark(e).lastAt \in Nat
      BY <1>1, <1>3, MarkIs
    <2>5. NotAhead(Mark(e), groups[id]) /\ NotAhead(groups[id], groups'[id]) => NotAhead(Mark(e), groups'[id])
      <3>1. PICK x, y, z : x = Mark(e) /\ y = groups[id] /\ z = groups'[id]
        OBVIOUS
      <3>2. /\ x.last \in Nat /\ x.lastAt \in Nat /\ y.last \in Nat /\ y.lastAt \in Nat
            /\ z.last \in Nat /\ z.lastAt \in Nat
        BY <2>3, <2>4, <3>1 DEF Snaps
      <3> QED BY <3>1, <3>2, NotAheadOrder
    <2> QED BY <2>1, <2>2, <2>5
  <1> QED BY <1>1, <1>2, <1>3 DEF Reflected

LEMMA ReachedMore ==
    ASSUME TablesType, TablesType', TablesGrow, GroupsStep, NEW e \in Events, NEW a \in Accounts, Reached(e, a)
    PROVE  Reached(e, a)'
  <1>1. Reflected(e, a)'
    BY ReflectedMore DEF Reached
  <1>2. Announced(e, a) => Announced(e, a)'
    BY DEF Announced, TablesGrow
  <1> QED BY <1>1, <1>2 DEF Reached, TablesGrow

LEMMA HandledStays ==
    ASSUME Core, HandledInv, TablesType', TablesGrow, GroupsStep, NEW w \in Workers, OthersSame(w), JobInv(w)', HandledStep(w)
    PROVE  HandledInv'
  <1>0. TablesType /\ JobInv(w) /\ handled \subseteq Events /\ job'[w] \in Jobs
    BY DEF Core, TablesType, NotificationTypeOK, OthersSame
  <1>1. ASSUME NEW e \in Events, NEW i \in DOMAIN Recipients(e) PROVE Recipients(e)[i] \in Accounts
    BY RecipientsType
  <1>2. ASSUME NEW e \in handled, NEW i \in DOMAIN Recipients(e) PROVE Reached(e, Recipients(e)[i])'
    <2>1. PICK a \in Accounts : a = Recipients(e)[i] /\ Reached(e, a)
      BY <1>0, <1>1 DEF HandledInv
    <2>2. Reached(e, a)'
      BY <1>0, <2>1, ReachedMore
    <2> QED BY <2>1, <2>2
  <1>3. ASSUME NEW v \in Workers, job[v].op = "event", NEW e \in Events, e = job[v].e,
               NEW i \in 1..(Len(Recipients(e)) - Len(job[v].todo))
        PROVE  Reached(e, Recipients(e)[i])' /\ i \in DOMAIN Recipients(e)
    <2>1. PICK s \in Seq(Accounts), todo \in Seq(Accounts) : s = Recipients(e) /\ todo = job[v].todo
      BY <1>0, JobType, RecipientsType
    <2>2. i \in DOMAIN s
      BY <2>1
    <2>3. PICK a \in Accounts : a = Recipients(e)[i] /\ Reached(e, a)
      BY <1>1, <1>3, <2>1, <2>2 DEF HandledInv
    <2>4. Reached(e, a)'
      BY <1>0, <2>3, ReachedMore
    <2> QED BY <2>1, <2>2, <2>3, <2>4
  <1>4. ASSUME NEW v \in Workers, v # w, job'[v].op = "event"
        PROVE  /\ \A i \in 1..(Len(Recipients(job'[v].e)) - Len(job'[v].todo)) : Reached(job[v].e, Recipients(job[v].e)[i])'
               /\ job'[v].pc \in {"emit", "email"} => Reflected(job[v].e, Head(job[v].todo))'
    <2>1. job'[v] = job[v] /\ JobInv(v)
      BY <1>4 DEF OthersSame, Core
    <2>2. PICK e \in Events, a \in Accounts : e = job[v].e /\ a = Head(job[v].todo)
      BY <1>4, <2>1, Loads
    <2>3. \A i \in 1..(Len(Recipients(e)) - Len(job[v].todo)) : Reached(e, Recipients(e)[i])'
      BY <1>3, <1>4, <2>1, <2>2
    <2>4. job[v].pc \in {"emit", "email"} => Reflected(e, a)
      BY <1>4, <2>1, <2>2 DEF HandledInv
    <2>5. job[v].pc \in {"emit", "email"} => Reflected(e, a)'
      BY <1>0, <2>4, ReflectedMore
    <2> QED BY <2>1, <2>2, <2>3, <2>5
  <1> DEFINE OfW == job'[w].op = "event" =>
         /\ \A i \in 1..(Len(Recipients(job'[w].e)) - Len(job'[w].todo)) : Reached(job[w].e, Recipients(job[w].e)[i])'
         /\ job'[w].pc \in {"emit", "email"} => Reflected(job[w].e, Head(job[w].todo))'
  <1> DEFINE Done == \A e \in handled' : \A i \in DOMAIN Recipients(e) : Reached(e, Recipients(e)[i])'
  <1>5. CASE /\ handled' = handled
             /\ job'[w].op = "event" => job'[w].pc = "load" /\ job'[w].todo = Recipients(job'[w].e)
    <2>1. Done
      BY <1>2, <1>5
    <2>2. OfW
      <3>1. ASSUME job'[w].op = "event" PROVE Len(Recipients(job'[w].e)) - Len(job'[w].todo) = 0
        <4>1. PICK s \in Seq(Accounts) : s = Recipients(job'[w].e) /\ s = job'[w].todo
          BY <1>0, <1>5, <3>1 DEF Jobs
        <4>2. Len(s) \in Nat
          OBVIOUS
        <4> QED BY <4>1, <4>2
      <3>2. ASSUME job'[w].op = "event", NEW i \in 1..(Len(Recipients(job'[w].e)) - Len(job'[w].todo)) PROVE FALSE
        <4>1. i \in 1..0
          BY <3>1, <3>2
        <4> QED BY <4>1
      <3> QED BY <1>5, <3>2
    <2> QED BY <1>4, <2>1, <2>2 DEF HandledInv
  <1>6. CASE /\ handled' = handled /\ job[w].op = "event" /\ job'[w].e = job[w].e /\ job'[w].todo = job[w].todo
             /\ job'[w].pc \in {"emit", "email"} =>
                  \A e, a : e = job[w].e /\ a = Head(job[w].todo) => Reflected(e, a)'
    <2>1. Done
      BY <1>2, <1>6
    <2>2. PICK e \in Events, a \in Accounts : e = job[w].e /\ a = Head(job[w].todo)
      BY <1>6, Loads
    <2>3. \A i \in 1..(Len(Recipients(e)) - Len(job[w].todo)) : Reached(e, Recipients(e)[i])'
      BY <1>3, <1>6, <2>2
    <2>4. job'[w].pc \in {"emit", "email"} => Reflected(e, a)'
      BY <1>6, <2>2
    <2>5. OfW
      BY <1>6, <2>2, <2>3, <2>4
    <2> QED BY <1>4, <2>1, <2>5 DEF HandledInv
  <1>7. CASE /\ job'[w].op # "event"
             /\ \E e \in Events : Recipients(e) = << >> /\ handled' = handled \cup {e}
    <2>1. Done
      BY <1>2, <1>7
    <2>2. OfW
      BY <1>7
    <2> QED BY <1>4, <2>1, <2>2 DEF HandledInv
  <1>8. CASE /\ job[w].op = "event" /\ OnOrDone(w)
             /\ \A e, a : e = job[w].e /\ a = Head(job[w].todo) => Reached(e, a)'
    <2>1. PICK e \in Events, todo \in Seq(Accounts) : e = job[w].e /\ todo = job[w].todo /\ EndOf(todo, Recipients(e))
      BY <1>0, <1>8, JobType DEF JobInv
    <2>2. PICK s \in Seq(Accounts) : s = Recipients(e)
      BY RecipientsType
    <2>3. PICK m \in Nat, k \in Nat : m = Len(s) /\ k = Len(todo)
      BY <2>1, <2>2
    <2>4. k >= 1 /\ k <= m /\ Head(todo) = s[m - k + 1] /\ DOMAIN s = 1..m
      <3>1. Len(todo) >= 1 /\ Len(todo) <= Len(s) /\ Head(todo) = s[Len(s) - Len(todo) + 1]
        BY <2>1, <2>2, HeadIs
      <3>2. DOMAIN s = 1..m
        BY <2>2, <2>3
      <3> QED BY <2>3, <3>1, <3>2
    <2>5. Reached(e, s[m - k + 1])'
      BY <1>8, <2>1, <2>4
    <2>6. \A i \in 1..(m - k) : Reached(e, s[i])'
      BY <1>3, <1>8, <2>1, <2>2, <2>3
    <2>7. \A i \in 1..(m - k + 1) : Reached(e, s[i])'
      <3>1. \A i \in 1..(m - k + 1) : i \in 1..(m - k) \/ i = m - k + 1
        BY <2>3, <2>4
      <3> QED BY <2>5, <2>6, <3>1
    <2>8. CASE /\ Len(job[w].todo) > 1 /\ handled' = handled
               /\ job'[w].op = "event" /\ job'[w].pc = "load" /\ job'[w].e = job[w].e
               /\ Len(job'[w].todo) = Len(job[w].todo) - 1
      <3>1. Done
        BY <1>2, <2>8
      <3>2. Len(job'[w].todo) = k - 1 /\ m - (k - 1) = m - k + 1
        BY <2>1, <2>3, <2>8
      <3>3. OfW
        BY <2>1, <2>2, <2>3, <2>7, <2>8, <3>2
      <3> QED BY <1>4, <3>1, <3>3 DEF HandledInv
    <2>9. CASE Len(job[w].todo) = 1 /\ handled' = handled \cup {job[w].e} /\ job'[w] = Idle
      <3>1. m - k + 1 = m
        BY <2>1, <2>3, <2>9
      <3>2. \A i \in DOMAIN Recipients(e) : Reached(e, Recipients(e)[i])'
        BY <2>2, <2>4, <2>7, <3>1
      <3>3. Done
        BY <1>2, <2>1, <2>9, <3>2
      <3>4. OfW
        BY <2>9, IdleType
      <3> QED BY <1>4, <3>3, <3>4 DEF HandledInv
    <2> QED BY <1>8, <2>8, <2>9 DEF OnOrDone
  <1> QED BY <1>5, <1>6, <1>7, <1>8 DEF HandledStep

-----------------------------------------------------------------------------
(* The reader of the list *)

\* The list of a client that reads stays, or what moves is noted.
ReaderStep ==
    \/ reader' = reader /\ byAccount' = byAccount
    \/ \E x : /\ reader' = IF reader.state # "off" THEN [reader EXCEPT !.moved = reader.moved \cup {x}] ELSE reader
              /\ \A r : r.id # x => (r \in byAccount' <=> r \in byAccount)

LEMMA ReaderStays ==
    ASSUME ReaderInv, ReaderStep, raced \subseteq raced'
    PROVE  ReaderInv'
  <1>1. CASE reader' = reader /\ byAccount' = byAccount
    BY <1>1 DEF ReaderInv, RowsOf
  <1>2. ASSUME NEW x, reader' = IF reader.state # "off" THEN [reader EXCEPT !.moved = reader.moved \cup {x}] ELSE reader,
               \A r : r.id # x => (r \in byAccount' <=> r \in byAccount)
        PROVE  ReaderInv'
    <2>1. CASE reader.state = "off"
      <3>1. reader' = reader
        BY <1>2, <2>1
      <3> QED BY <2>1, <3>1 DEF ReaderInv
    <2>2. CASE reader.state # "off"
      <3>1. /\ reader' = [state |-> reader.state, account |-> reader.account, cursor |-> reader.cursor,
                          seen |-> reader.seen, twice |-> reader.twice, moved |-> reader.moved \cup {x}]
        BY <1>2, <2>2 DEF ReaderInv
      <3>2. /\ reader'.state = reader.state /\ reader'.account = reader.account /\ reader'.cursor = reader.cursor
            /\ reader'.seen = reader.seen /\ reader'.twice = reader.twice /\ reader'.moved = reader.moved \cup {x}
            /\ reader' = [state |-> reader'.state, account |-> reader'.account, cursor |-> reader'.cursor,
                          seen |-> reader'.seen, twice |-> reader'.twice, moved |-> reader'.moved]
        BY <3>1
      <3>3. ASSUME NEW id \in IDs \ (reader'.moved \cup raced')
            PROVE  id \in IDs \ (reader.moved \cup raced) /\ RowsOf(id)' = RowsOf(id)
        BY <1>2, <3>2 DEF RowsOf
      <3> QED BY <3>2, <3>3 DEF ReaderInv
    <2> QED BY <2>1, <2>2
  <1> QED BY <1>1, <1>2 DEF ReaderStep

LEMMA OpenListKeeps ==
    ASSUME NEW a \in Accounts, OpenList(a)
    PROVE  ReaderInv'
  <1>1. reader' = [state |-> "reading", account |-> a, cursor |-> [sort |-> 0, id |-> NoID],
                   seen |-> {}, twice |-> {}, moved |-> {}]
    BY DEF OpenList, NoReader
  <1>2. PICK c : c = [sort |-> 0, id |-> NoID]
    OBVIOUS
  <1>3. c.sort = 0 /\ c.id.key = 0
    BY <1>2 DEF NoID
  <1>4. /\ reader'.state = "reading" /\ reader'.cursor = c /\ reader'.seen = {} /\ reader'.twice = {}
        /\ reader' = [state |-> reader'.state, account |-> reader'.account, cursor |-> reader'.cursor,
                      seen |-> reader'.seen, twice |-> reader'.twice, moved |-> reader'.moved]
    BY <1>1, <1>2
  <1> QED BY <1>3, <1>4 DEF ReaderInv, After

-----------------------------------------------------------------------------
(* Pages *)

\* A place in the list.
Seat(p) == p.sort \in Nat /\ p.sort > 0 /\ p.id \in IDs /\ p = [sort |-> p.sort, id |-> p.id]

LEMMA AboveOrder ==
    ASSUME NEW p, NEW q, NEW r, p.sort \in Nat, q.sort \in Nat, r.sort \in Nat,
           p.id.key \in Nat, q.id.key \in Nat, r.id.key \in Nat
    PROVE  /\ ~Above(p, p) /\ (Above(p, q) /\ Above(q, r) => Above(p, r))
           /\ (Above(p, q) => ~Above(q, p))
  BY DEF Above

LEMMA AboveTotal ==
    ASSUME NEW p, NEW q, Seat(p), Seat(q), p.id.account = q.id.account
    PROVE  p = q \/ Above(p, q) \/ Above(q, p)
  <1>1. p.id.key \in Nat /\ q.id.key \in Nat
    BY IDFrom DEF Seat
  <1>2. CASE p.sort = q.sort /\ p.id.key = q.id.key
    <2>1. p.id = q.id
      BY <1>2, OneKey DEF Seat
    <2> QED BY <1>2, <2>1 DEF Seat
  <1>3. CASE ~(p.sort = q.sort /\ p.id.key = q.id.key)
    BY <1>1, <1>3 DEF Seat, Above
  <1> QED BY <1>2, <1>3

\* Rows that the order of the list puts one above another.
Ordered(rows) ==
    /\ IsFiniteSet(rows)
    /\ \A p \in rows : ~Above(p, p)
    /\ \A p, q, r \in rows : Above(p, q) /\ Above(q, r) => Above(p, r)
    /\ \A p, q \in rows : p = q \/ Above(p, q) \/ Above(q, p)

Over(rows, p) == {q \in rows : Above(q, p)}

LEMMA OverSize ==
    ASSUME NEW rows, Ordered(rows), NEW p
    PROVE  IsFiniteSet(Over(rows, p)) /\ Cardinality(Over(rows, p)) \in Nat
  <1>1. Over(rows, p) \in SUBSET rows /\ IsFiniteSet(rows)
    BY DEF Over, Ordered
  <1>2. IsFiniteSet(Over(rows, p))
    BY <1>1, FS_Subset
  <1> QED BY <1>2, FS_CardinalityType

LEMMA OverLess ==
    ASSUME NEW rows, Ordered(rows), NEW p \in rows, NEW q \in rows, Above(p, q)
    PROVE  Cardinality(Over(rows, p)) < Cardinality(Over(rows, q))
  <1>1. Over(rows, p) \in SUBSET Over(rows, q)
    BY DEF Over, Ordered
  <1>2. p \in Over(rows, q) /\ p \notin Over(rows, p)
    BY DEF Over, Ordered
  <1>3. Over(rows, p) # Over(rows, q)
    BY <1>2
  <1>4. IsFiniteSet(Over(rows, q)) /\ Cardinality(Over(rows, q)) \in Nat
    BY OverSize
  <1>5. Cardinality(Over(rows, p)) \in Nat
    BY OverSize
  <1>6. Cardinality(Over(rows, p)) <= Cardinality(Over(rows, q)) /\ Cardinality(Over(rows, p)) # Cardinality(Over(rows, q))
    BY <1>1, <1>3, <1>4, FS_Subset
  <1> QED BY <1>4, <1>5, <1>6

LEMMA PageIs ==
    ASSUME NEW rows
    PROVE  Page(rows) = {p \in rows : Cardinality(Over(rows, p)) < PageLimit}
  BY Zenon DEF Page, Over

LEMMA PageUp ==
    ASSUME NEW rows, Ordered(rows), NEW p \in Page(rows), NEW q \in rows, Above(q, p)
    PROVE  q \in Page(rows)
  <1>1. p \in rows /\ Cardinality(Over(rows, p)) < PageLimit
    BY PageIs
  <1>2. Cardinality(Over(rows, q)) < Cardinality(Over(rows, p))
    BY <1>1, OverLess
  <1>3. Cardinality(Over(rows, q)) \in Nat
    BY OverSize
  <1>4. Cardinality(Over(rows, p)) \in Nat
    BY OverSize
  <1>5. Cardinality(Over(rows, q)) < PageLimit
    BY <1>1, <1>2, <1>3, <1>4, Bounds
  <1> QED BY <1>5, PageIs

\* A set of natural numbers that has an element has a least one.
LEMMA LeastNumber ==
    ASSUME NEW T, T \subseteq Nat, T # {}
    PROVE  \E n \in T : \A m \in T : n <= m
  <1>1. IsWellFoundedOn(OpToRel(<, Nat), Nat)
    BY NatLessThanWellFounded
  <1>2. PICK n \in T : \A m \in T : ~ (<< m, n >> \in OpToRel(<, Nat))
    BY <1>1, WFMin
  <1>3. \A m \in T : ~ (m < n)
    BY <1>2 DEF OpToRel
  <1> QED BY <1>3

LEMMA PageFirst ==
    ASSUME NEW rows, Ordered(rows), rows # {}
    PROVE  Page(rows) # {}
  <1> DEFINE T == {Cardinality(Over(rows, p)) : p \in rows}
  <1>1. T \subseteq Nat /\ T # {}
    BY OverSize
  <1>2. PICK n \in T : \A m \in T : n <= m
    BY <1>1, LeastNumber
  <1>3. PICK p \in rows : n = Cardinality(Over(rows, p))
    OBVIOUS
  <1>4. ASSUME NEW q \in Over(rows, p) PROVE FALSE
    <2>1. q \in rows /\ Above(q, p)
      BY DEF Over
    <2>2. Cardinality(Over(rows, q)) < n
      BY <1>3, <2>1, OverLess
    <2>3. Cardinality(Over(rows, q)) \in T
      BY <2>1
    <2>4. n <= Cardinality(Over(rows, q))
      BY <1>2, <2>3
    <2>5. Cardinality(Over(rows, q)) \in Nat /\ n \in Nat
      BY <1>1, <2>3
    <2> QED BY <2>2, <2>4, <2>5
  <1>5. Over(rows, p) = {}
    BY <1>4
  <1>6. Cardinality(Over(rows, p)) = 0
    BY <1>5, FS_EmptySet
  <1>7. p \in Page(rows)
    BY <1>3, <1>6, PageIs, Bounds
  <1> QED BY <1>7

\* A page has a last row.
LEMMA PageLast ==
    ASSUME NEW rows, Ordered(rows), rows # {}
    PROVE  \E p \in Page(rows) : \A q \in Page(rows) \ {p} : Above(q, p)
  <1> DEFINE T == {PageLimit - Cardinality(Over(rows, p)) : p \in Page(rows)}
  <1>0. ASSUME NEW p \in Page(rows) PROVE p \in rows /\ Cardinality(Over(rows, p)) \in Nat /\ Cardinality(Over(rows, p)) < PageLimit
    <2>1. p \in rows /\ Cardinality(Over(rows, p)) < PageLimit
      BY PageIs
    <2> QED BY <2>1, OverSize
  <1>1. T \subseteq Nat
    BY <1>0, Bounds
  <1>2. T # {}
    BY PageFirst
  <1>3. PICK n \in T : \A m \in T : n <= m
    BY <1>1, <1>2, LeastNumber
  <1>4. PICK p \in Page(rows) : n = PageLimit - Cardinality(Over(rows, p))
    OBVIOUS
  <1>5. ASSUME NEW q \in Page(rows), q # p PROVE Above(q, p)
    <2>1. p \in rows /\ q \in rows
      BY <1>0
    <2>2. ASSUME Above(p, q) PROVE FALSE
      <3>1. Cardinality(Over(rows, p)) < Cardinality(Over(rows, q))
        BY <2>1, <2>2, OverLess
      <3>2. n <= PageLimit - Cardinality(Over(rows, q))
        BY <1>3
      <3> QED BY <1>0, <1>4, <3>1, <3>2, Bounds
    <2> QED BY <1>5, <2>1, <2>2 DEF Ordered
  <1> QED BY <1>5

LEMMA RowSeat ==
    ASSUME TablesType, ValuesInv, NEW r \in byAccount
    PROVE  /\ Seat(Position(r)) /\ Position(r).id = r.id /\ Position(r).sort = r.n.sort
           /\ r.id \in IDs /\ r.id.key \in Nat
  <1>1. r.id \in IDs /\ r.n \in Snaps /\ r.n.sort > 0
    BY DEF TablesType, NotificationTypeOK, ValuesInv, ValueOK
  <1>2. r.n.sort \in Nat
    BY <1>1 DEF Snaps
  <1>3. r.id.key \in Nat
    BY <1>1, IDFrom
  <1> QED BY <1>1, <1>2, <1>3 DEF Seat, Position

\* The rows a request finds are places of the account below the cursor.
LEMMA ListIs ==
    ASSUME TablesType, ValuesInv, NEW a, NEW c, c.sort \in Nat, c.id.key \in Nat, NEW rows, rows = ListByAccountID(a, c)
    PROVE  /\ Ordered(rows)
           /\ \A p \in rows : \E r \in byAccount : r.id.account = a /\ p = Position(r) /\ After(c, p)
           /\ \A r \in byAccount : r.id.account = a /\ After(c, Position(r)) => Position(r) \in rows
  <1>1. PICK S : S = {r \in byAccount : r.id.account = a}
    OBVIOUS
  <1>2. PICK all : all = {Position(r) : r \in S}
    OBVIOUS
  <1>3. rows = {p \in all : After(c, p)}
    BY <1>1, <1>2 DEF ListByAccountID, After
  <1>4. S \in SUBSET byAccount /\ IsFiniteSet(byAccount)
    BY <1>1 DEF TablesType
  <1>5. IsFiniteSet(S)
    BY <1>4, FS_Subset
  <1> DEFINE f == [r \in S |-> Position(r)]
  <1>6. f \in Surjection(S, all)
    BY <1>2 DEF Surjection
  <1> HIDE DEF f
  <1>7. IsFiniteSet(all)
    BY <1>5, <1>6, FS_Surjection
  <1>8. rows \in SUBSET all
    BY <1>3
  <1>9. IsFiniteSet(rows)
    BY <1>7, <1>8, FS_Subset
  <1>10. \A p \in rows : \E r \in byAccount : r.id.account = a /\ p = Position(r) /\ After(c, p)
    BY <1>1, <1>2, <1>3
  <1>11. \A r \in byAccount : r.id.account = a /\ After(c, Position(r)) => Position(r) \in rows
    BY <1>1, <1>2, <1>3
  <1>12. ASSUME NEW p \in rows PROVE Seat(p) /\ p.id.account = a /\ p.sort \in Nat /\ p.id.key \in Nat
    <2>1. PICK r \in byAccount : r.id.account = a /\ p = Position(r)
      BY <1>10
    <2> QED BY <2>1, RowSeat DEF Seat
  <1>13. /\ \A p \in rows : ~Above(p, p)
         /\ \A p, q, r \in rows : Above(p, q) /\ Above(q, r) => Above(p, r)
    BY <1>12, AboveOrder
  <1>14. \A p, q \in rows : p = q \/ Above(p, q) \/ Above(q, p)
    BY <1>12, AboveTotal
  <1> QED BY <1>9, <1>10, <1>11, <1>13, <1>14 DEF Ordered

LEMMA ListNotificationKeeps ==
    ASSUME TablesType, ValuesInv, NotRaced, ReaderInv, ListNotification
    PROVE  ReaderInv'
  <1>1. PICK a, c, seen, twice : a = reader.account /\ c = reader.cursor /\ seen = reader.seen /\ twice = reader.twice
    OBVIOUS
  <1>2. c.sort \in Nat /\ c.id.key \in Nat /\ reader.state = "reading"
    BY <1>1 DEF ReaderInv, ListNotification
  <1>3. PICK rows : rows = ListByAccountID(a, c)
    OBVIOUS
  <1>4. PICK page : page = Page(rows)
    OBVIOUS
  <1>5. PICK ids : ids = {p.id : p \in page}
    OBVIOUS
  <1>6. PICK double : double = {id \in ids : Cardinality({p \in page : p.id = id}) > 1}
    OBVIOUS
  <1>7. PICK cur : cur = IF page = rows THEN c ELSE CHOOSE p \in page : \A q \in page \ {p} : Above(q, p)
    OBVIOUS
  <1>8. PICK st \in {"reading", "done"} : st = IF page = rows THEN "done" ELSE "reading"
    OBVIOUS
  <1>9. reader' = [state |-> st, account |-> a, cursor |-> cur, seen |-> seen \cup ids,
                   twice |-> (twice \cup (ids \cap seen)) \cup double, moved |-> reader.moved]
    <2>1. reader = [state |-> reader.state, account |-> a, cursor |-> c, seen |-> seen, twice |-> twice, moved |-> reader.moved]
      BY <1>1 DEF ReaderInv
    <2>2. reader' = [reader EXCEPT !.seen = seen \cup ids, !.twice = (twice \cup (ids \cap seen)) \cup double,
                                   !.cursor = cur, !.state = st]
      BY <1>1, <1>2, <1>3, <1>4, <1>5, <1>6, <1>7, <1>8 DEF ListNotification
    <2>3. PICK rs, mv, new, again : /\ rs = reader.state /\ mv = reader.moved /\ new = seen \cup ids
                                    /\ again = (twice \cup (ids \cap seen)) \cup double
      OBVIOUS
    <2>4. reader = [state |-> rs, account |-> a, cursor |-> c, seen |-> seen, twice |-> twice, moved |-> mv]
      BY <2>1, <2>3
    <2>5. reader' = [reader EXCEPT !.seen = new, !.twice = again, !.cursor = cur, !.state = st]
      BY <2>2, <2>3
    <2>6. reader' = [state |-> st, account |-> a, cursor |-> cur, seen |-> new, twice |-> again, moved |-> mv]
      BY <2>4, <2>5
    <2> QED BY <2>3, <2>6
  <1>10. /\ reader'.state = st /\ reader'.account = a /\ reader'.cursor = cur /\ reader'.seen = seen \cup ids
         /\ reader'.twice = (twice \cup (ids \cap seen)) \cup double /\ reader'.moved = reader.moved
         /\ reader' = [state |-> reader'.state, account |-> reader'.account, cursor |-> reader'.cursor,
                       seen |-> reader'.seen, twice |-> reader'.twice, moved |-> reader'.moved]
    BY <1>9
  <1>11. byAccount' = byAccount /\ raced' = raced
    BY DEF ListNotification, tables, notes
  <1>12. /\ Ordered(rows)
         /\ \A p \in rows : \E r \in byAccount : r.id.account = a /\ p = Position(r) /\ After(c, p)
         /\ \A r \in byAccount : r.id.account = a /\ After(c, Position(r)) => Position(r) \in rows
    BY <1>2, <1>3, ListIs
  <1>13. page \subseteq rows
    BY <1>4, PageIs
  <1>14. page # rows => cur \in page /\ \A q \in page \ {cur} : Above(q, cur)
    <2>1. ASSUME page # rows PROVE cur \in page /\ \A q \in page \ {cur} : Above(q, cur)
      <3>1. rows # {}
        BY <1>13, <2>1
      <3>2. \E p \in page : \A q \in page \ {p} : Above(q, p)
        BY <1>4, <1>12, <3>1, PageLast
      <3>3. cur = CHOOSE p \in page : \A q \in page \ {p} : Above(q, p)
        BY <1>7, <2>1
      <3> QED BY <3>2, <3>3
    <2> QED BY <2>1
  <1>15. page # rows => \E r \in byAccount : r.id.account = a /\ cur = Position(r) /\ After(c, cur)
    BY <1>12, <1>13, <1>14
  <1>16. cur.sort \in Nat /\ cur.id.key \in Nat /\ (page # rows => cur.sort > 0)
    <2>1. CASE page = rows
      BY <1>2, <1>7, <2>1
    <2>2. CASE page # rows
      BY <1>15, <2>2, RowSeat DEF Seat
    <2> QED BY <2>1, <2>2
  <1>17. ASSUME NEW id \in IDs \ (reader.moved \cup raced)
         PROVE  /\ id \notin (twice \cup (ids \cap seen)) \cup double
                /\ id.account = a =>
                     \A r \in RowsOf(id) :
                       /\ st = "reading" => (After(cur, Position(r)) <=> id \notin seen \cup ids)
                       /\ st = "done" => id \in seen \cup ids
    <2>1. /\ id \notin twice
          /\ id.account = a => \A r \in RowsOf(id) : After(c, Position(r)) <=> id \notin seen
      BY <1>1, <1>2 DEF ReaderInv
    <2>2. \A r, s \in RowsOf(id) : r = s
      BY DEF NotRaced, NotRacedInv, Listed
    <2>3. ASSUME NEW p \in page, p.id = id
          PROVE  \E r \in RowsOf(id) : id.account = a /\ p = Position(r) /\ After(c, p)
      <3>1. PICK r \in byAccount : r.id.account = a /\ p = Position(r) /\ After(c, p)
        BY <1>12, <1>13
      <3>2. r.id = id
        BY <2>3, <3>1, RowSeat
      <3> QED BY <3>1, <3>2 DEF RowsOf
    <2>4. ASSUME id \in ids PROVE id \notin seen
      <3>1. PICK p \in page : p.id = id
        BY <1>5, <2>4
      <3> QED BY <2>1, <2>3, <3>1
    <2>5. id \notin double
      <3>1. \A p, q \in page : p.id = id /\ q.id = id => p = q
        BY <2>2, <2>3
      <3>2. PICK D : D = {p \in page : p.id = id}
        OBVIOUS
      <3>3. D = {} \/ \E p : D = {p}
        <4>1. ASSUME NEW p \in D PROVE D = {p}
          BY <3>1, <3>2
        <4> QED BY <4>1
      <3>4. Cardinality(D) = 0 \/ Cardinality(D) = 1
        BY <3>3, FS_EmptySet, FS_Singleton
      <3>5. ~(Cardinality(D) > 1)
        BY <3>4
      <3> QED BY <1>6, <3>2, <3>5
    <2>6. ASSUME id.account = a, NEW r \in RowsOf(id)
          PROVE  /\ st = "reading" => (After(cur, Position(r)) <=> id \notin seen \cup ids)
                 /\ st = "done" => id \in seen \cup ids
      <3>0. r \in byAccount /\ r.id = id /\ r.id.account = a
        BY <2>6 DEF RowsOf
      <3>1. PICK s : s = Position(r) /\ Seat(s) /\ s.id = id /\ s.sort \in Nat /\ s.id.key \in Nat
        BY <3>0, RowSeat DEF Seat
      <3>2. After(c, s) <=> id \notin seen
        BY <2>1, <2>6, <3>1
      <3>3. After(c, s) => s \in rows
        BY <1>12, <3>0, <3>1
      <3>4. id \in ids <=> s \in page
        <4>1. s \in page => id \in ids
          BY <1>5, <3>1
        <4>2. ASSUME id \in ids PROVE s \in page
          <5>1. PICK p \in page : p.id = id
            BY <1>5, <4>2
          <5> QED BY <2>2, <2>3, <2>6, <3>1, <5>1
        <4> QED BY <4>1, <4>2
      <3>5. CASE page = rows
        BY <1>8, <3>2, <3>3, <3>4, <3>5
      <3>6. CASE page # rows
        <4>1. st = "reading" /\ cur \in page /\ cur \in rows /\ (\A q \in page \ {cur} : Above(q, cur)) /\ cur.sort > 0
          BY <1>8, <1>13, <1>14, <1>16, <3>6
        <4>2. After(cur, s) <=> Above(cur, s)
          BY <1>16, <4>1 DEF After
        <4>3. ASSUME Above(cur, s) PROVE id \notin seen \cup ids
          <5>1. After(c, cur)
            BY <1>15, <3>6
          <5>2. After(c, s)
            BY <1>2, <1>16, <3>1, <4>3, <5>1, AboveOrder DEF After
          <5>3. s # cur /\ ~Above(s, cur)
            BY <1>16, <3>1, <4>3, AboveOrder
          <5>4. s \notin page
            BY <4>1, <5>3
          <5> QED BY <3>2, <3>4, <5>2, <5>4
        <4>4. ASSUME id \notin seen \cup ids PROVE Above(cur, s)
          <5>1. s \in rows /\ s \notin page
            BY <3>2, <3>3, <3>4, <4>4
          <5>2. ~Above(s, cur)
            BY <1>4, <1>12, <4>1, <5>1, PageUp
          <5> QED BY <1>12, <4>1, <5>1, <5>2 DEF Ordered
        <4> QED BY <4>1, <4>2, <4>3, <4>4, <3>1
      <3> QED BY <3>5, <3>6
    <2> QED BY <2>1, <2>4, <2>5, <2>6
  <1>18. \A id \in IDs : RowsOf(id)' = RowsOf(id)
    BY <1>11 DEF RowsOf
  <1> QED BY <1>8, <1>10, <1>11, <1>16, <1>17, <1>18 DEF ReaderInv

-----------------------------------------------------------------------------
(* Every step keeps the invariant *)

\* Everything a step of a worker is asked for.
Sound(w) ==
    /\ OthersSame(w) /\ JobInv(w)' /\ TablesType' /\ TablesGrow /\ TopicStep(w)
    /\ ToldStep(w) /\ HandStep(w) /\ Written(w) /\ HandledStep(w) /\ GroupsStep /\ ReaderStep
    /\ \A i \in IDs \ raced' : NotRacedInv(i) => NotRacedInv(i)'

LEMMA InvParts ==
    ASSUME TablesInv
    PROVE  Core /\ TablesType /\ ValuesInv /\ NotRaced /\ HandledInv /\ ReaderInv
  BY DEF TablesInv, Core, NotRaced

LEMMA SoundKeeps ==
    ASSUME TablesInv, NEW w \in Workers, Sound(w)
    PROVE  TablesInv'
  <1>1. Core /\ TablesType /\ ValuesInv /\ NotRaced /\ HandledInv /\ ReaderInv
    BY InvParts
  <1>2. (\A v \in Workers : JobInv(v)') /\ OnePerTopic'
    BY <1>1, OneJob DEF Sound, TopicStep
  <1>3. ValuesInv'
    BY <1>1, ValuesStay DEF Sound
  <1>4. \A i \in IDs \ raced' : NotRacedInv(i)'
    BY <1>1 DEF Sound, NotRaced, TablesGrow
  <1>5. HandledInv'
    BY <1>1, HandledStays DEF Sound
  <1>6. ReaderInv'
    BY <1>1, ReaderStays DEF Sound, TablesGrow
  <1> QED BY <1>2, <1>3, <1>4, <1>5, <1>6 DEF TablesInv, Sound

LEMMA LetsSound ==
    ASSUME TablesInv, NEW w \in Workers, Lets(w)
    PROVE  Sound(w)
  <1>1. Core /\ TablesType
    BY InvParts
  <1>2. LetsGo(w) /\ ToldStep(w) /\ HandStep(w) /\ HandledStep(w) /\ TopicStep(w) /\ TablesType'
    BY DEF Lets
  <1>3. Written(w) /\ GroupsStep /\ ReaderStep
    BY <1>1, <1>2, GroupsSame DEF LetsGo, TablesSame, Written, ReaderStep
  <1>4. \A i \in IDs : NotRacedInv(i) => NotRacedInv(i)'
    BY <1>1, <1>2, LetGo
  <1> QED BY <1>2, <1>3, <1>4 DEF Sound, LetsGo

LEMMA TakesUpSound ==
    ASSUME TablesInv, NEW w \in Workers, NEW id, NEW n, TakesUp(w, id, n)
    PROVE  Sound(w)
  <1>1. Core /\ TablesType
    BY InvParts
  <1>2. OthersSame(w) /\ TablesSame /\ RestSame /\ raced \subseteq raced' /\ job[w].pc \notin Busy
    BY DEF TakesUp, RestSame, Busy, Early, Late
  <1>3. TablesGrow /\ ToldStep(w) /\ Written(w)
    BY <1>2, TakenIsFree
  <1>4. raced' \subseteq IDs
    BY <1>1 DEF TakesUp, Fits, TablesType, NotificationTypeOK
  <1>5. TablesType'
    BY <1>1, <1>2, <1>4 DEF TablesType, NotificationTypeOK, OthersSame, TablesSame, RestSame
  <1>6. HandStep(w)
    BY DEF TakesUp, HandStep
  <1>7. HandledStep(w) /\ TopicStep(w)
    BY DEF TakesUp, HandledStep, TopicStep
  <1>8. GroupsStep /\ ReaderStep
    BY <1>1, <1>2, GroupsSame DEF TablesSame, RestSame, ReaderStep
  <1>9. \A i \in IDs \ raced' : NotRacedInv(i) => NotRacedInv(i)'
    BY <1>1, TakenUp
  <1> QED BY <1>3, <1>5, <1>6, <1>7, <1>8, <1>9 DEF Sound, TakesUp

\* The statements.
LEMMA SaveSound ==
    ASSUME TablesInv, NEW w \in Workers, SaveFrame(w), TablesType', TablesGrow, Written(w), GroupsStep, ReaderStep,
           \A i \in IDs : NotRacedInv(i) => NotRacedInv(i)',
           job[w].op = "event" /\ job'[w].pc \in {"emit", "email"} =>
               \A e, a : e = job[w].e /\ a = Head(job[w].todo) => Reflected(e, a)'
    PROVE  Sound(w)
  <1>1. ToldStep(w) /\ HandStep(w)
    BY SaveKeeps
  <1>2. HandledStep(w)
    <2>1. CASE job[w].op = "event"
      BY <2>1 DEF HandledStep, SaveFrame
    <2>2. CASE job[w].op # "event"
      BY <2>2 DEF HandledStep, SaveFrame
    <2> QED BY <2>1, <2>2
  <1>3. TopicStep(w)
    BY DEF TopicStep, SaveFrame
  <1> QED BY <1>1, <1>2, <1>3 DEF Sound, SaveFrame

LEMMA ReadPreviousSound ==
    ASSUME TablesInv, NEW w \in Workers, ReadPrevious(w)
    PROVE  Sound(w)
  <1>1. Core /\ TablesType /\ ValuesInv
    BY InvParts
  <1>2. SaveFrame(w) /\ TablesSame /\ reader' = reader /\ job'[w].pc \in {"delete", "byID"}
    BY <1>1, ReadPreviousIs
  <1>3. TablesType' /\ TablesGrow /\ Written(w) /\ \A i \in IDs : NotRacedInv(i) => NotRacedInv(i)'
    BY <1>1, AfterReadPrevious
  <1>4. GroupsStep /\ ReaderStep
    BY <1>1, <1>2, GroupsSame DEF TablesSame, ReaderStep
  <1> QED BY <1>2, <1>3, <1>4, SaveSound

LEMMA DeletePreviousSound ==
    ASSUME TablesInv, NEW w \in Workers, DeletePrevious(w)
    PROVE  Sound(w)
  <1>1. Core /\ TablesType /\ ValuesInv
    BY InvParts
  <1>2. /\ SaveFrame(w) /\ groups' = groups /\ Moves(job[w].id) /\ job'[w].pc = "byID"
        /\ byAccount' = {r \in byAccount : r.id # job[w].id \/ r.n.sort # job[w].prev.sort}
    BY <1>1, DeletePreviousIs
  <1>3. TablesType' /\ TablesGrow /\ Written(w) /\ \A i \in IDs : NotRacedInv(i) => NotRacedInv(i)'
    BY <1>1, AfterDeletePrevious
  <1>4. PICK x : x = job[w].id
    OBVIOUS
  <1>5. \A r : r.id # x => (r \in byAccount' <=> r \in byAccount)
    BY <1>2, <1>4
  <1>6. GroupsStep /\ ReaderStep
    BY <1>1, <1>2, <1>4, <1>5, GroupsSame DEF Moves, ReaderStep
  <1> QED BY <1>2, <1>3, <1>6, SaveSound

LEMMA SaveByIDSound ==
    ASSUME TablesInv, NEW w \in Workers, SaveByID(w)
    PROVE  Sound(w)
  <1>1. Core /\ TablesType /\ ValuesInv
    BY InvParts
  <1>2. SaveFrame(w) /\ groups' = groups /\ byAccount' = byAccount /\ reader' = reader /\ job'[w].pc = "byAccount"
    BY <1>1, SaveByIDIs
  <1>3. TablesType' /\ TablesGrow /\ Written(w) /\ \A i \in IDs : NotRacedInv(i) => NotRacedInv(i)'
    BY <1>1, AfterSaveByID
  <1>4. GroupsStep /\ ReaderStep
    BY <1>1, <1>2, GroupsSame DEF ReaderStep
  <1> QED BY <1>2, <1>3, <1>4, SaveSound

LEMMA SaveByAccountSound ==
    ASSUME TablesInv, NEW w \in Workers, SaveByAccount(w)
    PROVE  Sound(w)
  <1>1. Core /\ TablesType /\ ValuesInv
    BY InvParts
  <1>2. /\ SaveFrame(w) /\ groups' = groups /\ Moves(job[w].id) /\ job'[w].pc = "unread"
        /\ byAccount' = {r \in byAccount : r.id # job[w].id \/ r.n.sort # Stored(job[w].n.sort)}
                               \cup {[id |-> job[w].id, n |-> Row(job[w].n)]}
    BY <1>1, SaveByAccountIs
  <1>3. TablesType' /\ TablesGrow /\ Written(w) /\ \A i \in IDs : NotRacedInv(i) => NotRacedInv(i)'
    BY <1>1, AfterSaveByAccount
  <1>4. PICK x, m : x = job[w].id /\ m = Row(job[w].n)
    OBVIOUS
  <1>5. \A r : r.id # x => (r \in byAccount' <=> r \in byAccount)
    BY <1>2, <1>4
  <1>6. GroupsStep /\ ReaderStep
    BY <1>1, <1>2, <1>4, <1>5, GroupsSame DEF Moves, ReaderStep
  <1> QED BY <1>2, <1>3, <1>6, SaveSound

LEMMA SaveUnreadSound ==
    ASSUME TablesInv, NEW w \in Workers, SaveUnread(w)
    PROVE  Sound(w)
  <1>1. Core /\ TablesType /\ ValuesInv
    BY InvParts
  <1>2. /\ SaveFrame(w) /\ groups' = groups /\ byID' = byID /\ byAccount' = byAccount /\ reader' = reader
        /\ job[w].pc = "unread" /\ (job'[w].pc = "group" \/ ~IsMessageKind(job[w].id))
    BY <1>1, SaveUnreadIs
  <1>3. TablesType' /\ TablesGrow /\ Written(w) /\ \A i \in IDs : NotRacedInv(i) => NotRacedInv(i)'
    BY <1>1, AfterSaveUnread
  <1>4. GroupsStep /\ ReaderStep
    BY <1>1, <1>2, GroupsSame DEF ReaderStep
  <1>5. ASSUME job[w].op = "event", job'[w].pc \in {"emit", "email"}, NEW e, NEW a, e = job[w].e, a = Head(job[w].todo)
        PROVE  Reflected(e, a)'
    <2>1. e \in Events /\ a \in Accounts
      BY <1>1, <1>5, Loads
    <2>2. job[w].id = NotificationID(e, a) /\ job[w].id \in DOMAIN byID
      BY <1>1, <1>2, <1>5 DEF Core, JobInv, Late
    <2>3. e.kind # "message"
      BY <1>2, <1>5, <2>1, <2>2, IDOf
    <2> QED BY <1>2, <2>2, <2>3 DEF Reflected
  <1> QED BY <1>2, <1>3, <1>4, <1>5, SaveSound

LEMMA SaveGroupSound ==
    ASSUME TablesInv, NEW w \in Workers, SaveGroup(w)
    PROVE  Sound(w)
  <1>1. Core /\ TablesType /\ ValuesInv /\ NotRaced
    BY InvParts
  <1>2. /\ SaveFrame(w) /\ byID' = byID /\ byAccount' = byAccount /\ reader' = reader
        /\ job[w].pc = "group" /\ groups' = Put(groups, job[w].id, job[w].n)
    BY <1>1, SaveGroupIs
  <1>3. TablesType' /\ TablesGrow /\ Written(w) /\ \A i \in IDs : NotRacedInv(i) => NotRacedInv(i)'
    BY <1>1, AfterSaveGroup
  <1>4. job[w].pc \in Early \cup Late /\ job[w].pc \in Busy /\ job[w].pc \in Late
    BY <1>2 DEF Late, Busy
  <1>5. PICK x \in IDs, n \in Snaps : x = job[w].id /\ n = job[w].n
    BY <1>1, <1>4, InSave
  <1>6. x \in DOMAIN byID /\ IsMessageKind(x)
    BY <1>1, <1>2, <1>4, <1>5 DEF Core, JobInv
  <1>7. x \in DOMAIN groups' /\ groups'[x] = Row(n) /\ \A i \in DOMAIN groups : i # x => groups'[i] = groups[i]
    BY <1>2, <1>5 DEF Put
  <1>8. GroupsStep
    <2>1. ASSUME NEW i \in DOMAIN groups \ raced' PROVE SameMillisecond(i) \/ NotAhead(groups[i], groups'[i])
      <3>1. CASE i # x
        <4>1. groups[i].last \in Nat /\ groups[i].lastAt \in Nat
          BY <1>1 DEF TablesType, Snaps
        <4> QED BY <1>7, <3>1, <4>1, NotAheadOrder
      <3>2. CASE i = x
        <4>1. i \in IDs \ raced
          BY <1>2, <1>5, <3>2 DEF SaveFrame
        <4>2. NotRacedInv(i)
          BY <1>1, <4>1 DEF NotRaced
        <4>3. SaveInv(w) /\ Behind(i, byID[i])
          BY <1>1, <1>4, <1>5, <3>2, <4>2, SaveKnows
        <4>4. byID[i] = Row(n)
          BY <1>4, <1>5, <3>2, <4>3 DEF SaveInv
        <4> QED BY <1>7, <3>2, <4>3, <4>4 DEF Behind
      <3> QED BY <3>1, <3>2
    <2> QED BY <2>1 DEF GroupsStep
  <1>9. ReaderStep
    BY <1>2 DEF ReaderStep
  <1>10. ASSUME job[w].op = "event", NEW e, NEW a, e = job[w].e, a = Head(job[w].todo)
         PROVE  Reflected(e, a)'
    <2>1. e \in Events /\ a \in Accounts
      BY <1>1, <1>10, Loads
    <2>2. x = NotificationID(e, a)
      BY <1>1, <1>2, <1>5, <1>10 DEF Core, JobInv
    <2>3. n.last = e.id /\ Stored(n.lastAt) = Stored(e.at)
      BY <1>1, <1>4, <1>5, <1>6, <1>10 DEF ValuesInv
    <2>4. e \in Messages(x)
      BY <1>6, <2>1, <2>2, IDOf
    <2>5. NotAhead(Mark(e), Row(n))
      <3>1. Row(n).last = n.last /\ Row(n).lastAt = Stored(n.lastAt)
        BY RowIs
      <3>2. Mark(e).last = Row(n).last /\ Mark(e).lastAt = Row(n).lastAt /\ Mark(e).last \in Nat
        BY <2>3, <2>4, <3>1, MarkIs DEF Of
      <3> QED BY <3>2 DEF NotAhead
    <2> QED BY <1>2, <1>6, <1>7, <2>2, <2>5 DEF Reflected
  <1> QED BY <1>2, <1>3, <1>8, <1>9, <1>10, SaveSound

\* A step that only the reader takes.
LEMMA OthersStay ==
    ASSUME TablesInv, UNCHANGED << tables, job, handled, notes >>, ReaderInv'
    PROVE  TablesInv'
  <1>0. /\ byID' = byID /\ byAccount' = byAccount /\ unread' = unread /\ groups' = groups /\ job' = job
        /\ handled' = handled /\ announced' = announced /\ emailed' = emailed /\ marked' = marked
        /\ cut' = cut /\ torn' = torn /\ raced' = raced
    BY DEF tables, notes
  <1>1. TablesType'
    BY <1>0 DEF TablesInv, TablesType, NotificationTypeOK
  <1>2. (\A w \in Workers : JobInv(w))' /\ OnePerTopic'
    BY <1>0 DEF TablesInv, JobInv, OnePerTopic
  <1>3. \A id, e : Told(id, e)' <=> Told(id, e)
    BY <1>0 DEF Told, InFlight
  <1>4. \A id, m : ValueOK(id, m)' <=> ValueOK(id, m)
    BY <1>3 DEF ValueOK
  <1>5. ValuesInv'
    <2>1. \A id \in DOMAIN byID : ValueOK(id, byID[id])'
      <3>1. ASSUME NEW id \in DOMAIN byID PROVE ValueOK(id, byID[id])'
        <4>1. PICK m : m = byID[id] /\ ValueOK(id, m)
          BY DEF TablesInv, ValuesInv
        <4>2. ValueOK(id, m)'
          BY <1>4, <4>1
        <4> QED BY <1>0, <4>1, <4>2
      <3> QED BY <3>1
    <2>2. \A id \in DOMAIN groups : ValueOK(id, groups[id])'
      <3>1. ASSUME NEW id \in DOMAIN groups PROVE ValueOK(id, groups[id])'
        <4>1. PICK m : m = groups[id] /\ ValueOK(id, m)
          BY DEF TablesInv, ValuesInv
        <4>2. ValueOK(id, m)'
          BY <1>4, <4>1
        <4> QED BY <1>0, <4>1, <4>2
      <3> QED BY <3>1
    <2>3. \A r \in byAccount : ValueOK(r.id, r.n)'
      BY <1>4 DEF TablesInv, ValuesInv
    <2>4. \A w \in Workers : job[w].pc \in Busy => ValueOK(job[w].id, Row(job[w].n))'
      <3>1. ASSUME NEW w \in Workers, job[w].pc \in Busy PROVE ValueOK(job[w].id, Row(job[w].n))'
        <4>1. PICK x, n : x = job[w].id /\ n = job[w].n /\ ValueOK(x, Row(n))
          BY <3>1 DEF TablesInv, ValuesInv
        <4>2. PICK m : m = Row(n) /\ ValueOK(x, m)'
          BY <1>4, <4>1
        <4> QED BY <1>0, <4>1, <4>2
      <3> QED BY <3>1
    <2>5. \A id \in DOMAIN byID, e \in Events :
             ~IsMessageKind(id) /\ NotificationID(e, id.account) = id => Told(id, e)'
      BY <1>3 DEF TablesInv, ValuesInv
    <2>6. \A w \in Workers : job[w].op = "event" /\ job[w].pc \in Busy /\ IsMessageKind(job[w].id) =>
             job[w].n.last = job[w].e.id /\ Stored(job[w].n.lastAt) = Stored(job[w].e.at)
      BY DEF TablesInv, ValuesInv
    <2> QED BY <1>0, <2>1, <2>2, <2>3, <2>4, <2>5, <2>6 DEF ValuesInv
  <1>6. ASSUME NEW id \in IDs \ raced' PROVE NotRacedInv(id)'
    <2>1. NotRacedInv(id) /\ TablesType /\ SameAt(id)
      BY <1>0, <1>6, SameTables DEF TablesInv, TablesSame
    <2>2. \A w \in Workers : (Dirty(w, id)' <=> Dirty(w, id)) /\ (Holds(w, id)' <=> Holds(w, id))
      BY <1>0 DEF Dirty, Holds
    <2>3. ASSUME NEW w \in Workers, Holds(w, id) PROVE SaveInv(w)'
      <3>1. SaveInv(w) /\ JobInv(w) /\ job[w].id = id /\ job'[w] = job[w]
        BY <1>0, <2>1, <2>3 DEF NotRacedInv, TablesInv, Holds
      <3> QED BY <2>1, <3>1, SaveStays
    <2>4. Listed(id)' /\ (id \in DOMAIN groups => Behind(id, byID[id]))' /\ (Agreed(id) => Agreed(id)')
      BY <2>1, SameFacts DEF NotRacedInv
    <2> QED BY <1>0, <2>1, <2>2, <2>3, <2>4 DEF NotRacedInv, Quiet
  <1>7. \A e, a : (Reflected(e, a)' <=> Reflected(e, a)) /\ (Reached(e, a)' <=> Reached(e, a))
    BY <1>0 DEF Reached, Reflected, Announced
  <1>8. HandledInv'
    <2>1. ASSUME NEW e \in handled', NEW i \in DOMAIN Recipients(e) PROVE Reached(e, Recipients(e)[i])'
      <3>1. PICK a : a = Recipients(e)[i] /\ Reached(e, a)
        BY <1>0 DEF TablesInv, HandledInv
      <3> QED BY <1>7, <3>1
    <2>2. ASSUME NEW w \in Workers, job'[w].op = "event"
          PROVE  /\ \A i \in 1..(Len(Recipients(job'[w].e)) - Len(job'[w].todo)) : Reached(job[w].e, Recipients(job[w].e)[i])'
                 /\ job'[w].pc \in {"emit", "email"} => Reflected(job[w].e, Head(job[w].todo))'
      <3>1. PICK j : j = job[w] /\ j = job'[w]
        BY <1>0
      <3>2. PICK e, a : e = j.e /\ a = Head(j.todo)
        OBVIOUS
      <3>3. ASSUME NEW i \in 1..(Len(Recipients(e)) - Len(j.todo)) PROVE Reached(e, Recipients(e)[i])'
        <4>1. PICK x : x = Recipients(e)[i] /\ Reached(e, x)
          BY <2>2, <3>1, <3>2 DEF TablesInv, HandledInv
        <4> QED BY <1>7, <4>1
      <3>4. j.pc \in {"emit", "email"} => Reflected(e, a)'
        BY <1>7, <2>2, <3>1, <3>2 DEF TablesInv, HandledInv
      <3> QED BY <3>1, <3>2, <3>3, <3>4
    <2> QED BY <2>1, <2>2 DEF HandledInv
  <1> QED BY <1>1, <1>2, <1>5, <1>6, <1>8 DEF TablesInv

LEMMA TablesInvStep == TablesInv /\ [NotificationNext]_notificationVars => TablesInv'
  <1> SUFFICES ASSUME TablesInv, [NotificationNext]_notificationVars PROVE TablesInv'
    OBVIOUS
  <1>0. Core /\ TablesType /\ ValuesInv /\ NotRaced /\ HandledInv /\ ReaderInv
    BY InvParts
  <1>1. ASSUME NEW w \in Workers, Lets(w) PROVE TablesInv'
    BY <1>1, LetsSound, SoundKeeps
  <1>2. ASSUME NEW w \in Workers, NEW id, NEW n, TakesUp(w, id, n) PROVE TablesInv'
    BY <1>2, TakesUpSound, SoundKeeps
  <1>3. ASSUME NEW w \in Workers, handleAccountCreatedEvent(w) PROVE TablesInv'
    <2>1. /\ job[w].op = "event" /\ job[w].pc = "load" /\ job[w].e.kind \notin {"message", "mention"}
          /\ CreateUnlessThere(w)
      BY <1>3 DEF handleAccountCreatedEvent, At
    <2> QED BY <1>0, <1>1, <1>2, <2>1, CreateUnlessThereIs
  <1>4. ASSUME NEW w \in Workers, createGeneralNotificationAndEmit(w) PROVE TablesInv'
    <2>1. /\ job[w].op = "event" /\ job[w].pc = "load" /\ job[w].e.kind \notin {"message", "mention"}
          /\ CreateUnlessThere(w)
      BY <1>4 DEF createGeneralNotificationAndEmit, At, IsFriendRequest
    <2> QED BY <1>0, <1>1, <1>2, <2>1, CreateUnlessThereIs
  <1>5. ASSUME NEW w \in Workers, handleRoomMentionNotificationEvent(w) PROVE TablesInv'
    BY <1>0, <1>2, <1>5, MentionIs
  <1>6. ASSUME NEW w \in Workers, handleRoomMessageProjectionEvent(w) PROVE TablesInv'
    BY <1>0, <1>1, <1>2, <1>6, MessageIs
  <1>7. ASSUME NEW w \in Workers, MarkNext(w) PROVE TablesInv'
    BY <1>0, <1>1, <1>2, <1>7, MarkNextIs
  <1>8. ASSUME NEW w \in Workers, ReadPrevious(w) PROVE TablesInv'
    BY <1>8, ReadPreviousSound, SoundKeeps
  <1>9. ASSUME NEW w \in Workers, DeletePrevious(w) PROVE TablesInv'
    BY <1>9, DeletePreviousSound, SoundKeeps
  <1>10. ASSUME NEW w \in Workers, SaveByID(w) PROVE TablesInv'
    BY <1>10, SaveByIDSound, SoundKeeps
  <1>11. ASSUME NEW w \in Workers, SaveByAccount(w) PROVE TablesInv'
    BY <1>11, SaveByAccountSound, SoundKeeps
  <1>12. ASSUME NEW w \in Workers, SaveUnread(w) PROVE TablesInv'
    BY <1>12, SaveUnreadSound, SoundKeeps
  <1>13. ASSUME NEW w \in Workers, SaveGroup(w) PROVE TablesInv'
    BY <1>13, SaveGroupSound, SoundKeeps
  <1>14. ASSUME NEW w \in Workers, EmitMessage(w) PROVE TablesInv'
    BY <1>0, <1>1, <1>14, EmitMessageIs
  <1>15. ASSUME NEW w \in Workers, SendTemplate(w) PROVE TablesInv'
    BY <1>0, <1>1, <1>15, SendTemplateIs
  <1>16. ASSUME NEW w \in Workers, FailsQuietly(w) PROVE TablesInv'
    BY <1>0, <1>1, <1>16, FailsQuietlyIs
  <1>17. ASSUME NEW w \in Workers, Fail(w) PROVE TablesInv'
    BY <1>0, <1>1, <1>17, FailIs
  <1>18. ASSUME NEW w \in Workers, NEW e \in Events, Consume(w, e) PROVE TablesInv'
    BY <1>0, <1>1, <1>18, ConsumeIs
  <1>19. ASSUME NEW w \in Workers, NEW id \in DOMAIN byID, MarkNotificationRead(w, id) PROVE TablesInv'
    BY <1>0, <1>2, <1>19, MarkNotificationReadIs
  <1>20. ASSUME NEW w \in Workers, NEW a \in Accounts, MarkAllNotificationsRead(w, a) PROVE TablesInv'
    BY <1>0, <1>1, <1>20, MarkAllIs
  <1>21. ASSUME NEW a \in Accounts, OpenList(a) PROVE TablesInv'
    <2>1. ReaderInv' /\ UNCHANGED << tables, job, handled, notes >>
      BY <1>21, OpenListKeeps DEF OpenList
    <2> QED BY <2>1, OthersStay
  <1>22. CASE ListNotification
    <2>1. ReaderInv' /\ UNCHANGED << tables, job, handled, notes >>
      BY <1>0, <1>22, ListNotificationKeeps DEF ListNotification
    <2> QED BY <2>1, OthersStay
  <1>23. CASE UNCHANGED notificationVars
    <2>1. UNCHANGED << tables, job, handled, notes >> /\ reader' = reader /\ byAccount' = byAccount /\ raced' = raced
      BY <1>23 DEF notificationVars, tables, notes
    <2>2. ReaderInv'
      BY <1>0, <2>1, ReaderStays DEF ReaderStep
    <2> QED BY <2>1, <2>2, OthersStay
  <1>24. CASE \E w \in Workers : Step(w)
    <2>1. PICK w \in Workers : Step(w)
      BY <1>24
    <2> QED BY <1>3, <1>4, <1>5, <1>6, <1>7, <1>8, <1>9, <1>10, <1>11, <1>12, <1>13, <1>14, <1>15, <1>16, <1>17, <2>1
        DEF Step
  <1> QED BY <1>18, <1>19, <1>20, <1>21, <1>22, <1>23, <1>24 DEF NotificationNext

LEMMA TablesInvInit == NotificationInit => TablesInv
  <1> SUFFICES ASSUME NotificationInit PROVE TablesInv
    OBVIOUS
  <1>1. /\ byID = << >> /\ byAccount = {} /\ unread = {} /\ groups = << >> /\ reader = NoReader
        /\ handled = {} /\ announced = {} /\ emailed = {} /\ marked = {} /\ cut = {} /\ torn = {} /\ raced = {}
        /\ DOMAIN byID = {} /\ DOMAIN groups = {}
    BY DEF NotificationInit
  <1>2. \A w \in Workers : job[w] = Idle
    BY DEF NotificationInit
  <1>3. TablesType
    <2>1. IsFiniteSet(byAccount)
      BY <1>1, FS_EmptySet
    <2>2. job \in [Workers -> Jobs]
      BY IdleType DEF NotificationInit
    <2>3. byID \in [DOMAIN byID -> Snaps] /\ groups \in [DOMAIN groups -> Snaps]
      BY <1>1
    <2> QED BY <1>1, <2>1, <2>2, <2>3 DEF TablesType, NotificationTypeOK
  <1>4. \A w \in Workers : JobInv(w)
    BY <1>2, IdleType DEF JobInv, Busy, Early, Late
  <1>5. OnePerTopic
    BY <1>2, IdleType DEF OnePerTopic
  <1>6. ValuesInv
    BY <1>1, <1>2, IdleType DEF ValuesInv, Busy, Early, Late
  <1>7. ASSUME NEW id \in IDs PROVE NotRacedInv(id)
    <2>1. \A w \in Workers : ~Holds(w, id)
      BY <1>2, IdleType DEF Holds
    <2> QED BY <1>1, <2>1 DEF NotRacedInv, Listed, RowsOf, Agreed
  <1>8. HandledInv
    BY <1>1, <1>2, IdleType DEF HandledInv
  <1>9. ReaderInv
    <2>1. reader = [state |-> "off", account |-> "none", cursor |-> [sort |-> 0, id |-> NoID],
                    seen |-> {}, twice |-> {}, moved |-> {}]
      BY <1>1 DEF NoReader
    <2>2. PICK z : z = NoID
      OBVIOUS
    <2>3. z.key = 0
      BY <2>2 DEF NoID
    <2>4. PICK c : c = [sort |-> 0, id |-> z]
      OBVIOUS
    <2>5. c.sort = 0 /\ c.id = z /\ c.id.key = 0
      BY <2>4, <2>3
    <2>6. /\ reader.state = "off" /\ reader.cursor = c
          /\ reader = [state |-> reader.state, account |-> reader.account, cursor |-> reader.cursor,
                       seen |-> reader.seen, twice |-> reader.twice, moved |-> reader.moved]
      BY <2>1, <2>4, <2>2
    <2> QED BY <2>4, <2>6, <2>5 DEF ReaderInv
  <1> QED BY <1>3, <1>4, <1>5, <1>6, <1>7, <1>8, <1>9 DEF TablesInv

-----------------------------------------------------------------------------
(* What the invariant says *)

LEMMA TablesInvImplies == TablesInv => NotificationIsSound
  <1> SUFFICES ASSUME TablesInv PROVE NotificationIsSound
    OBVIOUS
  <1>0. Core /\ TablesType /\ ValuesInv /\ NotRaced /\ HandledInv /\ ReaderInv
    BY InvParts
  <1>1. NotificationTypeOK
    BY <1>0 DEF TablesType
  <1>2. ASSUME NEW id \in Calm PROVE id \in IDs /\ NotRacedInv(id) /\ (id \notin torn => Agreed(id))
    <2>1. id \in IDs /\ id \notin raced /\ \A w \in Workers : ~Holds(w, id)
      BY DEF Calm, Quiet
    <2>2. NotRacedInv(id)
      BY <1>0, <2>1 DEF NotRaced
    <2>3. \A w \in Workers : ~Dirty(w, id)
      BY <2>1, DirtyHolds
    <2> QED BY <2>1, <2>2, <2>3 DEF NotRacedInv
  <1>3. TablesAgree
    BY <1>2 DEF TablesAgree, Agreed
  <1>4. TornIsBehind
    <2>1. ASSUME NEW id \in Calm
          PROVE  /\ Cardinality(RowsOf(id)) <= 1 /\ (id \notin DOMAIN byID => RowsOf(id) = {})
                 /\ id \in DOMAIN groups => NotAhead(groups[id], byID[id]) \/ SameMillisecond(id)
      <3>1. Listed(id) /\ (id \in DOMAIN groups => Behind(id, byID[id]))
        BY <1>2 DEF NotRacedInv
      <3>2. RowsOf(id) = {} \/ \E r : RowsOf(id) = {r}
        <4>1. ASSUME NEW r \in RowsOf(id) PROVE RowsOf(id) = {r}
          BY <3>1 DEF Listed
        <4> QED BY <4>1
      <3>3. Cardinality(RowsOf(id)) = 0 \/ Cardinality(RowsOf(id)) = 1
        BY <3>2, FS_EmptySet, FS_Singleton
      <3>4. Cardinality(RowsOf(id)) <= 1
        BY <3>3
      <3> QED BY <3>1, <3>4 DEF Listed, Behind
    <2> QED BY <2>1 DEF TornIsBehind
  <1>5. CountedOnce
    <2>1. ASSUME NEW id \in IDs, IsMessageKind(id), NEW n \in Snapshots(id)
          PROVE  SameMillisecond(id) \/ n.count <=
                    Cardinality({e.id : e \in {e \in Messages(id) :
                        NotAhead([last |-> e.id, lastAt |-> Stored(e.at)], n)}})
      <3>1. ValueOK(id, n)
        <4>1. CASE n \in {r.n : r \in RowsOf(id)}
          BY <1>0, <4>1 DEF RowsOf, ValuesInv
        <4>2. CASE n \in {t[id] : t \in {u \in {byID, groups} : id \in DOMAIN u}}
          <5>1. (id \in DOMAIN byID /\ n = byID[id]) \/ (id \in DOMAIN groups /\ n = groups[id])
            BY <4>2
          <5> QED BY <1>0, <5>1 DEF ValuesInv
        <4> QED BY <2>1, <4>1, <4>2 DEF Snapshots
      <3>2. SameMillisecond(id) \/ n.count <= Cardinality(UpTo(id, n))
        BY <2>1, <3>1 DEF ValueOK
      <3> QED BY <3>2 DEF UpTo, Mark
    <2> QED BY <2>1 DEF CountedOnce
  <1>6. ASSUME NEW e \in handled, NEW i \in DOMAIN Recipients(e) PROVE Reached(e, Recipients(e)[i])
    BY <1>0 DEF HandledInv
  <1>7. HandledIsReflected
    <2>1. ASSUME NEW e \in handled, NEW i \in DOMAIN Recipients(e), NEW id, id = NotificationID(e, Recipients(e)[i])
          PROVE  /\ id \in DOMAIN byID
                 /\ e.kind = "message" /\ id \notin raced =>
                      NotAhead([last |-> e.id, lastAt |-> Stored(e.at)], groups[id]) \/ SameMillisecond(id)
      BY <1>6, <2>1 DEF Reached, Reflected, Mark
    <2> QED BY <2>1 DEF HandledIsReflected
  <1>8. HandledIsAnnounced
    <2>1. ASSUME NEW e \in handled \ cut, NEW i \in DOMAIN Recipients(e) PROVE Announced(e, Recipients(e)[i])
      BY <1>6 DEF Reached
    <2> QED BY <2>1 DEF HandledIsAnnounced, Announced
  <1>9. ReadStaysRead
    <2>1. ASSUME NEW id \in marked \ raced, Once(id) PROVE byID[id].read /\ id \notin unread
      <3>1. id \in IDs
        BY <1>0 DEF TablesType, NotificationTypeOK
      <3> QED BY <1>0, <2>1, <3>1 DEF NotRaced, NotRacedInv
    <2> QED BY <2>1 DEF ReadStaysRead, Once
  <1>10. ListIsComplete
    BY <1>0 DEF ListIsComplete, ReaderInv
  <1> QED BY <1>1, <1>3, <1>4, <1>5, <1>7, <1>8, <1>9, <1>10 DEF NotificationIsSound

\* NotificationIsSound for every set of accounts, events and workers, however often events
\* come and handlers fail: once a save is finished the four tables agree, a torn save
\* leaves nothing ahead, no message is counted twice, what was handled is reflected and
\* announced, what was read stays read, and a list read to its end is complete.
THEOREM NotificationsStaySound == NotificationSpec => []NotificationIsSound
  <1>1. TablesInv /\ [NotificationNext]_notificationVars => TablesInv'
    BY TablesInvStep
  <1> QED BY <1>1, TablesInvInit, TablesInvImplies, PTL DEF NotificationSpec
=============================================================================
