------------------------- MODULE RelationshipProofs -------------------------
(***************************************************************************)
(* Proofs about RelationshipPair, for every set of users and of concurrent  *)
(* commands, and about RelationshipReadModel, for every set of interrupted, *)
(* repeated and parked projections besides.                                 *)
(***************************************************************************)
EXTENDS RelationshipReadModel, FiniteSetTheorems, FunctionTheorems, WellFoundedInduction, TLAPS

-----------------------------------------------------------------------------
(* The write side: the inductive invariant *)

\* The rows of the pair of a and t: at most one open request, none between
\* friends, and nothing beside a block.
PairOK(s, a, t) ==
    /\ s \in Snapshots
    /\ s.friends \subseteq {{a, t}}
    /\ s.follows \subseteq {<< a, t >>, << t, a >>}
    /\ s.blocks \subseteq {<< a, t >>, << t, a >>}
    /\ \A r \in s.pending : r.link \in {<< a, t >>, << t, a >>}
    /\ \A x, y \in s.pending : x = y
    /\ s.friends # {} => s.pending = {}
    /\ s.blocks # {} => s.pending = {} /\ s.friends = {} /\ s.follows = {}

PairsInv ==
    \A l \in Links : LET p == {l[1], l[2]} IN
        PairOK(Read(p), l[1], l[2]) /\ Read(p).pending = Open(p)

\* The rows that a counter counts.
RowsOf(u, f) ==
    CASE f = "friends"    -> { p \in friends : u \in p }
      [] f = "following"  -> { l \in follows : l[1] = u }
      [] f = "followers"  -> { l \in follows : l[2] = u }
      [] f = "blocked"    -> { l \in blocks : l[1] = u }
      [] f = "pendingOut" -> { r \in requests : r.link[1] = u }
      [] f = "pendingIn"  -> { r \in requests : r.link[2] = u }

CountInv ==
    \A u \in Users, f \in Fields :
        IsFiniteSet(RowsOf(u, f)) /\ Counter(u, f) = Cardinality(RowsOf(u, f))

\* What the policies demand.
Permitted(o, s, a, t) ==
    /\ o = "Send"     => EnsureCanSendFriendRequest(s, a, t)
    /\ o = "Cancel"   => EnsureCanCancelFriendRequest(s, a, t)
    /\ o = "Accept"   => EnsureCanAcceptFriendRequest(s, a, t)
    /\ o = "Reject"   => EnsureCanRejectFriendRequest(s, a, t)
    /\ o = "Follow"   => EnsureCanFollow(s, a, t)
    /\ o = "Unfollow" => EnsureCanUnfollow(s, a, t)
    /\ o = "Unfriend" => EnsureCanUnfriend(s, a, t)
    /\ o = "Block"    => EnsureCanBlock(s, a, t)
    /\ o = "Unblock"  => EnsureCanUnblock(s, a, t)

Concerned(w) == { d[1] : d \in DeltasOf(w) }

\* A command holds its pair's guard row; what it loaded is still there, and so
\* is the reason it was allowed; the counter rows it has updated are locked.
WorkerInv(w) ==
    /\ pc[w] # "idle" => link[w] \in Links /\ guard[Pair(w)] = w
    /\ pc[w] \in {"stubs", "update", "commit"} =>
          /\ loaded[w] = Read(Pair(w))
          /\ Permitted(op[w], loaded[w], Actor(w), Target(w))
    /\ pc[w] = "update" => Concerned(w) \ todo[w] \subseteq Mine(w)
    /\ pc[w] = "commit" => Concerned(w) \subseteq Mine(w)

WorkersInv == \A w \in Workers : WorkerInv(w)

Inv == TypeOK /\ PairsInv /\ StreamIsSequential /\ CountInv /\ WorkersInv

-----------------------------------------------------------------------------
(* The aggregate *)

LEMMA LinkFacts ==
    ASSUME NEW l \in Links
    PROVE  /\ l[1] \in Users /\ l[2] \in Users /\ l[1] # l[2] /\ l = << l[1], l[2] >>
           /\ {l[1], l[2]} \in Pairs /\ << l[2], l[1] >> \in Links
  <1>1. l \in Users \X Users /\ l[1] # l[2]
    BY DEF Links
  <1>2. l[1] \in Users /\ l[2] \in Users /\ l = << l[1], l[2] >>
    BY <1>1
  <1>3. \A u : {l[1], l[2]} # {u}
    BY <1>1
  <1> QED BY <1>1, <1>2, <1>3 DEF Links, Pairs

LEMMA SnapshotFields ==
    ASSUME NEW s \in Snapshots
    PROVE  /\ s.pending \subseteq Requests /\ s.friends \subseteq Pairs
           /\ s.follows \subseteq Links /\ s.blocks \subseteq Links /\ s.version \in Nat
  BY DEF Snapshots

LEMMA EventsArePermitted ==
    ASSUME NEW o \in Ops, NEW s, NEW a, NEW t, EventsOf(o, s, a, t) # {}
    PROVE  Permitted(o, s, a, t)
  BY DEF EventsOf, Ops, SendFriendRequest, CancelFriendRequest, AcceptFriendRequest, Permitted,
         RejectFriendRequest, Follow, Unfollow, Unfriend, Block, Unblock

\* The pair after a command, table by table.
Becomes(n, o, s, a, t) ==
    /\ n.version = s.version
    /\ n.pending = (CASE o = "Send" -> {[id |-> s.version + 1, link |-> << a, t >>]}
                      [] o \in {"Cancel", "Accept", "Reject", "Block"} -> {}
                      [] OTHER -> s.pending)
    /\ n.friends = (CASE o = "Accept" -> {{a, t}}
                      [] o \in {"Unfriend", "Block"} -> {}
                      [] OTHER -> s.friends)
    /\ n.follows = (CASE o = "Follow" -> s.follows \cup {<< a, t >>}
                      [] o = "Unfollow" -> s.follows \ {<< a, t >>}
                      [] o = "Block" -> {}
                      [] OTHER -> s.follows)
    /\ n.blocks = (CASE o = "Block" -> s.blocks \cup {<< a, t >>}
                     [] o = "Unblock" -> s.blocks \ {<< a, t >>}
                     [] OTHER -> s.blocks)
    /\ n = [pending |-> n.pending, friends |-> n.friends, follows |-> n.follows,
            blocks |-> n.blocks, version |-> n.version]

LEMMA NextPair ==
    ASSUME NEW s \in Snapshots, NEW a, NEW t, NEW o \in Ops
    PROVE  Becomes(Transition(o, s, a, t).pair, o, s, a, t)
  <1> USE DEF Becomes, Transition, Ops, CreateRequest, ResolveRequest, NewFriendship, NewFollowRelation, NewBlockRelation
  <1>1. CASE o = "Send"
    BY <1>1 DEF applyFriendRequestSent, Snapshots
  <1>2. CASE o = "Cancel"
    BY <1>2 DEF applyFriendRequestCancelled, Snapshots
  <1>3. CASE o = "Accept"
    BY <1>3 DEF applyFriendRequestAccepted, Snapshots
  <1>4. CASE o = "Reject"
    BY <1>4 DEF applyFriendRequestRejected, Snapshots
  <1>5. CASE o = "Follow"
    BY <1>5 DEF applyFollowed, Snapshots
  <1>6. CASE o = "Unfollow"
    BY <1>6 DEF applyUnfollowed, Snapshots
  <1>7. CASE o = "Unfriend"
    BY <1>7 DEF applyUnfriended, Snapshots
  <1>8. CASE o = "Block"
    BY <1>8 DEF applyBlocked, Snapshots
  <1>9. CASE o = "Unblock"
    BY <1>9 DEF applyUnblocked, Snapshots
  <1> QED BY <1>1, <1>2, <1>3, <1>4, <1>5, <1>6, <1>7, <1>8, <1>9

\* A command that is allowed keeps the pair in order.
LEMMA PairStaysOK ==
    ASSUME NEW l \in Links, NEW s, PairOK(s, l[1], l[2]), NEW o \in Ops,
           Permitted(o, s, l[1], l[2])
    PROVE  PairOK(Transition(o, s, l[1], l[2]).pair, l[1], l[2])
  <1> DEFINE a == l[1]
             t == l[2]
             n == Transition(o, s, a, t).pair
  <1>1. /\ a \in Users /\ t \in Users /\ a # t /\ {a, t} \in Pairs
        /\ << a, t >> \in Links /\ << t, a >> \in Links
    BY LinkFacts
  <1>2. /\ s \in Snapshots
        /\ s.pending \subseteq Requests /\ s.friends \subseteq Pairs
        /\ s.follows \subseteq Links /\ s.blocks \subseteq Links /\ s.version \in Nat
    BY SnapshotFields DEF PairOK
  <1>3. [id |-> s.version + 1, link |-> << a, t >>] \in Requests
    BY <1>1, <1>2 DEF Requests
  <1>4. Becomes(n, o, s, a, t)
    BY <1>2, NextPair
  <1> DEFINE req == [id |-> s.version + 1, link |-> << a, t >>]
  <1>5. req \in Requests /\ req.link = << a, t >>
    BY <1>3
  <1> HIDE DEF n, a, t, req
  <1>6. /\ n.pending \subseteq Requests /\ n.friends \subseteq Pairs
        /\ n.follows \subseteq Links /\ n.blocks \subseteq Links /\ n.version \in Nat
    BY <1>1, <1>2, <1>4, <1>5 DEF Becomes, req
  <1>7. n \in Snapshots
    BY <1>4, <1>6 DEF Becomes, Snapshots
  <1>8. /\ n.friends \subseteq {{a, t}}
        /\ n.follows \subseteq {<< a, t >>, << t, a >>}
        /\ n.blocks \subseteq {<< a, t >>, << t, a >>}
    BY <1>4 DEF Becomes, PairOK, a, t
  <1>9. /\ \A r \in n.pending : r.link \in {<< a, t >>, << t, a >>}
        /\ \A x, y \in n.pending : x = y
    BY <1>4, <1>5 DEF Becomes, PairOK, a, t, req
  <1>10. /\ o = "Send" => s.blocks = {} /\ s.friends = {}
         /\ o = "Accept" => s.blocks = {}
         /\ o = "Follow" => s.blocks = {}
    BY DEF Permitted, EnsureCanSendFriendRequest, EnsureCanAcceptFriendRequest, EnsureCanFollow
  <1>11. n.friends # {} => n.pending = {}
    BY <1>4, <1>10 DEF Becomes, PairOK, a, t
  <1>12. n.blocks # {} => n.pending = {} /\ n.friends = {} /\ n.follows = {}
    BY <1>4, <1>10 DEF Becomes, PairOK, a, t, Ops
  <1>13. PairOK(n, a, t)
    BY <1>7, <1>8, <1>9, <1>11, <1>12 DEF PairOK
  <1> QED BY <1>13 DEF n, a, t

\* The event of a command.
LEMMA EventFacts ==
    ASSUME NEW l \in Links, NEW s \in Snapshots, NEW o \in Ops, NEW e \in EventsOf(o, s, l[1], l[2])
    PROVE  e \in Events /\ e.version = s.version + 1
  <1> DEFINE a == l[1]
             t == l[2]
  <1>1. << a, t >> \in Links
    BY LinkFacts
  <1>2. s.pending \subseteq Requests /\ s.version \in Nat
    BY SnapshotFields
  <1>3. ASSUME NEW m \in Links, NEW id \in Nat
        PROVE  Emitted(o, s, m, id) \in Events /\ Emitted(o, s, m, id).version = s.version + 1
    BY <1>2 DEF Emitted, Events
  <1>4. \E m \in Links, id \in Nat : e = Emitted(o, s, m, id)
    <2>1. CASE o \in {"Cancel", "Accept", "Reject"}
      <3>1. \E r \in s.pending : e = Emitted(o, s, r.link, r.id)
        BY <2>1 DEF EventsOf, CancelFriendRequest, AcceptFriendRequest, RejectFriendRequest
      <3> QED BY <1>2, <3>1 DEF Requests
    <2>2. CASE o = "Send"
      <3>1. e = Emitted(o, s, << a, t >>, s.version + 1)
        BY <2>2 DEF EventsOf, SendFriendRequest
      <3> QED BY <1>1, <1>2, <3>1
    <2>3. CASE o \in {"Follow", "Unfollow", "Unfriend", "Block", "Unblock"}
      <3>1. e = Emitted(o, s, << a, t >>, 0)
        BY <2>3 DEF EventsOf, Follow, Unfollow, Unfriend, Block, Unblock
      <3> QED BY <1>1, <3>1
    <2> QED BY <2>1, <2>2, <2>3 DEF Ops
  <1> QED BY <1>3, <1>4

-----------------------------------------------------------------------------
(* The counters *)

\* The rows of one pair that a counter counts.
Part(s, u, f) ==
    CASE f = "friends"    -> { p \in s.friends : u \in p }
      [] f = "following"  -> { l \in s.follows : l[1] = u }
      [] f = "followers"  -> { l \in s.follows : l[2] = u }
      [] f = "blocked"    -> { l \in s.blocks : l[1] = u }
      [] f = "pendingOut" -> { r \in s.pending : r.link[1] = u }
      [] f = "pendingIn"  -> { r \in s.pending : r.link[2] = u }

\* The rows of a pair that a counter counts go from old to new, and the counter
\* one up or down with them.
Moves(up, down, old, new) ==
    \/ ~up /\ ~down /\ new = old
    \/ up /\ ~down /\ old = {} /\ \E x : new = {x}
    \/ ~up /\ down /\ new = {} /\ \E x : old = {x}

\* u's counter f is the first of the counters of x, or the second of those of y.
Both(u, f, x, y, first, second) == (u = x /\ f = first) \/ (u = y /\ f = second)

\* Which counters a command raises, and which it lowers.
Up(o, a, t, u, f) ==
    \/ o = "Send"   /\ Both(u, f, a, t, "pendingOut", "pendingIn")
    \/ o = "Accept" /\ u \in {a, t} /\ f = "friends"
    \/ o = "Follow" /\ Both(u, f, a, t, "following", "followers")
    \/ o = "Block"  /\ u = a /\ f = "blocked"

Down(o, s, a, t, u, f) ==
    \/ (o = "Cancel" \/ (o = "Block" /\ Outgoing(s, a, t) # {}))
       /\ Both(u, f, a, t, "pendingOut", "pendingIn")
    \/ (o \in {"Accept", "Reject"} \/ (o = "Block" /\ Incoming(s, a, t) # {}))
       /\ Both(u, f, t, a, "pendingOut", "pendingIn")
    \/ (o = "Unfriend" \/ (o = "Block" /\ s.friends # {}))
       /\ u \in {a, t} /\ f = "friends"
    \/ (o = "Unfollow" \/ (o = "Block" /\ << a, t >> \in s.follows))
       /\ Both(u, f, a, t, "following", "followers")
    \/ o = "Block" /\ << t, a >> \in s.follows /\ Both(u, f, t, a, "following", "followers")
    \/ o = "Unblock" /\ u = a /\ f = "blocked"

\* The parts of a pair, by who is counted.
LEMMA PartsOf ==
    ASSUME NEW l \in Links, NEW s, PairOK(s, l[1], l[2]), NEW u
    PROVE  LET a == l[1]
               t == l[2]
               Row(x, y, S) == IF << x, y >> \in S THEN {<< x, y >>} ELSE {}
               Req(x, y) == { r \in s.pending : r.link = << x, y >> }
           IN  /\ Part(s, u, "friends") = IF u \in {a, t} THEN s.friends ELSE {}
               /\ Part(s, u, "following") = CASE u = a -> Row(a, t, s.follows)
                                              [] u = t -> Row(t, a, s.follows) [] OTHER -> {}
               /\ Part(s, u, "followers") = CASE u = a -> Row(t, a, s.follows)
                                              [] u = t -> Row(a, t, s.follows) [] OTHER -> {}
               /\ Part(s, u, "blocked") = CASE u = a -> Row(a, t, s.blocks)
                                            [] u = t -> Row(t, a, s.blocks) [] OTHER -> {}
               /\ Part(s, u, "pendingOut") = CASE u = a -> Req(a, t)
                                               [] u = t -> Req(t, a) [] OTHER -> {}
               /\ Part(s, u, "pendingIn") = CASE u = a -> Req(t, a)
                                              [] u = t -> Req(a, t) [] OTHER -> {}
  <1> DEFINE a == l[1]
             t == l[2]
             Row(x, y, S) == IF << x, y >> \in S THEN {<< x, y >>} ELSE {}
             Req(x, y) == { r \in s.pending : r.link = << x, y >> }
  <1>1. a # t /\ << a, t >>[1] = a /\ << a, t >>[2] = t /\ << t, a >>[1] = t /\ << t, a >>[2] = a
    BY LinkFacts
  <1> HIDE DEF a, t
  <1>2. /\ s.friends \subseteq {{a, t}}
        /\ s.follows \subseteq {<< a, t >>, << t, a >>}
        /\ s.blocks \subseteq {<< a, t >>, << t, a >>}
        /\ \A r \in s.pending : r.link \in {<< a, t >>, << t, a >>}
    BY DEF PairOK, a, t
  <1>3. Part(s, u, "friends") = IF u \in {a, t} THEN s.friends ELSE {}
    BY <1>2 DEF Part
  <1>4. ASSUME NEW S, S \subseteq {<< a, t >>, << t, a >>}
        PROVE  /\ { m \in S : m[1] = u } = CASE u = a -> Row(a, t, S) [] u = t -> Row(t, a, S) [] OTHER -> {}
               /\ { m \in S : m[2] = u } = CASE u = a -> Row(t, a, S) [] u = t -> Row(a, t, S) [] OTHER -> {}
    BY <1>1, <1>4
  <1>5. /\ { r \in s.pending : r.link[1] = u } = CASE u = a -> Req(a, t) [] u = t -> Req(t, a) [] OTHER -> {}
        /\ { r \in s.pending : r.link[2] = u } = CASE u = a -> Req(t, a) [] u = t -> Req(a, t) [] OTHER -> {}
    BY <1>1, <1>2
  <1> QED BY <1>2, <1>3, <1>4, <1>5 DEF Part, a, t

LEMMA DeltaFacts ==
    ASSUME NEW o \in Ops, NEW s, NEW a, NEW t, a # t, NEW u, NEW f
    PROVE  LET d == Transition(o, s, a, t).deltas
           IN  /\ << u, f, 1 >> \in d <=> Up(o, a, t, u, f)
               /\ << u, f, -1 >> \in d <=> Down(o, s, a, t, u, f)
  <1> DEFINE d == Transition(o, s, a, t).deltas
             triple(x, y, i) == << x, y, i >>
  <1>1. \A x, y, i, x1, y1, i1 : triple(x, y, i) = triple(x1, y1, i1) <=> x = x1 /\ y = y1 /\ i = i1
    OBVIOUS
  <1>2. 1 # -1
    OBVIOUS
  <1>3. CASE o = "Send"
    <2>1. d = applyFriendRequestSent(s, a, t).deltas
      BY <1>3 DEF Transition
    <2> QED BY <1>3, <2>1 DEF applyFriendRequestSent, Up, Down, Both
  <1>4. CASE o = "Cancel"
    <2>1. d = applyFriendRequestCancelled(s, a, t).deltas
      BY <1>4 DEF Transition
    <2> QED BY <1>4, <2>1 DEF applyFriendRequestCancelled, Up, Down, Both
  <1>5. CASE o = "Accept"
    <2>1. d = applyFriendRequestAccepted(s, a, t).deltas
      BY <1>5 DEF Transition
    <2> QED BY <1>5, <2>1 DEF applyFriendRequestAccepted, Up, Down, Both
  <1>6. CASE o = "Reject"
    <2>1. d = applyFriendRequestRejected(s, a, t).deltas
      BY <1>6 DEF Transition
    <2> QED BY <1>6, <2>1 DEF applyFriendRequestRejected, Up, Down, Both
  <1>7. CASE o = "Follow"
    <2>1. d = applyFollowed(s, a, t).deltas
      BY <1>7 DEF Transition
    <2> QED BY <1>7, <2>1 DEF applyFollowed, Up, Down, Both
  <1>8. CASE o = "Unfollow"
    <2>1. d = applyUnfollowed(s, a, t).deltas
      BY <1>8 DEF Transition
    <2> QED BY <1>8, <2>1 DEF applyUnfollowed, Up, Down, Both
  <1>9. CASE o = "Unfriend"
    <2>1. d = applyUnfriended(s, a, t).deltas
      BY <1>9 DEF Transition
    <2> QED BY <1>9, <2>1 DEF applyUnfriended, Up, Down, Both
  <1>10. CASE o = "Unblock"
    <2>1. d = applyUnblocked(s, a, t).deltas
      BY <1>10 DEF Transition
    <2> QED BY <1>10, <2>1 DEF applyUnblocked, Up, Down, Both
  <1>11. CASE o = "Block"
    <2>1. d = BlockDeltas(s, a, t)
      BY <1>11 DEF Transition, applyBlocked
    <2> DEFINE p == resolvePendingRequestForBlock(s, a, t)
               q == removeFriendshipForBlock(s, a, t)
               m == removeOutgoingFollowForBlock(s, a, t)
               n == removeIncomingFollowForBlock(s, a, t)
    <2>2. /\ << u, f, 1 >> \notin p \cup q \cup m \cup n
      BY DEF resolvePendingRequestForBlock, removeFriendshipForBlock, removeOutgoingFollowForBlock,
             removeIncomingFollowForBlock
    <2>3. << u, f, -1 >> \in p <=>
            \/ Outgoing(s, a, t) # {} /\ Both(u, f, a, t, "pendingOut", "pendingIn")
            \/ Incoming(s, a, t) # {} /\ Both(u, f, t, a, "pendingOut", "pendingIn")
      BY DEF resolvePendingRequestForBlock, Both
    <2>4. << u, f, -1 >> \in q <=> s.friends # {} /\ u \in {a, t} /\ f = "friends"
      BY DEF removeFriendshipForBlock
    <2>5. << u, f, -1 >> \in m <=>
            << a, t >> \in s.follows /\ Both(u, f, a, t, "following", "followers")
      BY DEF removeOutgoingFollowForBlock, Both
    <2>6. << u, f, -1 >> \in n <=>
            << t, a >> \in s.follows /\ Both(u, f, t, a, "following", "followers")
      BY DEF removeIncomingFollowForBlock, Both
    <2>7. d = {<< a, "blocked", 1 >>} \cup p \cup q \cup m \cup n
      BY <2>1 DEF BlockDeltas
    <2> HIDE DEF d, p, q, m, n
    <2>8. << u, f, 1 >> \in d <=> u = a /\ f = "blocked"
      BY <2>2, <2>7
    <2>9. << u, f, -1 >> \in d <=> << u, f, -1 >> \in p \cup q \cup m \cup n
      BY <2>7
    <2>10. << u, f, 1 >> \in d <=> Up(o, a, t, u, f)
      BY <1>11, <2>8 DEF Up
    <2>11. << u, f, -1 >> \in d <=> Down(o, s, a, t, u, f)
      BY <1>11, <2>3, <2>4, <2>5, <2>6, <2>9 DEF Down
    <2> QED BY <2>10, <2>11 DEF d
  <1> QED BY <1>3, <1>4, <1>5, <1>6, <1>7, <1>8, <1>9, <1>10, <1>11 DEF Ops

\* Every counter of a command that is allowed moves with its rows.
LEMMA CountsMove ==
    ASSUME NEW l \in Links, NEW s, PairOK(s, l[1], l[2]), NEW o \in Ops,
           Permitted(o, s, l[1], l[2]), NEW u, NEW f \in Fields
    PROVE  Moves(Up(o, l[1], l[2], u, f), Down(o, s, l[1], l[2], u, f),
                 Part(s, u, f), Part(Transition(o, s, l[1], l[2]).pair, u, f))
  <1> DEFINE a == l[1]
             t == l[2]
             n == Transition(o, s, a, t).pair
             Row(x, y, S) == IF << x, y >> \in S THEN {<< x, y >>} ELSE {}
             Req(q, x, y) == { r \in q.pending : r.link = << x, y >> }
             Parts(q) ==
               /\ Part(q, u, "friends") = IF u \in {a, t} THEN q.friends ELSE {}
               /\ Part(q, u, "following") = CASE u = a -> Row(a, t, q.follows)
                                              [] u = t -> Row(t, a, q.follows) [] OTHER -> {}
               /\ Part(q, u, "followers") = CASE u = a -> Row(t, a, q.follows)
                                              [] u = t -> Row(a, t, q.follows) [] OTHER -> {}
               /\ Part(q, u, "blocked") = CASE u = a -> Row(a, t, q.blocks)
                                            [] u = t -> Row(t, a, q.blocks) [] OTHER -> {}
               /\ Part(q, u, "pendingOut") = CASE u = a -> Req(q, a, t)
                                               [] u = t -> Req(q, t, a) [] OTHER -> {}
               /\ Part(q, u, "pendingIn") = CASE u = a -> Req(q, t, a)
                                              [] u = t -> Req(q, a, t) [] OTHER -> {}
             Moved == Moves(Up(o, a, t, u, f), Down(o, s, a, t, u, f), Part(s, u, f), Part(n, u, f))
  <1>1. a # t /\ << a, t >> # << t, a >>
    BY LinkFacts
  <1>2. Parts(s) /\ Parts(n)
    <2>1. Parts(s)
      BY PartsOf
    <2>2. PairOK(n, l[1], l[2])
      BY PairStaysOK
    <2> HIDE DEF n
    <2>3. Parts(n)
      BY <2>2, PartsOf
    <2> QED BY <2>1, <2>3
  <1>3. s \in Snapshots /\ Becomes(n, o, s, a, t)
    BY NextPair DEF PairOK
  <1> HIDE DEF n, a, t
  <1>4. /\ o = "Send"     => EnsureCanSendFriendRequest(s, a, t)
        /\ o = "Cancel"   => EnsureCanCancelFriendRequest(s, a, t)
        /\ o = "Accept"   => EnsureCanAcceptFriendRequest(s, a, t)
        /\ o = "Reject"   => EnsureCanRejectFriendRequest(s, a, t)
        /\ o = "Follow"   => EnsureCanFollow(s, a, t)
        /\ o = "Unfollow" => EnsureCanUnfollow(s, a, t)
        /\ o = "Unfriend" => EnsureCanUnfriend(s, a, t)
        /\ o = "Block"    => EnsureCanBlock(s, a, t)
        /\ o = "Unblock"  => EnsureCanUnblock(s, a, t)
    BY DEF Permitted, a, t
  <1>5. PairOK(s, a, t)
    BY DEF a, t
  <1>6. CASE f = "friends"
    <2>1. /\ o = "Accept" => s.friends = {} /\ n.friends = {{a, t}}
          /\ o \in {"Unfriend", "Block"} => n.friends = {}
          /\ o = "Unfriend" => s.friends # {}
          /\ o \notin {"Accept", "Unfriend", "Block"} => n.friends = s.friends
      BY <1>3, <1>4 DEF Becomes, EnsureCanAcceptFriendRequest, EnsureCanUnfriend
    <2>4. s.friends # {} => s.friends = {{a, t}}
      <3>1. s.friends \subseteq {{a, t}}
        BY <1>5 DEF PairOK
      <3> QED BY <3>1
    <2>2. /\ Up(o, a, t, u, f) <=> o = "Accept" /\ u \in {a, t}
          /\ Down(o, s, a, t, u, f) <=> (o = "Unfriend" \/ (o = "Block" /\ s.friends # {})) /\ u \in {a, t}
      BY <1>6 DEF Up, Down, Both
    <2>3. /\ Part(s, u, f) = IF u \in {a, t} THEN s.friends ELSE {}
          /\ Part(n, u, f) = IF u \in {a, t} THEN n.friends ELSE {}
      BY <1>2, <1>6
    <2> QED BY <2>1, <2>2, <2>3, <2>4 DEF Moves, n, a, t
  <1>7. CASE f = "blocked"
    <2>1. /\ o = "Block" => << a, t >> \notin s.blocks /\ n.blocks = s.blocks \cup {<< a, t >>}
          /\ o = "Unblock" => << a, t >> \in s.blocks /\ n.blocks = s.blocks \ {<< a, t >>}
          /\ o \notin {"Block", "Unblock"} => n.blocks = s.blocks
      BY <1>3, <1>4 DEF Becomes, EnsureCanBlock, EnsureCanUnblock
    <2>2. /\ Up(o, a, t, u, f) <=> o = "Block" /\ u = a
          /\ Down(o, s, a, t, u, f) <=> o = "Unblock" /\ u = a
      BY <1>7 DEF Up, Down, Both
    <2>3. /\ Row(t, a, n.blocks) = Row(t, a, s.blocks)
          /\ o = "Block" => Row(a, t, s.blocks) = {} /\ Row(a, t, n.blocks) = {<< a, t >>}
          /\ o = "Unblock" => Row(a, t, s.blocks) = {<< a, t >>} /\ Row(a, t, n.blocks) = {}
          /\ o \notin {"Block", "Unblock"} => Row(a, t, n.blocks) = Row(a, t, s.blocks)
      BY <1>1, <2>1
    <2>4. \A q \in {s, n} : Part(q, u, f) = CASE u = a -> Row(a, t, q.blocks)
                                              [] u = t -> Row(t, a, q.blocks) [] OTHER -> {}
      BY <1>2, <1>7
    <2> HIDE DEF Row
    <2>5. CASE u = a
      BY <1>1, <2>2, <2>3, <2>4, <2>5 DEF Moves, n, a, t
    <2>6. CASE u = t
      BY <1>1, <2>2, <2>3, <2>4, <2>6 DEF Moves, n, a, t
    <2>7. CASE u # a /\ u # t
      BY <2>2, <2>4, <2>7 DEF Moves, n, a, t
    <2> QED BY <2>5, <2>6, <2>7
  <1>8. CASE f \in {"following", "followers"}
    <2>1. /\ o = "Follow" => << a, t >> \notin s.follows /\ n.follows = s.follows \cup {<< a, t >>}
          /\ o = "Unfollow" => << a, t >> \in s.follows /\ n.follows = s.follows \ {<< a, t >>}
          /\ o = "Block" => n.follows = {}
          /\ o \notin {"Follow", "Unfollow", "Block"} => n.follows = s.follows
      BY <1>3, <1>4 DEF Becomes, EnsureCanFollow, EnsureCanUnfollow
    <2> DEFINE x == IF f = "following" THEN a ELSE t
               y == IF f = "following" THEN t ELSE a
    <2>2. /\ Up(o, a, t, u, f) <=> o = "Follow" /\ u = x
          /\ Down(o, s, a, t, u, f) <=>
                \/ (o = "Unfollow" \/ (o = "Block" /\ << a, t >> \in s.follows)) /\ u = x
                \/ o = "Block" /\ << t, a >> \in s.follows /\ u = y
      BY <1>8 DEF Up, Down, Both
    <2>3. /\ o \notin {"Block"} => Row(t, a, n.follows) = Row(t, a, s.follows)
          /\ o = "Block" => Row(a, t, n.follows) = {} /\ Row(t, a, n.follows) = {}
          /\ o = "Follow" => Row(a, t, s.follows) = {} /\ Row(a, t, n.follows) = {<< a, t >>}
          /\ o = "Unfollow" => Row(a, t, s.follows) = {<< a, t >>} /\ Row(a, t, n.follows) = {}
          /\ o \notin {"Follow", "Unfollow", "Block"} => Row(a, t, n.follows) = Row(a, t, s.follows)
          /\ Row(a, t, s.follows) = IF << a, t >> \in s.follows THEN {<< a, t >>} ELSE {}
          /\ Row(t, a, s.follows) = IF << t, a >> \in s.follows THEN {<< t, a >>} ELSE {}
      BY <1>1, <2>1
    <2>4. \A q \in {s, n} : Part(q, u, f) = CASE u = x -> Row(a, t, q.follows)
                                              [] u = y -> Row(t, a, q.follows) [] OTHER -> {}
      BY <1>1, <1>2, <1>8
    <2>5. x # y
      BY <1>1
    <2> HIDE DEF Row, x, y
    <2>6. CASE u = x
      BY <2>2, <2>3, <2>4, <2>5, <2>6 DEF Moves, n, a, t
    <2>7. CASE u = y
      BY <2>2, <2>3, <2>4, <2>5, <2>7 DEF Moves, n, a, t
    <2>8. CASE u # x /\ u # y
      BY <2>2, <2>3, <2>4, <2>5, <2>8 DEF Moves, n, a, t
    <2> QED BY <2>6, <2>7, <2>8
  <1>9. CASE f \in {"pendingOut", "pendingIn"}
    <2>1. /\ o = "Send" => s.pending = {} /\ n.pending = {[id |-> s.version + 1, link |-> << a, t >>]}
          /\ o \in {"Cancel", "Accept", "Reject", "Block"} => n.pending = {}
          /\ o \notin {"Send", "Cancel", "Accept", "Reject", "Block"} => n.pending = s.pending
          /\ o = "Cancel" => Req(s, a, t) # {}
          /\ o \in {"Accept", "Reject"} => Req(s, t, a) # {}
      BY <1>3, <1>4 DEF Becomes, EnsureCanSendFriendRequest, EnsureCanCancelFriendRequest,
                        EnsureCanAcceptFriendRequest, EnsureCanRejectFriendRequest, Outgoing, Incoming
    <2> DEFINE x == IF f = "pendingOut" THEN a ELSE t
               y == IF f = "pendingOut" THEN t ELSE a
    <2>2. /\ Up(o, a, t, u, f) <=> o = "Send" /\ u = x
          /\ Down(o, s, a, t, u, f) <=>
                \/ (o = "Cancel" \/ (o = "Block" /\ Req(s, a, t) # {})) /\ u = x
                \/ (o \in {"Accept", "Reject"} \/ (o = "Block" /\ Req(s, t, a) # {})) /\ u = y
      BY <1>9 DEF Up, Down, Both, Outgoing, Incoming
    <2>3. /\ \A i, j \in Req(s, a, t) : i = j
          /\ \A i, j \in Req(s, t, a) : i = j
          /\ Req(s, a, t) = {} \/ Req(s, t, a) = {}
      BY <1>1, <1>5 DEF PairOK
    <2>4. /\ o = "Send" => /\ Req(s, a, t) = {} /\ \E z : Req(n, a, t) = {z}
                           /\ Req(s, t, a) = {} /\ Req(n, t, a) = {}
          /\ o \in {"Cancel", "Accept", "Reject", "Block"} => Req(n, a, t) = {} /\ Req(n, t, a) = {}
          /\ o \notin {"Send", "Cancel", "Accept", "Reject", "Block"} =>
                Req(n, a, t) = Req(s, a, t) /\ Req(n, t, a) = Req(s, t, a)
      <3>1. CASE o = "Send"
        <4> DEFINE z == [id |-> s.version + 1, link |-> << a, t >>]
        <4>1. z.link = << a, t >>
          OBVIOUS
        <4> HIDE DEF z
        <4>2. n.pending = {z} /\ s.pending = {}
          BY <2>1, <3>1 DEF z
        <4> QED BY <1>1, <3>1, <4>1, <4>2
      <3>2. CASE o # "Send"
        BY <2>1, <3>2
      <3> QED BY <3>1, <3>2
    <2>5. /\ Req(s, a, t) # {} => \E z : Req(s, a, t) = {z}
          /\ Req(s, t, a) # {} => \E z : Req(s, t, a) = {z}
      <3> HIDE DEF Req
      <3> QED BY <2>3
    <2>6. \A q \in {s, n} : Part(q, u, f) = CASE u = x -> Req(q, a, t)
                                              [] u = y -> Req(q, t, a) [] OTHER -> {}
      BY <1>1, <1>2, <1>9
    <2>7. x # y
      BY <1>1
    <2> HIDE DEF Req, x, y
    <2>8. CASE u = x
      BY <2>1, <2>2, <2>3, <2>4, <2>5, <2>6, <2>7, <2>8 DEF Moves, n, a, t
    <2>9. CASE u = y
      BY <2>1, <2>2, <2>3, <2>4, <2>5, <2>6, <2>7, <2>9 DEF Moves, n, a, t
    <2>10. CASE u # x /\ u # y
      BY <2>2, <2>6, <2>7, <2>10 DEF Moves, n, a, t
    <2> QED BY <2>8, <2>9, <2>10
  <1> QED BY <1>6, <1>7, <1>8, <1>9 DEF Fields

\* Only the two users of the pair have deltas.
LEMMA DeltaUsers ==
    ASSUME NEW o \in Ops, NEW s, NEW a, NEW t, NEW d \in Transition(o, s, a, t).deltas
    PROVE  d[1] \in {a, t}
  <1>1. CASE o \in {"Send", "Cancel", "Accept", "Reject"}
    BY <1>1 DEF Transition, applyFriendRequestSent, applyFriendRequestCancelled,
                applyFriendRequestAccepted, applyFriendRequestRejected
  <1>2. CASE o \in {"Follow", "Unfollow", "Unfriend", "Unblock"}
    BY <1>2 DEF Transition, applyFollowed, applyUnfollowed, applyUnfriended, applyUnblocked
  <1>3. CASE o = "Block"
    <2>1. d \in BlockDeltas(s, a, t)
      BY <1>3 DEF Transition, applyBlocked
    <2> QED BY <2>1 DEF BlockDeltas, resolvePendingRequestForBlock, removeFriendshipForBlock,
                        removeOutgoingFollowForBlock, removeIncomingFollowForBlock
  <1> QED BY <1>1, <1>2, <1>3 DEF Ops

-----------------------------------------------------------------------------
(* Reading and writing a pair *)

LEMMA ReadFacts ==
    ASSUME TypeOK, NEW p \in Pairs
    PROVE  /\ Read(p) \in Snapshots
           /\ Read(p).pending = LoadPendingBetween(p)
           /\ Read(p).friends = friends \cap {p}
           /\ Read(p).follows = { l \in follows : {l[1], l[2]} = p }
           /\ Read(p).blocks = { l \in blocks : {l[1], l[2]} = p }
           /\ Read(p).version = Len(outbox[p])
           /\ Read(p) = [pending |-> LoadPendingBetween(p), friends |-> friends \cap {p},
                         follows |-> { l \in follows : {l[1], l[2]} = p },
                         blocks |-> { l \in blocks : {l[1], l[2]} = p }, version |-> Len(outbox[p])]
  <1>1. LoadPendingBetween(p) \subseteq Requests
    BY DEF LoadPendingBetween, Open, TypeOK
  <1>2. Len(outbox[p]) \in Nat
    BY DEF TypeOK
  <1> QED BY <1>1, <1>2 DEF Read, loadRelationOutboxAggregateVersion, Snapshots, TypeOK

\* Both orders of the users, and any version, name the same rows.
LEMMA PairOKSame ==
    ASSUME NEW l \in Links, NEW m \in Links, {m[1], m[2]} = {l[1], l[2]},
           NEW n, PairOK(n, l[1], l[2]), NEW s \in Snapshots,
           s.pending = n.pending, s.friends = n.friends, s.follows = n.follows, s.blocks = n.blocks
    PROVE  PairOK(s, m[1], m[2])
  <1>1. (m[1] = l[1] /\ m[2] = l[2]) \/ (m[1] = l[2] /\ m[2] = l[1])
    BY LinkFacts
  <1>2. {l[1], l[2]} = {l[2], l[1]}
    OBVIOUS
  <1> QED BY <1>1, <1>2 DEF PairOK

\* All rows of a pair are between its users.
LEMMA PairRows ==
    ASSUME NEW l \in Links, NEW n, PairOK(n, l[1], l[2])
    PROVE  LET p == {l[1], l[2]} IN
           /\ \A q \in n.friends : q = p
           /\ \A m \in n.follows \cup n.blocks : {m[1], m[2]} = p
           /\ \A r \in n.pending : {r.link[1], r.link[2]} = p
  <1> DEFINE a == l[1]
             t == l[2]
  <1>1. << a, t >>[1] = a /\ << a, t >>[2] = t /\ << t, a >>[1] = t /\ << t, a >>[2] = a
    OBVIOUS
  <1> HIDE DEF a, t
  <1>2. \A m \in {<< a, t >>, << t, a >>} : {m[1], m[2]} = {a, t}
    BY <1>1
  <1> QED BY <1>2 DEF PairOK, a, t

\* The tables after the pair p was replaced by n.
Replaced(p, n) ==
    /\ friends' = { q \in friends : q # p } \cup n.friends
    /\ follows' = { l \in follows : {l[1], l[2]} # p } \cup n.follows
    /\ blocks' = { l \in blocks : {l[1], l[2]} # p } \cup n.blocks
    /\ requests' = { r \in requests : {r.link[1], r.link[2]} # p } \cup n.pending

LEMMA SaveReplaces ==
    ASSUME TypeOK, PairsInv, NEW w \in Workers, link[w] \in Links, op[w] \in Ops,
           loaded[w] = Read(Pair(w)), Permitted(op[w], loaded[w], Actor(w), Target(w)),
           Save(w), Persistable(w, TransitionOf(w).pair)
    PROVE  Replaced(Pair(w), TransitionOf(w).pair)
  <1> DEFINE p == Pair(w)
             s == loaded[w]
             n == TransitionOf(w).pair
  <1>1. /\ p \in Pairs /\ PairOK(s, link[w][1], link[w][2]) /\ s.pending = Open(p)
        /\ PairOK(n, link[w][1], link[w][2])
    BY LinkFacts, PairStaysOK DEF PairsInv, Pair, TransitionOf, Actor, Target
  <1>2. /\ s.friends = friends \cap {p}
        /\ s.follows = { l \in follows : {l[1], l[2]} = p }
        /\ s.blocks = { l \in blocks : {l[1], l[2]} = p }
        /\ s.pending = { r \in requests : {r.link[1], r.link[2]} = p }
    BY <1>1, ReadFacts DEF Open
  <1>3. /\ \A q \in n.friends : q = p
        /\ \A m \in n.follows \cup n.blocks : {m[1], m[2]} = p
        /\ \A r \in n.pending : {r.link[1], r.link[2]} = p
    BY <1>1, PairRows DEF Pair
  <1>4. /\ requests' = (requests \ (s.pending \ n.pending)) \cup (n.pending \ s.pending)
        /\ friends' = (friends \ (s.friends \ n.friends)) \cup (n.friends \ s.friends)
        /\ follows' = (follows \ (s.follows \ n.follows)) \cup (n.follows \ s.follows)
        /\ blocks' = (blocks \ (s.blocks \ n.blocks)) \cup (n.blocks \ s.blocks)
    BY DEF Save, SaveFriendRequest
  <1> HIDE DEF p, s, n
  <1>5. friends' = { q \in friends : q # p } \cup n.friends
    BY <1>2, <1>3, <1>4
  <1>6. follows' = { l \in follows : {l[1], l[2]} # p } \cup n.follows
    BY <1>2, <1>3, <1>4
  <1>7. blocks' = { l \in blocks : {l[1], l[2]} # p } \cup n.blocks
    BY <1>2, <1>3, <1>4
  <1>8. requests' = { r \in requests : {r.link[1], r.link[2]} # p } \cup n.pending
    BY <1>2, <1>3, <1>4
  <1> QED BY <1>5, <1>6, <1>7, <1>8 DEF Replaced, p, n

\* s has the rows of n.
SameRows(s, n) ==
    s.pending = n.pending /\ s.friends = n.friends /\ s.follows = n.follows /\ s.blocks = n.blocks

\* The rows of the other pairs stay, and those of the pair are n's.
LEMMA ReadAfter ==
    ASSUME TypeOK, TypeOK', PairsInv, NEW l \in Links, NEW p, p = {l[1], l[2]},
           NEW n, PairOK(n, l[1], l[2]), Replaced(p, n),
           \A q \in Pairs \ {p} : outbox'[q] = outbox[q]
    PROVE  /\ PairsInv' /\ \A q \in Pairs \ {p} : Read(q)' = Read(q)
           /\ SameRows(Read(p)', n)
  <1>1. /\ \A q \in n.friends : q = p
        /\ \A m \in n.follows \cup n.blocks : {m[1], m[2]} = p
        /\ \A r \in n.pending : {r.link[1], r.link[2]} = p
    BY PairRows
  <1>2. ASSUME NEW q \in Pairs \ {p}
        PROVE  Read(q)' = Read(q) /\ Open(q)' = Open(q)
    <2>1. Open(q)' = Open(q)
      BY <1>1 DEF Open, Replaced
    <2>2. LoadPendingBetween(q)' = LoadPendingBetween(q)
      BY <2>1 DEF LoadPendingBetween
    <2>3. /\ friends' \cap {q} = friends \cap {q}
          /\ { m \in follows' : {m[1], m[2]} = q } = { m \in follows : {m[1], m[2]} = q }
          /\ { m \in blocks' : {m[1], m[2]} = q } = { m \in blocks : {m[1], m[2]} = q }
      BY <1>1 DEF Replaced
    <2> QED BY <2>1, <2>2, <2>3 DEF Read, loadRelationOutboxAggregateVersion
  <1>3. p \in Pairs
    BY LinkFacts
  <1>4. /\ Open(p)' = n.pending
        /\ friends' \cap {p} = n.friends
        /\ { m \in follows' : {m[1], m[2]} = p } = n.follows
        /\ { m \in blocks' : {m[1], m[2]} = p } = n.blocks
    BY <1>1 DEF Open, Replaced
  <1>5. LoadPendingBetween(p)' = n.pending
    <2>1. \A x \in n.pending : x.id \in Nat /\ x.id <= x.id
      BY DEF PairOK, Snapshots, Requests
    <2>2. \A x, y \in n.pending : x = y
      BY DEF PairOK
    <2>3. \A r, x \in n.pending : x.id <= r.id
      BY <2>1, <2>2
    <2>4. LoadPendingBetween(p)' = { r \in n.pending : \A x \in n.pending : x.id <= r.id }
      BY <1>4 DEF LoadPendingBetween
    <2> QED BY <2>3, <2>4
  <1>6. /\ Read(p)' \in Snapshots /\ Read(p)'.pending = n.pending /\ Read(p)'.friends = n.friends
        /\ Read(p)'.follows = n.follows /\ Read(p)'.blocks = n.blocks
    <2>1. Len(outbox'[p]) \in Nat
      BY <1>3 DEF TypeOK
    <2>2. Read(p)' = [pending |-> n.pending, friends |-> n.friends, follows |-> n.follows,
                      blocks |-> n.blocks, version |-> Len(outbox'[p])]
      BY <1>4, <1>5 DEF Read, loadRelationOutboxAggregateVersion
    <2>3. /\ n.pending \subseteq Requests /\ n.friends \subseteq Pairs
          /\ n.follows \subseteq Links /\ n.blocks \subseteq Links
      BY SnapshotFields DEF PairOK
    <2> DEFINE z == [pending |-> n.pending, friends |-> n.friends, follows |-> n.follows,
                     blocks |-> n.blocks, version |-> Len(outbox'[p])]
    <2>4. /\ z \in Snapshots /\ z.pending = n.pending /\ z.friends = n.friends
          /\ z.follows = n.follows /\ z.blocks = n.blocks
      BY <2>1, <2>3 DEF Snapshots
    <2> HIDE DEF z
    <2>5. Read(p)' = z
      BY <2>2 DEF z
    <2> QED BY <2>4, <2>5
  <1>7. ASSUME NEW m \in Links, NEW q, q = {m[1], m[2]}
        PROVE  PairOK(Read(q)', m[1], m[2]) /\ Read(q)'.pending = Open(q)'
    <2>1. q \in Pairs
      BY <1>7, LinkFacts
    <2>2. CASE q = p
      <3>1. PICK z : z = Read(p)'
        OBVIOUS
      <3>2. PairOK(z, m[1], m[2])
        BY <1>6, <1>7, <2>2, <3>1, PairOKSame
      <3> QED BY <1>4, <1>6, <2>2, <3>1, <3>2
    <2>3. CASE q # p
      BY <1>2, <1>7, <2>1, <2>3 DEF PairsInv
    <2> QED BY <2>2, <2>3
  <1>8. PairsInv'
    BY <1>7 DEF PairsInv, PairOK
  <1> QED BY <1>2, <1>6, <1>8 DEF SameRows

\* The rows behind the counters.
LEMMA RowsAfter ==
    ASSUME TypeOK, NEW l \in Links, NEW p, p = {l[1], l[2]},
           NEW n, PairOK(n, l[1], l[2]), Replaced(p, n), NEW s, s = Read(p), s.pending = Open(p),
           NEW u \in Users, NEW f \in Fields
    PROVE  /\ RowsOf(u, f)' = (RowsOf(u, f) \ Part(s, u, f)) \cup Part(n, u, f)
           /\ Part(s, u, f) \subseteq RowsOf(u, f)
           /\ RowsOf(u, f) \cap Part(n, u, f) \subseteq Part(s, u, f)
  <1>1. /\ \A q \in n.friends : q = p
        /\ \A m \in n.follows \cup n.blocks : {m[1], m[2]} = p
        /\ \A r \in n.pending : {r.link[1], r.link[2]} = p
    BY PairRows
  <1>2. /\ s.friends = friends \cap {p}
        /\ s.follows = { m \in follows : {m[1], m[2]} = p }
        /\ s.blocks = { m \in blocks : {m[1], m[2]} = p }
        /\ s.pending = { r \in requests : {r.link[1], r.link[2]} = p }
    <2>1. p \in Pairs
      BY LinkFacts
    <2> QED BY <2>1, ReadFacts DEF Open
  <1>3. CASE f = "friends"
    BY <1>1, <1>2, <1>3 DEF RowsOf, Part, Replaced
  <1>4. CASE f = "following"
    BY <1>1, <1>2, <1>4 DEF RowsOf, Part, Replaced
  <1>5. CASE f = "followers"
    BY <1>1, <1>2, <1>5 DEF RowsOf, Part, Replaced
  <1>6. CASE f = "blocked"
    BY <1>1, <1>2, <1>6 DEF RowsOf, Part, Replaced
  <1>7. CASE f = "pendingOut"
    BY <1>1, <1>2, <1>7 DEF RowsOf, Part, Replaced
  <1>8. CASE f = "pendingIn"
    BY <1>1, <1>2, <1>8 DEF RowsOf, Part, Replaced
  <1> QED BY <1>3, <1>4, <1>5, <1>6, <1>7, <1>8 DEF Fields

-----------------------------------------------------------------------------
(* Steps that leave the tables alone *)

\* Nothing of worker v's own state changes, nor of what it has locked.
Still(v) ==
    /\ pc'[v] = pc[v] /\ op'[v] = op[v] /\ link'[v] = link[v]
    /\ loaded'[v] = loaded[v] /\ todo'[v] = todo[v]
    /\ accounts \subseteq accounts'
    /\ \A p \in Pairs : guard[p] = v => guard'[p] = v /\ Read(p)' = Read(p)
    /\ \A u \in Users : rowLock[u] = v => rowLock'[u] = v

LEMMA StillWorker ==
    ASSUME TypeOK, NEW v \in Workers, WorkerInv(v), Still(v)
    PROVE  WorkerInv(v)'
  <1>1. pc'[v] # "idle" => link'[v] \in Links /\ guard'[{link'[v][1], link'[v][2]}] = v
    BY LinkFacts DEF Still, WorkerInv, Pair
  <1>2. ASSUME pc'[v] \in {"stubs", "update", "commit"}
        PROVE  /\ loaded'[v] = Read(Pair(v))'
               /\ Permitted(op[v], loaded[v], Actor(v), Target(v))'
    <2>1. /\ pc[v] # "idle" /\ link[v] \in Links /\ guard[Pair(v)] = v
          /\ loaded[v] = Read(Pair(v)) /\ Permitted(op[v], loaded[v], Actor(v), Target(v))
      BY <1>2 DEF Still, WorkerInv
    <2>2. PICK p \in Pairs : p = Pair(v)
      BY <2>1, LinkFacts DEF Pair
    <2>3. p = Pair(v)' /\ Read(p)' = Read(p)
      BY <2>1, <2>2 DEF Still, Pair
    <2>4. Read(Pair(v))' = Read(p)'
      BY <2>3 DEF Read, LoadPendingBetween, Open, loadRelationOutboxAggregateVersion
    <2>5. op'[v] = op[v] /\ loaded'[v] = loaded[v] /\ Actor(v)' = Actor(v) /\ Target(v)' = Target(v)
      BY DEF Still, Actor, Target
    <2>6. Permitted(op[v], loaded[v], Actor(v), Target(v))'
      BY <2>1, <2>5 DEF Still, Permitted, EnsureCanSendFriendRequest, EnsureCanCancelFriendRequest,
            EnsureCanAcceptFriendRequest, EnsureCanRejectFriendRequest, EnsureCanFollow,
            EnsureCanUnfollow, EnsureCanUnfriend, EnsureCanBlock, EnsureCanUnblock, Outgoing, Incoming
    <2> QED BY <2>1, <2>2, <2>3, <2>4, <2>5, <2>6
  <1>3. Concerned(v)' = Concerned(v)
    <2>1. TransitionOf(v)' = TransitionOf(v)
      BY DEF Still, TransitionOf, Actor, Target
    <2> QED BY <2>1 DEF Concerned, DeltasOf
  <1>4. Mine(v) \subseteq Mine(v)'
    BY DEF Still, Mine
  <1> QED BY <1>1, <1>2, <1>3, <1>4 DEF WorkerInv, Pair, Still

LEMMA TablesKept ==
    ASSUME PairsInv, StreamIsSequential, CountInv,
           UNCHANGED << requests, friends, follows, blocks, counters, outbox >>
    PROVE  /\ PairsInv' /\ StreamIsSequential' /\ CountInv'
           /\ \A p \in Pairs : Read(p)' = Read(p)
  <1>1. \A p : Read(p)' = Read(p) /\ Open(p)' = Open(p)
    BY DEF Read, LoadPendingBetween, Open, loadRelationOutboxAggregateVersion
  <1>2. PairsInv'
    BY <1>1 DEF PairsInv
  <1>3. StreamIsSequential'
    BY DEF StreamIsSequential
  <1>4. \A u, f : RowsOf(u, f)' = RowsOf(u, f) /\ Counter(u, f)' = Counter(u, f)
    BY DEF RowsOf, Counter
  <1>5. CountInv'
    BY <1>4 DEF CountInv
  <1> QED BY <1>1, <1>2, <1>3, <1>5

\* The end of a transaction frees what it holds and disturbs no other.
LEMMA EndFrame ==
    ASSUME TypeOK, NEW w \in Workers, End(w)
    PROVE  /\ guard' \in [Pairs -> Workers \cup {NoWorker}]
           /\ rowLock' \in [Users -> Workers \cup {NoWorker}]
           /\ pc' \in [Workers -> Phases] /\ op' \in [Workers -> Ops]
           /\ link' \in [Workers -> Links \cup {NoLink}]
           /\ loaded' \in [Workers -> Snapshots] /\ todo' \in [Workers -> SUBSET Users]
           /\ pc'[w] = "idle"
           /\ \A v \in Workers \ {w} :
                /\ pc'[v] = pc[v] /\ op'[v] = op[v] /\ link'[v] = link[v]
                /\ loaded'[v] = loaded[v] /\ todo'[v] = todo[v]
                /\ \A p \in Pairs : guard[p] = v => guard'[p] = v
                /\ \A u \in Users : rowLock[u] = v => rowLock'[u] = v
  <1>1. Nothing \in Snapshots
    BY DEF Nothing, Snapshots
  <1>2. /\ guard' \in [Pairs -> Workers \cup {NoWorker}]
        /\ rowLock' \in [Users -> Workers \cup {NoWorker}]
    BY DEF TypeOK, End
  <1>3. /\ pc' \in [Workers -> Phases] /\ op' \in [Workers -> Ops]
        /\ link' \in [Workers -> Links \cup {NoLink}]
        /\ todo' \in [Workers -> SUBSET Users]
    BY DEF TypeOK, End, Phases, Ops
  <1>4. loaded' \in [Workers -> Snapshots]
    BY <1>1 DEF TypeOK, End
  <1>5. pc'[w] = "idle"
    BY DEF TypeOK, End
  <1>6. ASSUME NEW v \in Workers \ {w}
        PROVE  /\ pc'[v] = pc[v] /\ op'[v] = op[v] /\ link'[v] = link[v]
               /\ loaded'[v] = loaded[v] /\ todo'[v] = todo[v]
               /\ \A p \in Pairs : guard[p] = v => guard'[p] = v
               /\ \A u \in Users : rowLock[u] = v => rowLock'[u] = v
    BY DEF TypeOK, End
  <1> QED BY <1>2, <1>3, <1>4, <1>5, <1>6

LEMMA IdleWorker ==
    ASSUME NEW w \in Workers, pc'[w] = "idle"
    PROVE  WorkerInv(w)'
  BY DEF WorkerInv

\* A rollback, whatever it is for.
LEMMA RollbackInv ==
    ASSUME Inv, NEW w \in Workers, Rollback(w)
    PROVE  Inv'
  <1>1. TypeOK /\ End(w) /\ UNCHANGED tables
    BY DEF Inv, Rollback
  <1>2. TypeOK'
    BY <1>1, EndFrame DEF TypeOK, tables
  <1>3. /\ PairsInv' /\ StreamIsSequential' /\ CountInv'
        /\ \A p \in Pairs : Read(p)' = Read(p)
    BY <1>1, TablesKept DEF Inv, tables
  <1>4. ASSUME NEW v \in Workers PROVE WorkerInv(v)'
    <2>1. CASE v = w
      BY <1>1, <2>1, EndFrame, IdleWorker
    <2>2. CASE v # w
      <3>1. Still(v)
        BY <1>1, <1>3, <2>2, EndFrame DEF Still, tables
      <3> QED BY <1>1, <3>1, StillWorker DEF Inv, WorkersInv
    <2> QED BY <2>1, <2>2
  <1> QED BY <1>2, <1>3, <1>4 DEF Inv, WorkersInv

LEMMA ProjectInv ==
    ASSUME Inv, NEW u \in Users, ProjectAccount(u)
    PROVE  Inv'
  <1>1. TypeOK'
    BY DEF Inv, TypeOK, ProjectAccount
  <1>2. /\ PairsInv' /\ StreamIsSequential' /\ CountInv'
        /\ \A p \in Pairs : Read(p)' = Read(p)
    BY TablesKept DEF Inv, ProjectAccount
  <1>3. ASSUME NEW v \in Workers PROVE WorkerInv(v)'
    <2>1. Still(v)
      BY <1>2 DEF Still, ProjectAccount
    <2> QED BY <2>1, StillWorker DEF Inv, WorkersInv
  <1> QED BY <1>1, <1>2, <1>3 DEF Inv, WorkersInv

LEMMA LockInv ==
    ASSUME Inv, NEW w \in Workers, NEW o \in Ops, NEW l \in Links, LockPair(w, o, l)
    PROVE  Inv'
  <1> DEFINE p == {l[1], l[2]}
  <1>1. TypeOK /\ p \in Pairs
    BY LinkFacts DEF Inv
  <1>2. TypeOK'
    BY <1>1 DEF TypeOK, LockPair, tables, Phases
  <1>3. /\ PairsInv' /\ StreamIsSequential' /\ CountInv'
        /\ \A q \in Pairs : Read(q)' = Read(q)
    BY TablesKept DEF Inv, LockPair, tables
  <1>4. ASSUME NEW v \in Workers PROVE WorkerInv(v)'
    <2>1. CASE v = w
      <3>1. pc'[w] = "load" /\ link'[w] = l /\ guard'[p] = w
        BY <1>1 DEF TypeOK, LockPair
      <3> QED BY <2>1, <3>1 DEF WorkerInv, Pair
    <2>2. CASE v # w
      <3>1. Still(v)
        BY <1>1, <1>3, <2>2, NoWorkerAssumption DEF Still, LockPair, TypeOK, tables
      <3> QED BY <1>1, <3>1, StillWorker DEF Inv, WorkersInv
    <2> QED BY <2>1, <2>2
  <1> QED BY <1>2, <1>3, <1>4 DEF Inv, WorkersInv

\* What a worker has loaded is what is there, and its command is allowed.
LEMMA LoadInv ==
    ASSUME Inv, NEW w \in Workers, LoadForUpdate(w)
    PROVE  Inv'
  <1> DEFINE s == Read(Pair(w))
             d == Transition(op[w], s, Actor(w), Target(w)).deltas
  <1>1. TypeOK /\ pc[w] = "load" /\ link[w] \in Links /\ guard[Pair(w)] = w /\ op[w] \in Ops
    BY DEF Inv, LoadForUpdate, WorkersInv, WorkerInv, TypeOK
  <1>2. Pair(w) \in Pairs /\ Actor(w) \in Users /\ Target(w) \in Users
    BY <1>1, LinkFacts DEF Pair, Actor, Target
  <1>3. CASE ~Rollback(w)
    <2>1. /\ EventsOf(op[w], s, Actor(w), Target(w)) # {}
          /\ loaded' = [loaded EXCEPT ![w] = s]
          /\ todo' = [todo EXCEPT ![w] = { e[1] : e \in d }]
          /\ pc' = [pc EXCEPT ![w] = "stubs"]
          /\ UNCHANGED << tables, guard, rowLock, op, link >>
      BY <1>3 DEF LoadForUpdate
    <2>2. { e[1] : e \in d } \subseteq Users
      <3>1. \A e \in d : e[1] \in {Actor(w), Target(w)}
        BY <1>1, DeltaUsers
      <3> QED BY <1>2, <3>1
    <2>3. s \in Snapshots
      BY <1>1, <1>2, ReadFacts
    <2>4. Permitted(op[w], s, Actor(w), Target(w))
      BY <1>1, <2>1, EventsArePermitted
    <2> HIDE DEF s, d
    <2>5. TypeOK'
      BY <1>1, <2>1, <2>2, <2>3 DEF TypeOK, tables, Phases
    <2>6. /\ PairsInv' /\ StreamIsSequential' /\ CountInv'
          /\ \A q \in Pairs : Read(q)' = Read(q)
      BY <2>1, TablesKept DEF Inv, tables
    <2>7. ASSUME NEW v \in Workers PROVE WorkerInv(v)'
      <3>1. CASE v = w
        <4>1. /\ pc'[w] = "stubs" /\ loaded'[w] = s /\ link'[w] = link[w] /\ op'[w] = op[w]
              /\ guard' = guard /\ accounts' = accounts
          BY <1>1, <2>1 DEF TypeOK, tables
        <4>2. PICK p \in Pairs : p = Pair(w)
          BY <1>2
        <4>3. Read(Pair(w))' = Read(p)' /\ p = Pair(w)'
          BY <4>1, <4>2 DEF Pair, Read, LoadPendingBetween, Open, loadRelationOutboxAggregateVersion
        <4>4. loaded'[w] = Read(Pair(w))'
          BY <2>6, <4>1, <4>2, <4>3 DEF s
        <4>5. Permitted(op[w], loaded[w], Actor(w), Target(w))'
          BY <2>4, <4>1 DEF Actor, Target, Permitted, EnsureCanSendFriendRequest,
            EnsureCanCancelFriendRequest, EnsureCanAcceptFriendRequest, EnsureCanRejectFriendRequest,
            EnsureCanFollow, EnsureCanUnfollow, EnsureCanUnfriend, EnsureCanBlock, EnsureCanUnblock,
            Outgoing, Incoming
        <4> QED BY <1>1, <3>1, <4>1, <4>2, <4>3, <4>4, <4>5 DEF WorkerInv
      <3>2. CASE v # w
        <4>1. Still(v)
          BY <1>1, <2>1, <2>6, <3>2 DEF Still, TypeOK, tables
        <4> QED BY <1>1, <4>1, StillWorker DEF Inv, WorkersInv
      <3> QED BY <3>1, <3>2
    <2> QED BY <2>5, <2>6, <2>7 DEF Inv, WorkersInv
  <1> QED BY <1>3, RollbackInv

\* The counter rows: a worker's own steps change its row locks, its todo and its
\* phase, and nothing else.
OwnStep(w) ==
    /\ pc' \in [Workers -> Phases] /\ todo' \in [Workers -> SUBSET Users]
    /\ rowLock' \in [Users -> Workers \cup {NoWorker}]
    /\ pc'[w] \in {"stubs", "update", "commit"}
    /\ \A v \in Workers \ {w} : /\ pc'[v] = pc[v] /\ todo'[v] = todo[v]
                                /\ \A u \in Users : rowLock[u] = v => rowLock'[u] = v
    /\ UNCHANGED << tables, guard, op, link, loaded >>
    /\ pc'[w] = "update" => Concerned(w) \ todo'[w] \subseteq { u \in Users : rowLock'[u] = w }
    /\ pc'[w] = "commit" => Concerned(w) \subseteq { u \in Users : rowLock'[u] = w }

LEMMA OwnStepInv ==
    ASSUME Inv, NEW w \in Workers, pc[w] \in {"stubs", "update", "commit"}, OwnStep(w)
    PROVE  Inv'
  <1>1. TypeOK /\ WorkerInv(w)
    BY DEF Inv, WorkersInv
  <1>2. TypeOK'
    BY <1>1 DEF TypeOK, OwnStep, tables
  <1>3. /\ PairsInv' /\ StreamIsSequential' /\ CountInv'
        /\ \A p \in Pairs : Read(p)' = Read(p)
    BY TablesKept DEF Inv, OwnStep, tables
  <1>4. ASSUME NEW v \in Workers PROVE WorkerInv(v)'
    <2>1. CASE v = w
      <3>1. /\ link[w] \in Links /\ guard[Pair(w)] = w /\ loaded[w] = Read(Pair(w))
            /\ Permitted(op[w], loaded[w], Actor(w), Target(w))
        BY <1>1 DEF WorkerInv
      <3>2. /\ link' = link /\ guard' = guard /\ loaded' = loaded /\ op' = op /\ accounts' = accounts
        BY DEF OwnStep, tables
      <3>3. Pair(w)' = Pair(w) /\ Pair(w) \in Pairs
        BY <3>1, <3>2, LinkFacts DEF Pair
      <3>4. Read(Pair(w))' = Read(Pair(w))
        BY <3>3 DEF Read, LoadPendingBetween, Open, loadRelationOutboxAggregateVersion, OwnStep, tables
      <3>5. Permitted(op[w], loaded[w], Actor(w), Target(w))'
        BY <3>1, <3>2 DEF Actor, Target, Permitted, EnsureCanSendFriendRequest,
            EnsureCanCancelFriendRequest, EnsureCanAcceptFriendRequest, EnsureCanRejectFriendRequest,
            EnsureCanFollow, EnsureCanUnfollow, EnsureCanUnfriend, EnsureCanBlock, EnsureCanUnblock,
            Outgoing, Incoming
      <3>6. Concerned(w)' = Concerned(w)
        BY <3>2 DEF Concerned, DeltasOf, TransitionOf, Actor, Target
      <3> QED BY <2>1, <3>1, <3>2, <3>3, <3>4, <3>5, <3>6 DEF WorkerInv, OwnStep, Mine
    <2>2. CASE v # w
      <3>1. Still(v)
        BY <1>3, <2>2 DEF Still, OwnStep, tables
      <3> QED BY <1>1, <3>1, StillWorker DEF Inv, WorkersInv
    <2> QED BY <2>1, <2>2
  <1> QED BY <1>2, <1>3, <1>4 DEF Inv, WorkersInv

LEMMA ConcernedUsers ==
    ASSUME TypeOK, NEW w \in Workers, link[w] \in Links
    PROVE  Concerned(w) \subseteq Users
  <1>1. op[w] \in Ops /\ Actor(w) \in Users /\ Target(w) \in Users
    BY LinkFacts DEF TypeOK, Actor, Target
  <1>2. \A d \in DeltasOf(w) : d[1] \in {Actor(w), Target(w)}
    BY <1>1, DeltaUsers DEF DeltasOf, TransitionOf
  <1> QED BY <1>1, <1>2 DEF Concerned

\* A stub's row is locked by its inserter, and was free.
LEMMA StubInv ==
    ASSUME Inv, NEW w \in Workers, NEW u \in Users, InsertStub(w, u)
    PROVE  Inv'
  <1>1. /\ TypeOK /\ pc[w] = "stubs" /\ link[w] \in Links
    BY DEF Inv, InsertStub, WorkersInv, WorkerInv
  <1>2. Concerned(w) \subseteq Users
    BY <1>1, ConcernedUsers
  <1>3. /\ pc' = [pc EXCEPT ![w] = IF todo[w] = {u} THEN "update" ELSE @]
        /\ todo' = [todo EXCEPT ![w] = IF @ = {u} THEN Concerned(w) ELSE @ \ {u}]
        /\ rowLock' = IF u \in DOMAIN counters THEN rowLock ELSE [rowLock EXCEPT ![u] = w]
        /\ u \notin DOMAIN counters => rowLock[u] \in {NoWorker, w}
        /\ UNCHANGED << tables, guard, op, link, loaded >>
    BY DEF InsertStub, Concerned, Free
  <1>4. /\ pc' \in [Workers -> Phases] /\ todo' \in [Workers -> SUBSET Users]
        /\ rowLock' \in [Users -> Workers \cup {NoWorker}]
    <2>1. pc' \in [Workers -> Phases]
      BY <1>1, <1>3 DEF TypeOK, Phases
    <2>2. todo' \in [Workers -> SUBSET Users]
      BY <1>1, <1>2, <1>3 DEF TypeOK
    <2>3. rowLock' \in [Users -> Workers \cup {NoWorker}]
      BY <1>1, <1>3 DEF TypeOK
    <2> QED BY <2>1, <2>2, <2>3
  <1>5. \/ pc'[w] = "stubs"
        \/ pc'[w] = "update" /\ todo'[w] = Concerned(w)
    BY <1>1, <1>3 DEF TypeOK
  <1>6. ASSUME NEW v \in Workers \ {w}
        PROVE  /\ pc'[v] = pc[v] /\ todo'[v] = todo[v]
               /\ \A x \in Users : rowLock[x] = v => rowLock'[x] = v
    BY <1>1, <1>3, NoWorkerAssumption DEF TypeOK
  <1>7. OwnStep(w)
    BY <1>3, <1>4, <1>5, <1>6 DEF OwnStep
  <1> QED BY <1>1, <1>7, OwnStepInv

\* An updated row stays locked.
LEMMA UpdateInv ==
    ASSUME Inv, NEW w \in Workers, NEW u \in Users, UpdateCounters(w, u)
    PROVE  Inv'
  <1>1. /\ TypeOK /\ pc[w] = "update" /\ link[w] \in Links /\ Concerned(w) \ todo[w] \subseteq Mine(w)
    BY DEF Inv, UpdateCounters, WorkersInv, WorkerInv
  <1>2. CASE ~Rollback(w)
    <2>1. /\ rowLock' = [rowLock EXCEPT ![u] = w]
          /\ todo' = [todo EXCEPT ![w] = @ \ {u}]
          /\ pc' = [pc EXCEPT ![w] = IF todo[w] = {u} THEN "commit" ELSE @]
          /\ UNCHANGED << tables, guard, op, link, loaded >>
          /\ rowLock[u] \in {NoWorker, w}
      BY <1>2 DEF UpdateCounters, Free
    <2>2. /\ pc' \in [Workers -> Phases] /\ todo' \in [Workers -> SUBSET Users]
          /\ rowLock' \in [Users -> Workers \cup {NoWorker}]
      BY <1>1, <2>1 DEF TypeOK, Phases
    <2>3. /\ todo'[w] = todo[w] \ {u}
          /\ pc'[w] = IF todo[w] = {u} THEN "commit" ELSE "update"
          /\ \A x \in Users : rowLock'[x] = IF x = u THEN w ELSE rowLock[x]
      BY <1>1, <2>1 DEF TypeOK
    <2>4. Concerned(w) \ todo'[w] \subseteq { x \in Users : rowLock'[x] = w }
      BY <1>1, <2>3 DEF Mine
    <2>5. ASSUME NEW v \in Workers \ {w}
          PROVE  /\ pc'[v] = pc[v] /\ todo'[v] = todo[v]
                 /\ \A x \in Users : rowLock[x] = v => rowLock'[x] = v
      BY <1>1, <2>1, NoWorkerAssumption DEF TypeOK
    <2>6. pc'[w] = "commit" => todo'[w] = {}
      BY <2>3
    <2>7. OwnStep(w)
      BY <2>1, <2>2, <2>3, <2>4, <2>5, <2>6 DEF OwnStep
    <2> QED BY <1>1, <2>7, OwnStepInv
  <1> QED BY <1>2, RollbackInv

-----------------------------------------------------------------------------
(* The commit *)

\* A counter row after the commit, and what the deltas are to it.
LEMMA CounterAfter ==
    ASSUME TypeOK, NEW w \in Workers, link[w] \in Links, Concerned(w) \subseteq Mine(w),
           counters' = [u \in DOMAIN counters \cup Mine(w) |->
                          IF u \in Mine(w) THEN Added(w, u) ELSE counters[u]],
           NEW u \in Users, NEW f \in Fields
    PROVE  LET up == Up(op[w], Actor(w), Target(w), u, f)
               down == Down(op[w], loaded[w], Actor(w), Target(w), u, f)
               change == (IF up THEN 1 ELSE 0) - (IF down THEN 1 ELSE 0)
           IN  /\ Counter(u, f)' = Counter(u, f) + change
               /\ u \in Mine(w) => Added(w, u)[f] = Counter(u, f) + change
  <1> DEFINE up == Up(op[w], Actor(w), Target(w), u, f)
             down == Down(op[w], loaded[w], Actor(w), Target(w), u, f)
             d == DeltasOf(w)
             change == (IF up THEN 1 ELSE 0) - (IF down THEN 1 ELSE 0)
  <1>1. op[w] \in Ops /\ Actor(w) # Target(w)
    BY LinkFacts DEF TypeOK, Actor, Target
  <1>2. (<< u, f, 1 >> \in d <=> up) /\ (<< u, f, -1 >> \in d <=> down)
    BY <1>1, DeltaFacts DEF DeltasOf, TransitionOf
  <1>3. Counter(u, f) \in Nat
    BY DEF Counter, TypeOK
  <1>4. ASSUME u \in Mine(w) PROVE Added(w, u)[f] = Counter(u, f) + change
    <2>1. Added(w, u)[f] = Counter(u, f) + (IF << u, f, 1 >> \in d THEN 1 ELSE 0)
                                         - (IF << u, f, -1 >> \in d THEN 1 ELSE 0)
      BY DEF Added, Counter, Zero
    <2> HIDE DEF up, down, d
    <2> QED BY <1>2, <1>3, <2>1
  <1>5. ASSUME u \notin Mine(w) PROVE ~up /\ ~down
    <2>1. << u, f, 1 >>[1] = u /\ << u, f, -1 >>[1] = u
      OBVIOUS
    <2>2. << u, f, 1 >> \notin d /\ << u, f, -1 >> \notin d
      BY <1>5, <2>1 DEF Concerned
    <2> QED BY <1>2, <2>2
  <1>6. CASE u \in Mine(w)
    <2>1. u \in DOMAIN counters' /\ counters'[u] = Added(w, u)
      BY <1>6
    <2>2. Counter(u, f)' = Added(w, u)[f]
      BY <2>1 DEF Counter
    <2> QED BY <1>4, <1>6, <2>2
  <1>7. CASE u \notin Mine(w)
    <2>1. Counter(u, f)' = Counter(u, f)
      BY <1>7 DEF Counter
    <2>2. change = 0
      BY <1>5, <1>7
    <2> HIDE DEF change
    <2> QED BY <1>3, <1>7, <2>1, <2>2 DEF change
  <1> QED BY <1>6, <1>7, <1>4

\* The commit replaces the pair's rows and moves each counter with its rows.
LEMMA SaveInv ==
    ASSUME Inv, NEW w \in Workers, Save(w)
    PROVE  Inv'
  <1> DEFINE p == Pair(w)
             s == loaded[w]
             n == TransitionOf(w).pair
  <1>1. /\ TypeOK /\ PairsInv /\ CountInv /\ link[w] \in Links /\ op[w] \in Ops /\ guard[p] = w
        /\ s = Read(p) /\ Permitted(op[w], s, Actor(w), Target(w)) /\ Concerned(w) \subseteq Mine(w)
    BY DEF Inv, Save, WorkersInv, WorkerInv, TypeOK
  <1>2. CASE ~Rollback(w)
    <2>1. /\ Persistable(w, n) /\ End(w) /\ accounts' = accounts /\ AppendEvent(w)
          /\ counters' = [u \in DOMAIN counters \cup Mine(w) |->
                            IF u \in Mine(w) THEN Added(w, u) ELSE counters[u]]
      BY <1>2 DEF Save
    <2>2. Replaced(p, n)
      BY <1>1, <2>1, SaveReplaces
    <2>3. /\ p \in Pairs /\ PairOK(s, link[w][1], link[w][2]) /\ s.pending = Open(p)
          /\ PairOK(n, link[w][1], link[w][2]) /\ n \in Snapshots
      <3>1. p \in Pairs /\ PairOK(s, link[w][1], link[w][2]) /\ s.pending = Open(p)
        BY <1>1, LinkFacts DEF PairsInv, Pair
      <3>2. PairOK(n, link[w][1], link[w][2])
        BY <1>1, <3>1, PairStaysOK DEF TransitionOf, Actor, Target
      <3>3. n \in Snapshots
        BY <3>2 DEF PairOK
      <3> QED BY <3>1, <3>2, <3>3
    <2>4. PICK e \in EventsOf(op[w], s, Actor(w), Target(w)) : outbox' = [outbox EXCEPT ![p] = Append(@, e)]
      BY <2>1 DEF AppendEvent
    <2>5. e \in Events /\ e.version = Len(outbox[p]) + 1
      <3>1. s \in Snapshots /\ s.version = Len(outbox[p])
        BY <1>1, <2>3, ReadFacts
      <3> QED BY <1>1, <3>1, EventFacts DEF Actor, Target
    <2>6. /\ outbox' \in [Pairs -> Seq(Events)]
          /\ outbox'[p] = Append(outbox[p], e)
          /\ \A q \in Pairs \ {p} : outbox'[q] = outbox[q]
      BY <1>1, <2>3, <2>4, <2>5 DEF TypeOK
    <2>7. StreamIsSequential'
      <3>1. ASSUME NEW q \in Pairs, NEW i \in DOMAIN outbox'[q]
            PROVE  outbox'[q][i].version = i
        <4>1. CASE q # p
          BY <2>6, <3>1, <4>1 DEF StreamIsSequential, Inv
        <4>2. CASE q = p
          <5>1. outbox[p] \in Seq(Events) /\ \A j \in DOMAIN outbox[p] : outbox[p][j].version = j
            BY <1>1, <2>3 DEF StreamIsSequential, Inv, TypeOK
          <5>2. PICK xs \in Seq(Events) : xs = outbox[p]
            BY <5>1
          <5>3. \A j \in DOMAIN Append(xs, e) : Append(xs, e)[j].version = j
            BY <2>5, <5>1, <5>2
          <5> QED BY <2>6, <3>1, <4>2, <5>2, <5>3
        <4> QED BY <4>1, <4>2
      <3> QED BY <3>1 DEF StreamIsSequential
    <2>8. ASSUME NEW u \in Users, NEW f \in Fields
          PROVE  /\ IsFiniteSet(RowsOf(u, f)') /\ Counter(u, f)' = Cardinality(RowsOf(u, f)')
                 /\ Counter(u, f)' \in Nat
                 /\ u \in Mine(w) => Added(w, u)[f] = Counter(u, f)'
      <3> DEFINE up == Up(op[w], Actor(w), Target(w), u, f)
                 down == Down(op[w], s, Actor(w), Target(w), u, f)
                 R == RowsOf(u, f)
                 old == Part(s, u, f)
                 new == Part(n, u, f)
      <3>1. IsFiniteSet(R) /\ Counter(u, f) = Cardinality(R)
        BY <1>1 DEF CountInv
      <3>2. /\ RowsOf(u, f)' = (R \ old) \cup new
            /\ old \subseteq R /\ R \cap new \subseteq old
        <4>1. p = {link[w][1], link[w][2]}
          BY DEF Pair
        <4> HIDE DEF p, s, n
        <4> QED BY <1>1, <2>2, <2>3, <4>1, RowsAfter
      <3>3. Moves(up, down, old, new)
        BY <1>1, <2>3, CountsMove DEF TransitionOf, Actor, Target
      <3>4. /\ Counter(u, f)' = Counter(u, f) + ((IF up THEN 1 ELSE 0) - (IF down THEN 1 ELSE 0))
            /\ u \in Mine(w) => Added(w, u)[f] = Counter(u, f)'
        BY <1>1, <2>1, CounterAfter
      <3>5. PICK S : S = RowsOf(u, f)'
        OBVIOUS
      <3>6. PICK c : c = Counter(u, f)'
        OBVIOUS
      <3>7. S = (R \ old) \cup new /\ old \subseteq R /\ R \cap new \subseteq old /\ IsFiniteSet(R)
        BY <3>1, <3>2, <3>5
      <3> HIDE DEF up, down, R, old, new
      <3>8. Cardinality(R) \in Nat
        BY <3>1, FS_CardinalityType
      <3>9. IsFiniteSet(S) /\ c = Cardinality(S)
        <4>1. c = Cardinality(R) + ((IF up THEN 1 ELSE 0) - (IF down THEN 1 ELSE 0))
          BY <3>1, <3>4, <3>6
        <4>2. CASE ~up /\ ~down /\ new = old
          <5>1. S = R
            BY <3>7, <4>2
          <5> QED BY <3>1, <3>8, <4>1, <4>2, <5>1
        <4>3. CASE up /\ ~down /\ old = {} /\ \E x : new = {x}
          <5>1. PICK x : new = {x}
            BY <4>3
          <5>2. S = R \cup {x} /\ x \notin R
            BY <3>7, <4>3, <5>1
          <5>3. IsFiniteSet(R \cup {x}) /\ Cardinality(R \cup {x}) = Cardinality(R) + 1
            BY <3>7, <5>2, FS_AddElement
          <5> QED BY <3>8, <4>1, <4>3, <5>2, <5>3
        <4>4. CASE ~up /\ down /\ new = {} /\ \E x : old = {x}
          <5>1. PICK x : old = {x}
            BY <4>4
          <5>2. S = R \ {x} /\ x \in R
            BY <3>7, <4>4, <5>1
          <5>3. IsFiniteSet(R \ {x}) /\ Cardinality(R \ {x}) = Cardinality(R) - 1
            BY <3>7, <5>2, FS_RemoveElement
          <5> QED BY <3>8, <4>1, <4>4, <5>2, <5>3
        <4> QED BY <3>3, <4>2, <4>3, <4>4 DEF Moves
      <3>10. c \in Nat
        BY <3>9, FS_CardinalityType
      <3> QED BY <3>4, <3>5, <3>6, <3>9, <3>10
    <2>9. CountInv'
      BY <2>8 DEF CountInv
    <2>10. DOMAIN counters' \subseteq Users /\ counters' \in [DOMAIN counters' -> [Fields -> Nat]]
      <3>1. DOMAIN counters' = DOMAIN counters \cup Mine(w) /\ DOMAIN counters \subseteq Users
        BY <1>1, <2>1 DEF TypeOK
      <3>2. Mine(w) \subseteq Users
        BY DEF Mine
      <3>3. ASSUME NEW u \in DOMAIN counters' PROVE counters'[u] \in [Fields -> Nat]
        <4>1. CASE u \in Mine(w)
          <5>1. counters'[u] = Added(w, u)
            BY <2>1, <4>1
          <5>2. \A f \in Fields : Added(w, u)[f] \in Nat
            BY <2>8, <3>2, <4>1
          <5>3. Added(w, u) = [f \in Fields |-> Added(w, u)[f]]
            BY DEF Added
          <5> QED BY <5>1, <5>2, <5>3
        <4>2. CASE u \notin Mine(w)
          BY <1>1, <2>1, <3>1, <4>2 DEF TypeOK
        <4> QED BY <4>1, <4>2
      <3> QED BY <2>1, <3>1, <3>2, <3>3
    <2>11. /\ requests' \subseteq Requests /\ friends' \subseteq Pairs
           /\ follows' \subseteq Links /\ blocks' \subseteq Links
      BY <1>1, <2>2, <2>3, SnapshotFields DEF Replaced, TypeOK
    <2>12. TypeOK'
      BY <1>1, <2>1, <2>6, <2>10, <2>11, EndFrame DEF TypeOK
    <2>13. PairsInv' /\ \A q \in Pairs \ {p} : Read(q)' = Read(q)
      BY <1>1, <2>2, <2>3, <2>6, <2>12, ReadAfter DEF Pair
    <2>14. ASSUME NEW v \in Workers PROVE WorkerInv(v)'
      <3>1. CASE v = w
        BY <1>1, <2>1, <3>1, EndFrame, IdleWorker
      <3>2. CASE v # w
        <4>1. Still(v)
          BY <1>1, <2>1, <2>13, <3>2, EndFrame DEF Still
        <4> QED BY <1>1, <4>1, StillWorker DEF Inv, WorkersInv
      <3> QED BY <3>1, <3>2
    <2> QED BY <2>7, <2>9, <2>12, <2>13, <2>14 DEF Inv, WorkersInv
  <1> QED BY <1>2, RollbackInv

-----------------------------------------------------------------------------
(* The theorems *)

LEMMA InitInv == Init => Inv
  <1> SUFFICES ASSUME Init PROVE Inv
    OBVIOUS
  <1>1. TypeOK
    BY DEF Init, TypeOK, Phases, Ops, Nothing, Snapshots, NoLink, Zero
  <1>2. PairsInv
    <2>1. ASSUME NEW l \in Links, NEW p, p = {l[1], l[2]}
          PROVE  PairOK(Read(p), l[1], l[2]) /\ Read(p).pending = Open(p)
      <3>1. p \in Pairs
        BY <2>1, LinkFacts
      <3>2. Open(p) = {} /\ LoadPendingBetween(p) = {}
        BY DEF Open, LoadPendingBetween, Init
      <3>3. /\ Read(p) \in Snapshots /\ Read(p).pending = {} /\ Read(p).friends = {}
            /\ Read(p).follows = {} /\ Read(p).blocks = {}
        BY <1>1, <3>1, <3>2, ReadFacts DEF Init
      <3> QED BY <3>2, <3>3 DEF PairOK
    <2> QED BY <2>1 DEF PairsInv
  <1>3. StreamIsSequential
    BY DEF Init, StreamIsSequential
  <1>4. CountInv
    <2>1. ASSUME NEW u \in Users, NEW f \in Fields
          PROVE  RowsOf(u, f) = {} /\ Counter(u, f) = 0
      BY DEF Init, RowsOf, Counter, Fields
    <2> QED BY <2>1, FS_EmptySet DEF CountInv
  <1>5. WorkersInv
    BY DEF Init, WorkersInv, WorkerInv
  <1> QED BY <1>1, <1>2, <1>3, <1>4, <1>5 DEF Inv

LEMMA NextInv == Inv /\ [WriteNext]_vars => Inv'
  <1> SUFFICES ASSUME Inv, [WriteNext]_vars PROVE Inv'
    OBVIOUS
  <1>1. ASSUME NEW u \in Users, handleAccountEvent(u) PROVE Inv'
    BY <1>1, ProjectInv DEF handleAccountEvent, handleAccountCreatedEvent, handleAccountUpdatedEvent
  <1>2. ASSUME NEW w \in Workers, NEW l \in Links, Handle(w, l) PROVE Inv'
    <2>1. \E o \in Ops : LockPair(w, o, l)
      BY <1>2 DEF Handle, Ops, SendFriend, CancelFriend, AcceptFriend, RejectFriend, FollowUser,
                  UnfollowUser, UnfriendUser, BlockUser, UnblockUser
    <2> QED BY <2>1, LockInv
  <1>3. ASSUME NEW w \in Workers, LoadForUpdate(w) PROVE Inv'
    BY <1>3, LoadInv
  <1>4. ASSUME NEW w \in Workers, NEW u \in Users, InsertStub(w, u) PROVE Inv'
    BY <1>4, StubInv
  <1>5. ASSUME NEW w \in Workers, NEW u \in Users, UpdateCounters(w, u) PROVE Inv'
    BY <1>5, UpdateInv
  <1>6. ASSUME NEW w \in Workers, Save(w) PROVE Inv'
    BY <1>6, SaveInv
  <1>7. ASSUME NEW w \in Workers, DeadlockVictim(w) \/ Abort(w) PROVE Inv'
    BY <1>7, RollbackInv DEF DeadlockVictim, Abort
  <1>8. CASE UNCHANGED vars
    <2>1. TypeOK'
      BY <1>8 DEF Inv, TypeOK, vars, tables
    <2>2. /\ PairsInv' /\ StreamIsSequential' /\ CountInv'
          /\ \A p \in Pairs : Read(p)' = Read(p)
      BY <1>8, TablesKept DEF Inv, vars, tables
    <2>3. ASSUME NEW v \in Workers PROVE WorkerInv(v)'
      <3>1. Still(v)
        BY <1>8, <2>2 DEF Still, vars, tables
      <3> QED BY <3>1, StillWorker DEF Inv, WorkersInv
    <2> QED BY <2>1, <2>2, <2>3 DEF Inv, WorkersInv
  <1> QED BY <1>1, <1>2, <1>3, <1>4, <1>5, <1>6, <1>7, <1>8 DEF WriteNext, Step

LEMMA Invariance == Spec => []Inv
  BY InitInv, NextInv, PTL DEF Spec

\* The rows of a pair are typed, at most one request is open and none between
\* friends, and the pair's events are numbered without gap, whatever commands
\* run at the same time: each loads and commits under the pair's guard row.
THEOREM PairsAreSound == Spec => []PairIsSound
  <1>1. Inv => PairIsSound
    <2> SUFFICES ASSUME Inv PROVE OneOpenRequest
      BY DEF PairIsSound, Inv
    <2>1. ASSUME NEW p \in Pairs
          PROVE  Cardinality(Open(p)) <= 1 /\ (p \in friends => Open(p) = {})
      <3>1. PICK l \in Links : p = {l[1], l[2]}
        <4>1. PICK a \in Users, t \in Users : p = {a, t} /\ a # t
          BY DEF Pairs
        <4>2. << a, t >> \in Links /\ << a, t >>[1] = a /\ << a, t >>[2] = t
          BY <4>1 DEF Links
        <4> QED BY <4>1, <4>2
      <3>2. PairOK(Read(p), l[1], l[2]) /\ Read(p).pending = Open(p)
        BY <3>1 DEF Inv, PairsInv
      <3>3. Read(p).friends = friends \cap {p}
        BY ReadFacts DEF Inv
      <3>4. \A x, y \in Open(p) : x = y
        BY <3>2 DEF PairOK
      <3>5. p \in friends => Open(p) = {}
        BY <3>2, <3>3 DEF PairOK
      <3>6. CASE Open(p) = {}
        BY <3>5, <3>6, FS_EmptySet
      <3>7. CASE Open(p) # {}
        <4>1. PICK x : Open(p) = {x}
          BY <3>4, <3>7
        <4>2. Cardinality(Open(p)) = 1
          BY <4>1, FS_Singleton
        <4> QED BY <3>5, <4>2
      <3> QED BY <3>6, <3>7
    <2> QED BY <2>1 DEF OneOpenRequest
  <1> QED BY <1>1, Invariance, PTL

\* A block leaves nothing else in its pair, also when a request, an acceptance or
\* a follow was under way: the loser of the guard row loads what the block left.
THEOREM BlocksSever == Spec => []BlockSevers
  <1>1. Inv => BlockSevers
    <2> SUFFICES ASSUME Inv, NEW l \in blocks, NEW p, p = {l[1], l[2]}
                 PROVE  p \notin friends /\ Between(p, follows) = {} /\ Open(p) = {}
      BY DEF BlockSevers
    <2>1. l \in Links /\ TypeOK
      BY DEF Inv, TypeOK
    <2>2. p \in Pairs
      BY <2>1, LinkFacts
    <2>3. PairOK(Read(p), l[1], l[2]) /\ Read(p).pending = Open(p)
      BY <2>1 DEF Inv, PairsInv
    <2>4. /\ Read(p).friends = friends \cap {p}
          /\ Read(p).follows = { m \in follows : {m[1], m[2]} = p }
          /\ l \in Read(p).blocks
      BY <2>1, <2>2, ReadFacts
    <2> QED BY <2>3, <2>4 DEF PairOK, Between
  <1> QED BY <1>1, Invariance, PTL

\* Every counter is the number of the rows it counts, in every state: commands
\* on different pairs that share a counter row lose no update, since each holds
\* the row from its UPDATE to its commit.
THEOREM CountersAreExact == Spec => []CountersMatch
  <1>1. Inv => CountersMatch
    <2> SUFFICES ASSUME Inv, NEW u \in Users
                 PROVE  /\ Counter(u, "friends") = Cardinality({ p \in friends : u \in p })
                        /\ Counter(u, "following") = Cardinality({ l \in follows : l[1] = u })
                        /\ Counter(u, "followers") = Cardinality({ l \in follows : l[2] = u })
                        /\ Counter(u, "blocked") = Cardinality({ l \in blocks : l[1] = u })
                        /\ Counter(u, "pendingOut") = Cardinality({ r \in requests : r.link[1] = u })
                        /\ Counter(u, "pendingIn") = Cardinality({ r \in requests : r.link[2] = u })
      BY DEF CountersMatch
    <2>1. \A f \in Fields : Counter(u, f) = Cardinality(RowsOf(u, f))
      BY DEF Inv, CountInv
    <2>2. /\ RowsOf(u, "friends") = { p \in friends : u \in p }
          /\ RowsOf(u, "following") = { l \in follows : l[1] = u }
          /\ RowsOf(u, "followers") = { l \in follows : l[2] = u }
          /\ RowsOf(u, "blocked") = { l \in blocks : l[1] = u }
          /\ RowsOf(u, "pendingOut") = { r \in requests : r.link[1] = u }
          /\ RowsOf(u, "pendingIn") = { r \in requests : r.link[2] = u }
      BY DEF RowsOf
    <2> QED BY <2>1, <2>2 DEF Fields
  <1> QED BY <1>1, Invariance, PTL

-----------------------------------------------------------------------------
(* The read model: the inductive invariant *)

\* What a row r that has seen every event may show beside the pair s: blocks remove
\* friendships and follows without an event of their own.
Agrees(r, s, blocked) ==
    /\ r.pending = s.pending
    /\ r.blocks = s.blocks
    /\ s.friends \subseteq r.friends
    /\ s.follows \subseteq r.follows
    /\ blocked \/ (r.friends = s.friends /\ r.follows = s.follows)
    /\ s.blocks # {} => blocked

\* h is the row after each of the pair's events.
History(h, p) ==
    /\ h[0] = NoRow
    /\ \A i \in 1 .. Len(outbox[p]) : h[i] = handleRelationshipOutboxEvent(h[i - 1], outbox[p][i])
    /\ Agrees(h[Len(outbox[p])], Read(p), Blocked(p))

\* The row is the one before the event at hand, or already the one after it.
Reached(h, p) ==
    \/ ~saving[p].on /\ row[p] = h[offset[p]]
    \/ offset[p] < Len(outbox[p]) /\ row[p] = h[offset[p] + 1]

HistoryInv(p) == \E h \in [Nat -> Rows] : History(h, p) /\ (p \notin parked => Reached(h, p))

SavingInv(p) ==
    /\ saving[p].on => offset[p] < Len(outbox[p])
    /\ saving[p].left # {} => saving[p].on

\* The tables still to be written hold what the row held, the others what it holds.
EdgesInv(p) ==
    p \notin torn =>
        /\ ~saving[p].on => edges[p] = row[p]
        /\ saving[p].on => \A x \in EdgeTables :
              edges[p][x] = IF x \in saving[p].left THEN saving[p].current[x] ELSE row[p][x]

ReadInv ==
    /\ Inv
    /\ ReadTypeOK
    /\ \A p \in Pairs : HistoryInv(p) /\ SavingInv(p) /\ EdgesInv(p)

-----------------------------------------------------------------------------
(* The projection of an event *)

\* The row after an event, column by column.
Projected(q, r, e) ==
    /\ q.pending = (CASE e.op = "Send" -> {[id |-> e.id, link |-> e.link]}
                      [] e.op \in {"Accept", "Block"} -> {}
                      [] e.op \in {"Cancel", "Reject"} /\ (\E x \in r.pending : x.id = e.id) -> {}
                      [] OTHER -> r.pending)
    /\ q.friends = (CASE e.op = "Accept" -> {{e.link[1], e.link[2]}}
                      [] e.op = "Unfriend" -> {}
                      [] OTHER -> r.friends)
    /\ q.follows = (CASE e.op = "Follow" -> r.follows \cup {e.link}
                      [] e.op = "Unfollow" -> r.follows \ {e.link}
                      [] OTHER -> r.follows)
    /\ q.blocks = (CASE e.op = "Block" -> r.blocks \cup {e.link}
                     [] e.op = "Unblock" -> r.blocks \ {e.link}
                     [] OTHER -> r.blocks)
    /\ q = [pending |-> q.pending, friends |-> q.friends, follows |-> q.follows, blocks |-> q.blocks]

LEMMA RowFields ==
    ASSUME NEW r \in Rows
    PROVE  /\ r.pending \subseteq Requests /\ r.friends \subseteq Pairs
           /\ r.follows \subseteq Links /\ r.blocks \subseteq Links
           /\ r = [pending |-> r.pending, friends |-> r.friends, follows |-> r.follows, blocks |-> r.blocks]
  BY DEF Rows

LEMMA EqualRows ==
    ASSUME NEW r \in Rows, NEW z \in Rows, \A x \in EdgeTables : r[x] = z[x]
    PROVE  r = z
  <1>1. r.pending = z.pending /\ r.friends = z.friends /\ r.follows = z.follows /\ r.blocks = z.blocks
    BY DEF EdgeTables
  <1> QED BY <1>1, RowFields

LEMMA ProjectionFacts ==
    ASSUME NEW r \in Rows, NEW e, e.op \in Ops
    PROVE  Projected(handleRelationshipOutboxEvent(r, e), r, e)
  <1> USE DEF Projected, handleRelationshipOutboxEvent, Ops, Rows, clearPendingRequest
  <1>1. CASE e.op = "Send"
    BY <1>1 DEF projectFriendRequestSent
  <1>2. CASE e.op = "Cancel"
    BY <1>2 DEF projectFriendRequestCancelled
  <1>3. CASE e.op = "Reject"
    BY <1>3 DEF projectFriendRequestRejected
  <1>4. CASE e.op = "Accept"
    BY <1>4 DEF projectFriendRequestAccepted
  <1>5. CASE e.op = "Follow"
    BY <1>5 DEF projectFollowed, setDirectionalBool
  <1>6. CASE e.op = "Unfollow"
    BY <1>6 DEF projectUnfollowed, clearDirectionalBool
  <1>7. CASE e.op = "Block"
    BY <1>7 DEF projectBlocked, setDirectionalBool
  <1>8. CASE e.op = "Unblock"
    BY <1>8 DEF projectUnblocked, clearDirectionalBool
  <1>9. CASE e.op = "Unfriend"
    BY <1>9 DEF projectUnfriended
  <1> QED BY <1>1, <1>2, <1>3, <1>4, <1>5, <1>6, <1>7, <1>8, <1>9

LEMMA ProjectionType ==
    ASSUME NEW r \in Rows, NEW e \in Events
    PROVE  handleRelationshipOutboxEvent(r, e) \in Rows
  <1> DEFINE q == handleRelationshipOutboxEvent(r, e)
             opened == [id |-> e.id, link |-> e.link]
  <1>1. e.op \in Ops /\ e.link \in Links /\ opened \in Requests
    BY DEF Events, Requests
  <1>2. {e.link[1], e.link[2]} \in Pairs
    BY <1>1, LinkFacts
  <1>3. Projected(q, r, e)
    BY <1>1, ProjectionFacts
  <1> HIDE DEF q, opened
  <1>4. /\ q.pending \subseteq Requests /\ q.friends \subseteq Pairs
        /\ q.follows \subseteq Links /\ q.blocks \subseteq Links
    BY <1>1, <1>2, <1>3, RowFields DEF Projected, opened
  <1>5. q \in Rows
    BY <1>3, <1>4 DEF Projected, Rows
  <1> QED BY <1>5 DEF q

\* An event that is projected a second time changes nothing: it may be redelivered.
LEMMA ProjectedTwice ==
    ASSUME NEW r \in Rows, NEW e \in Events
    PROVE  LET q == handleRelationshipOutboxEvent(r, e) IN handleRelationshipOutboxEvent(q, e) = q
  <1> DEFINE q == handleRelationshipOutboxEvent(r, e)
             z == handleRelationshipOutboxEvent(q, e)
  <1>1. e.op \in Ops
    BY DEF Events
  <1>2. q \in Rows
    BY ProjectionType
  <1>3. Projected(q, r, e)
    BY <1>1, ProjectionFacts
  <1>4. Projected(z, q, e)
    BY <1>1, <1>2, ProjectionFacts
  <1> HIDE DEF q, z
  <1>5. z.pending = q.pending /\ z.friends = q.friends
    BY <1>1, <1>3, <1>4 DEF Projected, Ops
  <1>6. z.follows = q.follows /\ z.blocks = q.blocks
    BY <1>1, <1>3, <1>4 DEF Projected, Ops
  <1>7. z = q
    BY <1>3, <1>4, <1>5, <1>6 DEF Projected
  <1> QED BY <1>7 DEF q, z

\* What the event of a command says.
LEMMA EventSays ==
    ASSUME NEW l \in Links, NEW s \in Snapshots, NEW o \in Ops, NEW e \in EventsOf(o, s, l[1], l[2])
    PROVE  /\ e.op = o
           /\ o = "Send" => e.link = << l[1], l[2] >> /\ e.id = s.version + 1
           /\ o \in {"Cancel", "Accept", "Reject"} => \E x \in s.pending : e.link = x.link /\ e.id = x.id
           /\ o \in {"Follow", "Unfollow", "Unfriend", "Block", "Unblock"} => e.link = << l[1], l[2] >>
  <1>1. CASE o \in {"Cancel", "Accept", "Reject"}
    <2>1. \E r \in s.pending : e = Emitted(o, s, r.link, r.id)
      BY <1>1 DEF EventsOf, CancelFriendRequest, AcceptFriendRequest, RejectFriendRequest
    <2> QED BY <1>1, <2>1 DEF Emitted
  <1>2. CASE o = "Send"
    BY <1>2 DEF EventsOf, SendFriendRequest, Emitted
  <1>3. CASE o \in {"Follow", "Unfollow", "Unfriend", "Block", "Unblock"}
    <2>1. e = Emitted(o, s, << l[1], l[2] >>, 0)
      BY <1>3 DEF EventsOf, Follow, Unfollow, Unfriend, Block, Unblock
    <2> QED BY <1>3, <2>1 DEF Emitted
  <1> QED BY <1>1, <1>2, <1>3 DEF Ops

\* A row that agrees with the pair agrees with it after a command and its event.
LEMMA AgreesAfter ==
    ASSUME NEW l \in Links, NEW s, PairOK(s, l[1], l[2]), NEW o \in Ops,
           NEW e \in EventsOf(o, s, l[1], l[2]),
           NEW r \in Rows, NEW blocked \in BOOLEAN, Agrees(r, s, blocked)
    PROVE  Agrees(handleRelationshipOutboxEvent(r, e), Transition(o, s, l[1], l[2]).pair,
                  blocked \/ o = "Block")
  <1> DEFINE a == l[1]
             t == l[2]
             q == handleRelationshipOutboxEvent(r, e)
             n == Transition(o, s, a, t).pair
  <1>1. s \in Snapshots
    BY DEF PairOK
  <1>2. Becomes(n, o, s, a, t)
    BY <1>1, NextPair
  <1>3. /\ e.op = o
        /\ o = "Send" => e.link = << a, t >> /\ e.id = s.version + 1
        /\ o \in {"Cancel", "Accept", "Reject"} => \E x \in s.pending : e.link = x.link /\ e.id = x.id
        /\ o \in {"Follow", "Unfollow", "Unfriend", "Block", "Unblock"} => e.link = << a, t >>
    BY <1>1, EventSays
  <1>4. Projected(q, r, e)
    BY <1>3, ProjectionFacts
  <1>5. o = "Accept" => {e.link[1], e.link[2]} = {a, t}
    BY <1>3, PairRows
  <1> HIDE DEF q, n, a, t
  <1>6. q.pending = n.pending
    <2>1. CASE o \in {"Cancel", "Reject"}
      <3>1. \E x \in r.pending : x.id = e.id
        BY <1>3, <2>1 DEF Agrees
      <3> QED BY <1>2, <1>3, <1>4, <2>1, <3>1 DEF Becomes, Projected
    <2>2. CASE o \notin {"Cancel", "Reject"}
      BY <1>2, <1>3, <1>4, <2>2 DEF Becomes, Projected, Agrees, Ops
    <2> QED BY <2>1, <2>2
  <1>7. q.blocks = n.blocks
    BY <1>2, <1>3, <1>4 DEF Becomes, Projected, Agrees, Ops
  <1>8. n.friends \subseteq q.friends /\ (blocked \/ o = "Block" \/ n.friends = q.friends)
    BY <1>2, <1>3, <1>4, <1>5 DEF Becomes, Projected, Agrees, Ops
  <1>9. n.follows \subseteq q.follows /\ (blocked \/ o = "Block" \/ n.follows = q.follows)
    BY <1>2, <1>3, <1>4 DEF Becomes, Projected, Agrees, Ops
  <1>10. n.blocks # {} => blocked \/ o = "Block"
    BY <1>2 DEF Becomes, Agrees, Ops
  <1>11. Agrees(q, n, blocked \/ o = "Block")
    BY <1>6, <1>7, <1>8, <1>9, <1>10 DEF Agrees
  <1> QED BY <1>11 DEF q, n, a, t

-----------------------------------------------------------------------------
(* Steps of the write side *)

LEMMA WriteCases ==
    ASSUME [WriteNext]_vars
    PROVE  \/ UNCHANGED << requests, friends, follows, blocks, outbox >>
           \/ \E w \in Workers : Save(w) /\ ~Rollback(w)
  <1>1. ASSUME NEW u \in Users, handleAccountEvent(u)
        PROVE  UNCHANGED << requests, friends, follows, blocks, outbox >>
    BY <1>1 DEF handleAccountEvent, handleAccountCreatedEvent, handleAccountUpdatedEvent, ProjectAccount
  <1>2. ASSUME NEW w \in Workers, NEW l \in Links, Handle(w, l)
        PROVE  UNCHANGED << requests, friends, follows, blocks, outbox >>
    BY <1>2 DEF Handle, LockPair, tables, SendFriend, CancelFriend, AcceptFriend, RejectFriend,
                FollowUser, UnfollowUser, UnfriendUser, BlockUser, UnblockUser
  <1>3. ASSUME NEW w \in Workers, Rollback(w)
        PROVE  UNCHANGED << requests, friends, follows, blocks, outbox >>
    BY <1>3 DEF Rollback, tables
  <1>4. ASSUME NEW w \in Workers, LoadForUpdate(w)
        PROVE  UNCHANGED << requests, friends, follows, blocks, outbox >>
    BY <1>3, <1>4 DEF LoadForUpdate, tables
  <1>5. ASSUME NEW w \in Workers, NEW u \in Users, InsertStub(w, u) \/ UpdateCounters(w, u)
        PROVE  UNCHANGED << requests, friends, follows, blocks, outbox >>
    BY <1>3, <1>5 DEF InsertStub, UpdateCounters, tables
  <1>6. ASSUME NEW w \in Workers, DeadlockVictim(w) \/ Abort(w)
        PROVE  UNCHANGED << requests, friends, follows, blocks, outbox >>
    BY <1>3, <1>6 DEF DeadlockVictim, Abort
  <1>7. CASE UNCHANGED vars
    BY <1>7 DEF vars, tables
  <1> QED BY <1>1, <1>2, <1>3, <1>4, <1>5, <1>6, <1>7 DEF WriteNext, Step

\* A commit changes one pair as the command says, and appends its event.
LEMMA SaveChanges ==
    ASSUME Inv, Inv', NEW w \in Workers, Save(w), ~Rollback(w)
    PROVE  \E l \in Links, o \in Ops, p \in Pairs, e \in Events :
             /\ p = {l[1], l[2]}
             /\ PairOK(Read(p), l[1], l[2])
             /\ e \in EventsOf(o, Read(p), l[1], l[2])
             /\ outbox'[p] = Append(outbox[p], e)
             /\ \A q \in Pairs \ {p} : outbox'[q] = outbox[q] /\ Read(q)' = Read(q)
             /\ LET n == Transition(o, Read(p), l[1], l[2]).pair
                IN  /\ Read(p)'.pending = n.pending /\ Read(p)'.friends = n.friends
                    /\ Read(p)'.follows = n.follows /\ Read(p)'.blocks = n.blocks
  <1>a. PICK l, o, p, n : l = link[w] /\ o = op[w] /\ p = Pair(w) /\ n = TransitionOf(w).pair
    OBVIOUS
  <1>1. /\ TypeOK /\ TypeOK' /\ PairsInv /\ l \in Links /\ o \in Ops /\ p = {l[1], l[2]} /\ p \in Pairs
        /\ loaded[w] = Read(p) /\ Permitted(o, loaded[w], Actor(w), Target(w))
    BY <1>a, LinkFacts DEF Inv, Save, WorkersInv, WorkerInv, TypeOK, Pair
  <1>2. Persistable(w, n) /\ AppendEvent(w)
    BY <1>a DEF Save
  <1>3. Replaced(p, n)
    BY <1>a, <1>1, <1>2, SaveReplaces
  <1>4. PairOK(Read(p), l[1], l[2])
    BY <1>1 DEF PairsInv
  <1>5. n = Transition(o, Read(p), l[1], l[2]).pair
    BY <1>a, <1>1 DEF TransitionOf, Actor, Target
  <1>6. PairOK(n, l[1], l[2])
    BY <1>a, <1>1, <1>4, <1>5, PairStaysOK DEF Actor, Target
  <1>7. PICK e \in EventsOf(o, Read(p), l[1], l[2]) : outbox' = [outbox EXCEPT ![p] = Append(@, e)]
    BY <1>a, <1>1, <1>2 DEF AppendEvent, Actor, Target
  <1>8. e \in Events
    BY <1>1, <1>4, <1>7, EventFacts DEF PairOK
  <1>9. outbox'[p] = Append(outbox[p], e) /\ \A q \in Pairs \ {p} : outbox'[q] = outbox[q]
    BY <1>1, <1>7 DEF TypeOK
  <1>10. /\ \A q \in Pairs \ {p} : Read(q)' = Read(q)
         /\ Read(p)'.pending = n.pending /\ Read(p)'.friends = n.friends
         /\ Read(p)'.follows = n.follows /\ Read(p)'.blocks = n.blocks
    <2>1. /\ TypeOK /\ TypeOK' /\ PairsInv /\ l \in Links /\ p = {l[1], l[2]}
          /\ \A q \in Pairs \ {p} : outbox'[q] = outbox[q]
      BY <1>1, <1>9
    <2>2. \A q \in Pairs \ {p} : Read(q)' = Read(q)
      BY <1>3, <1>6, <2>1, ReadAfter
    <2>3. SameRows(Read(p)', n)
      BY <1>3, <1>6, <2>1, ReadAfter
    <2> QED BY <2>2, <2>3 DEF SameRows
  <1> QED BY <1>1, <1>4, <1>5, <1>7, <1>8, <1>9, <1>10

\* Nothing of a pair changes.
PairKept(p) ==
    /\ outbox'[p] = outbox[p] /\ Read(p)' = Read(p)
    /\ row'[p] = row[p] /\ edges'[p] = edges[p] /\ offset'[p] = offset[p] /\ saving'[p] = saving[p]
    /\ p \in torn' <=> p \in torn
    /\ p \in parked' <=> p \in parked

LEMMA KeptPair ==
    ASSUME NEW p \in Pairs, HistoryInv(p), SavingInv(p), EdgesInv(p), PairKept(p)
    PROVE  HistoryInv(p)' /\ SavingInv(p)' /\ EdgesInv(p)'
  <1>1. PICK h \in [Nat -> Rows] : History(h, p) /\ (p \notin parked => Reached(h, p))
    BY DEF HistoryInv
  <1>2. Blocked(p)' = Blocked(p)
    BY DEF Blocked, PairKept
  <1>3. History(h, p)' /\ (p \notin parked' => Reached(h, p)')
    BY <1>1, <1>2 DEF History, Reached, PairKept
  <1>4. HistoryInv(p)'
    BY <1>3 DEF HistoryInv
  <1>5. SavingInv(p)' /\ EdgesInv(p)'
    BY DEF SavingInv, EdgesInv, PairKept
  <1> QED BY <1>4, <1>5

\* The history of a pair grows by one event, whatever the projection is doing.
LEMMA HistoryGrows ==
    ASSUME ReadInv, UNCHANGED readVars, NEW l \in Links, NEW o \in Ops, NEW p \in Pairs, NEW e \in Events,
           p = {l[1], l[2]}, PairOK(Read(p), l[1], l[2]), e \in EventsOf(o, Read(p), l[1], l[2]),
           outbox'[p] = Append(outbox[p], e),
           NEW n, n = Transition(o, Read(p), l[1], l[2]).pair,
           Read(p)'.pending = n.pending, Read(p)'.friends = n.friends,
           Read(p)'.follows = n.follows, Read(p)'.blocks = n.blocks
    PROVE  HistoryInv(p)' /\ SavingInv(p)' /\ EdgesInv(p)'
  <1>a. PICK len : len = Len(outbox[p])
    OBVIOUS
  <1>1. PICK h \in [Nat -> Rows] : History(h, p) /\ (p \notin parked => Reached(h, p))
    BY DEF ReadInv, HistoryInv
  <1>2. /\ outbox[p] \in Seq(Events) /\ len \in Nat /\ offset[p] \in Nat /\ offset[p] <= len
        /\ DOMAIN outbox[p] = 1 .. len
    BY <1>a DEF ReadInv, Inv, TypeOK, ReadTypeOK
  <1>3. /\ Len(outbox'[p]) = len + 1 /\ outbox'[p][len + 1] = e
        /\ \A i \in 1 .. len : outbox'[p][i] = outbox[p][i]
        /\ DOMAIN outbox'[p] = 1 .. len + 1
    <2>1. PICK xs \in Seq(Events) : xs = outbox[p]
      BY <1>2
    <2>2. /\ Len(Append(xs, e)) = Len(xs) + 1 /\ Append(xs, e)[Len(xs) + 1] = e
          /\ \A i \in 1 .. Len(xs) : Append(xs, e)[i] = xs[i]
          /\ DOMAIN Append(xs, e) = 1 .. Len(xs) + 1
      OBVIOUS
    <2> QED BY <1>a, <2>1, <2>2
  <1>b. PICK last : last = handleRelationshipOutboxEvent(h[len], e)
    OBVIOUS
  <1>c. PICK k : k = [h EXCEPT ![len + 1] = last]
    OBVIOUS
  <1>4. last \in Rows
    BY <1>b, <1>2, ProjectionType
  <1>5. /\ k \in [Nat -> Rows] /\ k[len + 1] = last
        /\ \A i \in Nat : i # len + 1 => k[i] = h[i]
    BY <1>c, <1>2, <1>4
  <1>6. \A i \in 0 .. len : k[i] = h[i]
    BY <1>2, <1>5
  <1>7. k[0] = NoRow
    BY <1>1, <1>2, <1>6 DEF History
  <1>8. ASSUME NEW i \in 1 .. len + 1
        PROVE  k[i] = handleRelationshipOutboxEvent(k[i - 1], outbox'[p][i])
    <2>1. CASE i = len + 1
      <3>1. i - 1 = len /\ len \in 0 .. len
        BY <1>2, <2>1
      <3>2. k[i - 1] = h[len]
        BY <1>6, <3>1
      <3> QED BY <1>b, <1>3, <1>5, <2>1, <3>2
    <2>2. CASE i # len + 1
      <3>1. i \in 1 .. len /\ i \in 0 .. len /\ i - 1 \in 0 .. len
        BY <1>2, <2>2
      <3>2. h[i] = handleRelationshipOutboxEvent(h[i - 1], outbox[p][i])
        BY <1>a, <1>1, <3>1 DEF History
      <3> QED BY <1>3, <1>6, <3>1, <3>2
    <2> QED BY <2>1, <2>2
  <1>9. Blocked(p) \in BOOLEAN /\ (Blocked(p)' <=> Blocked(p) \/ o = "Block")
    <2>1. e.op = o
      BY EventSays DEF PairOK
    <2>2. Blocked(p) <=> \E i \in 1 .. len : outbox[p][i].op = "Block"
      BY <1>2 DEF Blocked
    <2>3. Blocked(p)' <=> \E i \in 1 .. len + 1 : outbox'[p][i].op = "Block"
      BY <1>3 DEF Blocked
    <2>4. (\A i \in 1 .. len : i \in 1 .. len + 1) /\ len + 1 \in 1 .. len + 1
          /\ \A i \in 1 .. len + 1 : i \in 1 .. len \/ i = len + 1
      BY <1>2
    <2>5. Blocked(p)' <=> Blocked(p) \/ o = "Block"
      BY <1>3, <2>1, <2>2, <2>3, <2>4
    <2> QED BY <2>5 DEF Blocked
  <1>10. Agrees(last, n, Blocked(p) \/ o = "Block")
    <2>1. Agrees(h[len], Read(p), Blocked(p)) /\ h[len] \in Rows
      BY <1>a, <1>1, <1>2 DEF History
    <2> QED BY <1>b, <1>9, <2>1, AgreesAfter
  <1>11. Agrees(k[len + 1], Read(p)', Blocked(p)')
    BY <1>5, <1>9, <1>10 DEF Agrees
  <1>12. History(k, p)'
    BY <1>3, <1>7, <1>8, <1>11 DEF History
  <1>13. p \notin parked' => Reached(k, p)'
    <2> SUFFICES ASSUME p \notin parked PROVE Reached(k, p)'
      BY DEF readVars
    <2>1. \/ ~saving[p].on /\ row[p] = h[offset[p]]
          \/ offset[p] < len /\ row[p] = h[offset[p] + 1]
      BY <1>a, <1>1 DEF Reached
    <2>2. offset[p] \in 0 .. len /\ (offset[p] < len => offset[p] + 1 \in 0 .. len /\ offset[p] < len + 1)
      BY <1>2
    <2>3. saving' = saving /\ row' = row /\ offset' = offset
      BY DEF readVars
    <2> QED BY <1>3, <1>6, <2>1, <2>2, <2>3 DEF Reached
  <1>14. HistoryInv(p)'
    BY <1>5, <1>12, <1>13 DEF HistoryInv
  <1>15. SavingInv(p)' /\ EdgesInv(p)'
    <2>1. SavingInv(p) /\ EdgesInv(p)
      BY DEF ReadInv
    <2>2. saving' = saving /\ row' = row /\ offset' = offset /\ edges' = edges /\ torn' = torn
      BY DEF readVars
    <2>3. offset[p] < len => offset'[p] < Len(outbox'[p])
      BY <1>2, <1>3, <2>2
    <2>4. SavingInv(p)'
      BY <1>a, <2>1, <2>2, <2>3 DEF SavingInv
    <2> QED BY <2>1, <2>2, <2>4 DEF EdgesInv
  <1> QED BY <1>14, <1>15

LEMMA WriteStepReadInv ==
    ASSUME ReadInv, [WriteNext]_vars, UNCHANGED readVars
    PROVE  ReadInv'
  <1>1. Inv /\ Inv' /\ ReadTypeOK
    BY NextInv DEF ReadInv
  <1>2. row' = row /\ edges' = edges /\ offset' = offset /\ saving' = saving /\ torn' = torn /\ parked' = parked
    BY DEF readVars
  <1>3. ASSUME NEW q \in Pairs, outbox'[q] = outbox[q], Read(q)' = Read(q)
        PROVE  HistoryInv(q)' /\ SavingInv(q)' /\ EdgesInv(q)' /\ offset'[q] <= Len(outbox'[q])
    <2>1. PairKept(q)
      BY <1>2, <1>3 DEF PairKept
    <2>2. HistoryInv(q)' /\ SavingInv(q)' /\ EdgesInv(q)'
      BY <2>1, KeptPair DEF ReadInv
    <2> QED BY <1>1, <1>2, <1>3, <2>2 DEF ReadTypeOK
  <1>4. CASE UNCHANGED << requests, friends, follows, blocks, outbox >>
    <2>1. \A q \in Pairs : outbox'[q] = outbox[q] /\ Read(q)' = Read(q)
      BY <1>4 DEF Read, LoadPendingBetween, Open, loadRelationOutboxAggregateVersion
    <2>2. \A q \in Pairs : HistoryInv(q)' /\ SavingInv(q)' /\ EdgesInv(q)' /\ offset'[q] <= Len(outbox'[q])
      BY <1>3, <2>1
    <2>3. ReadTypeOK'
      BY <1>1, <1>2, <2>2 DEF ReadTypeOK
    <2> QED BY <1>1, <2>2, <2>3 DEF ReadInv
  <1>5. CASE \E w \in Workers : Save(w) /\ ~Rollback(w)
    <2>1. PICK l \in Links, o \in Ops, p \in Pairs, e \in Events :
             /\ p = {l[1], l[2]}
             /\ PairOK(Read(p), l[1], l[2])
             /\ e \in EventsOf(o, Read(p), l[1], l[2])
             /\ outbox'[p] = Append(outbox[p], e)
             /\ \A q \in Pairs \ {p} : outbox'[q] = outbox[q] /\ Read(q)' = Read(q)
             /\ LET n == Transition(o, Read(p), l[1], l[2]).pair
                IN  /\ Read(p)'.pending = n.pending /\ Read(p)'.friends = n.friends
                    /\ Read(p)'.follows = n.follows /\ Read(p)'.blocks = n.blocks
      BY <1>1, <1>5, SaveChanges
    <2>2. HistoryInv(p)' /\ SavingInv(p)' /\ EdgesInv(p)'
      <3>1. PICK n : n = Transition(o, Read(p), l[1], l[2]).pair
        OBVIOUS
      <3> QED BY <2>1, <3>1, HistoryGrows
    <2>3. offset'[p] <= Len(outbox'[p])
      <3>1. PICK xs \in Seq(Events) : xs = outbox[p]
        BY <1>1 DEF Inv, TypeOK
      <3>2. Len(Append(xs, e)) = Len(xs) + 1 /\ Len(xs) \in Nat
        OBVIOUS
      <3>3. offset[p] \in Nat /\ offset[p] <= Len(xs)
        BY <1>1, <3>1 DEF ReadTypeOK
      <3> QED BY <1>2, <2>1, <3>1, <3>2, <3>3
    <2>4. \A q \in Pairs : HistoryInv(q)' /\ SavingInv(q)' /\ EdgesInv(q)' /\ offset'[q] <= Len(outbox'[q])
      BY <1>3, <2>1, <2>2, <2>3
    <2>5. ReadTypeOK'
      BY <1>1, <1>2, <2>4 DEF ReadTypeOK
    <2> QED BY <1>1, <2>4, <2>5 DEF ReadInv
  <1> QED BY <1>4, <1>5, WriteCases

-----------------------------------------------------------------------------
(* Steps of the projection *)

\* A step on pair p leaves the write side and the other pairs alone.
OnlyPair(p) ==
    /\ UNCHANGED vars
    /\ \A q \in Pairs \ {p} :
          /\ row'[q] = row[q] /\ edges'[q] = edges[q]
          /\ offset'[q] = offset[q] /\ saving'[q] = saving[q]
          /\ q \in torn' <=> q \in torn
          /\ q \in parked' <=> q \in parked

LEMMA OnlyPairInv ==
    ASSUME ReadInv, NEW p \in Pairs, OnlyPair(p), ReadTypeOK',
           HistoryInv(p)', SavingInv(p)', EdgesInv(p)'
    PROVE  ReadInv'
  <1>1. Inv' /\ outbox' = outbox /\ \A q \in Pairs : Read(q)' = Read(q)
    <2>1. Inv' /\ UNCHANGED << requests, friends, follows, blocks, counters, outbox >>
      BY NextInv DEF OnlyPair, vars, tables, ReadInv
    <2> QED BY <2>1 DEF Read, LoadPendingBetween, Open, loadRelationOutboxAggregateVersion
  <1>2. ASSUME NEW q \in Pairs PROVE HistoryInv(q)' /\ SavingInv(q)' /\ EdgesInv(q)'
    <2>1. CASE q # p
      <3>1. PairKept(q)
        BY <1>1, <2>1 DEF OnlyPair, PairKept
      <3> QED BY <3>1, KeptPair DEF ReadInv
    <2> QED BY <2>1
  <1> QED BY <1>1, <1>2 DEF ReadInv

\* The history stays as it is while the write side does.
LEMMA SameHistory ==
    ASSUME NEW p \in Pairs, NEW h \in [Nat -> Rows], History(h, p), UNCHANGED vars,
           p \notin parked' => Reached(h, p)'
    PROVE  HistoryInv(p)'
  <1>1. /\ outbox' = outbox /\ requests' = requests /\ friends' = friends
        /\ follows' = follows /\ blocks' = blocks
    BY DEF vars, tables
  <1>2. Read(p)' = Read(p) /\ Blocked(p)' = Blocked(p)
    BY <1>1 DEF Read, LoadPendingBetween, Open, loadRelationOutboxAggregateVersion, Blocked
  <1>3. History(h, p)'
    BY <1>1, <1>2 DEF History
  <1> QED BY <1>3 DEF HistoryInv

LEMMA PairTypes ==
    ASSUME ReadInv, NEW p \in Pairs
    PROVE  /\ row[p] \in Rows /\ edges[p] \in Rows /\ offset[p] \in Nat
           /\ saving[p].on \in BOOLEAN /\ saving[p].left \subseteq EdgeTables /\ saving[p].current \in Rows
           /\ saving[p] = [on |-> saving[p].on, left |-> saving[p].left, current |-> saving[p].current]
           /\ outbox[p] \in Seq(Events) /\ Len(outbox[p]) \in Nat /\ offset[p] <= Len(outbox[p])
           /\ \A i \in 1 .. Len(outbox[p]) : outbox[p][i] \in Events
           /\ HistoryInv(p) /\ SavingInv(p) /\ EdgesInv(p)
  <1>1. outbox[p] \in Seq(Events)
    BY DEF ReadInv, Inv, TypeOK
  <1>2. PICK x \in [on : BOOLEAN, left : SUBSET EdgeTables, current : Rows] : x = saving[p]
    BY DEF ReadInv, ReadTypeOK
  <1>3. /\ x.on \in BOOLEAN /\ x.left \subseteq EdgeTables /\ x.current \in Rows
        /\ x = [on |-> x.on, left |-> x.left, current |-> x.current]
    OBVIOUS
  <1> QED BY <1>1, <1>2, <1>3 DEF ReadInv, ReadTypeOK

LEMMA SavePairInv ==
    ASSUME ReadInv, NEW p \in Pairs, SavePair(p)
    PROVE  ReadInv'
  <1> DEFINE e == outbox[p][offset[p] + 1]
             q == handleRelationshipOutboxEvent(row[p], e)
  <1>1. offset[p] < Len(outbox[p]) /\ ~saving[p].on
    BY DEF SavePair, Waiting
  <1>2. offset[p] + 1 \in 1 .. Len(outbox[p]) /\ e \in Events /\ (offset[p] + 1) - 1 = offset[p]
    <2>1. offset[p] \in Nat /\ Len(outbox[p]) \in Nat /\ \A i \in 1 .. Len(outbox[p]) : outbox[p][i] \in Events
      BY PairTypes
    <2>2. offset[p] + 1 \in 1 .. Len(outbox[p]) /\ (offset[p] + 1) - 1 = offset[p]
      BY <1>1, <2>1
    <2> QED BY <2>1, <2>2
  <1>3. row[p] \in Rows /\ q \in Rows
    BY <1>2, PairTypes, ProjectionType
  <1>4. /\ row' = [row EXCEPT ![p] = q]
        /\ saving' = [saving EXCEPT ![p] = [on |-> TRUE, left |-> EdgeTables, current |-> row[p]]]
        /\ UNCHANGED << vars, edges, offset, torn, parked >>
    BY DEF SavePair, upsertPair, loadProjection, GetPair
  <1>5. ReadTypeOK
    BY DEF ReadInv
  <1>6. outbox' = outbox
    BY <1>4 DEF vars, tables
  <1> HIDE DEF e, q
  <1>7. /\ row'[p] = q
        /\ saving'[p] = [on |-> TRUE, left |-> EdgeTables, current |-> row[p]]
        /\ OnlyPair(p)
    BY <1>4, <1>5 DEF ReadTypeOK, OnlyPair
  <1>8. ReadTypeOK'
    BY <1>3, <1>4, <1>5, <1>6 DEF ReadTypeOK
  <1>9. PICK h \in [Nat -> Rows] : History(h, p) /\ (p \notin parked => Reached(h, p))
    BY PairTypes DEF HistoryInv
  <1>10. p \notin parked => q = h[offset[p] + 1]
    <2>1. h[offset[p] + 1] = handleRelationshipOutboxEvent(h[offset[p]], e) /\ h[offset[p]] \in Rows
      BY <1>2, <1>9, PairTypes DEF History, e
    <2>2. handleRelationshipOutboxEvent(h[offset[p] + 1], e) = h[offset[p] + 1]
      BY <1>2, <2>1, ProjectedTwice
    <2>3. p \notin parked => row[p] = h[offset[p]] \/ row[p] = h[offset[p] + 1]
      BY <1>9 DEF Reached
    <2> QED BY <2>1, <2>2, <2>3 DEF q
  <1>11. p \notin parked' => Reached(h, p)'
    BY <1>1, <1>4, <1>6, <1>7, <1>10 DEF Reached
  <1>12. HistoryInv(p)'
    BY <1>4, <1>9, <1>11, SameHistory
  <1>13. SavingInv(p)' /\ EdgesInv(p)'
    <2>1. saving'[p].on /\ saving'[p].left = EdgeTables /\ saving'[p].current = row[p]
      BY <1>7
    <2>2. p \notin torn => edges[p] = row[p]
      BY <1>1, PairTypes DEF EdgesInv
    <2> QED BY <1>1, <1>4, <1>6, <2>1, <2>2 DEF SavingInv, EdgesInv
  <1> QED BY <1>7, <1>8, <1>12, <1>13, OnlyPairInv

LEMMA CommitMessageInv ==
    ASSUME ReadInv, NEW p \in Pairs, CommitMessage(p)
    PROVE  ReadInv'
  <1>1. /\ saving[p].on /\ saving[p].left = {} /\ offset[p] < Len(outbox[p]) /\ ReadTypeOK
        /\ saving' = [saving EXCEPT ![p] = NotSaving]
        /\ offset' = [offset EXCEPT ![p] = offset[p] + 1]
        /\ UNCHANGED << vars, row, edges, torn, parked >>
    BY PairTypes DEF CommitMessage, SavingInv, ReadInv
  <1>2. NoRow \in Rows /\ NotSaving \in [on : BOOLEAN, left : SUBSET EdgeTables, current : Rows]
    BY DEF NoRow, Rows, NotSaving
  <1>3. /\ saving'[p] = NotSaving /\ offset'[p] = offset[p] + 1 /\ OnlyPair(p) /\ outbox' = outbox
        /\ ~saving'[p].on /\ saving'[p].left = {}
    BY <1>1 DEF ReadTypeOK, OnlyPair, vars, tables, NotSaving
  <1>4. ReadTypeOK'
    <2>1. offset' \in [Pairs -> Nat] /\ \A x \in Pairs : offset'[x] <= Len(outbox'[x])
      BY <1>1, <1>3, PairTypes DEF ReadTypeOK
    <2> QED BY <1>1, <1>2, <2>1 DEF ReadTypeOK
  <1>5. PICK h \in [Nat -> Rows] : History(h, p) /\ (p \notin parked => Reached(h, p))
    BY PairTypes DEF HistoryInv
  <1>6. p \notin parked' => Reached(h, p)'
    BY <1>1, <1>3, <1>5 DEF Reached
  <1>7. HistoryInv(p)'
    BY <1>1, <1>5, <1>6, SameHistory
  <1>8. EdgesInv(p)'
    <2>1. p \notin torn => \A x \in EdgeTables : edges[p][x] = row[p][x]
      BY <1>1, PairTypes DEF EdgesInv
    <2>2. p \notin torn => edges[p] = row[p]
      BY <2>1, PairTypes, EqualRows
    <2> QED BY <1>1, <1>3, <2>2 DEF EdgesInv
  <1>9. SavingInv(p)'
    BY <1>3 DEF SavingInv
  <1> QED BY <1>3, <1>4, <1>7, <1>8, <1>9, OnlyPairInv

LEMMA InterruptInv ==
    ASSUME ReadInv, NEW p \in Pairs, Interrupt(p)
    PROVE  ReadInv'
  <1>1. /\ saving[p].on /\ offset[p] < Len(outbox[p]) /\ ReadTypeOK
        /\ saving' = [saving EXCEPT ![p] = NotSaving]
        /\ torn' = (IF saving[p].left = {} THEN torn ELSE torn \cup {p})
        /\ UNCHANGED << vars, row, edges, offset, parked >>
    BY PairTypes DEF Interrupt, SavingInv, ReadInv
  <1>2. NoRow \in Rows /\ NotSaving \in [on : BOOLEAN, left : SUBSET EdgeTables, current : Rows]
    BY DEF NoRow, Rows, NotSaving
  <1>3. /\ saving'[p] = NotSaving /\ OnlyPair(p) /\ outbox' = outbox
        /\ ~saving'[p].on /\ saving'[p].left = {}
    BY <1>1 DEF ReadTypeOK, OnlyPair, vars, tables, NotSaving
  <1>4. ReadTypeOK'
    BY <1>1, <1>2, <1>3 DEF ReadTypeOK
  <1>5. PICK h \in [Nat -> Rows] : History(h, p) /\ (p \notin parked => Reached(h, p))
    BY PairTypes DEF HistoryInv
  <1>6. p \notin parked' => Reached(h, p)'
    BY <1>1, <1>3, <1>5 DEF Reached
  <1>7. HistoryInv(p)'
    BY <1>1, <1>5, <1>6, SameHistory
  <1>8. EdgesInv(p)'
    <2>1. p \notin torn' => saving[p].left = {} /\ p \notin torn
      BY <1>1
    <2>2. p \notin torn' => \A x \in EdgeTables : edges[p][x] = row[p][x]
      BY <1>1, <2>1, PairTypes DEF EdgesInv
    <2>3. p \notin torn' => edges[p] = row[p]
      BY <2>2, PairTypes, EqualRows
    <2> QED BY <1>1, <1>3, <2>3 DEF EdgesInv
  <1>9. SavingInv(p)'
    BY <1>3 DEF SavingInv
  <1> QED BY <1>3, <1>4, <1>7, <1>8, <1>9, OnlyPairInv

LEMMA ParkInv ==
    ASSUME ReadInv, NEW p \in Pairs, Park(p)
    PROVE  ReadInv'
  <1>1. /\ ~saving[p].on /\ offset[p] < Len(outbox[p]) /\ ReadTypeOK
        /\ offset' = [offset EXCEPT ![p] = offset[p] + 1] /\ parked' = parked \cup {p}
        /\ UNCHANGED << vars, row, edges, saving, torn >>
    BY DEF Park, Waiting, ReadInv
  <1>2. offset'[p] = offset[p] + 1 /\ OnlyPair(p) /\ outbox' = outbox
    BY <1>1 DEF ReadTypeOK, OnlyPair, vars, tables
  <1>3. ReadTypeOK'
    <2>1. offset' \in [Pairs -> Nat] /\ \A x \in Pairs : offset'[x] <= Len(outbox'[x])
      BY <1>1, <1>2, PairTypes DEF ReadTypeOK
    <2> QED BY <1>1, <2>1 DEF ReadTypeOK
  <1>4. PICK h \in [Nat -> Rows] : History(h, p)
    BY PairTypes DEF HistoryInv
  <1>5. HistoryInv(p)'
    BY <1>1, <1>4, SameHistory
  <1>6. SavingInv(p)' /\ EdgesInv(p)'
    BY <1>1, PairTypes DEF SavingInv, EdgesInv
  <1> QED BY <1>2, <1>3, <1>5, <1>6, OnlyPairInv

\* A table brought up to date is typed, and one that held what the row held holds
\* what the row holds.
LEMMA SyncedFacts ==
    ASSUME NEW have \in Rows, NEW current \in Rows, NEW next \in Rows, NEW x \in EdgeTables
    PROVE  /\ [have EXCEPT ![x] = Synced(have[x], x, current[x], next[x])] \in Rows
           /\ have[x] = current[x] => Synced(have[x], x, current[x], next[x]) = next[x]
  <1>1. CASE x = "friends"
    BY <1>1 DEF Synced, syncFriendEdges, Difference, Rows
  <1>2. CASE x = "follows"
    BY <1>2 DEF Synced, syncFollowEdges, Difference, Rows
  <1>3. CASE x = "blocks"
    BY <1>3 DEF Synced, syncBlockEdges, Difference, Rows
  <1>4. CASE x = "pending"
    <2>1. Synced(have[x], x, current[x], next[x]) = syncPendingRequestEdges(have.pending, current.pending, next.pending)
      BY <1>4 DEF Synced
    <2>2. syncPendingRequestEdges(have.pending, current.pending, next.pending) \subseteq Requests
      BY RowFields DEF syncPendingRequestEdges
    <2>3. [have EXCEPT ![x] = Synced(have[x], x, current[x], next[x])] \in Rows
      BY <1>4, <2>1, <2>2 DEF Rows
    <2>4. ASSUME NEW r \in current.pending, r.link \notin LinksOf(current.pending \ next.pending) \cup LinksOf(next.pending)
          PROVE  FALSE
      <3>1. r \in next.pending \/ r \in current.pending \ next.pending
        OBVIOUS
      <3> QED BY <2>4, <3>1 DEF LinksOf
    <2>5. syncPendingRequestEdges(current.pending, current.pending, next.pending) = next.pending
      BY <2>4 DEF syncPendingRequestEdges
    <2> QED BY <1>4, <2>1, <2>3, <2>5
  <1> QED BY <1>1, <1>2, <1>3, <1>4 DEF EdgeTables

LEMMA SyncEdgesInv ==
    ASSUME ReadInv, NEW p \in Pairs, SyncEdges(p)
    PROVE  ReadInv'
  <1>a. PICK x, next : /\ x = NextTable(saving[p].left)
                       /\ next = Synced(edges[p][x], x, saving[p].current[x], row[p][x])
    OBVIOUS
  <1>1. /\ saving[p].left # {} /\ saving[p].on /\ offset[p] < Len(outbox[p]) /\ ReadTypeOK
        /\ edges' = [edges EXCEPT ![p][x] = next]
        /\ saving' = [saving EXCEPT ![p].left = saving[p].left \ {x}]
        /\ UNCHANGED << vars, row, offset, torn, parked >>
    BY <1>a, PairTypes DEF SyncEdges, SavingInv, ReadInv
  <1>2. x \in EdgeTables /\ x \in saving[p].left
    BY <1>a, <1>1, PairTypes DEF NextTable, EdgeTables
  <1>3. /\ [edges[p] EXCEPT ![x] = next] \in Rows
        /\ edges[p][x] = saving[p].current[x] => next = row[p][x]
    <2>1. PICK have \in Rows, current \in Rows, new \in Rows :
             have = edges[p] /\ current = saving[p].current /\ new = row[p]
      BY PairTypes
    <2>2. /\ [have EXCEPT ![x] = Synced(have[x], x, current[x], new[x])] \in Rows
          /\ have[x] = current[x] => Synced(have[x], x, current[x], new[x]) = new[x]
      BY <1>2, SyncedFacts
    <2>3. next = Synced(have[x], x, current[x], new[x])
      BY <1>a, <2>1
    <2> QED BY <2>1, <2>2, <2>3
  <1>4. /\ edges' = [edges EXCEPT ![p] = [edges[p] EXCEPT ![x] = next]]
        /\ edges'[p] = [edges[p] EXCEPT ![x] = next]
        /\ saving'[p] = [saving[p] EXCEPT !.left = saving[p].left \ {x}]
        /\ OnlyPair(p) /\ outbox' = outbox
    BY <1>1 DEF ReadTypeOK, OnlyPair, vars, tables
  <1>5. saving'[p] = [on |-> TRUE, left |-> saving[p].left \ {x}, current |-> saving[p].current]
    <2>1. PICK z \in [on : BOOLEAN, left : SUBSET EdgeTables, current : Rows] : z = saving[p]
      BY <1>1 DEF ReadTypeOK
    <2>2. [z EXCEPT !.left = z.left \ {x}] = [on |-> z.on, left |-> z.left \ {x}, current |-> z.current]
      OBVIOUS
    <2>3. z.on = TRUE
      BY <1>1, <2>1
    <2> QED BY <1>4, <2>1, <2>2, <2>3
  <1>6. ReadTypeOK'
    <2>1. edges' \in [Pairs -> Rows]
      BY <1>1, <1>3, <1>4 DEF ReadTypeOK
    <2>2. saving'[p] \in [on : BOOLEAN, left : SUBSET EdgeTables, current : Rows]
      <3>1. PICK left \in SUBSET EdgeTables, current \in Rows :
               left = saving[p].left \ {x} /\ current = saving[p].current
        BY PairTypes
      <3>2. saving'[p] = [on |-> TRUE, left |-> left, current |-> current]
        BY <1>5, <3>1
      <3> QED BY <3>2
    <2>3. saving' = [saving EXCEPT ![p] = saving'[p]]
      BY <1>1, <1>4 DEF ReadTypeOK
    <2>4. saving' \in [Pairs -> [on : BOOLEAN, left : SUBSET EdgeTables, current : Rows]]
      BY <1>1, <2>2, <2>3 DEF ReadTypeOK
    <2> QED BY <1>1, <1>4, <2>1, <2>4 DEF ReadTypeOK
  <1>7. PICK h \in [Nat -> Rows] : History(h, p) /\ (p \notin parked => Reached(h, p))
    BY PairTypes DEF HistoryInv
  <1>8. p \notin parked' => Reached(h, p)'
    BY <1>1, <1>4, <1>5, <1>7 DEF Reached
  <1>9. HistoryInv(p)'
    BY <1>1, <1>7, <1>8, SameHistory
  <1>10. EdgesInv(p)'
    <2> SUFFICES ASSUME p \notin torn
                 PROVE  \A y \in EdgeTables :
                          edges'[p][y] = IF y \in saving'[p].left THEN saving'[p].current[y] ELSE row'[p][y]
      BY <1>1, <1>5 DEF EdgesInv
    <2>1. \A y \in EdgeTables : edges[p][y] = IF y \in saving[p].left THEN saving[p].current[y] ELSE row[p][y]
      BY <1>1, PairTypes DEF EdgesInv
    <2>2. edges'[p][x] = row[p][x]
      <3>1. DOMAIN edges[p] = EdgeTables
        BY PairTypes DEF Rows, EdgeTables
      <3> QED BY <1>2, <1>3, <1>4, <2>1, <3>1
    <2>3. ASSUME NEW y \in EdgeTables, y # x PROVE edges'[p][y] = edges[p][y]
      <3>1. DOMAIN edges[p] = EdgeTables
        BY PairTypes DEF Rows, EdgeTables
      <3> QED BY <1>4, <2>3, <3>1
    <2>4. saving'[p].left = saving[p].left \ {x} /\ saving'[p].current = saving[p].current /\ row' = row
      BY <1>1, <1>5
    <2> QED BY <2>1, <2>2, <2>3, <2>4
  <1>11. SavingInv(p)'
    BY <1>1, <1>4, <1>5 DEF SavingInv
  <1> QED BY <1>4, <1>6, <1>9, <1>10, <1>11, OnlyPairInv

-----------------------------------------------------------------------------
(* The invariant holds *)

LEMMA ReadInitInv == ReadInit => ReadInv
  <1> SUFFICES ASSUME ReadInit PROVE ReadInv
    OBVIOUS
  <1>1. Inv /\ Init
    BY InitInv DEF ReadInit
  <1>2. NoRow \in Rows /\ NotSaving \in [on : BOOLEAN, left : SUBSET EdgeTables, current : Rows]
    BY DEF NoRow, Rows, NotSaving
  <1>3. ASSUME NEW p \in Pairs
        PROVE  /\ row[p] = NoRow /\ edges[p] = NoRow /\ offset[p] = 0 /\ saving[p] = NotSaving
               /\ outbox[p] = << >> /\ Len(outbox[p]) = 0
    BY <1>1 DEF ReadInit, Init
  <1>4. ReadTypeOK
    BY <1>2, <1>3 DEF ReadInit, ReadTypeOK
  <1>5. ASSUME NEW p \in Pairs PROVE HistoryInv(p)
    <2>1. PICK h : h = [i \in Nat |-> NoRow]
      OBVIOUS
    <2>2. h \in [Nat -> Rows] /\ h[0] = NoRow
      BY <1>2, <2>1
    <2>3. Read(p).pending = {} /\ Read(p).blocks = {} /\ Read(p).friends = {} /\ Read(p).follows = {}
      BY <1>1 DEF Init, Read, LoadPendingBetween, Open
    <2>4. Agrees(h[0], Read(p), Blocked(p))
      BY <2>2, <2>3 DEF Agrees, NoRow
    <2>5. History(h, p)
      BY <1>3, <2>2, <2>4 DEF History
    <2>6. Reached(h, p)
      BY <1>3, <2>2 DEF Reached, NotSaving
    <2> QED BY <2>2, <2>5, <2>6 DEF HistoryInv
  <1>6. \A p \in Pairs : SavingInv(p) /\ EdgesInv(p)
    BY <1>3 DEF SavingInv, EdgesInv, NotSaving
  <1> QED BY <1>1, <1>4, <1>5, <1>6 DEF ReadInv

LEMMA ReadNextInv == ReadInv /\ [ReadNext]_allVars => ReadInv'
  <1> SUFFICES ASSUME ReadInv, [ReadNext]_allVars PROVE ReadInv'
    OBVIOUS
  <1>1. CASE WriteNext /\ UNCHANGED readVars
    BY <1>1, WriteStepReadInv
  <1>2. ASSUME NEW p \in Pairs, SavePair(p) \/ SyncEdges(p) \/ CommitMessage(p) \/ Interrupt(p) \/ Park(p)
        PROVE  ReadInv'
    BY <1>2, SavePairInv, SyncEdgesInv, CommitMessageInv, InterruptInv, ParkInv
  <1>3. CASE UNCHANGED allVars
    BY <1>3, WriteStepReadInv DEF allVars
  <1> QED BY <1>1, <1>2, <1>3 DEF ReadNext

LEMMA ReadInvariance == ReadSpec => []ReadInv
  <1>1. ReadInit => ReadInv
    BY ReadInitInv
  <1>2. ReadInv /\ [ReadNext]_allVars => ReadInv'
    BY ReadNextInv
  <1> QED BY <1>1, <1>2, PTL DEF ReadSpec

-----------------------------------------------------------------------------
(* The theorems *)

\* The row of a pair that has caught up is the last one of its history.
LEMMA CaughtUpAgrees ==
    ASSUME ReadInv, NEW p \in Pairs, CaughtUp(p)
    PROVE  Agrees(row[p], Read(p), Blocked(p))
  <1>1. PICK h \in [Nat -> Rows] : History(h, p) /\ (p \notin parked => Reached(h, p))
    BY PairTypes DEF HistoryInv
  <1>2. row[p] = h[Len(outbox[p])]
    BY <1>1, PairTypes DEF CaughtUp, Reached
  <1> QED BY <1>1, <1>2 DEF History

\* RowCatchesUp for every set of users and commands: redelivered, interrupted and
\* retried projections end in the row the events describe.
THEOREM RowsCatchUp == ReadSpec => []RowCatchesUp
  <1>1. ReadInv => RowCatchesUp
    BY CaughtUpAgrees DEF RowCatchesUp, Agrees
  <1> QED BY <1>1, ReadInvariance, PTL

LEMMA SameCount ==
    ASSUME NEW S, IsFiniteSet(S), NEW T, NEW f \in [S -> T],
           \A x, y \in S : f[x] = f[y] => x = y, \A t \in T : \E x \in S : f[x] = t
    PROVE  Cardinality(T) = Cardinality(S)
  <1>1. f \in Bijection(S, T)
    BY Fun_IsBij
  <1>2. ExistsBijection(S, T)
    BY <1>1, Fun_ExistsBij
  <1> QED BY <1>2, FS_Bijection

LEMMA TwoUsers ==
    ASSUME NEW u \in Users, NEW v \in Users \ {u}
    PROVE  /\ << u, v >> \in Links /\ << u, v >>[1] = u /\ << u, v >>[2] = v
           /\ {u, v} \in Pairs /\ u \in {u, v} /\ v \in {u, v}
  <1>1. << u, v >> \in Links /\ << u, v >>[1] = u /\ << u, v >>[2] = v
    BY DEF Links
  <1> QED BY <1>1, LinkFacts

\* The edges of a pair that has caught up, without a block or an interrupted save,
\* are its rows on the write side.
LEMMA EdgesAreRows ==
    ASSUME ReadInv, NEW l \in Links, NEW p, p = {l[1], l[2]},
           CaughtUp(p), p \notin torn, ~Blocked(p)
    PROVE  /\ row[p].blocks = {}
           /\ row[p].friends # {} <=> p \in friends
           /\ p \in edges[p].friends <=> p \in friends
           /\ l \in edges[p].follows <=> l \in follows
           /\ l \in edges[p].blocks <=> l \in blocks
           /\ l \in LinksOf(edges[p].pending) <=> \E r \in requests : r.link = l
           /\ \A x, y \in requests : x.link = l /\ y.link = l => x = y
  <1>1. p \in Pairs
    BY LinkFacts
  <1>2. edges[p] = row[p]
    BY <1>1, PairTypes DEF EdgesInv, CaughtUp
  <1>3. Agrees(row[p], Read(p), Blocked(p))
    BY <1>1, CaughtUpAgrees
  <1>4. PairOK(Read(p), l[1], l[2]) /\ Read(p).pending = Open(p) /\ TypeOK
    BY DEF ReadInv, Inv, PairsInv
  <1>5. /\ row[p].pending = Open(p)
        /\ row[p].friends = friends \cap {p}
        /\ row[p].follows = { m \in follows : {m[1], m[2]} = p }
        /\ row[p].blocks = { m \in blocks : {m[1], m[2]} = p }
        /\ row[p].blocks = {}
    BY <1>1, <1>3, <1>4, ReadFacts DEF Agrees
  <1>6. \A x, y \in Open(p) : x = y
    BY <1>4 DEF PairOK
  <1>7. \A r \in requests : r.link = l => r \in Open(p)
    BY DEF Open
  <1>8. l \in LinksOf(Open(p)) <=> \E r \in requests : r.link = l
    <2>1. \A r \in Open(p) : r \in requests
      BY DEF Open
    <2> QED BY <1>7, <2>1 DEF LinksOf
  <1>9. \A x, y \in requests : x.link = l /\ y.link = l => x = y
    BY <1>6, <1>7
  <1>10. (row[p].friends # {} <=> p \in friends) /\ (p \in edges[p].friends <=> p \in friends)
    BY <1>2, <1>5
  <1>11. (l \in edges[p].follows <=> l \in follows) /\ (l \in edges[p].blocks <=> l \in blocks)
    BY <1>2, <1>5
  <1>12. l \in LinksOf(edges[p].pending) <=> \E r \in requests : r.link = l
    BY <1>2, <1>5, <1>8
  <1> QED BY <1>5, <1>9, <1>10, <1>11, <1>12

\* Every pair of the user has caught up, without a block or an interrupted save.
Settled(u) == \A p \in Pairs : u \in p => CaughtUp(p) /\ p \notin torn /\ ~Blocked(p)

LEMMA EdgesOfUser ==
    ASSUME ReadInv, NEW u \in Users, Settled(u), NEW v \in Users \ {u}
    PROVE  /\ {u, v} \in edges[{u, v}].friends <=> {u, v} \in friends
           /\ << v, u >> \in edges[{u, v}].follows <=> << v, u >> \in follows
           /\ << u, v >> \in edges[{u, v}].follows <=> << u, v >> \in follows
           /\ << u, v >> \in edges[{u, v}].blocks <=> << u, v >> \in blocks
           /\ << v, u >> \in LinksOf(edges[{u, v}].pending) <=> \E r \in requests : r.link = << v, u >>
           /\ << u, v >> \in LinksOf(edges[{u, v}].pending) <=> \E r \in requests : r.link = << u, v >>
  <1>1. PICK p : p = {u, v}
    OBVIOUS
  <1>2. CaughtUp(p) /\ p \notin torn /\ ~Blocked(p)
    BY <1>1, TwoUsers DEF Settled
  <1>3. PICK l \in Links : l = << u, v >> /\ l[1] = u /\ l[2] = v
    BY TwoUsers
  <1>4. PICK m \in Links : m = << v, u >> /\ m[1] = v /\ m[2] = u
    BY TwoUsers
  <1>5. p = {l[1], l[2]} /\ p = {m[1], m[2]}
    BY <1>1, <1>3, <1>4
  <1>6. /\ p \in edges[p].friends <=> p \in friends
        /\ l \in edges[p].follows <=> l \in follows
        /\ l \in edges[p].blocks <=> l \in blocks
        /\ l \in LinksOf(edges[p].pending) <=> \E r \in requests : r.link = l
    BY <1>2, <1>5, EdgesAreRows
  <1>7. /\ m \in edges[p].follows <=> m \in follows
        /\ m \in LinksOf(edges[p].pending) <=> \E r \in requests : r.link = m
    BY <1>2, <1>5, EdgesAreRows
  <1> QED BY <1>1, <1>3, <1>4, <1>6, <1>7

\* The friends of a user, counted in the edge table and in the table of friendships.
LEMMA FriendsCounted ==
    ASSUME ReadInv, NEW u \in Users, Settled(u)
    PROVE  Cardinality(FriendsByUser(u)) = Counter(u, "friends")
  <1> DEFINE S == RowsOf(u, "friends")
             T == FriendsByUser(u)
             f == [p \in S |-> CHOOSE v \in Users \ {u} : p = {u, v}]
  <1>1. IsFiniteSet(S) /\ Counter(u, "friends") = Cardinality(S) /\ TypeOK
    BY DEF ReadInv, Inv, CountInv, Fields
  <1>2. S = { p \in friends : u \in p }
    BY DEF RowsOf
  <1>3. \A p \in S : f[p] \in Users \ {u} /\ p = {u, f[p]}
    <2>1. ASSUME NEW p \in S PROVE \E v \in Users \ {u} : p = {u, v}
      <3>1. p \in Pairs /\ u \in p
        BY <1>1, <1>2 DEF TypeOK
      <3> QED BY <3>1 DEF Pairs
    <2> QED BY <2>1
  <1>4. ASSUME NEW v \in Users \ {u}
        PROVE  v \in T <=> {u, v} \in friends
    BY EdgesOfUser DEF FriendsByUser
  <1>5. T \subseteq Users \ {u}
    BY DEF FriendsByUser
  <1> HIDE DEF T
  <1>6. f \in [S -> T]
    <2>1. \A p \in S : f[p] \in T
      BY <1>2, <1>3, <1>4
    <2> QED BY <2>1
  <1>7. \A t \in T : \E p \in S : f[p] = t
    <2>1. ASSUME NEW t \in T PROVE {u, t} \in S /\ f[{u, t}] = t
      <3>1. {u, t} \in S
        BY <1>2, <1>4, <1>5
      <3>2. {u, t} = {u, f[{u, t}]} /\ f[{u, t}] # u
        BY <1>3, <3>1
      <3> QED BY <1>5, <3>1, <3>2
    <2> QED BY <2>1
  <1> HIDE DEF f, S
  <1>8. \A x, y \in S : f[x] = f[y] => x = y
    BY <1>3
  <1>9. Cardinality(T) = Cardinality(S)
    BY <1>1, <1>6, <1>7, <1>8, SameCount
  <1> QED BY <1>1, <1>9 DEF T

\* A set of links into one user, or out of it, has as many members as there are others
\* at their other ends.
LEMMA LinksIn ==
    ASSUME NEW u \in Users, NEW S, IsFiniteSet(S), \A l \in S : l \in Links /\ l[2] = u
    PROVE  Cardinality({ v \in Users \ {u} : << v, u >> \in S }) = Cardinality(S)
  <1> DEFINE T == { v \in Users \ {u} : << v, u >> \in S }
             f == [l \in S |-> l[1]]
  <1>1. \A l \in S : l = << l[1], u >> /\ l[1] \in Users \ {u}
    BY DEF Links
  <1>2. f \in [S -> T]
    BY <1>1
  <1>3. \A x, y \in S : f[x] = f[y] => x = y
    BY <1>1
  <1>4. \A t \in T : \E l \in S : f[l] = t
    <2>1. ASSUME NEW t \in T PROVE << t, u >> \in S /\ f[<< t, u >>] = t
      OBVIOUS
    <2> QED BY <2>1
  <1> HIDE DEF T, f
  <1>5. Cardinality(T) = Cardinality(S)
    BY <1>2, <1>3, <1>4, SameCount
  <1> QED BY <1>5 DEF T

LEMMA LinksOut ==
    ASSUME NEW u \in Users, NEW S, IsFiniteSet(S), \A l \in S : l \in Links /\ l[1] = u
    PROVE  Cardinality({ v \in Users \ {u} : << u, v >> \in S }) = Cardinality(S)
  <1> DEFINE T == { v \in Users \ {u} : << u, v >> \in S }
             f == [l \in S |-> l[2]]
  <1>1. \A l \in S : l = << u, l[2] >> /\ l[2] \in Users \ {u}
    BY DEF Links
  <1>2. f \in [S -> T]
    BY <1>1
  <1>3. \A x, y \in S : f[x] = f[y] => x = y
    BY <1>1
  <1>4. \A t \in T : \E l \in S : f[l] = t
    <2>1. ASSUME NEW t \in T PROVE << u, t >> \in S /\ f[<< u, t >>] = t
      OBVIOUS
    <2> QED BY <2>1
  <1> HIDE DEF T, f
  <1>5. Cardinality(T) = Cardinality(S)
    BY <1>2, <1>3, <1>4, SameCount
  <1> QED BY <1>5 DEF T

\* Requests of which no two have the same link are as many as their links.
LEMMA RequestLinks ==
    ASSUME NEW R \in SUBSET Requests, IsFiniteSet(R), \A x, y \in R : x.link = y.link => x = y
    PROVE  Cardinality(LinksOf(R)) = Cardinality(R) /\ IsFiniteSet(LinksOf(R))
  <1> DEFINE f == [r \in R |-> r.link]
             L == LinksOf(R)
  <1>1. f \in [R -> L] /\ (\A x, y \in R : f[x] = f[y] => x = y) /\ \A t \in L : \E r \in R : f[r] = t
    BY DEF LinksOf
  <1> HIDE DEF f, L
  <1>2. ExistsBijection(R, L)
    BY <1>1, Fun_IsBij, Fun_ExistsBij
  <1>3. Cardinality(L) = Cardinality(R) /\ IsFiniteSet(L)
    BY <1>2, FS_Bijection
  <1> QED BY <1>3 DEF L

LEMMA LinksCounted ==
    ASSUME ReadInv, NEW u \in Users, Settled(u)
    PROVE  /\ Cardinality(FollowersByUser(u)) = Counter(u, "followers")
           /\ Cardinality(FollowingByUser(u)) = Counter(u, "following")
           /\ Cardinality(BlocksByUser(u)) = Counter(u, "blocked")
  <1>1. TypeOK /\ \A f \in Fields : IsFiniteSet(RowsOf(u, f)) /\ Counter(u, f) = Cardinality(RowsOf(u, f))
    BY DEF ReadInv, Inv, CountInv
  <1>2. Cardinality(FollowersByUser(u)) = Counter(u, "followers")
    <2>1. PICK S : S = { l \in follows : l[2] = u }
      OBVIOUS
    <2>2. RowsOf(u, "followers") = S
      BY <2>1 DEF RowsOf
    <2>3. \A l \in S : l \in Links /\ l[2] = u
      BY <1>1, <2>1 DEF TypeOK
    <2>4. IsFiniteSet(S) /\ Counter(u, "followers") = Cardinality(S)
      BY <1>1, <2>2 DEF Fields
    <2>5. \A v \in Users \ {u} : << v, u >> \in S <=> << v, u >> \in follows
      BY <2>1
    <2>6. FollowersByUser(u) = { v \in Users \ {u} : << v, u >> \in S }
      BY <2>5, EdgesOfUser DEF FollowersByUser
    <2> QED BY <2>3, <2>4, <2>6, LinksIn
  <1>3. Cardinality(FollowingByUser(u)) = Counter(u, "following")
    <2>1. PICK S : S = { l \in follows : l[1] = u }
      OBVIOUS
    <2>2. RowsOf(u, "following") = S
      BY <2>1 DEF RowsOf
    <2>3. \A l \in S : l \in Links /\ l[1] = u
      BY <1>1, <2>1 DEF TypeOK
    <2>4. IsFiniteSet(S) /\ Counter(u, "following") = Cardinality(S)
      BY <1>1, <2>2 DEF Fields
    <2>5. \A v \in Users \ {u} : << u, v >> \in S <=> << u, v >> \in follows
      BY <2>1
    <2>6. FollowingByUser(u) = { v \in Users \ {u} : << u, v >> \in S }
      BY <2>5, EdgesOfUser DEF FollowingByUser
    <2> QED BY <2>3, <2>4, <2>6, LinksOut
  <1>4. Cardinality(BlocksByUser(u)) = Counter(u, "blocked")
    <2>1. PICK S : S = { l \in blocks : l[1] = u }
      OBVIOUS
    <2>2. RowsOf(u, "blocked") = S
      BY <2>1 DEF RowsOf
    <2>3. \A l \in S : l \in Links /\ l[1] = u
      BY <1>1, <2>1 DEF TypeOK
    <2>4. IsFiniteSet(S) /\ Counter(u, "blocked") = Cardinality(S)
      BY <1>1, <2>2 DEF Fields
    <2>5. \A v \in Users \ {u} : << u, v >> \in S <=> << u, v >> \in blocks
      BY <2>1
    <2>6. BlocksByUser(u) = { v \in Users \ {u} : << u, v >> \in S }
      BY <2>5, EdgesOfUser DEF BlocksByUser
    <2> QED BY <2>3, <2>4, <2>6, LinksOut
  <1> QED BY <1>2, <1>3, <1>4

\* No two open requests have the same sender and addressee.
LEMMA OneRequestPerLink ==
    ASSUME Inv, NEW x \in requests, NEW y \in requests, x.link = y.link
    PROVE  x = y
  <1>1. PICK l \in Links : l = x.link
    BY DEF Inv, TypeOK, Requests
  <1>2. PICK p : p = {l[1], l[2]}
    OBVIOUS
  <1>3. PairOK(Read(p), l[1], l[2]) /\ Read(p).pending = Open(p)
    BY <1>2 DEF Inv, PairsInv
  <1>4. x \in Open(p) /\ y \in Open(p)
    BY <1>1, <1>2 DEF Open
  <1> QED BY <1>3, <1>4 DEF PairOK

LEMMA RequestsCounted ==
    ASSUME ReadInv, NEW u \in Users, Settled(u)
    PROVE  /\ Cardinality(IncomingRequestsByUser(u)) = Counter(u, "pendingIn")
           /\ Cardinality(OutgoingRequestsByUser(u)) = Counter(u, "pendingOut")
  <1>1. /\ Inv /\ TypeOK
        /\ \A f \in Fields : IsFiniteSet(RowsOf(u, f)) /\ Counter(u, f) = Cardinality(RowsOf(u, f))
    BY DEF ReadInv, Inv, CountInv
  <1>2. Cardinality(IncomingRequestsByUser(u)) = Counter(u, "pendingIn")
    <2>1. PICK R \in SUBSET Requests : R = { r \in requests : r.link[2] = u }
      BY <1>1 DEF TypeOK
    <2>2. RowsOf(u, "pendingIn") = R
      BY <2>1 DEF RowsOf
    <2>3. IsFiniteSet(R) /\ Counter(u, "pendingIn") = Cardinality(R)
      BY <1>1, <2>2 DEF Fields
    <2>4. \A x, y \in R : x.link = y.link => x = y
      BY <1>1, <2>1, OneRequestPerLink
    <2>5. PICK S : S = LinksOf(R)
      OBVIOUS
    <2>6. IsFiniteSet(S) /\ Cardinality(S) = Cardinality(R)
      BY <2>3, <2>4, <2>5, RequestLinks
    <2>7. \A l \in S : l \in Links /\ l[2] = u
      BY <2>1, <2>5 DEF LinksOf, Requests
    <2>8. \A v \in Users \ {u} : << v, u >> \in S <=> \E r \in requests : r.link = << v, u >>
      BY <2>1, <2>5 DEF LinksOf
    <2>9. IncomingRequestsByUser(u) = { v \in Users \ {u} : << v, u >> \in S }
      BY <2>8, EdgesOfUser DEF IncomingRequestsByUser
    <2> QED BY <2>3, <2>6, <2>7, <2>9, LinksIn
  <1>3. Cardinality(OutgoingRequestsByUser(u)) = Counter(u, "pendingOut")
    <2>1. PICK R \in SUBSET Requests : R = { r \in requests : r.link[1] = u }
      BY <1>1 DEF TypeOK
    <2>2. RowsOf(u, "pendingOut") = R
      BY <2>1 DEF RowsOf
    <2>3. IsFiniteSet(R) /\ Counter(u, "pendingOut") = Cardinality(R)
      BY <1>1, <2>2 DEF Fields
    <2>4. \A x, y \in R : x.link = y.link => x = y
      BY <1>1, <2>1, OneRequestPerLink
    <2>5. PICK S : S = LinksOf(R)
      OBVIOUS
    <2>6. IsFiniteSet(S) /\ Cardinality(S) = Cardinality(R)
      BY <2>3, <2>4, <2>5, RequestLinks
    <2>7. \A l \in S : l \in Links /\ l[1] = u
      BY <2>1, <2>5 DEF LinksOf, Requests
    <2>8. \A v \in Users \ {u} : << u, v >> \in S <=> \E r \in requests : r.link = << u, v >>
      BY <2>1, <2>5 DEF LinksOf
    <2>9. OutgoingRequestsByUser(u) = { v \in Users \ {u} : << u, v >> \in S }
      BY <2>8, EdgesOfUser DEF OutgoingRequestsByUser
    <2> QED BY <2>3, <2>6, <2>7, <2>9, LinksOut
  <1> QED BY <1>2, <1>3

LEMMA SummaryFollows == ReadInv => SummaryIsTrue
  <1> SUFFICES ASSUME ReadInv, NEW l \in Links, Settled(l[2])
               PROVE  /\ GetRelationshipSummary(l[1], l[2]).friends = Counter(l[2], "friends")
                      /\ GetRelationshipSummary(l[1], l[2]).followers = Counter(l[2], "followers")
                      /\ GetRelationshipSummary(l[1], l[2]).following = Counter(l[2], "following")
                      /\ Cardinality(IncomingRequestsByUser(l[2])) = Counter(l[2], "pendingIn")
                      /\ Cardinality(OutgoingRequestsByUser(l[2])) = Counter(l[2], "pendingOut")
                      /\ Cardinality(BlocksByUser(l[2])) = Counter(l[2], "blocked")
                      /\ GetRelationshipSummary(l[1], l[2]).label = "friends" <=> {l[1], l[2]} \in friends
    BY DEF SummaryIsTrue, Settled
  <1>1. PICK a \in Users, u \in Users, p \in Pairs :
           a = l[1] /\ u = l[2] /\ p = {a, u} /\ p = {l[1], l[2]} /\ u \in p
    <2>1. l[1] \in Users /\ l[2] \in Users /\ {l[1], l[2]} \in Pairs
      BY LinkFacts
    <2>2. \A x, y : y \in {x, y}
      OBVIOUS
    <2> QED BY <2>1, <2>2
  <1>2. row[p].blocks = {} /\ (row[p].friends # {} <=> p \in friends)
    BY <1>1, EdgesAreRows DEF Settled
  <1>3. relationshipStatusLabel(GetRelationshipStatus(a, u)) = "friends" <=> p \in friends
    <2>1. PICK s : s = GetRelationshipStatus(a, u)
      OBVIOUS
    <2>2. ~s.hasBlocked /\ ~s.isBlockedBy /\ (s.isFriend <=> row[p].friends # {})
      BY <1>1, <1>2, <2>1 DEF GetRelationshipStatus, GetPair, buildRelationshipStatusResponse, pairBlocks
    <2>3. relationshipStatusLabel(s) = "friends" <=> s.isFriend
      BY <2>2 DEF relationshipStatusLabel
    <2> QED BY <1>2, <2>1, <2>2, <2>3
  <1>4. /\ GetRelationshipSummary(a, u).friends = Cardinality(FriendsByUser(u))
        /\ GetRelationshipSummary(a, u).followers = Cardinality(FollowersByUser(u))
        /\ GetRelationshipSummary(a, u).following = Cardinality(FollowingByUser(u))
        /\ GetRelationshipSummary(a, u).label = relationshipStatusLabel(GetRelationshipStatus(a, u))
    BY DEF GetRelationshipSummary, countByUserTable
  <1>5. Settled(u)
    BY <1>1
  <1>6. /\ Cardinality(FriendsByUser(u)) = Counter(u, "friends")
        /\ Cardinality(FollowersByUser(u)) = Counter(u, "followers")
        /\ Cardinality(FollowingByUser(u)) = Counter(u, "following")
        /\ Cardinality(BlocksByUser(u)) = Counter(u, "blocked")
        /\ Cardinality(IncomingRequestsByUser(u)) = Counter(u, "pendingIn")
        /\ Cardinality(OutgoingRequestsByUser(u)) = Counter(u, "pendingOut")
    BY <1>5, FriendsCounted, LinksCounted, RequestsCounted
  <1> QED BY <1>1, <1>3, <1>4, <1>6

LEMMA OffersFollow == ReadInv => OffersAreTrue
  <1> SUFFICES ASSUME ReadInv, NEW l \in Links, CaughtUp({l[1], l[2]}), l[2] \in accounts,
                      NEW p, p = {l[1], l[2]}, NEW shown, shown = GetRelationshipStatus(l[1], l[2]),
                      NEW send, send = EnsureCanSendFriendRequest(Read(p), l[1], l[2]),
                      NEW follow, follow = EnsureCanFollow(Read(p), l[1], l[2])
               PROVE  /\ shown.canSendFriendRequest => send
                      /\ shown.canFollow => follow
                      /\ Blocked(p) \/ (send => shown.canSendFriendRequest)
                      /\ Blocked(p) \/ (follow => shown.canFollow)
    BY DEF OffersAreTrue
  <1>1. Agrees(row[p], Read(p), Blocked(p))
    BY LinkFacts, CaughtUpAgrees
  <1>2. PairOK(Read(p), l[1], l[2])
    BY DEF ReadInv, Inv, PairsInv
  <1>3. PICK a, t : a = l[1] /\ t = l[2]
    OBVIOUS
  <1>4. row[p].blocks = {} <=> ~pairBlocks(row[p], a, t) /\ ~pairBlocks(row[p], t, a)
    <2>1. PICK B : B = row[p].blocks /\ B \subseteq {<< a, t >>, << t, a >>}
      BY <1>1, <1>2, <1>3 DEF Agrees, PairOK
    <2>2. B = {} <=> << a, t >> \notin B /\ << t, a >> \notin B
      BY <2>1
    <2> QED BY <2>1, <2>2 DEF pairBlocks
  <1>5. row[p].pending = {} <=> << a, t >> \notin LinksOf(row[p].pending) /\ << t, a >> \notin LinksOf(row[p].pending)
    <2>1. PICK R : R = row[p].pending /\ \A r \in R : r.link \in {<< a, t >>, << t, a >>}
      BY <1>1, <1>2, <1>3 DEF Agrees, PairOK
    <2>2. R = {} <=> << a, t >> \notin LinksOf(R) /\ << t, a >> \notin LinksOf(R)
      BY <2>1 DEF LinksOf
    <2> QED BY <2>1, <2>2
  <1>6. /\ shown.canSendFriendRequest <=> row[p].friends = {} /\ row[p].blocks = {} /\ row[p].pending = {}
        /\ shown.canFollow <=> << a, t >> \notin row[p].follows /\ row[p].blocks = {}
    BY <1>3, <1>4, <1>5 DEF GetRelationshipStatus, GetPair, buildRelationshipStatusResponse, pairFollows
  <1>7. /\ send <=> Read(p).blocks = {} /\ Read(p).friends = {} /\ Read(p).pending = {}
        /\ follow <=> Read(p).blocks = {} /\ << a, t >> \notin Read(p).follows
    BY <1>3 DEF EnsureCanSendFriendRequest, EnsureCanFollow
  <1> QED BY <1>1, <1>6, <1>7 DEF Agrees

\* TablesAreSound for every set of users and commands: what the clients are shown of a
\* pair or of a user is what the write side would say, except where an event was
\* parked, a save was interrupted or a block removed something silently.
THEOREM ReadTablesAreSound == ReadSpec => []TablesAreSound
  <1>1. ReadInv => TablesAreSound
    <2>1. ReadInv => EdgesFollowRow
      BY DEF ReadInv, EdgesInv, EdgesFollowRow
    <2> QED BY <2>1, OffersFollow, SummaryFollows DEF ReadInv, TablesAreSound
  <1> QED BY <1>1, ReadInvariance, PTL

-----------------------------------------------------------------------------
(* Induction on natural numbers, and remainders *)

\* A set of natural numbers that has an element has a least one.
LEMMA LeastNumber ==
    ASSUME NEW T, T \subseteq Nat, T # {}
    PROVE  \E n \in T : \A m \in T : n <= m
  <1>1. IsWellFoundedOn(OpToRel(<, Nat), Nat)
    BY NatLessThanWellFounded
  <1>2. PICK n \in T : \A m \in T : ~ (<< m, n >> \in OpToRel(<, Nat))
    BY <1>1, WFMin
  <1>3. \A m \in T : ~ (m < n)
    BY <1>2 DEF OpToRel
  <1> QED BY <1>3

\* Induction, with the property given as the set of numbers that have it.
LEMMA Induction ==
    ASSUME NEW S, 0 \in S, \A n \in Nat : n \in S => n + 1 \in S
    PROVE  Nat \subseteq S
  <1> SUFFICES ASSUME Nat \ S # {} PROVE FALSE
    OBVIOUS
  <1>1. PICK n \in Nat \ S : \A m \in Nat \ S : n <= m
    BY LeastNumber
  <1>2. n # 0 /\ n - 1 \in Nat
    BY <1>1
  <1>3. n - 1 \in S
    BY <1>1, <1>2
  <1> QED BY <1>1, <1>2, <1>3

LEMMA Remainder ==
    ASSUME NEW m \in Nat \ {0}, NEW q \in Nat
    PROVE  q = m * (q \div m) + (q % m) /\ q % m \in 0..(m - 1) /\ q \div m \in Nat
  OBVIOUS

LEMMA OneRemainder ==
    ASSUME NEW m \in Nat \ {0}, NEW k \in Nat, NEW l \in Nat, k >= l + 1,
           NEW r \in 0..(m - 1), NEW s \in 0..(m - 1)
    PROVE  m * k + r # m * l + s
  <1>1. PICK d \in Nat : k = l + 1 + d
    <2>1. k - l - 1 \in Nat /\ k = l + 1 + (k - l - 1)
      OBVIOUS
    <2> QED BY <2>1
  <1>2. m * k = m * l + m + m * d
    BY <1>1
  <1>3. m * l \in Nat /\ m * k \in Nat /\ m * d \in Nat
    OBVIOUS
  <1> QED BY <1>2, <1>3

LEMMA RemainderIsUnique ==
    ASSUME NEW m \in Nat \ {0}, NEW k \in Nat, NEW l \in Nat,
           NEW r \in 0..(m - 1), NEW s \in 0..(m - 1), m * k + r = m * l + s
    PROVE  r = s
  <1>1. CASE k = l
    BY <1>1
  <1>2. CASE k >= l + 1
    BY <1>2, OneRemainder
  <1>3. CASE l >= k + 1
    BY <1>3, OneRemainder
  <1> QED BY <1>1, <1>2, <1>3

\* Of the numbers after a multiple, the next one is the m-th.
LEMMA NextMultiple ==
    ASSUME NEW m \in Nat \ {0}, NEW q \in Nat, q % m = 0
    PROVE  (q + m) % m = 0 /\ \A j \in 1..(m - 1) : (q + j) % m # 0
  <1>1. PICK k \in Nat : q = m * k + 0
    BY Remainder
  <1>2. ASSUME NEW j \in 1..(m - 1) PROVE (q + j) % m # 0
    <2>1. q + j \in Nat
      OBVIOUS
    <2>2. PICK l \in Nat : q + j = m * l + ((q + j) % m) /\ (q + j) % m \in 0..(m - 1)
      BY <2>1, Remainder
    <2>3. m * k + j = m * l + ((q + j) % m) /\ j \in 0..(m - 1)
      BY <1>1, <2>2
    <2>4. j = (q + j) % m
      BY <2>2, <2>3, RemainderIsUnique
    <2> QED BY <2>2, <2>4
  <1>3. (q + m) % m = 0
    <2>1. q + m \in Nat
      OBVIOUS
    <2>2. PICK l \in Nat : q + m = m * l + ((q + m) % m) /\ (q + m) % m \in 0..(m - 1)
      BY <2>1, Remainder
    <2>3. m * (k + 1) = m * k + m /\ m * k \in Nat /\ k + 1 \in Nat
      OBVIOUS
    <2>4. m * (k + 1) + 0 = m * l + ((q + m) % m) /\ 0 \in 0..(m - 1)
      BY <1>1, <2>2, <2>3
    <2> QED BY <2>2, <2>3, <2>4, RemainderIsUnique
  <1> QED BY <1>2, <1>3

-----------------------------------------------------------------------------
(* The sorted table *)

\* A table of ids, the ids before one of them, and its place in the order.
Table(t) == t \subseteq Nat \ {0} /\ IsFiniteSet(t)

Less(x, y) == x < y

LEMMA IdsOrdered ==
    ASSUME NEW t, Table(t)
    PROVE  /\ \A x \in t : ~ Less(x, x)
           /\ \A x, y, z \in t : Less(x, y) /\ Less(y, z) => Less(x, z)
           /\ \A x, y \in t : x = y \/ Less(x, y) \/ Less(y, x)
           /\ \A x, y \in t : ~ (Less(x, y) /\ Less(y, x))
           /\ \A x, y \in t : (x <= y <=> Less(x, y) \/ x = y) /\ (x > y <=> Less(y, x))
  <1>1. \A x \in t : x \in Nat
    BY DEF Table
  <1> QED BY <1>1 DEF Less

Ahead(t, c) == { x \in t : Less(x, c) }

Place(t, c) == Cardinality(Ahead(t, c)) + 1

LEMMA AheadSize ==
    ASSUME NEW t, Table(t), NEW c
    PROVE  /\ IsFiniteSet(Ahead(t, c)) /\ Cardinality(Ahead(t, c)) \in Nat
           /\ Cardinality(t) \in Nat /\ Place(t, c) = Cardinality(Ahead(t, c)) + 1
  <1>1. IsFiniteSet(t) /\ Ahead(t, c) \in SUBSET t
    BY DEF Table, Ahead
  <1> QED BY <1>1, FS_Subset, FS_CardinalityType DEF Place

\* The places of the ids of a table are the numbers up to its size.
LEMMA Places ==
    ASSUME NEW t, Table(t)
    PROVE  /\ \A x \in t : Place(t, x) \in 1..Cardinality(t)
           /\ \A x, y \in t : Place(t, x) = Place(t, y) => x = y
           /\ \A i \in 1..Cardinality(t) : \E x \in t : Place(t, x) = i
  <1>0. t \subseteq Nat \ {0} /\ IsFiniteSet(t) /\ Cardinality(t) \in Nat
    BY FS_CardinalityType DEF Table
  <1>1. ASSUME NEW x \in t PROVE Place(t, x) \in 1..Cardinality(t)
    <2>1. Ahead(t, x) \in SUBSET t /\ Ahead(t, x) # t
      BY IdsOrdered DEF Ahead
    <2>2. Cardinality(Ahead(t, x)) <= Cardinality(t) /\ Cardinality(Ahead(t, x)) # Cardinality(t)
      BY <1>0, <2>1, FS_Subset
    <2> QED BY <2>2, AheadSize
  <1>2. ASSUME NEW x \in t, NEW y \in t, Less(x, y) PROVE Place(t, x) < Place(t, y)
    <2>1. Ahead(t, x) \in SUBSET Ahead(t, y) /\ x \in Ahead(t, y) /\ x \notin Ahead(t, x)
      BY <1>2, IdsOrdered DEF Ahead
    <2>2. IsFiniteSet(Ahead(t, y)) /\ Ahead(t, x) # Ahead(t, y)
      BY <2>1, AheadSize
    <2>3. Cardinality(Ahead(t, x)) <= Cardinality(Ahead(t, y)) /\ Cardinality(Ahead(t, x)) # Cardinality(Ahead(t, y))
      BY <2>1, <2>2, FS_Subset
    <2>4. /\ Cardinality(Ahead(t, x)) \in Nat /\ Place(t, x) = Cardinality(Ahead(t, x)) + 1
          /\ Cardinality(Ahead(t, y)) \in Nat /\ Place(t, y) = Cardinality(Ahead(t, y)) + 1
      BY AheadSize
    <2> QED BY <2>3, <2>4
  <1>3. ASSUME NEW x \in t, NEW y \in t, Place(t, x) = Place(t, y) PROVE x = y
    <2>1. Place(t, x) \in Nat
      BY <1>1
    <2>2. ~ Less(x, y) /\ ~ Less(y, x)
      BY <1>2, <1>3, <2>1
    <2> QED BY <2>2, IdsOrdered
  <1>4. \A i \in 1..Cardinality(t) : \E x \in t : Place(t, x) = i
    <2> DEFINE f == [x \in t |-> Place(t, x)]
    <2>1. f \in Injection(t, 1..Cardinality(t))
      BY <1>1, <1>3 DEF Injection, IsInjective
    <2>2. PICK n \in Nat : n = Cardinality(t)
      BY <1>0
    <2>3. PICK T : T = 1..n
      OBVIOUS
    <2>4. IsFiniteSet(T) /\ Cardinality(T) = n
      BY <2>3, FS_Interval
    <2> HIDE DEF f
    <2>5. f \in Surjection(t, T)
      BY <1>0, <2>1, <2>2, <2>3, <2>4, FS_Injection
    <2>6. \A i \in T : \E x \in t : f[x] = i
      BY <2>5 DEF Surjection
    <2> QED BY <2>2, <2>3, <2>6 DEF f
  <1> QED BY <1>1, <1>3, <1>4

\* The position of an id is its place.
LEMMA PositionIsPlace ==
    ASSUME NEW t, Table(t), NEW c \in t
    PROVE  Position(t, c) = Place(t, c)
  <1>1. { x \in t : x <= c } = Ahead(t, c) \cup {c} /\ c \notin Ahead(t, c)
    BY IdsOrdered DEF Ahead
  <1>2. Cardinality(Ahead(t, c) \cup {c}) = Cardinality(Ahead(t, c)) + 1
    BY <1>1, AheadSize, FS_AddElement
  <1> QED BY <1>1, <1>2, AheadSize DEF Position

\* The sorted table has every id at its place.
LEMMA SortedPlaces ==
    ASSUME NEW t, Table(t)
    PROVE  /\ Cardinality(t) \in Nat
           /\ Sorted(t) \in [1..Cardinality(t) -> t]
           /\ \A i \in 1..Cardinality(t) : Place(t, Sorted(t)[i]) = i
  <1>0. Cardinality(t) \in Nat
    BY AheadSize
  <1>1. ASSUME NEW i \in 1..Cardinality(t)
        PROVE  Sorted(t)[i] \in t /\ Place(t, Sorted(t)[i]) = i
    <2> DEFINE c == CHOOSE id \in t : Cardinality({ x \in t : x < id }) = i - 1
    <2>1. Sorted(t)[i] = c
      BY DEF Sorted
    <2>2. PICK y \in t : Place(t, y) = i
      BY Places
    <2>3. Cardinality({ x \in t : x < y }) = i - 1
      <3>1. Cardinality(Ahead(t, y)) = i - 1
        BY <1>0, <2>2, AheadSize
      <3> QED BY <3>1, Zenon DEF Ahead, Less
    <2>4. c \in t /\ Cardinality({ x \in t : x < c }) = i - 1
      BY <2>3, Zenon
    <2> HIDE DEF c
    <2>5. Cardinality(Ahead(t, c)) = i - 1
      BY <2>4, Zenon DEF Ahead, Less
    <2>6. Place(t, c) = i
      BY <1>0, <2>5, AheadSize
    <2> QED BY <2>1, <2>4, <2>6
  <1>2. Sorted(t) \in [1..Cardinality(t) -> t]
    BY <1>1 DEF Sorted
  <1> QED BY <1>0, <1>1, <1>2

\* The cardinality of two parts and an element between them.
LEMMA SizeAround ==
    ASSUME NEW A, NEW B, NEW c, IsFiniteSet(A), IsFiniteSet(B), A \cap B = {}, c \notin A, c \notin B
    PROVE  /\ Cardinality(A \cup {c} \cup B) = Cardinality(A) + 1 + Cardinality(B)
           /\ Cardinality(A) \in Nat /\ Cardinality(B) \in Nat
  <1>1. Cardinality(A) \in Nat /\ Cardinality(B) \in Nat
    BY FS_CardinalityType
  <1>2. IsFiniteSet(A \cup {c}) /\ Cardinality(A \cup {c}) = Cardinality(A) + 1
    BY FS_AddElement
  <1>3. (A \cup {c}) \cap B = {} /\ Cardinality({}) = 0
    BY FS_EmptySet
  <1>4. Cardinality((A \cup {c}) \cup B) = Cardinality(A \cup {c}) + Cardinality(B) - Cardinality((A \cup {c}) \cap B)
    BY <1>2, FS_Union
  <1>5. Cardinality((A \cup {c}) \cap B) = 0
    BY <1>3, Zenon
  <1> QED BY <1>1, <1>2, <1>4, <1>5

\* The ids after one of them are the rest of the table, at places counted from it.
After(t, c) == { x \in t : Less(c, x) }

LEMMA PlacesAfter ==
    ASSUME NEW t, Table(t), NEW c \in t
    PROVE  /\ Table(After(t, c))
           /\ Cardinality(After(t, c)) = Cardinality(t) - Place(t, c)
           /\ \A x \in After(t, c) : Place(t, x) = Place(After(t, c), x) + Place(t, c)
           /\ \A x \in t : x \in After(t, c) <=> Place(t, x) > Place(t, c)
  <1> DEFINE A == Ahead(t, c)
             B == After(t, c)
  <1>0. t \subseteq Nat \ {0} /\ IsFiniteSet(t) /\ Cardinality(t) \in Nat
    BY AheadSize DEF Table
  <1>1. Table(B)
    <2>1. B \in SUBSET t
      BY DEF After
    <2> QED BY <1>0, <2>1, FS_Subset DEF Table
  <1>2. IsFiniteSet(A) /\ IsFiniteSet(B) /\ A \cap B = {} /\ c \notin A /\ c \notin B /\ t = A \cup {c} \cup B
    <2>1. A \cap B = {} /\ c \notin A /\ c \notin B /\ t = A \cup {c} \cup B
      BY IdsOrdered DEF Ahead, After
    <2> QED BY <1>1, <2>1, AheadSize DEF Table
  <1>3. /\ Cardinality(t) = Cardinality(A) + 1 + Cardinality(B)
        /\ Cardinality(A) \in Nat /\ Cardinality(B) \in Nat /\ Place(t, c) = Cardinality(A) + 1
    <2>1. Cardinality(A \cup {c} \cup B) = Cardinality(A) + 1 + Cardinality(B)
      BY <1>2, SizeAround
    <2> QED BY <1>1, <1>2, <2>1, AheadSize
  <1>4. ASSUME NEW x \in B PROVE Place(t, x) = Place(B, x) + Place(t, c)
    <2>1. Ahead(t, x) = A \cup {c} \cup Ahead(B, x)
      <3>1. x \in t /\ Less(c, x)
        BY DEF After
      <3>2. \A y \in t : Less(y, x) <=> (Less(y, c) \/ y = c \/ (Less(c, y) /\ Less(y, x)))
        BY <3>1, IdsOrdered
      <3> QED BY <3>1, <3>2 DEF Ahead, After
    <2>2. /\ IsFiniteSet(Ahead(B, x)) /\ Cardinality(Ahead(B, x)) \in Nat
          /\ Place(B, x) = Cardinality(Ahead(B, x)) + 1
      BY <1>1, AheadSize
    <2>3. A \cap Ahead(B, x) = {} /\ c \notin Ahead(B, x)
      BY <1>2 DEF Ahead
    <2>4. Cardinality(A \cup {c} \cup Ahead(B, x)) = Cardinality(A) + 1 + Cardinality(Ahead(B, x))
      BY <1>2, <2>2, <2>3, SizeAround
    <2>5. Place(t, x) = Cardinality(Ahead(t, x)) + 1
      BY AheadSize
    <2> QED BY <1>3, <2>1, <2>2, <2>4, <2>5
  <1>5. ASSUME NEW x \in t PROVE x \in B <=> Place(t, x) > Place(t, c)
    <2>1. CASE x \in B
      <3>1. Place(B, x) \in Nat /\ Place(B, x) > 0 /\ Place(t, c) \in Nat
        BY <1>1, <1>3, <2>1, AheadSize
      <3> QED BY <1>4, <2>1, <3>1
    <2>2. CASE x \notin B
      <3>1. Ahead(t, x) \in SUBSET A
        BY <2>2, IdsOrdered DEF Ahead, After
      <3>2. Cardinality(Ahead(t, x)) <= Cardinality(A) /\ Cardinality(Ahead(t, x)) \in Nat
        BY <1>2, <3>1, AheadSize, FS_Subset
      <3>3. Place(t, x) = Cardinality(Ahead(t, x)) + 1
        BY AheadSize
      <3> QED BY <1>3, <2>2, <3>2, <3>3
    <2> QED BY <2>1, <2>2
  <1> QED BY <1>1, <1>3, <1>4, <1>5

-----------------------------------------------------------------------------
(* Pages *)

\* The ids of a table at the places after p up to q.
PlacedIn(t, p, q) == { x \in t : p < Place(t, x) /\ Place(t, x) <= q }

\* A page of a table: its first n ids, and the next one as the cursor.
PageOf(page, t, n) ==
    /\ ToSet(page.items) = PlacedIn(t, 0, n)
    /\ Len(page.items) \in Nat /\ Len(page.items) <= n
    /\ page.next = IF Cardinality(t) > n THEN Sorted(t)[n + 1] ELSE 0

LEMMA FirstPage ==
    ASSUME NEW t, Table(t), NEW limit, NEW n \in Nat, n = normalizeLimit(limit)
    PROVE  PageOf(paginateIDs(Sorted(t), limit), t, n)
  <1>1. PICK N \in Nat : N = Cardinality(t)
    BY SortedPlaces
  <1>2. PICK s : s = Sorted(t)
    OBVIOUS
  <1>3. s \in [1..N -> t] /\ \A i \in 1..N : Place(t, s[i]) = i
    BY <1>1, <1>2, SortedPlaces
  <1>4. s \in Seq(t) /\ Len(s) = N /\ DOMAIN s = 1..N
    BY <1>3
  <1>5. \A x \in t : Place(t, x) \in 1..N /\ s[Place(t, x)] = x
    <2> SUFFICES ASSUME NEW x \in t PROVE Place(t, x) \in 1..N /\ s[Place(t, x)] = x
      OBVIOUS
    <2>1. PICK i \in 1..N : i = Place(t, x)
      BY <1>1, Places
    <2>2. s[i] \in t /\ Place(t, s[i]) = Place(t, x)
      BY <1>3, <2>1
    <2> QED BY <2>1, <2>2, Places
  <1>6. PICK page : page = paginateIDs(s, limit)
    OBVIOUS
  <1>7. CASE N > n
    <2>1. page = [items |-> SubSeq(s, 1, n), next |-> s[n + 1]]
      BY <1>4, <1>6, <1>7 DEF paginateIDs
    <2>2. PICK r : r = SubSeq(s, 1, n)
      OBVIOUS
    <2>3. r \in Seq(t) /\ Len(r) = n /\ DOMAIN r = 1..n /\ \A i \in 1..n : r[i] = s[i]
      BY <1>4, <1>7, <2>2
    <2>4. ToSet(r) = { s[i] : i \in 1..n }
      BY <2>3 DEF ToSet
    <2>5. { s[i] : i \in 1..n } = PlacedIn(t, 0, n)
      <3>1. ASSUME NEW i \in 1..n PROVE s[i] \in PlacedIn(t, 0, n)
        BY <1>3, <1>7 DEF PlacedIn
      <3>2. ASSUME NEW x \in PlacedIn(t, 0, n) PROVE \E i \in 1..n : x = s[i]
        <4>1. x \in t /\ Place(t, x) \in 1..n
          BY <1>5 DEF PlacedIn
        <4> QED BY <1>5, <4>1
      <3> QED BY <3>1, <3>2
    <2>6. page.items = r /\ page.next = s[n + 1]
      BY <2>1, <2>2
    <2>7. ToSet(page.items) = PlacedIn(t, 0, n) /\ Len(page.items) = n
      BY <2>3, <2>4, <2>5, <2>6
    <2>8. PageOf(page, t, n)
      BY <1>1, <1>2, <1>7, <2>6, <2>7 DEF PageOf
    <2> QED BY <1>2, <1>6, <2>8
  <1>8. CASE ~ (N > n)
    <2>1. page = [items |-> s, next |-> 0]
      BY <1>4, <1>6, <1>8 DEF paginateIDs
    <2>2. ToSet(s) = { s[i] : i \in 1..N }
      BY <1>4 DEF ToSet
    <2>3. { s[i] : i \in 1..N } = PlacedIn(t, 0, n)
      <3>1. ASSUME NEW i \in 1..N PROVE s[i] \in PlacedIn(t, 0, n)
        BY <1>3, <1>8 DEF PlacedIn
      <3>2. ASSUME NEW x \in PlacedIn(t, 0, n) PROVE \E i \in 1..N : x = s[i]
        <4>1. x \in t
          BY DEF PlacedIn
        <4> QED BY <1>5, <4>1
      <3> QED BY <3>1, <3>2
    <2>4. page.items = s /\ page.next = 0
      BY <2>1
    <2>5. ToSet(page.items) = PlacedIn(t, 0, n) /\ Len(page.items) = N
      BY <1>4, <2>2, <2>3, <2>4
    <2>6. PageOf(page, t, n)
      BY <1>1, <1>8, <2>4, <2>5 DEF PageOf
    <2> QED BY <1>2, <1>6, <2>6
  <1> QED BY <1>7, <1>8

\* The cursor at place p: 0, where there is none, or the id at p.
CursorAt(t, p) == IF p = 0 THEN 0 ELSE Sorted(t)[p]

\* r is what follows the first p ids of t.
Rest(r, t, p) ==
    /\ Table(r) /\ r \subseteq t
    /\ Cardinality(r) = Cardinality(t) - p
    /\ \A x \in r : Place(t, x) = Place(r, x) + p
    /\ \A x \in t : x \in r <=> Place(t, x) > p

LEMMA RestAt ==
    ASSUME NEW t, Table(t), NEW p \in 0..Cardinality(t)
    PROVE  Rest({ id \in t : id > CursorAt(t, p) }, t, p)
  <1>0. Cardinality(t) \in Nat /\ \A x \in t : x \in Nat /\ x > 0 /\ Place(t, x) \in Nat /\ Place(t, x) > 0
    <2>1. \A x \in t : x \in Nat /\ x > 0
      BY DEF Table
    <2>2. Cardinality(t) \in Nat /\ \A x \in t : Place(t, x) \in 1..Cardinality(t)
      BY AheadSize, Places
    <2> QED BY <2>1, <2>2
  <1>1. CASE p = 0
    <2>1. { id \in t : id > CursorAt(t, p) } = t
      BY <1>0, <1>1 DEF CursorAt
    <2>2. Rest(t, t, 0)
      BY <1>0 DEF Rest
    <2> QED BY <1>1, <2>1, <2>2
  <1>2. CASE p # 0
    <2>1. PICK c \in t : c = Sorted(t)[p] /\ Place(t, c) = p
      BY <1>0, <1>2, SortedPlaces
    <2>2. { id \in t : id > CursorAt(t, p) } = After(t, c)
      BY <1>2, <2>1, IdsOrdered DEF CursorAt, After
    <2>3. Rest(After(t, c), t, p)
      <3>1. After(t, c) \subseteq t
        BY DEF After
      <3> QED BY <2>1, <3>1, PlacesAfter DEF Rest
    <2> QED BY <2>2, <2>3
  <1> QED BY <1>1, <1>2

\* A page behind the first p ids of a table.
PageFrom(page, t, p, n) ==
    /\ ToSet(page.items) = PlacedIn(t, p, p + n)
    /\ page.next = IF Cardinality(t) > p + n THEN CursorAt(t, p + n + 1) ELSE 0

LEMMA PageAt ==
    ASSUME NEW t, Table(t), NEW p \in 0..Cardinality(t), NEW limit \in 1..MaxLimit
    PROVE  PageFrom(ListFriends(t, CursorAt(t, p), limit), t, p, limit)
  <1>0. Cardinality(t) \in Nat /\ p \in Nat /\ limit \in Nat /\ limit # 0
    BY SortedPlaces
  <1>1. normalizeLimit(limit) = limit
    BY LimitAssumption DEF normalizeLimit
  <1>2. PICK r : r = { id \in t : id > CursorAt(t, p) }
    OBVIOUS
  <1>3. Rest(r, t, p) /\ Table(r)
    BY <1>2, RestAt DEF Rest
  <1>4. PICK page : page = ListFriends(t, CursorAt(t, p), limit)
    OBVIOUS
  <1>5. page = paginateIDs(Sorted(r), limit)
    BY <1>1, <1>2, <1>4, Zenon DEF ListFriends, listByUserTable
  <1>6. PageOf(page, r, limit)
    BY <1>0, <1>1, <1>3, <1>5, FirstPage
  <1>7. PlacedIn(r, 0, limit) = PlacedIn(t, p, p + limit)
    <2>1. \A x \in r : Place(r, x) \in Nat /\ Place(r, x) > 0 /\ Place(t, x) \in Nat /\ Place(t, x) = Place(r, x) + p /\ x \in t
      BY <1>0, <1>3, AheadSize DEF Rest
    <2>2. \A x \in t : Place(t, x) \in Nat /\ (x \in r <=> Place(t, x) > p)
      BY <1>3, AheadSize DEF Rest
    <2>3. \A x \in r : x \in PlacedIn(r, 0, limit) <=> x \in PlacedIn(t, p, p + limit)
      BY <1>0, <2>1 DEF PlacedIn
    <2>4. PlacedIn(t, p, p + limit) \subseteq r /\ PlacedIn(r, 0, limit) \subseteq r
      BY <1>0, <2>2 DEF PlacedIn
    <2> QED BY <2>3, <2>4
  <1>8. ASSUME Cardinality(t) > p + limit
        PROVE  Cardinality(r) > limit /\ Sorted(r)[limit + 1] = CursorAt(t, p + limit + 1)
    <2>1. Cardinality(r) = Cardinality(t) - p /\ Cardinality(r) > limit
      BY <1>0, <1>3, <1>8 DEF Rest
    <2>2. PICK i \in 1..Cardinality(r) : i = limit + 1
      BY <1>0, <2>1
    <2>3. PICK j \in 1..Cardinality(t) : j = p + limit + 1 /\ j = i + p /\ j # 0
      BY <1>0, <1>8, <2>2
    <2>4. PICK x \in r : x = Sorted(r)[i] /\ Place(r, x) = i
      BY <1>3, SortedPlaces
    <2>5. x \in t /\ Place(t, x) = j
      BY <1>3, <2>3, <2>4 DEF Rest
    <2>6. PICK y \in t : y = Sorted(t)[j] /\ Place(t, y) = j
      BY SortedPlaces
    <2>7. x = y
      BY <2>5, <2>6, Places
    <2> QED BY <2>1, <2>2, <2>3, <2>4, <2>6, <2>7 DEF CursorAt
  <1>9. ASSUME ~ (Cardinality(t) > p + limit) PROVE ~ (Cardinality(r) > limit)
    BY <1>0, <1>3, <1>9 DEF Rest
  <1>10. PageFrom(page, t, p, limit)
    BY <1>6, <1>7, <1>8, <1>9 DEF PageOf, PageFrom
  <1> QED BY <1>4, <1>10

\* What a client has seen that has followed k cursors: it is at the end, or has come past k
\* cursors, the last of them at place p.
Skipping(t, m, q) == { x \in t : Place(t, x) <= q /\ Place(t, x) % m # 0 }

Seen(client, t, m, k) ==
    \/ client.next = 0 /\ client.seen = { x \in t : Place(t, x) % m # 0 }
    \/ \E p \in 1..Cardinality(t) :
            /\ p > k /\ p % m = 0
            /\ client.next = CursorAt(t, p)
            /\ client.seen = Skipping(t, m, p)

\* One page more, behind a multiple of the distance of the cursors.
LEMMA SeenWithPage ==
    ASSUME NEW t, Table(t), NEW limit \in 1..MaxLimit, NEW p \in 0..Cardinality(t), NEW k \in Nat,
           p % (limit + 1) = 0, p >= k, NEW page, PageFrom(page, t, p, limit),
           NEW client, client = [seen |-> Skipping(t, limit + 1, p) \cup ToSet(page.items), next |-> page.next]
    PROVE  Seen(client, t, limit + 1, k)
  <1>0. /\ Cardinality(t) \in Nat /\ p \in Nat /\ limit \in Nat /\ limit # 0
        /\ \A x \in t : Place(t, x) \in Nat /\ Place(t, x) <= Cardinality(t)
    BY SortedPlaces, Places
  <1>1. PICK m \in Nat \ {0} : m = limit + 1
    BY <1>0
  <1>2. (p + m) % m = 0 /\ \A j \in 1..(m - 1) : (p + j) % m # 0
    BY <1>0, <1>1, NextMultiple
  <1>3. \A x \in PlacedIn(t, p, p + limit) : x \in t /\ Place(t, x) % m # 0
    <2> SUFFICES ASSUME NEW x \in PlacedIn(t, p, p + limit) PROVE x \in t /\ Place(t, x) % m # 0
      OBVIOUS
    <2>1. x \in t /\ p < Place(t, x) /\ Place(t, x) <= p + limit
      BY DEF PlacedIn
    <2>2. PICK j \in 1..(m - 1) : Place(t, x) = p + j
      <3>1. Place(t, x) - p \in 1..(m - 1) /\ Place(t, x) = p + (Place(t, x) - p)
        BY <1>0, <1>1, <2>1
      <3> QED BY <3>1
    <2> QED BY <1>2, <2>1, <2>2
  <1>4. /\ client.seen = Skipping(t, m, p) \cup PlacedIn(t, p, p + limit)
        /\ client.next = IF Cardinality(t) > p + limit THEN CursorAt(t, p + limit + 1) ELSE 0
    BY <1>1 DEF PageFrom
  <1>5. CASE Cardinality(t) > p + limit
    <2>1. PICK q \in 1..Cardinality(t) : q = p + m /\ q = p + limit + 1
      BY <1>0, <1>1, <1>5
    <2>2. q > k /\ q % m = 0
      BY <1>0, <1>1, <1>2, <2>1
    <2>3. ASSUME NEW x \in t
          PROVE  (x \in Skipping(t, m, p) \/ x \in PlacedIn(t, p, p + limit)) <=> x \in Skipping(t, m, q)
      <3>1. CASE Place(t, x) <= p
        <4>1. Place(t, x) <= q /\ x \notin PlacedIn(t, p, p + limit)
          BY <1>0, <1>1, <2>1, <3>1 DEF PlacedIn
        <4> QED BY <3>1, <4>1 DEF Skipping
      <3>2. CASE p < Place(t, x) /\ Place(t, x) <= p + limit
        <4>1. Place(t, x) <= q /\ x \in PlacedIn(t, p, p + limit)
          BY <1>0, <1>1, <2>1, <3>2 DEF PlacedIn
        <4> QED BY <1>3, <4>1 DEF Skipping
      <3>3. CASE Place(t, x) > p + limit
        <4>1. x \notin PlacedIn(t, p, p + limit) /\ ~ (Place(t, x) <= p)
          BY <1>0, <3>3 DEF PlacedIn
        <4>2. Place(t, x) <= q => Place(t, x) = q
          BY <1>0, <1>1, <2>1, <3>3
        <4> QED BY <2>2, <4>1, <4>2 DEF Skipping
      <3> QED BY <1>0, <3>1, <3>2, <3>3
    <2>4. client.seen = Skipping(t, m, q)
      <3>1. Skipping(t, m, p) \subseteq t /\ PlacedIn(t, p, p + limit) \subseteq t /\ Skipping(t, m, q) \subseteq t
        BY DEF Skipping, PlacedIn
      <3> QED BY <1>4, <2>3, <3>1
    <2>5. client.next = CursorAt(t, q)
      BY <1>4, <1>5, <2>1
    <2> QED BY <1>1, <2>2, <2>4, <2>5 DEF Seen
  <1>6. CASE ~ (Cardinality(t) > p + limit)
    <2>1. client.next = 0
      BY <1>4, <1>6
    <2>2. \A x \in t : x \in PlacedIn(t, p, p + limit) <=> p < Place(t, x)
      BY <1>0, <1>6 DEF PlacedIn
    <2>3. \A x \in t : Place(t, x) <= p \/ p < Place(t, x)
      BY <1>0
    <2>4. client.seen = { x \in t : Place(t, x) % m # 0 }
      <3>1. Skipping(t, m, p) \subseteq t /\ PlacedIn(t, p, p + limit) \subseteq t
        BY DEF Skipping, PlacedIn
      <3>2. \A x \in t : x \in Skipping(t, m, p) <=> Place(t, x) <= p /\ Place(t, x) % m # 0
        BY DEF Skipping
      <3> QED BY <1>3, <1>4, <2>2, <2>3, <3>1, <3>2
    <2> QED BY <1>1, <2>1, <2>4 DEF Seen
  <1> QED BY <1>5, <1>6

LEMMA SeenFirst ==
    ASSUME NEW t, Table(t), NEW limit \in 1..MaxLimit
    PROVE  Seen(FirstSeen(ListFriends(t, 0, limit)), t, limit + 1, 0)
  <1>0. /\ Cardinality(t) \in Nat /\ limit \in Nat /\ limit + 1 \in Nat \ {0}
        /\ \A x \in t : Place(t, x) \in Nat /\ Place(t, x) > 0
    <2>1. Cardinality(t) \in Nat /\ \A x \in t : Place(t, x) \in 1..Cardinality(t)
      BY AheadSize, Places
    <2> QED BY <2>1
  <1>1. PICK z : z = 0
    OBVIOUS
  <1>2. CursorAt(t, z) = 0 /\ z \in 0..Cardinality(t) /\ z % (limit + 1) = 0 /\ z >= 0
    BY <1>0, <1>1 DEF CursorAt
  <1>3. PICK page : page = ListFriends(t, 0, limit)
    OBVIOUS
  <1>4. PageFrom(page, t, z, limit)
    BY <1>2, <1>3, PageAt
  <1>5. Skipping(t, limit + 1, z) = {}
    BY <1>0, <1>1 DEF Skipping
  <1>6. PICK client : client = FirstSeen(page)
    OBVIOUS
  <1>7. client = [seen |-> Skipping(t, limit + 1, z) \cup ToSet(page.items), next |-> page.next]
    <2>1. client = [seen |-> ToSet(page.items), next |-> page.next]
      BY <1>6 DEF FirstSeen
    <2>2. Skipping(t, limit + 1, z) \cup ToSet(page.items) = ToSet(page.items)
      BY <1>5
    <2> QED BY <2>1, <2>2
  <1>8. Seen(client, t, limit + 1, 0)
    BY <1>2, <1>4, <1>7, SeenWithPage
  <1> QED BY <1>3, <1>6, <1>8

LEMMA SeenMore ==
    ASSUME NEW t, Table(t), NEW limit \in 1..MaxLimit, NEW k \in Nat, NEW client, Seen(client, t, limit + 1, k)
    PROVE  Seen(FollowCursor(t, limit, client), t, limit + 1, k + 1)
  <1>0. Cardinality(t) \in Nat
    BY SortedPlaces
  <1>1. CASE client.next = 0 /\ client.seen = { x \in t : Place(t, x) % (limit + 1) # 0 }
    <2>1. FollowCursor(t, limit, client) = client
      BY <1>1 DEF FollowCursor
    <2> QED BY <1>1, <2>1 DEF Seen
  <1>2. CASE \E p \in 1..Cardinality(t) :
                /\ p > k /\ p % (limit + 1) = 0
                /\ client.next = CursorAt(t, p)
                /\ client.seen = Skipping(t, limit + 1, p)
    <2>1. PICK p \in 1..Cardinality(t) :
                /\ p > k /\ p % (limit + 1) = 0
                /\ client.next = CursorAt(t, p)
                /\ client.seen = Skipping(t, limit + 1, p)
      BY <1>2
    <2>2. p \in 0..Cardinality(t) /\ p >= k + 1 /\ p # 0
      BY <1>0, <2>1
    <2>3. client.next # 0
      <3>1. Sorted(t)[p] \in t
        BY SortedPlaces
      <3> QED BY <2>1, <2>2, <3>1 DEF CursorAt, Table
    <2>4. PICK page : page = ListFriends(t, client.next, limit)
      OBVIOUS
    <2>5. PageFrom(page, t, p, limit)
      BY <2>1, <2>2, <2>4, PageAt
    <2>6. PICK after : after = FollowCursor(t, limit, client)
      OBVIOUS
    <2>7. after = [seen |-> Skipping(t, limit + 1, p) \cup ToSet(page.items), next |-> page.next]
      BY <2>1, <2>3, <2>4, <2>6 DEF FollowCursor
    <2>8. PICK l \in Nat : l = k + 1
      OBVIOUS
    <2>9. Seen(after, t, limit + 1, l)
      BY <2>1, <2>2, <2>5, <2>7, <2>8, SeenWithPage
    <2> QED BY <2>6, <2>8, <2>9
  <1> QED BY <1>1, <1>2 DEF Seen

\* z is the walk that follows at most n cursors.
Walks(z, t, limit, n) ==
    z = [i \in 0..n |-> IF i = 0 THEN FirstSeen(ListFriends(t, 0, limit)) ELSE FollowCursor(t, limit, z[i - 1])]

LEMMA WalksExist ==
    ASSUME NEW t, NEW limit, NEW n \in Nat
    PROVE  \E z : Walks(z, t, limit, n)
  <1> DEFINE N == { m \in Nat : \E z : Walks(z, t, limit, m) }
             F(x) == FollowCursor(t, limit, x)
             S == FirstSeen(ListFriends(t, 0, limit))
  <1>0. \A z, m : Walks(z, t, limit, m) <=> z = [i \in 0..m |-> IF i = 0 THEN S ELSE F(z[i - 1])]
    BY DEF Walks
  <1> HIDE DEF F, S
  <1>1. 0 \in N
    <2> DEFINE z == [i \in 0..0 |-> S]
    <2>1. z = [i \in 0..0 |-> IF i = 0 THEN S ELSE F(z[i - 1])]
      OBVIOUS
    <2> HIDE DEF z
    <2> QED BY <1>0, <2>1
  <1>2. ASSUME NEW m \in Nat, m \in N PROVE m + 1 \in N
    <2>1. PICK z : z = [i \in 0..m |-> IF i = 0 THEN S ELSE F(z[i - 1])]
      BY <1>0, <1>2
    <2> DEFINE y == [i \in 0..(m + 1) |-> IF i <= m THEN z[i] ELSE F(z[m])]
    <2>2. ASSUME NEW i \in 0..(m + 1) PROVE y[i] = IF i = 0 THEN S ELSE F(y[i - 1])
      <3>1. CASE i = 0
        BY <2>1, <3>1
      <3>2. CASE i # 0 /\ i <= m
        <4>1. y[i] = z[i] /\ i - 1 \in 0..m /\ y[i - 1] = z[i - 1] /\ i \in 0..m
          BY <3>2
        <4>2. z[i] = F(z[i - 1])
          BY <2>1, <3>2, <4>1
        <4> QED BY <3>2, <4>1, <4>2
      <3>3. CASE i = m + 1
        <4>1. y[i] = F(z[m]) /\ i - 1 = m /\ y[m] = z[m] /\ i # 0
          BY <3>3
        <4> QED BY <4>1
      <3> QED BY <3>1, <3>2, <3>3
    <2>3. y = [i \in 0..(m + 1) |-> y[i]]
      OBVIOUS
    <2> HIDE DEF y
    <2>4. y = [i \in 0..(m + 1) |-> IF i = 0 THEN S ELSE F(y[i - 1])]
      BY <2>2, <2>3
    <2>5. Walks(y, t, limit, m + 1) /\ m + 1 \in Nat
      BY <1>0, <2>4
    <2> QED BY <2>5
  <1> HIDE DEF N
  <1>3. n \in N
    BY <1>1, <1>2, Induction
  <1> QED BY <1>3 DEF N

\* The walk is at its end, and has left out the ids at every place that is a multiple.
LEMMA WalkEnds ==
    ASSUME NEW t, Table(t), NEW limit \in 1..MaxLimit
    PROVE  /\ Walk(t, limit).seen = { x \in t : Place(t, x) % (limit + 1) # 0 }
           /\ Walk(t, limit).next = 0
  <1>0. Cardinality(t) \in Nat
    BY SortedPlaces
  <1> DEFINE y == CHOOSE z : Walks(z, t, limit, Cardinality(t))
  <1>1. Walk(t, limit) = y[Cardinality(t)]
    BY Zenon DEF Walk, Walks
  <1>2. Walks(y, t, limit, Cardinality(t))
    BY <1>0, WalksExist, Zenon
  <1> HIDE DEF y
  <1> DEFINE N == { k \in Nat : k <= Cardinality(t) => Seen(y[k], t, limit + 1, k) }
  <1>3. \A i \in 0..Cardinality(t) :
            y[i] = IF i = 0 THEN FirstSeen(ListFriends(t, 0, limit)) ELSE FollowCursor(t, limit, y[i - 1])
    BY <1>2 DEF Walks
  <1>4. 0 \in N
    BY <1>0, <1>3, SeenFirst
  <1>5. ASSUME NEW k \in Nat, k \in N PROVE k + 1 \in N
    <2> SUFFICES ASSUME k + 1 <= Cardinality(t) PROVE Seen(y[k + 1], t, limit + 1, k + 1)
      OBVIOUS
    <2>1. Seen(y[k], t, limit + 1, k)
      BY <1>0, <1>5
    <2>2. y[k + 1] = FollowCursor(t, limit, y[k])
      <3>1. k + 1 \in 0..Cardinality(t) /\ k + 1 # 0 /\ (k + 1) - 1 = k
        BY <1>0
      <3> QED BY <1>3, <3>1
    <2> QED BY <2>1, <2>2, SeenMore
  <1> HIDE DEF N
  <1>6. Cardinality(t) \in N
    BY <1>0, <1>4, <1>5, Induction
  <1>7. Seen(y[Cardinality(t)], t, limit + 1, Cardinality(t))
    BY <1>0, <1>6 DEF N
  <1>8. ~ (\E p \in 1..Cardinality(t) : p > Cardinality(t))
    BY <1>0
  <1> QED BY <1>1, <1>7, <1>8 DEF Seen

LEMMA TablesOfIds == \A t \in SUBSET Ids : Table(t)
  BY IdsAssumption, FS_Subset DEF Table

LEMMA CursorsAreSkipped == WalkSkipsCursors
  <1> SUFFICES ASSUME NEW t \in SUBSET Ids, NEW limit \in 1..MaxLimit
               PROVE  /\ Walk(t, limit).seen = { id \in t : Position(t, id) % (limit + 1) # 0 }
                      /\ Walk(t, limit).next = 0
    BY DEF WalkSkipsCursors
  <1>1. Table(t)
    BY TablesOfIds
  <1>2. { id \in t : Position(t, id) % (limit + 1) # 0 } = { x \in t : Place(t, x) % (limit + 1) # 0 }
    BY <1>1, PositionIsPlace
  <1> QED BY <1>1, <1>2, WalkEnds

-----------------------------------------------------------------------------
(* Mutual friends *)

\* A limit beyond the largest one reads the first ids of a table only.
FirstIds(t) == PlacedIn(t, 0, DefaultLimit)

LEMMA Limits ==
    /\ DefaultLimit \in Nat \ {0} /\ MaxLimit \in Nat \ {0} /\ DefaultLimit <= MaxLimit
    /\ normalizeLimit(WholeTable) = DefaultLimit
    /\ normalizeLimit(MaxLimit) = MaxLimit
  BY LimitAssumption DEF normalizeLimit, WholeTable

LEMMA FirstIdsOf ==
    ASSUME NEW t, Table(t)
    PROVE  /\ Table(FirstIds(t)) /\ FirstIds(t) \subseteq t
           /\ Cardinality(FirstIds(t)) <= DefaultLimit /\ Cardinality(FirstIds(t)) \in Nat
           /\ Cardinality(t) <= DefaultLimit => FirstIds(t) = t
  <1>0. /\ Cardinality(t) \in Nat
        /\ \A x \in t : Place(t, x) \in 1..Cardinality(t)
        /\ \A x, y \in t : Place(t, x) = Place(t, y) => x = y
    BY AheadSize, Places
  <1>1. FirstIds(t) \in SUBSET t
    BY DEF FirstIds, PlacedIn
  <1>2. Table(FirstIds(t)) /\ IsFiniteSet(FirstIds(t)) /\ Cardinality(FirstIds(t)) \in Nat
    BY <1>1, FS_Subset, FS_CardinalityType DEF Table
  <1>3. Cardinality(FirstIds(t)) <= DefaultLimit
    <2>1. PICK n \in Nat : n = DefaultLimit
      BY Limits
    <2>2. PICK T : T = 1..n
      OBVIOUS
    <2>3. IsFiniteSet(T) /\ Cardinality(T) = n
      BY <2>2, FS_Interval
    <2> DEFINE f == [x \in FirstIds(t) |-> Place(t, x)]
    <2>4. \A x \in FirstIds(t) : x \in t /\ Place(t, x) \in T
      BY <1>0, <2>1, <2>2 DEF FirstIds, PlacedIn
    <2>5. f \in Injection(FirstIds(t), T)
      BY <1>0, <2>4 DEF Injection, IsInjective
    <2> HIDE DEF f
    <2>6. Cardinality(FirstIds(t)) <= Cardinality(T)
      BY <2>3, <2>5, FS_Injection
    <2> QED BY <2>1, <2>3, <2>6
  <1>4. ASSUME Cardinality(t) <= DefaultLimit PROVE FirstIds(t) = t
    <2>1. \A x \in t : 0 < Place(t, x) /\ Place(t, x) <= DefaultLimit
      BY <1>0, <1>4, Limits
    <2> QED BY <2>1 DEF FirstIds, PlacedIn
  <1> QED BY <1>1, <1>2, <1>3, <1>4

LEMMA AllAfterNone ==
    ASSUME NEW t, Table(t)
    PROVE  { id \in t : id > 0 } = t
  <1>1. \A x \in t : x > 0
    BY DEF Table
  <1> QED BY <1>1

\* What is read as a whole table.
LEMMA WholeTables ==
    ASSUME NEW t, Table(t)
    PROVE  ToSet(listByUserTable(t, 0, WholeTable).items) = FirstIds(t)
  <1>1. { id \in t : id > 0 } = t
    BY AllAfterNone
  <1>2. listByUserTable(t, 0, WholeTable) = paginateIDs(Sorted(t), WholeTable)
    BY <1>1 DEF listByUserTable
  <1>3. PageOf(paginateIDs(Sorted(t), WholeTable), t, DefaultLimit)
    BY Limits, FirstPage
  <1> QED BY <1>2, <1>3 DEF PageOf, FirstIds

\* The ids that are among the first of both tables, on one page.
LEMMA MutualPage ==
    ASSUME NEW s, Table(s), NEW t, Table(t), NEW limit, NEW n \in Nat, n = normalizeLimit(limit), n >= DefaultLimit
    PROVE  /\ ToSet(ListMutualFriends(s, t, 0, limit).items) = FirstIds(s) \cap FirstIds(t)
           /\ Len(ListMutualFriends(s, t, 0, limit).items) <= n
  <1>1. PICK m : m = FirstIds(s) \cap FirstIds(t)
    OBVIOUS
  <1>2. m \in SUBSET FirstIds(s) /\ Table(FirstIds(s)) /\ m \in SUBSET FirstIds(t)
    BY <1>1, FirstIdsOf
  <1>3. Table(m) /\ Cardinality(m) \in Nat /\ Cardinality(m) <= Cardinality(FirstIds(s))
    BY <1>2, FS_Subset, FS_CardinalityType DEF Table
  <1>4. Cardinality(m) <= n
    BY <1>3, FirstIdsOf, Limits
  <1>5. { id \in m : id > 0 } = m
    BY <1>3, AllAfterNone
  <1>6. PICK page : page = ListMutualFriends(s, t, 0, limit)
    OBVIOUS
  <1>7. page = paginateIDs(Sorted({ id \in m : id > 0 }), limit)
    BY <1>1, <1>6, WholeTables DEF ListMutualFriends
  <1>8. PageOf(page, m, n)
    BY <1>3, <1>5, <1>7, FirstPage
  <1>9. PlacedIn(m, 0, n) = m
    <2>1. \A x \in m : Place(m, x) \in 1..Cardinality(m)
      BY <1>3, Places
    <2>2. \A x \in m : 0 < Place(m, x) /\ Place(m, x) <= n
      BY <1>3, <1>4, <2>1
    <2> QED BY <2>2 DEF PlacedIn
  <1> QED BY <1>1, <1>6, <1>8, <1>9 DEF PageOf

LEMMA MutualFriendsFound == MutualFriendsOfShortLists
  <1> SUFFICES ASSUME NEW s \in SUBSET Ids, NEW t \in SUBSET Ids
               PROVE  /\ ToSet(GetMutualFriends(s, t, 0, MaxLimit).items) \subseteq s \cap t
                      /\ CountMutualFriends(s, t) <= DefaultLimit
                      /\ Cardinality(s) <= DefaultLimit /\ Cardinality(t) <= DefaultLimit
                           => ToSet(GetMutualFriends(s, t, 0, MaxLimit).items) = s \cap t
    BY DEF MutualFriendsOfShortLists
  <1>1. Table(s) /\ Table(t)
    BY TablesOfIds
  <1>2. ToSet(GetMutualFriends(s, t, 0, MaxLimit).items) = FirstIds(s) \cap FirstIds(t)
    <2>1. ToSet(ListMutualFriends(s, t, 0, MaxLimit).items) = FirstIds(s) \cap FirstIds(t)
      BY <1>1, Limits, MutualPage
    <2> QED BY <2>1, Limits DEF GetMutualFriends
  <1>3. CountMutualFriends(s, t) <= DefaultLimit
    <2>1. Len(ListMutualFriends(s, t, 0, WholeTable).items) <= DefaultLimit
      BY <1>1, Limits, MutualPage
    <2> QED BY <2>1 DEF CountMutualFriends
  <1> QED BY <1>1, <1>2, <1>3, FirstIdsOf

\* The paged lists are sound, for any ids and any limits: following the cursors of a list of
\* friends ends and leaves out exactly the ids that were cursors, and the mutual friends are
\* friends of both users and complete as long as neither has more than a default page.
THEOREM PagesStaySound == PagesAreSound
  BY CursorsAreSkipped, MutualFriendsFound DEF PagesAreSound

\* The read model is sound: its tables in every reachable state, and the lists paged over them.
THEOREM ReadModelStaysSound == ReadSpec => []ReadModelIsSound
  <1>1. TablesAreSound => ReadModelIsSound
    BY PagesStaySound DEF ReadModelIsSound
  <1> QED BY <1>1, ReadTablesAreSound, PTL

=============================================================================
