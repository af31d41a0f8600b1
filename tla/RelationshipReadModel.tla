------------------------ MODULE RelationshipReadModel ------------------------
(***************************************************************************)
(* The read side of the relationship module, composed with the write side:  *)
(* the outbox events of a pair reach the projection processor through one   *)
(* Kafka partition, in order and at least once.  The processor reads the    *)
(* pair's Cassandra row, changes it as the event says and saves it: the     *)
(* row first, then the edge tables that lists are read from, brought up to  *)
(* date by comparison with the row read at the beginning of the save.  A    *)
(* failed save is retried from the beginning, and an event that failed on   *)
(* every attempt is parked in the dead-letter topic, which nothing reads.   *)
(***************************************************************************)
EXTENDS RelationshipPair, RelationshipPages

\* A row of relationship_pair_by_pair, or what the edge tables hold of the pair.
Rows == [pending : SUBSET Requests, friends : SUBSET Pairs,
         follows : SUBSET Links, blocks : SUBSET Links]
NoRow == [pending |-> {}, friends |-> {}, follows |-> {}, blocks |-> {}]

VARIABLES
    row,      \* the pair's row in Cassandra
    edges,    \* the pair's entries in the edge tables
    offset,   \* committed offset: events of the pair that are done with
    saving,   \* the save under way: the row it read, the tables it has left
    torn,     \* history: pairs whose save was interrupted after the row
    parked    \* history: pairs with an event in the dead-letter topic

readVars == << row, edges, offset, saving, torn, parked >>
allVars == << vars, readVars >>

EdgeTables == {"friends", "follows", "blocks", "pending"}
NotSaving == [on |-> FALSE, left |-> {}, current |-> NoRow]

ReadTypeOK ==
    /\ row \in [Pairs -> Rows]
    /\ edges \in [Pairs -> Rows]
    /\ offset \in [Pairs -> Nat]
    /\ \A p \in Pairs : offset[p] <= Len(outbox[p])
    /\ saving \in [Pairs -> [on : BOOLEAN, left : SUBSET EdgeTables, current : Rows]]
    /\ torn \subseteq Pairs
    /\ parked \subseteq Pairs

ReadInit ==
    /\ Init
    /\ row = [p \in Pairs |-> NoRow]
    /\ edges = [p \in Pairs |-> NoRow]
    /\ offset = [p \in Pairs |-> 0]
    /\ saving = [p \in Pairs |-> NotSaving]
    /\ torn = {}
    /\ parked = {}

-----------------------------------------------------------------------------

\* The parts of the row that the projections below change.
clearPendingRequest(r) == [r EXCEPT !.pending = {}]
setDirectionalBool(links, e) == links \cup {e.link}
clearDirectionalBool(links, e) == links \ {e.link}

\* Mutant: an accepted request stays in the row.
AcceptedKeepingRequest(r, e) == [r EXCEPT !.friends = {{e.link[1], e.link[2]}}]

\* project*: the row after an event.  A request is closed only if it is the one
\* the row shows; a block closes the open request and leaves the rest.
projectFriendRequestSent(r, e) == [r EXCEPT !.pending = {[id |-> e.id, link |-> e.link]}]
projectFriendRequestAccepted(r, e) ==
    [clearPendingRequest(r) EXCEPT !.friends = {{e.link[1], e.link[2]}}]
projectFriendRequestCancelled(r, e) ==
    IF \E x \in r.pending : x.id = e.id THEN clearPendingRequest(r) ELSE r
projectFriendRequestRejected(r, e) ==
    IF \E x \in r.pending : x.id = e.id THEN clearPendingRequest(r) ELSE r
projectFollowed(r, e) == [r EXCEPT !.follows = setDirectionalBool(@, e)]
projectUnfollowed(r, e) == [r EXCEPT !.follows = clearDirectionalBool(@, e)]
projectBlocked(r, e) == [clearPendingRequest(r) EXCEPT !.blocks = setDirectionalBool(@, e)]
projectUnblocked(r, e) == [r EXCEPT !.blocks = clearDirectionalBool(@, e)]
projectUnfriended(r, e) == [r EXCEPT !.friends = {}]

handleRelationshipOutboxEvent(r, e) ==
    CASE e.op = "Send"     -> projectFriendRequestSent(r, e)
      [] e.op = "Cancel"   -> projectFriendRequestCancelled(r, e)
      [] e.op = "Reject"   -> projectFriendRequestRejected(r, e)
      [] e.op = "Accept"   -> projectFriendRequestAccepted(r, e)
      [] e.op = "Follow"   -> projectFollowed(r, e)
      [] e.op = "Unfollow" -> projectUnfollowed(r, e)
      [] e.op = "Block"    -> projectBlocked(r, e)
      [] e.op = "Unblock"  -> projectUnblocked(r, e)
      [] e.op = "Unfriend" -> projectUnfriended(r, e)

\* GetPair reads the row; a missing one is loaded as an empty one.
GetPair(p) == row[p]
loadProjection(p) == GetPair(p)

Waiting(p) == offset[p] < Len(outbox[p]) /\ ~saving[p].on

upsertPair(p, projection) == row' = [row EXCEPT ![p] = projection]

\* The event is handled up to the first half of SavePair: the row is read,
\* changed and written back; the row read is what the edges are compared with.
SavePair(p) ==
    /\ Waiting(p)
    /\ upsertPair(p, handleRelationshipOutboxEvent(loadProjection(p), outbox[p][offset[p] + 1]))
    /\ saving' = [saving EXCEPT ![p] = [on |-> TRUE, left |-> EdgeTables, current |-> GetPair(p)]]
    /\ UNCHANGED << vars, edges, offset, torn, parked >>

\* The edge tables are written in this order.
NextTable(left) ==
    IF "friends" \in left THEN "friends"
    ELSE IF "follows" \in left THEN "follows"
    ELSE IF "blocks" \in left THEN "blocks" ELSE "pending"

LinksOf(rs) == { r.link : r \in rs }

\* Mutant: the edges are compared with the row already written.
SyncedWithNewRow(have, table, current, next) == have

\* A table loses the entries that the row lost since the save began and gets
\* those it gained.
Difference(have, current, next) == (have \ (current \ next)) \cup (next \ current)

syncFriendEdges(have, current, next) == Difference(have, current, next)
syncFollowEdges(have, current, next) == Difference(have, current, next)
syncBlockEdges(have, current, next) == Difference(have, current, next)

\* The open request's entries are written anyway, over one with the same users.
syncPendingRequestEdges(have, current, next) ==
    { r \in have : r.link \notin LinksOf(current \ next) \cup LinksOf(next) } \cup next

Synced(have, table, current, next) ==
    CASE table = "friends" -> syncFriendEdges(have, current, next)
      [] table = "follows" -> syncFollowEdges(have, current, next)
      [] table = "blocks"  -> syncBlockEdges(have, current, next)
      [] table = "pending" -> syncPendingRequestEdges(have, current, next)

SyncEdges(p) ==
    /\ saving[p].left # {}
    /\ LET table == NextTable(saving[p].left)
       IN  /\ edges' = [edges EXCEPT ![p][table] =
                          Synced(@, table, saving[p].current[table], row[p][table])]
           /\ saving' = [saving EXCEPT ![p].left = @ \ {table}]
    /\ UNCHANGED << vars, row, offset, torn, parked >>

\* CommitMessage after the handler succeeded.
CommitMessage(p) ==
    /\ saving[p].on /\ saving[p].left = {}
    /\ saving' = [saving EXCEPT ![p] = NotSaving]
    /\ offset' = [offset EXCEPT ![p] = @ + 1]
    /\ UNCHANGED << vars, row, edges, torn, parked >>

\* A write fails, or the consumer stops, before the offset is committed: the
\* event is handled again from the beginning.
Interrupt(p) ==
    /\ saving[p].on
    /\ saving' = [saving EXCEPT ![p] = NotSaving]
    /\ torn' = IF saving[p].left = {} THEN torn ELSE torn \cup {p}
    /\ UNCHANGED << vars, row, edges, offset, parked >>

\* StoreDLQ: an event whose attempts all failed is parked and passed over.
Park(p) ==
    /\ Waiting(p)
    /\ offset' = [offset EXCEPT ![p] = @ + 1]
    /\ parked' = parked \cup {p}
    /\ UNCHANGED << vars, row, edges, saving, torn >>

ReadNext ==
    \/ WriteNext /\ UNCHANGED readVars
    \/ \E p \in Pairs : SavePair(p) \/ SyncEdges(p) \/ CommitMessage(p) \/ Interrupt(p) \/ Park(p)

ReadSpec == ReadInit /\ [][ReadNext]_allVars

-----------------------------------------------------------------------------
(* The queries, as the user a asks about the user t. *)

pairFollows(r, a, t) == << a, t >> \in r.follows
pairBlocks(r, a, t) == << a, t >> \in r.blocks

\* GetRelationshipStatus.
buildRelationshipStatusResponse(r, a, t) ==
    LET friend   == r.friends # {}
        blocked  == pairBlocks(r, a, t) \/ pairBlocks(r, t, a)
        outgoing == << a, t >> \in LinksOf(r.pending)
        incoming == << t, a >> \in LinksOf(r.pending)
    IN  [isFriend |-> friend,
         isFollowing |-> pairFollows(r, a, t), isFollower |-> pairFollows(r, t, a),
         hasBlocked |-> pairBlocks(r, a, t), isBlockedBy |-> pairBlocks(r, t, a),
         outgoing |-> outgoing, incoming |-> incoming,
         canSendFriendRequest |-> ~friend /\ ~blocked /\ ~outgoing /\ ~incoming,
         canFollow |-> ~pairFollows(r, a, t) /\ ~blocked]

\* The first of these that applies.
relationshipStatusLabel(s) ==
    IF s.hasBlocked THEN "blocked"
    ELSE IF s.isBlockedBy THEN "blocked_by"
    ELSE IF s.isFriend THEN "friends"
    ELSE IF s.outgoing THEN "outgoing_friend_request_pending"
    ELSE IF s.incoming THEN "incoming_friend_request_pending"
    ELSE IF s.isFollowing /\ s.isFollower THEN "mutual_follow"
    ELSE IF s.isFollowing THEN "following"
    ELSE IF s.isFollower THEN "follower"
    ELSE "none"

GetRelationshipStatus(a, t) == buildRelationshipStatusResponse(GetPair({a, t}), a, t)

\* The edge tables of one user.
FriendsByUser(u) == { v \in Users \ {u} : {u, v} \in edges[{u, v}].friends }
FollowersByUser(u) == { v \in Users \ {u} : << v, u >> \in edges[{u, v}].follows }
FollowingByUser(u) == { v \in Users \ {u} : << u, v >> \in edges[{u, v}].follows }
BlocksByUser(u) == { v \in Users \ {u} : << u, v >> \in edges[{u, v}].blocks }
IncomingRequestsByUser(u) == { v \in Users \ {u} : << v, u >> \in LinksOf(edges[{u, v}].pending) }
OutgoingRequestsByUser(u) == { v \in Users \ {u} : << u, v >> \in LinksOf(edges[{u, v}].pending) }

countByUserTable(table) == Cardinality(table)

\* The summary of t for a, without the mutual friends.
GetRelationshipSummary(a, t) ==
    [friends |-> countByUserTable(FriendsByUser(t)),
     followers |-> countByUserTable(FollowersByUser(t)),
     following |-> countByUserTable(FollowingByUser(t)),
     label |-> relationshipStatusLabel(GetRelationshipStatus(a, t))]

-----------------------------------------------------------------------------
(* Properties *)

\* Every event of the pair has been projected.
CaughtUp(p) == offset[p] = Len(outbox[p]) /\ ~saving[p].on /\ p \notin parked

Blocked(p) == \E i \in DOMAIN outbox[p] : outbox[p][i].op = "Block"

\* A row that has caught up, through repeated and interrupted saves, shows the
\* open request and the blocks of the tables and misses no friendship and no
\* follow; it shows one too many only in a pair that has been blocked, because
\* the write side removes them without an event of their own.
RowCatchesUp ==
    \A p \in Pairs : CaughtUp(p) =>
        LET now == Read(p)
        IN  /\ row[p].pending = now.pending
            /\ row[p].blocks = now.blocks
            /\ now.friends \subseteq row[p].friends
            /\ now.follows \subseteq row[p].follows
            /\ Blocked(p) \/ (row[p].friends = now.friends /\ row[p].follows = now.follows)

\* Between saves the edge tables agree with the row, unless a save of the pair
\* was interrupted: its retry finds the row already written and no difference.
EdgesFollowRow ==
    \A p \in Pairs \ torn : ~saving[p].on => edges[p] = row[p]

\* Once the row has caught up, the client is offered no friend request and no
\* follow that the write side's policy would refuse, and is denied one that the
\* policy would allow only in a pair that has been blocked.
OffersAreTrue ==
    \A l \in Links : CaughtUp({l[1], l[2]}) =>
        LET p == {l[1], l[2]}
            shown == GetRelationshipStatus(l[1], l[2])
            send == EnsureCanSendFriendRequest(Read(p), l[1], l[2])
            follow == EnsureCanFollow(Read(p), l[1], l[2])
        IN  l[2] \in accounts =>
                /\ shown.canSendFriendRequest => send
                /\ shown.canFollow => follow
                /\ Blocked(p) \/ (send => shown.canSendFriendRequest)
                /\ Blocked(p) \/ (follow => shown.canFollow)

\* The counts and the label of a summary, and the lists of requests and blocks,
\* say what the tables say once every pair of the user has caught up with no
\* save interrupted and no block.
SummaryIsTrue ==
    \A l \in Links :
        (\A p \in Pairs : l[2] \in p => CaughtUp(p) /\ p \notin torn /\ ~Blocked(p)) =>
            LET u == l[2]
                summary == GetRelationshipSummary(l[1], u)
            IN  /\ summary.friends = Counter(u, "friends")
                /\ summary.followers = Counter(u, "followers")
                /\ summary.following = Counter(u, "following")
                /\ Cardinality(IncomingRequestsByUser(u)) = Counter(u, "pendingIn")
                /\ Cardinality(OutgoingRequestsByUser(u)) = Counter(u, "pendingOut")
                /\ Cardinality(BlocksByUser(u)) = Counter(u, "blocked")
                /\ summary.label = "friends" <=> {l[1], u} \in friends

\* The read model is typed, its two kinds of table agree, and its queries answer
\* what the write side would say.
TablesAreSound == ReadTypeOK /\ EdgesFollowRow /\ OffersAreTrue /\ SummaryIsTrue

\* The tables are sound, and their lists are paged as the clients expect.
ReadModelIsSound == TablesAreSound /\ PagesAreSound

=============================================================================
