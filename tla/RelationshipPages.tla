--------------------------- MODULE RelationshipPages ---------------------------
(***************************************************************************)
(* The paged lists of the relationship queries: friends, followers,         *)
(* followed and blocked users, incoming and outgoing requests, and mutual   *)
(* friends.  User ids are numbers in the order of their strings, a table is *)
(* the set of ids an edge table holds for one user, and 0 is the empty      *)
(* cursor.                                                                  *)
(***************************************************************************)
EXTENDS Naturals, FiniteSets, SequencesExt

CONSTANTS Ids,           \* bound: the ids a table may hold
          MaxLimit,      \* the largest limit that is accepted
          DefaultLimit   \* what every other limit becomes

ASSUME IdsAssumption == Ids \subseteq Nat \ {0} /\ IsFiniteSet(Ids)
ASSUME LimitAssumption == MaxLimit \in Nat /\ DefaultLimit \in 1 .. MaxLimit

\* The limit of the read of a whole table: 10000 in the code, more than MaxLimit.
WholeTable == MaxLimit + 1

normalizeLimit(limit) == IF limit = 0 \/ limit > MaxLimit THEN DefaultLimit ELSE limit

\* A page of the sorted items, and as cursor the first item that is not on it.
paginateIDs(items, limit) ==
    LET n == normalizeLimit(limit)
    IN  IF Len(items) > n
        THEN [items |-> SubSeq(items, 1, n), next |-> items[n + 1]]
        ELSE [items |-> items, next |-> 0]

\* sort.Strings: the id at i has i - 1 smaller ones.
Sorted(ids) ==
    [i \in 1 .. Cardinality(ids) |->
        CHOOSE id \in ids : Cardinality({ x \in ids : x < id }) = i - 1]

\* The ids after the cursor.
listByUserTable(table, cursor, limit) == paginateIDs(Sorted({ id \in table : id > cursor }), limit)

\* The lists, one table each.
ListFriends(table, cursor, limit) == listByUserTable(table, cursor, normalizeLimit(limit))
ListFollowers(table, cursor, limit) == listByUserTable(table, cursor, normalizeLimit(limit))
ListFollowing(table, cursor, limit) == listByUserTable(table, cursor, normalizeLimit(limit))
ListBlockedUsers(table, cursor, limit) == listByUserTable(table, cursor, normalizeLimit(limit))
ListIncomingFriendRequests(table, cursor, limit) == listByUserTable(table, cursor, normalizeLimit(limit))
ListOutgoingFriendRequests(table, cursor, limit) == listByUserTable(table, cursor, normalizeLimit(limit))

\* Both lists are read with a limit that is not accepted, so only their first
\* DefaultLimit ids are compared.
ListMutualFriends(left, right, cursor, limit) ==
    LET whole(table) == ToSet(listByUserTable(table, 0, WholeTable).items)
    IN  paginateIDs(Sorted({ id \in whole(left) \cap whole(right) : id > cursor }), limit)
GetMutualFriends(left, right, cursor, limit) ==
    ListMutualFriends(left, right, cursor, normalizeLimit(limit))
CountMutualFriends(left, right) == Len(ListMutualFriends(left, right, 0, WholeTable).items)

-----------------------------------------------------------------------------
(* Properties *)

\* What a client that follows the cursors has seen, and the cursor it has next.
FirstSeen(page) == [seen |-> ToSet(page.items), next |-> page.next]

FollowCursor(table, limit, client) ==
    LET page == ListFriends(table, client.next, limit)
    IN  IF client.next = 0 THEN client
        ELSE [seen |-> client.seen \cup ToSet(page.items), next |-> page.next]

Walk(table, limit) ==
    LET walk[n \in 0 .. Cardinality(table)] ==
            IF n = 0 THEN FirstSeen(ListFriends(table, 0, limit))
            ELSE FollowCursor(table, limit, walk[n - 1])
    IN  walk[Cardinality(table)]

Position(table, id) == Cardinality({ x \in table : x <= id })

\* A client that follows the cursors reaches the end and sees every id but the ones that
\* were cursors, one after each full page, and a list of one page completely.
WalkSkipsCursors ==
    \A table \in SUBSET Ids, limit \in 1 .. MaxLimit :
        LET client == Walk(table, limit)
        IN  /\ client.seen = { id \in table : Position(table, id) % (limit + 1) # 0 }
            /\ client.next = 0

\* The mutual friends are friends of both, and all of them as long as neither has
\* more friends than the default limit.
MutualFriendsOfShortLists ==
    \A left, right \in SUBSET Ids :
        LET found == ToSet(GetMutualFriends(left, right, 0, MaxLimit).items)
        IN  /\ found \subseteq left \cap right
            /\ CountMutualFriends(left, right) <= DefaultLimit
            /\ Cardinality(left) <= DefaultLimit /\ Cardinality(right) <= DefaultLimit
                 => found = left \cap right

\* What the paged lists promise, and what they leave out.
PagesAreSound == WalkSkipsCursors /\ MutualFriendsOfShortLists

=============================================================================
