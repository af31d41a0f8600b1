-------------------------- MODULE RelationshipPair --------------------------
(***************************************************************************)
(* The write side of the relationship module: friend requests, friendships, *)
(* follows and blocks between two users, and the counters of each user.     *)
(*                                                                          *)
(* Every command is one PostgreSQL transaction on one pair of users: it     *)
(* locks the pair's guard row, loads the pair, lets the aggregate decide    *)
(* and apply one event, inserts and locks the counter rows of the users     *)
(* concerned in the order a Go map yields them, and commits the rows and    *)
(* the outbox event.  Transactions on different pairs share counter rows,   *)
(* so they wait for each other and may deadlock; PostgreSQL then aborts     *)
(* one of them.  Commands on oneself are refused by every policy and left   *)
(* out.                                                                     *)
(***************************************************************************)
EXTENDS Integers, FiniteSets, Sequences

CONSTANTS Users,
          Workers,      \* concurrent commands
          NoWorker,     \* holder of a free lock
          Commands,     \* bound: the commands that are given
          MaxEvents     \* bound: a pair with so many events refuses every command

ASSUME NoWorkerAssumption == NoWorker \notin Workers
ASSUME UsersAssumption == \E a, t \in Users : a # t

\* CanonicalRelationshipPairAggregateID: both orders name the same pair.
Pairs == { {a, t} : a, t \in Users } \ { {u} : u \in Users }
Links == { l \in Users \X Users : l[1] # l[2] }

Ops == {"Send", "Cancel", "Accept", "Reject", "Follow", "Unfollow", "Unfriend", "Block", "Unblock"}
Fields == {"friends", "followers", "following", "blocked", "pendingIn", "pendingOut"}
Zero == [f \in Fields |-> 0]

\* A friend request; its uuid is drawn as the version of the event that opens it.
Requests == [id : Nat, link : Links]

\* An event: link is actor and target, or requester and addressee of the
\* request the event is about; id is the request's, or 0.
Events == [op : Ops, link : Links, id : Nat, version : Nat]

\* What LoadForUpdate reads of a pair.
Snapshots == [pending : SUBSET Requests, friends : SUBSET Pairs,
              follows : SUBSET Links, blocks : SUBSET Links, version : Nat]

VARIABLES
    accounts,   \* users the account projection knows
    requests,   \* friend_requests rows with status PENDING
    friends, follows, blocks,  \* the three relation tables
    counters,   \* user_relationship_counters, of the users that have a row
    outbox,     \* relation outbox events of a pair, by version
    guard,      \* holder of a pair's guard row
    rowLock,    \* holder of a user's counter row, or of its uncommitted insert
    pc, op, link,  \* a worker's phase, command, and actor and target
    loaded,     \* the pair it loaded
    todo        \* counter rows it has still to insert or update

tables == << accounts, requests, friends, follows, blocks, counters, outbox >>
vars == << tables, guard, rowLock, pc, op, link, loaded, todo >>

NoLink == << >>
Pair(w) == {link[w][1], link[w][2]}
Nothing == [pending |-> {}, friends |-> {}, follows |-> {}, blocks |-> {}, version |-> 0]
Phases == {"idle", "load", "stubs", "update", "commit"}

TypeOK ==
    /\ accounts \subseteq Users
    /\ requests \subseteq Requests
    /\ friends \subseteq Pairs
    /\ follows \subseteq Links
    /\ blocks \subseteq Links
    /\ DOMAIN counters \subseteq Users
    /\ counters \in [DOMAIN counters -> [Fields -> Nat]]
    /\ outbox \in [Pairs -> Seq(Events)]
    /\ guard \in [Pairs -> Workers \cup {NoWorker}]
    /\ rowLock \in [Users -> Workers \cup {NoWorker}]
    /\ pc \in [Workers -> Phases]
    /\ op \in [Workers -> Ops]
    /\ link \in [Workers -> Links \cup {NoLink}]
    /\ loaded \in [Workers -> Snapshots]
    /\ todo \in [Workers -> SUBSET Users]

Init ==
    /\ accounts = {}
    /\ requests = {} /\ friends = {} /\ follows = {} /\ blocks = {}
    /\ counters = [u \in {} |-> Zero]
    /\ outbox = [p \in Pairs |-> << >>]
    /\ guard = [p \in Pairs |-> NoWorker]
    /\ rowLock = [u \in Users |-> NoWorker]
    /\ pc = [w \in Workers |-> "idle"]
    /\ op = [w \in Workers |-> "Send"]
    /\ link = [w \in Workers |-> NoLink]
    /\ loaded = [w \in Workers |-> Nothing]
    /\ todo = [w \in Workers |-> {}]

-----------------------------------------------------------------------------
(* The pair aggregate.  s is the loaded pair, a the actor, t the target. *)

Outgoing(s, a, t) == { r \in s.pending : r.link = << a, t >> }
Incoming(s, a, t) == { r \in s.pending : r.link = << t, a >> }

\* PairState.EnsureCan*: what the policy demands of a command.
EnsureCanCancelFriendRequest(s, a, t) == Outgoing(s, a, t) # {}
EnsureCanAcceptFriendRequest(s, a, t) == Incoming(s, a, t) # {} /\ s.blocks = {} /\ s.friends = {}
EnsureCanRejectFriendRequest(s, a, t) == Incoming(s, a, t) # {}
EnsureCanFollow(s, a, t) == t \in accounts /\ s.blocks = {} /\ << a, t >> \notin s.follows
EnsureCanUnfollow(s, a, t) == << a, t >> \in s.follows
EnsureCanUnfriend(s, a, t) == s.friends # {}
EnsureCanBlock(s, a, t) == t \in accounts /\ << a, t >> \notin s.blocks
EnsureCanUnblock(s, a, t) == << a, t >> \in s.blocks

\* Mutant: a friend may be asked again.
EnsureCanSendToFriend(s, a, t) == t \in accounts /\ s.blocks = {} /\ s.pending = {}

EnsureCanSendFriendRequest(s, a, t) ==
    t \in accounts /\ s.blocks = {} /\ s.friends = {} /\ s.pending = {}

\* The rows of a friendship, the same for both orders of its users, of a follow
\* and of a block.
NewFriendship(a, t) == {a, t}
NewFollowRelation(a, t) == << a, t >>
NewBlockRelation(a, t) == << a, t >>

Emitted(o, s, l, id) == [op |-> o, link |-> l, id |-> id, version |-> s.version + 1]

\* The aggregate's commands: the event a command emits, none when its policy
\* refuses.  The events of a request name that request.
SendFriendRequest(s, a, t) ==
    IF EnsureCanSendFriendRequest(s, a, t) THEN {Emitted("Send", s, << a, t >>, s.version + 1)} ELSE {}
CancelFriendRequest(s, a, t) ==
    IF EnsureCanCancelFriendRequest(s, a, t)
    THEN { Emitted("Cancel", s, r.link, r.id) : r \in s.pending } ELSE {}
AcceptFriendRequest(s, a, t) ==
    IF EnsureCanAcceptFriendRequest(s, a, t)
    THEN { Emitted("Accept", s, r.link, r.id) : r \in s.pending } ELSE {}
RejectFriendRequest(s, a, t) ==
    IF EnsureCanRejectFriendRequest(s, a, t)
    THEN { Emitted("Reject", s, r.link, r.id) : r \in s.pending } ELSE {}
Follow(s, a, t) == IF EnsureCanFollow(s, a, t) THEN {Emitted("Follow", s, << a, t >>, 0)} ELSE {}
Unfollow(s, a, t) == IF EnsureCanUnfollow(s, a, t) THEN {Emitted("Unfollow", s, << a, t >>, 0)} ELSE {}
Unfriend(s, a, t) == IF EnsureCanUnfriend(s, a, t) THEN {Emitted("Unfriend", s, << a, t >>, 0)} ELSE {}
Block(s, a, t) == IF EnsureCanBlock(s, a, t) THEN {Emitted("Block", s, << a, t >>, 0)} ELSE {}
Unblock(s, a, t) == IF EnsureCanUnblock(s, a, t) THEN {Emitted("Unblock", s, << a, t >>, 0)} ELSE {}

EventsOf(o, s, a, t) ==
    CASE o = "Send"     -> SendFriendRequest(s, a, t)
      [] o = "Cancel"   -> CancelFriendRequest(s, a, t)
      [] o = "Accept"   -> AcceptFriendRequest(s, a, t)
      [] o = "Reject"   -> RejectFriendRequest(s, a, t)
      [] o = "Follow"   -> Follow(s, a, t)
      [] o = "Unfollow" -> Unfollow(s, a, t)
      [] o = "Unfriend" -> Unfriend(s, a, t)
      [] o = "Block"    -> Block(s, a, t)
      [] o = "Unblock"  -> Unblock(s, a, t)

\* A block's other effects, as counter deltas << user, counter, change >>.
resolvePendingRequestForBlock(s, a, t) ==
    (IF Outgoing(s, a, t) # {} THEN {<< a, "pendingOut", -1 >>, << t, "pendingIn", -1 >>} ELSE {})
    \cup (IF Incoming(s, a, t) # {} THEN {<< t, "pendingOut", -1 >>, << a, "pendingIn", -1 >>} ELSE {})
removeFriendshipForBlock(s, a, t) ==
    IF s.friends # {} THEN {<< a, "friends", -1 >>, << t, "friends", -1 >>} ELSE {}
removeOutgoingFollowForBlock(s, a, t) ==
    IF << a, t >> \in s.follows THEN {<< a, "following", -1 >>, << t, "followers", -1 >>} ELSE {}
removeIncomingFollowForBlock(s, a, t) ==
    IF << t, a >> \in s.follows THEN {<< t, "following", -1 >>, << a, "followers", -1 >>} ELSE {}

\* Mutant: a block leaves the counters of what it removes.
BlockOnly(s, a, t) == {<< a, "blocked", 1 >>}

\* The counters of the block and of all it removes.
BlockDeltas(s, a, t) ==
    {<< a, "blocked", 1 >>}
    \cup resolvePendingRequestForBlock(s, a, t)
    \cup removeFriendshipForBlock(s, a, t)
    \cup removeOutgoingFollowForBlock(s, a, t)
    \cup removeIncomingFollowForBlock(s, a, t)

\* The friend request's own aggregate: opened pending, and answered or withdrawn
\* it is pending no longer.
CreateRequest(s, a, t) == [s EXCEPT !.pending = {[id |-> s.version + 1, link |-> << a, t >>]}]
ResolveRequest(s) == [s EXCEPT !.pending = {}]

\* apply*: the pair after the event, and the counter deltas of the change.
applyFriendRequestSent(s, a, t) ==
    [pair |-> CreateRequest(s, a, t),
     deltas |-> {<< a, "pendingOut", 1 >>, << t, "pendingIn", 1 >>}]
applyFriendRequestCancelled(s, a, t) ==
    [pair |-> ResolveRequest(s),
     deltas |-> {<< a, "pendingOut", -1 >>, << t, "pendingIn", -1 >>}]
applyFriendRequestAccepted(s, a, t) ==
    [pair |-> [ResolveRequest(s) EXCEPT !.friends = {NewFriendship(a, t)}],
     deltas |-> {<< t, "friends", 1 >>, << t, "pendingOut", -1 >>,
                 << a, "friends", 1 >>, << a, "pendingIn", -1 >>}]
applyFriendRequestRejected(s, a, t) ==
    [pair |-> ResolveRequest(s),
     deltas |-> {<< t, "pendingOut", -1 >>, << a, "pendingIn", -1 >>}]
applyFollowed(s, a, t) ==
    [pair |-> [s EXCEPT !.follows = @ \cup {NewFollowRelation(a, t)}],
     deltas |-> {<< a, "following", 1 >>, << t, "followers", 1 >>}]
applyUnfollowed(s, a, t) ==
    [pair |-> [s EXCEPT !.follows = @ \ {<< a, t >>}],
     deltas |-> {<< a, "following", -1 >>, << t, "followers", -1 >>}]
applyUnfriended(s, a, t) ==
    [pair |-> [s EXCEPT !.friends = {}],
     deltas |-> {<< a, "friends", -1 >>, << t, "friends", -1 >>}]
applyBlocked(s, a, t) ==
    [pair |-> [ResolveRequest(s) EXCEPT !.friends = {}, !.follows = {},
                                        !.blocks = @ \cup {NewBlockRelation(a, t)}],
     deltas |-> BlockDeltas(s, a, t)]
applyUnblocked(s, a, t) ==
    [pair |-> [s EXCEPT !.blocks = @ \ {<< a, t >>}], deltas |-> {<< a, "blocked", -1 >>}]

Transition(o, s, a, t) ==
    CASE o = "Send"     -> applyFriendRequestSent(s, a, t)
      [] o = "Cancel"   -> applyFriendRequestCancelled(s, a, t)
      [] o = "Accept"   -> applyFriendRequestAccepted(s, a, t)
      [] o = "Reject"   -> applyFriendRequestRejected(s, a, t)
      [] o = "Follow"   -> applyFollowed(s, a, t)
      [] o = "Unfollow" -> applyUnfollowed(s, a, t)
      [] o = "Unfriend" -> applyUnfriended(s, a, t)
      [] o = "Block"    -> applyBlocked(s, a, t)
      [] o = "Unblock"  -> applyUnblocked(s, a, t)

Actor(w) == link[w][1]
Target(w) == link[w][2]
TransitionOf(w) == Transition(op[w], loaded[w], Actor(w), Target(w))
DeltasOf(w) == TransitionOf(w).deltas

-----------------------------------------------------------------------------
(* The transaction *)

\* ProjectAccount: the account projection learns of an account, or has its row
\* written again.
ProjectAccount(u) ==
    /\ accounts' = accounts \cup {u}
    /\ UNCHANGED << requests, friends, follows, blocks, counters, outbox,
                    guard, rowLock, pc, op, link, loaded, todo >>

\* The creation of an account, or a change of its profile, which builds the row
\* when the creation has not arrived yet.
handleAccountCreatedEvent(u) == ProjectAccount(u)
handleAccountUpdatedEvent(u) == ProjectAccount(u)
handleAccountEvent(u) == handleAccountCreatedEvent(u) \/ handleAccountUpdatedEvent(u)

\* Mutant: the guard row is read without FOR UPDATE.
LockPairShared(w, o, l) ==
    /\ pc[w] = "idle"
    /\ guard' = [guard EXCEPT ![{l[1], l[2]}] = w]
    /\ pc' = [pc EXCEPT ![w] = "load"]
    /\ op' = [op EXCEPT ![w] = o]
    /\ link' = [link EXCEPT ![w] = l]
    /\ UNCHANGED << tables, rowLock, loaded, todo >>

\* A command begins its transaction and locks the pair's guard row.  A command
\* that has to wait for the row holds nothing.
LockPair(w, o, l) ==
    /\ pc[w] = "idle"
    /\ guard[{l[1], l[2]}] = NoWorker
    /\ guard' = [guard EXCEPT ![{l[1], l[2]}] = w]
    /\ pc' = [pc EXCEPT ![w] = "load"]
    /\ op' = [op EXCEPT ![w] = o]
    /\ link' = [link EXCEPT ![w] = l]
    /\ UNCHANGED << tables, rowLock, loaded, todo >>

\* The handlers of the nine commands: l is the caller and the user the request
\* names, who is the requester when a request is answered.
SendFriend(w, l)   == "Send" \in Commands /\ LockPair(w, "Send", l)
CancelFriend(w, l) == "Cancel" \in Commands /\ LockPair(w, "Cancel", l)
AcceptFriend(w, l) == "Accept" \in Commands /\ LockPair(w, "Accept", l)
RejectFriend(w, l) == "Reject" \in Commands /\ LockPair(w, "Reject", l)
FollowUser(w, l)   == "Follow" \in Commands /\ LockPair(w, "Follow", l)
UnfollowUser(w, l) == "Unfollow" \in Commands /\ LockPair(w, "Unfollow", l)
UnfriendUser(w, l) == "Unfriend" \in Commands /\ LockPair(w, "Unfriend", l)
BlockUser(w, l)    == "Block" \in Commands /\ LockPair(w, "Block", l)
UnblockUser(w, l)  == "Unblock" \in Commands /\ LockPair(w, "Unblock", l)

Handle(w, l) ==
    \/ SendFriend(w, l) \/ CancelFriend(w, l) \/ AcceptFriend(w, l) \/ RejectFriend(w, l)
    \/ FollowUser(w, l) \/ UnfollowUser(w, l) \/ UnfriendUser(w, l)
    \/ BlockUser(w, l) \/ UnblockUser(w, l)

\* Mutant: the counter rows stay locked.
EndKeepingRows(w) ==
    /\ guard' = [p \in Pairs |-> IF guard[p] = w THEN NoWorker ELSE guard[p]]
    /\ pc' = [pc EXCEPT ![w] = "idle"]
    /\ loaded' = [loaded EXCEPT ![w] = Nothing]
    /\ todo' = [todo EXCEPT ![w] = {}]
    /\ op' = [op EXCEPT ![w] = "Send"]
    /\ link' = [link EXCEPT ![w] = NoLink]
    /\ UNCHANGED rowLock

\* Rollback or commit: every lock of the transaction is freed.
End(w) ==
    /\ guard' = [p \in Pairs |-> IF guard[p] = w THEN NoWorker ELSE guard[p]]
    /\ rowLock' = [u \in Users |-> IF rowLock[u] = w THEN NoWorker ELSE rowLock[u]]
    /\ pc' = [pc EXCEPT ![w] = "idle"]
    /\ loaded' = [loaded EXCEPT ![w] = Nothing]
    /\ todo' = [todo EXCEPT ![w] = {}]
    /\ op' = [op EXCEPT ![w] = "Send"]
    /\ link' = [link EXCEPT ![w] = NoLink]

Rollback(w) == End(w) /\ UNCHANGED tables

\* The open requests of a pair, and the newest of them, which is the one loaded.
Open(p) == { r \in requests : {r.link[1], r.link[2]} = p }
LoadPendingBetween(p) == { r \in Open(p) : \A x \in Open(p) : x.id <= r.id }

\* The version of the pair's last outbox event.
loadRelationOutboxAggregateVersion(p) == Len(outbox[p])

\* Which rows LoadForUpdate reads of the pair.
Read(p) ==
    [pending |-> LoadPendingBetween(p),
     friends |-> friends \cap {p},
     follows |-> { l \in follows : {l[1], l[2]} = p },
     blocks  |-> { l \in blocks : {l[1], l[2]} = p },
     version |-> loadRelationOutboxAggregateVersion(p)]

\* LoadForUpdate and the aggregate's command: refused, the transaction rolls
\* back; allowed, the counter rows of the users with a delta come next.
LoadForUpdate(w) ==
    /\ pc[w] = "load"
    /\ LET s == Read(Pair(w))
       IN  IF s.version < MaxEvents /\ EventsOf(op[w], s, Actor(w), Target(w)) # {}
           THEN /\ loaded' = [loaded EXCEPT ![w] = s]
                /\ todo' = [todo EXCEPT ![w] =
                              { d[1] : d \in Transition(op[w], s, Actor(w), Target(w)).deltas }]
                /\ pc' = [pc EXCEPT ![w] = "stubs"]
                /\ UNCHANGED << tables, guard, rowLock, op, link >>
           ELSE Rollback(w)

Free(w, u) == rowLock[u] \in {NoWorker, w}
Mine(w) == { u \in Users : rowLock[u] = w }

\* ApplyDeltas, the INSERT ... ON CONFLICT DO NOTHING of the missing counter
\* rows: an existing row is passed over unlocked, another transaction's
\* uncommitted insert is waited for.
InsertStub(w, u) ==
    /\ pc[w] = "stubs"
    /\ u \in todo[w]
    /\ u \in DOMAIN counters \/ Free(w, u)
    /\ rowLock' = IF u \in DOMAIN counters THEN rowLock ELSE [rowLock EXCEPT ![u] = w]
    /\ todo' = [todo EXCEPT ![w] = IF @ = {u} THEN { d[1] : d \in DeltasOf(w) } ELSE @ \ {u}]
    /\ pc' = [pc EXCEPT ![w] = IF todo[w] = {u} THEN "update" ELSE @]
    /\ UNCHANGED << tables, guard, op, link, loaded >>

\* A counter after the worker's deltas; the row may be its own new stub.
Added(w, u) ==
    LET old == IF u \in DOMAIN counters THEN counters[u] ELSE Zero
        d == DeltasOf(w)
    IN  [f \in Fields |-> old[f] + (IF << u, f, 1 >> \in d THEN 1 ELSE 0)
                                 - (IF << u, f, -1 >> \in d THEN 1 ELSE 0)]

\* ApplyDeltas, one UPDATE: the row stays locked to the end; a counter that
\* would become negative fails the table's CHECK and the transaction.
UpdateCounters(w, u) ==
    /\ pc[w] = "update"
    /\ u \in todo[w]
    /\ Free(w, u)
    /\ IF \A f \in Fields : Added(w, u)[f] >= 0
       THEN /\ rowLock' = [rowLock EXCEPT ![u] = w]
            /\ todo' = [todo EXCEPT ![w] = @ \ {u}]
            /\ pc' = [pc EXCEPT ![w] = IF todo[w] = {u} THEN "commit" ELSE @]
            /\ UNCHANGED << tables, guard, op, link, loaded >>
       ELSE Rollback(w)

\* persist*: new rows collide with none, deleted rows are there.  A resolved
\* request is saved by its id whatever its row says now.
Persistable(w, next) ==
    /\ next.pending \ loaded[w].pending # {} => Open(Pair(w)) = {}
    /\ (next.friends \ loaded[w].friends) \cap friends = {}
    /\ (next.follows \ loaded[w].follows) \cap follows = {}
    /\ (next.blocks \ loaded[w].blocks) \cap blocks = {}
    /\ loaded[w].friends \ next.friends \subseteq friends
    /\ loaded[w].follows \ next.follows \subseteq follows
    /\ loaded[w].blocks \ next.blocks \subseteq blocks

\* The request's row, saved by its id: a resolved one is open no longer.
SaveFriendRequest(old, next) ==
    requests' = (requests \ (old.pending \ next.pending)) \cup (next.pending \ old.pending)

\* The pair's event is appended to the outbox.
AppendEvent(w) ==
    \E e \in EventsOf(op[w], loaded[w], Actor(w), Target(w)) :
        outbox' = [outbox EXCEPT ![Pair(w)] = Append(@, e)]

\* Save and Commit: the pair's rows, the counters and the outbox event.
Save(w) ==
    LET old == loaded[w]
        next == TransitionOf(w).pair
    IN  /\ pc[w] = "commit"
        /\ IF Persistable(w, next)
           THEN /\ SaveFriendRequest(old, next)
                /\ friends' = (friends \ (old.friends \ next.friends)) \cup (next.friends \ old.friends)
                /\ follows' = (follows \ (old.follows \ next.follows)) \cup (next.follows \ old.follows)
                /\ blocks' = (blocks \ (old.blocks \ next.blocks)) \cup (next.blocks \ old.blocks)
                /\ counters' = [u \in DOMAIN counters \cup Mine(w) |->
                                  IF u \in Mine(w) THEN Added(w, u) ELSE counters[u]]
                /\ AppendEvent(w)
                /\ UNCHANGED accounts
                /\ End(w)
           ELSE Rollback(w)

\* The statement a worker stands at waits for another transaction's row.
WaitsFor(w, v) ==
    /\ w # v
    /\ \/ pc[w] = "stubs"  /\ \E u \in todo[w] \ DOMAIN counters : rowLock[u] = v
       \/ pc[w] = "update" /\ \E u \in todo[w] : rowLock[u] = v

Stuck(w) ==
    \/ pc[w] = "stubs"  /\ \A u \in todo[w] : u \notin DOMAIN counters /\ ~Free(w, u)
    \/ pc[w] = "update" /\ \A u \in todo[w] : ~Free(w, u)

\* PostgreSQL aborts a transaction that waits in a circle.
DeadlockVictim(w) ==
    /\ \E c \in SUBSET Workers :
          /\ w \in c
          /\ \A v \in c : Stuck(v) /\ \E x, y \in c : WaitsFor(v, x) /\ WaitsFor(y, v)
    /\ Rollback(w)

\* A cancelled context, a lost connection or a crash rolls back.
Abort(w) ==
    /\ pc[w] # "idle"
    /\ Rollback(w)

Step(w) ==
    \/ LoadForUpdate(w)
    \/ \E u \in Users : InsertStub(w, u) \/ UpdateCounters(w, u)
    \/ Save(w)
    \/ DeadlockVictim(w)

WriteNext ==
    \/ \E u \in Users : handleAccountEvent(u)
    \/ \E w \in Workers : Step(w) \/ Abort(w) \/ \E l \in Links : Handle(w, l)

Spec == Init /\ [][WriteNext]_vars

\* A worker runs while it can, and PostgreSQL queues the waiters of a row, so
\* a row that comes free again and again is granted to each of them.
FairSpec ==
    /\ Spec
    /\ \A w \in Workers :
          /\ WF_vars(LoadForUpdate(w) \/ Save(w) \/ DeadlockVictim(w))
          /\ SF_vars(\E u \in Users : InsertStub(w, u) \/ UpdateCounters(w, u))

-----------------------------------------------------------------------------
(* Properties *)

Between(p, links) == { l \in links : {l[1], l[2]} = p }

\* A block in either direction leaves no friendship, no follow and no open
\* request in the pair, whatever was sent, accepted or followed meanwhile.
BlockSevers ==
    \A l \in blocks :
        LET p == {l[1], l[2]}
        IN  p \notin friends /\ Between(p, follows) = {} /\ Open(p) = {}

\* A pair has at most one open request, and none when the two are friends.
OneOpenRequest ==
    \A p \in Pairs : /\ Cardinality(Open(p)) <= 1
                     /\ p \in friends => Open(p) = {}

Counter(u, f) == IF u \in DOMAIN counters THEN counters[u][f] ELSE 0

\* Every counter is the number of rows it counts: commands on different pairs
\* that meet in a counter row lose no update.
CountersMatch ==
    \A u \in Users :
        /\ Counter(u, "friends") = Cardinality({ p \in friends : u \in p })
        /\ Counter(u, "following") = Cardinality({ l \in follows : l[1] = u })
        /\ Counter(u, "followers") = Cardinality({ l \in follows : l[2] = u })
        /\ Counter(u, "blocked") = Cardinality({ l \in blocks : l[1] = u })
        /\ Counter(u, "pendingOut") = Cardinality({ r \in requests : r.link[1] = u })
        /\ Counter(u, "pendingIn") = Cardinality({ r \in requests : r.link[2] = u })

\* The events of a pair are numbered without gap, repetition or reordering.
StreamIsSequential == \A p \in Pairs : \A i \in DOMAIN outbox[p] : outbox[p][i].version = i

\* The rows of a pair are typed, their requests exclude each other and the friendship,
\* and its events are sequential, whatever both users command at the same time.
PairIsSound == TypeOK /\ OneOpenRequest /\ StreamIsSequential

\* A begun command ends although commands wait for each other's counter rows.
CommandsEnd == \A w \in Workers : pc[w] # "idle" ~> pc[w] = "idle"

=============================================================================
