--------------------------- MODULE RoomReadModel ---------------------------
(***************************************************************************)
(* The read side of a room: the tables in Cassandra and the search index    *)
(* that the projector fills from the outbox, event by event.                *)
(*                                                                          *)
(* Cassandra has no transactions: an event is several writes, and an        *)
(* attempt that ends between two of them is followed by another one or,     *)
(* after the last retry, by the next event.                                 *)
(*                                                                          *)
(* rooms_by_account is keyed by the time of the room's last change, so      *)
(* that a new version of the room has to delete the rows of the old one.    *)
(***************************************************************************)
EXTENDS Room

CONSTANT PageSize    \* rows of the timeline that CountUnreadMessages reads at once

ASSUME PageAssumption == PageSize \in Nat \ {0}

VARIABLES
    done,         \* events the projector is through with
    pc,           \* what it is about to do for the next one
    previous,     \* the room and the members it found for that one
    viewRoom,     \* the row of the room
    viewMembers,  \* account |-> row
    index,        \* rooms_by_account: << account, room_updated_at >>
    timeline,     \* message |-> row by time
    byId,         \* message |-> row by id
    search,       \* message |-> document
    hidden,       \* << account, message >>: deleted by and for the account
    receipts,     \* << account, message >> |-> status
    dropped,      \* history: events given up
    torn          \* history: an attempt ended between two writes to the room's tables

viewVars == << done, pc, previous, viewRoom, viewMembers, index, timeline, byId, search,
               hidden, receipts, dropped, torn >>
vars == << roomVars, viewVars >>

NoView == [room |-> NoRoom, last |-> [id |-> 0, body |-> 0], count |-> 0]
NoPrevious == [room |-> NoView, members |-> {}]

ViewInit ==
    /\ done = 0 /\ pc = "read" /\ previous = NoPrevious
    /\ viewRoom = NoView /\ viewMembers = NoOne /\ index = {}
    /\ timeline = NoOne /\ byId = NoOne /\ search = NoOne
    /\ hidden = {} /\ receipts = NoOne
    /\ dropped = {} /\ torn = FALSE

Put(f, g) == [x \in DOMAIN f \cup DOMAIN g |-> IF x \in DOMAIN g THEN g[x] ELSE f[x]]

Event == outbox[done + 1]
Handling(t, step) == done < Len(outbox) /\ Event.t = t /\ pc = step
Then(step) == pc' = step /\ UNCHANGED << done, dropped, torn, roomVars >>
Finished ==
    /\ done' = done + 1 /\ pc' = "read"
    /\ UNCHANGED << dropped, torn, roomVars >>

-----------------------------------------------------------------------------
(* SyncRoomAggregate. *)

GetRoomRow ==
    /\ Handling("room", "read")
    /\ previous' = [room |-> viewRoom, members |-> DOMAIN viewMembers]
    /\ Then("row")
    /\ UNCHANGED << viewRoom, viewMembers, index, timeline, byId, search, hidden, receipts >>

UpsertRoomRow ==
    /\ Handling("room", "row")
    /\ viewRoom' = [room |-> Event.room, last |-> Event.last,
                    count |-> Cardinality(DOMAIN Event.members)]
    /\ Then("members")
    /\ UNCHANGED << previous, viewMembers, index, timeline, byId, search, hidden, receipts >>

UpsertRoomMemberRows ==
    /\ Handling("room", "members")
    /\ viewMembers' = Put(viewMembers, Event.members)
    /\ Then("clean")
    /\ UNCHANGED << previous, viewRoom, index, timeline, byId, search, hidden, receipts >>

\* Mutant: the rows of members who left stay.
KeepsLeavers ==
    /\ Handling("room", "clean")
    /\ index' = index \ (previous.members \X {previous.room.room.at})
    /\ Then("index")
    /\ UNCHANGED << previous, viewRoom, viewMembers, timeline, byId, search, hidden, receipts >>

\* The index rows of the version it found, and the rows of members who left.
DeletePreviousRows ==
    /\ Handling("room", "clean")
    /\ index' = index \ (previous.members \X {previous.room.room.at})
    /\ viewMembers' = [a \in DOMAIN viewMembers \ (previous.members \ DOMAIN Event.members) |->
                          viewMembers[a]]
    /\ Then("index")
    /\ UNCHANGED << previous, viewRoom, timeline, byId, search, hidden, receipts >>

UpsertAccountRoomIndex ==
    /\ Handling("room", "index")
    /\ index' = index \cup ((DOMAIN Event.members) \X {Event.room.at})
    /\ Finished
    /\ previous' = NoPrevious
    /\ UNCHANGED << viewRoom, viewMembers, timeline, byId, search, hidden, receipts >>

SyncRoomAggregate ==
    GetRoomRow \/ UpsertRoomRow \/ UpsertRoomMemberRows \/ DeletePreviousRows
        \/ UpsertAccountRoomIndex

-----------------------------------------------------------------------------
(* SyncMessageAggregate and the search index. *)

Row == [i \in {Event.id} |-> Event.msg]

UpsertTimelineRow ==
    /\ Handling("message", "read")
    /\ timeline' = Put(timeline, Row)
    /\ Then("byId")
    /\ UNCHANGED << previous, viewRoom, viewMembers, index, byId, search, hidden, receipts >>

UpsertByIDRow ==
    /\ Handling("message", "byId")
    /\ byId' = Put(byId, Row)
    /\ Then("rest")
    /\ UNCHANGED << previous, viewRoom, viewMembers, index, timeline, search, hidden, receipts >>

\* The member of a receipt is written, member or not, with an index row for the room as
\* the view has it; then the receipts and the deletions.
UpsertMemberAndReceipts ==
    /\ Handling("message", "rest")
    /\ viewMembers' = Put(viewMembers, Event.members)
    /\ index' = index \cup ((DOMAIN Event.members) \X {viewRoom.room.at})
    /\ receipts' = Put(receipts, [x \in {<< r[1], Event.id >> : r \in Event.receipts} |->
                        (CHOOSE r \in Event.receipts : r[1] = x[1])[2]])
    /\ hidden' = hidden \cup (Event.hidden \X {Event.id})
    /\ Then("search")
    /\ UNCHANGED << previous, viewRoom, timeline, byId, search >>

\* The document of a deleted message has no content; reactions are not indexed.
Content(m) == [body |-> IF m.deleted THEN 0 ELSE m.body, deleted |-> m.deleted]

SyncMessage ==
    /\ Handling("message", "search")
    /\ search' = Put(search, [i \in {Event.id} |-> Content(Event.msg)])
    /\ Finished
    /\ UNCHANGED << previous, viewRoom, viewMembers, index, timeline, byId, hidden, receipts >>

SyncMessageAggregate ==
    UpsertTimelineRow \/ UpsertByIDRow \/ UpsertMemberAndReceipts \/ SyncMessage

\* The projector has no use for the other events.
IgnoreEvents ==
    LET useless == {i \in DOMAIN outbox :
                        \A k \in done + 1 .. i : outbox[k].t \notin {"room", "message"}}
    IN  /\ done < Len(outbox) /\ Event.t \notin {"room", "message"}
        /\ done' = Max(useless)
        /\ UNCHANGED << pc, dropped, torn, roomVars >>
        /\ UNCHANGED << previous, viewRoom, viewMembers, index, timeline, byId, search,
                        hidden, receipts >>

-----------------------------------------------------------------------------
(* An attempt ends between two writes: the event comes again, or is given up. *)

HalfWay == pc \notin {"read", "row"}

Again ==
    /\ pc # "read"
    /\ pc' = "read" /\ previous' = NoPrevious
    /\ torn' = (torn \/ pc \in {"members", "clean"})
    /\ UNCHANGED << done, dropped, roomVars >>
    /\ UNCHANGED << viewRoom, viewMembers, index, timeline, byId, search, hidden, receipts >>

GiveUp ==
    /\ done < Len(outbox) /\ Event.t \in {"room", "message"}
    /\ done' = done + 1 /\ pc' = "read" /\ previous' = NoPrevious
    /\ dropped' = dropped \cup {done + 1}
    /\ torn' = (torn \/ HalfWay)
    /\ UNCHANGED roomVars
    /\ UNCHANGED << viewRoom, viewMembers, index, timeline, byId, search, hidden, receipts >>

Project == SyncRoomAggregate \/ SyncMessageAggregate \/ IgnoreEvents \/ Again \/ GiveUp

Init == RoomInit /\ ViewInit
Next == (RoomNext /\ UNCHANGED viewVars) \/ Project
Spec == Init /\ [][Next]_vars

-----------------------------------------------------------------------------
(* What readers compute. *)

\* The rows of the timeline after a time, newest first, one page of them.
ListUnreadTimelineBatch(since) ==
    LET after == {i \in DOMAIN timeline : timeline[i].at > since}
    IN  {i \in after : Cardinality({k \in after : timeline[k].at > timeline[i].at}) < PageSize}

Unread(a, i) ==
    timeline[i].sender # a /\ ~timeline[i].deleted /\ << a, i >> \notin hidden

\* The next page starts after the oldest row of this one, which is newer than the rest.
CountUnreadMessages(a, lastRead) ==
    LET count[since \in 0 .. clock] ==
            LET batch == ListUnreadTimelineBatch(since)
                here == Cardinality({i \in batch : Unread(a, i)})
            IN  IF Cardinality(batch) < PageSize THEN here
                ELSE here + count[Min({timeline[i].at : i \in batch})]
    IN  count[lastRead]

\* The newest row of the timeline, also for a viewer who has deleted it for oneself.
GetLastMessage ==
    CHOOSE i \in DOMAIN timeline : \A k \in DOMAIN timeline : timeline[k].at <= timeline[i].at

\* A sender is told the furthest any reader has come, a reader what is noted for him.
resolveViewerStatus(a, i) ==
    LET noted == {receipts[x] : x \in {y \in DOMAIN receipts : y[2] = i}}
    IN  IF timeline[i].sender = a
        THEN CASE "seen" \in noted -> "seen"
               [] "seen" \notin noted /\ "delivered" \in noted -> "delivered"
               [] OTHER -> "sent"
        ELSE IF << a, i >> \in DOMAIN receipts THEN receipts[<< a, i >>] ELSE "sent"

\* A direct conversation is called by the other member.
resolveConversationName(a) ==
    LET others == DOMAIN viewMembers \ {a}
    IN  IF viewRoom.room.kind = "direct" /\ others # {} THEN CHOOSE b \in others : TRUE
        ELSE viewRoom.room.name

buildMessageReactionResults(a, likes) == [count |-> Cardinality(likes), byMe |-> a \in likes]

\* A message that was deleted for everyone is shown without its text.
BuildMessage(a, i) ==
    [id |-> i, body |-> IF timeline[i].deleted THEN 0 ELSE timeline[i].body,
     status |-> resolveViewerStatus(a, i),
     likes |-> buildMessageReactionResults(a, timeline[i].likes)]

\* Both the count and the last message are read for the list, not taken from the room.
loadConversationState(a) ==
    [unread |-> CountUnreadMessages(a, viewMembers[a].read), last |-> BuildMessage(a, GetLastMessage)]

BuildConversation(a) ==
    [name |-> resolveConversationName(a), members |-> DOMAIN viewMembers,
     state |-> loadConversationState(a)]

\* The last message of the metadata is the one the row of the room names.
BuildConversationMetadata(a) ==
    [role |-> viewMembers[a].role, members |-> DOMAIN viewMembers, pin |-> viewRoom.room.pin,
     last |-> viewRoom.last.id]

\* One conversation for every row the account has of the room, if the room has the account.
ListConversations(a) ==
    [i \in 1 .. IF a \in DOMAIN viewMembers THEN Cardinality({x \in index : x[1] = a}) ELSE 0 |->
        BuildConversation(a)]

-----------------------------------------------------------------------------
(* Properties. *)

CaughtUp == done = Len(outbox)

ViewTypeOK ==
    /\ done \in 0 .. Len(outbox) /\ dropped \subseteq 1 .. Len(outbox)
    /\ pc \in {"read", "row", "members", "clean", "index", "byId", "rest", "search"}
    /\ DOMAIN viewMembers \subseteq Accounts
    /\ index \subseteq Accounts \X (0 .. MaxCommands)
    /\ torn \in BOOLEAN

About(m) == {i \in Events("message") : outbox[i].id = m}

\* A reading of message m older than a change of it went out after that change, with a
\* receipt or a deletion for oneself, which do not touch the row.
Overtaken(m) ==
    \E i, k \in About(m) :
        /\ outbox[i].op \in MessageWrites /\ outbox[k].op \in {"hide", "mark"}
        /\ outbox[k].base < outbox[i].n /\ outbox[i].n < outbox[k].n

\* Timeline, rows by id and search index end with the message as the database has it,
\* unless its last event was given up or a receipt carried an older reading of it.
MessagesConverge ==
    CaughtUp => \A m \in DOMAIN messages :
        \/ Max(About(m)) \in dropped
        \/ Overtaken(m)
        \/ /\ timeline[m] = messages[m] /\ byId[m] = messages[m]
           /\ search[m] = Content(messages[m])

\* Events that tell what the members are.
MemberSyncs == Events("room") \cup {i \in Events("message") : outbox[i].members # NoOne}
MemberChanges ==
    Events("created") \cup Events("added") \cup Events("removed")
        \cup {i \in Events("message") : outbox[i].members # NoOne}
ReadAt(i) == IF outbox[i].t = "room" THEN outbox[i].seen ELSE outbox[i].base

\* An event made of members that were read before a change went out after that change.
MembersOvertaken ==
    \E i \in MemberChanges, k \in MemberSyncs :
        outbox[i].n < outbox[k].n /\ ReadAt(k) < outbox[i].n

\* The members, with their roles and what they have read, are those of the database,
\* unless an event was given up or was made of an older reading.
MembersFollow ==
    CaughtUp /\ MemberSyncs \cap dropped = {} /\ ~MembersOvertaken => viewMembers = members

\* Name and pin are those of the row, unless the last event was given up, or was that of
\* a message and took the room from a stale copy in Redis or before another save.
RoomFollows ==
    LET last == Max(Events("room"))
        later == {i \in Events("room") : outbox[i].own /\ outbox[i].n > outbox[last].roomAt}
    IN  CaughtUp /\ outbox # << >> =>
            \/ last \in dropped
            \/ ~outbox[last].own /\ (outbox[last].dirty \/ later # {})
            \/ viewRoom.room = room

\* Every member of the view finds the room once in its list, at the time of its last
\* change, and nobody else does, unless an attempt ended between two writes.
IndexIsExact ==
    CaughtUp /\ ~torn /\ Events("room") \cap dropped = {} =>
        index = {<< a, viewRoom.room.at >> : a \in DOMAIN viewMembers}

\* As long as they fit a page, the unread messages of a member are counted as the
\* database would count them.
UnreadIsExact ==
    CaughtUp /\ dropped = {} /\ ~MembersOvertaken
        /\ (\A m \in DOMAIN messages : ~Overtaken(m)) =>
        \A a \in DOMAIN members :
            LET new == {m \in DOMAIN messages : messages[m].at > members[a].read}
            IN  Cardinality(new) < PageSize =>
                    CountUnreadMessages(a, viewMembers[a].read) =
                        Cardinality({m \in new :
                            /\ messages[m].sender # a /\ ~messages[m].deleted
                            /\ \A i \in About(m) : a \notin outbox[i].hidden})

\* A member finds the room once in the list of conversations, with the members and the last
\* message of the database (unless a receipt carried an older reading of it), and nobody else finds it, unless an event was given up, an
\* attempt ended between two writes or the members are those of an older reading.
ConversationsAreTrue ==
    CaughtUp /\ outbox # << >> /\ dropped = {} /\ ~torn /\ ~MembersOvertaken =>
        \A a \in Accounts :
            LET list == ListConversations(a)
            IN  /\ Len(list) = IF a \in DOMAIN members THEN 1 ELSE 0
                /\ \A i \in DOMAIN list :
                    /\ list[i].members = DOMAIN members
                    /\ LET m == GetLastMessageByRoomID(messages)
                           shown == list[i].state.last
                       IN  /\ shown.id = m.id
                           /\ ~Overtaken(m.id) =>
                                /\ shown.body = Content(messages[m.id]).body
                                /\ shown.likes.byMe <=> a \in messages[m.id].likes
                    /\ room.kind = "direct" => {list[i].name} = DOMAIN members \ {a}

\* List and metadata name the same last message, unless an event was given up or the last
\* event of the room is that of a command that overlapped with one that sent a message.
LastMessagesAgree ==
    LET last == Max(Events("room"))
        overlapped == \E i \in Events("room") :
                        /\ outbox[i].own
                        /\ outbox[last].seen < outbox[i].n /\ outbox[i].n < outbox[last].n
    IN  CaughtUp /\ outbox # << >> /\ dropped = {} /\ ~overlapped =>
            \A a \in DOMAIN viewMembers :
                BuildConversationMetadata(a).last = BuildConversation(a).state.last.id

\* Sender and readers are told the last mark each reader has made, be it an earlier one
\* than the mark before.
LastMarkIsShown ==
    LET Marks(a, m) == {i \in About(m) : \E r \in outbox[i].receipts : r[1] = a}
        Mark(a, m) == LET i == Max(Marks(a, m))
                      IN  (CHOOSE r \in outbox[i].receipts : r[1] = a)[2]
    IN  CaughtUp /\ dropped = {} =>
            \A m \in DOMAIN messages :
                LET readers == {a \in Accounts : Marks(a, m) # {}}
                IN  /\ \A a \in readers : resolveViewerStatus(a, m) = Mark(a, m)
                    /\ resolveViewerStatus(messages[m].sender, m) = "seen"
                         <=> \E a \in readers : Mark(a, m) = "seen"

\* The read side of a room: caught up, it shows the messages, members and room of the
\* database, and lists and counts them right, but for the faults named.
RoomViewIsSound ==
    /\ ViewTypeOK
    /\ MessagesConverge
    /\ MembersFollow
    /\ RoomFollows
    /\ IndexIsExact
    /\ UnreadIsExact
    /\ ConversationsAreTrue
    /\ LastMessagesAgree
    /\ LastMarkIsShown
=============================================================================
