-------------------------------- MODULE Room --------------------------------
(***************************************************************************)
(* The write side of one chat room: its row, its members, its messages, the *)
(* copy of the row in Redis, and the outbox that feeds the read model.      *)
(*                                                                          *)
(* A command loads the room (from Redis if it is there), then the members,  *)
(* outside any transaction, decides on what it has read, and saves in a     *)
(* transaction of its own.  No version is checked.  UpdateRoom, the first   *)
(* statement of a save, locks the row until the commit and sets the copy in *)
(* Redis at once.  Members are inserted and deleted one by one; a message   *)
(* is written back whole.  Commands on a message load the message, and read *)
(* the room, its members and its last message inside their transaction.     *)
(*                                                                          *)
(* Times are the ticks of a clock, one per command that gets past its       *)
(* checks; the identity of a new row is its account and its time.  A        *)
(* message's text is the time it was written, 0 for an empty one.  Name and *)
(* description are one value; last_delivered_at, attachments and mentions   *)
(* are left out.  No command deletes a room.                                *)
(***************************************************************************)
EXTENDS Integers, Sequences, FiniteSets, FiniteSetsExt

CONSTANTS Accounts,
          Workers,       \* requests handled at the same time
          Names,         \* names of the room
          MaxCommands    \* bound: commands that get past their checks

ASSUME BoundAssumption == MaxCommands \in Nat

VARIABLES
    clock,      \* last time given out
    room,       \* the row of rooms
    members,    \* account |-> row of room_members
    messages,   \* rows of messages, in the order of their commits
    cache,      \* the copy under room:<id>
    outbox,     \* room_outbox_events
    job,        \* the command of a worker and what it has read
    leaked,     \* history: names whose rename was rolled back with Redis already set
    blurred     \* history: what is in Redis is not what the last save put there

tables == << room, members, messages, outbox >>
roomVars == << clock, tables, cache, job, leaked, blurred >>

NoRoom == [kind |-> "none", name |-> "none", pin |-> 0, at |-> 0]
NoMessage == [sender |-> "none", type |-> "none", body |-> 0, deleted |-> FALSE,
              likes |-> {}, at |-> 0]
NoOne == << >>

Idle == [op |-> "none", pc |-> "idle", by |-> "none", who |-> "none", id |-> 0,
         val |-> "none", now |-> 0, room |-> NoRoom, members |-> NoOne,
         msg |-> NoMessage, last |-> [id |-> 0, body |-> 0],
         roomAt |-> 0, base |-> 0, seen |-> 0, dirty |-> FALSE]

Creations == {"direct", "group"}
MessageWrites == {"edit", "delete", "react"}
MessageOps == MessageWrites \cup {"hide", "mark"}

\* The saves there have been.  Every event carries the number of its save, and the
\* synchronisation events also how many saves had been made when their contents were
\* read (roomAt for the room, base for the message, seen for members and last message).
Saves == IF outbox = << >> THEN 0 ELSE outbox[Len(outbox)].n

RoomInit ==
    /\ clock = 0
    /\ room = NoRoom /\ members = NoOne /\ messages = << >>
    /\ cache = NoRoom
    /\ outbox = << >>
    /\ job = [w \in Workers |-> Idle]
    /\ leaked = {} /\ blurred = FALSE

-----------------------------------------------------------------------------
(* Members. *)

NewRoomMember(role, now) == [id |-> now, role |-> role, read |-> 0]

BuildGroupMemberRoles(owner, others, now) ==
    [a \in others \cup {owner} |-> NewRoomMember(IF a = owner THEN "owner" ELSE "member", now)]

IsManager(m) == m.role \in {"owner", "admin"}

CanManageGroup(j) ==
    /\ j.by \in DOMAIN j.members
    /\ j.room.kind = "group"
    /\ IsManager(j.members[j.by])

CanRemoveFrom(j) ==
    /\ j.by \in DOMAIN j.members
    /\ j.room.kind = "group"
    /\ j.by # j.who => IsManager(j.members[j.by])
    /\ j.by = j.who => j.members[j.by].role # "owner"
    /\ j.who \in DOMAIN j.members

ApplyReceiptStatus(m, status, now) == IF status = "seen" THEN [m EXCEPT !.read = now] ELSE m

-----------------------------------------------------------------------------
(* Messages. *)

NewMessage(sender, type, body, now) ==
    [NoMessage EXCEPT !.sender = sender, !.type = type, !.body = body, !.at = now]

\* NewMessage refuses a text without content: a forwarded message that was deleted.
BodyIsThere(j) == j.op = "forward" /\ j.msg.type = "text" => j.msg.body # 0

Edit(m, now) == [m EXCEPT !.body = now]
DeleteForEveryone(m) == [m EXCEPT !.body = 0, !.deleted = TRUE]
ToggleReaction(m, a) ==
    [m EXCEPT !.likes = IF a \in @ THEN @ \ {a} ELSE @ \cup {a}]

CanEdit(m, a) == m.sender = a /\ m.type # "system"
CanDeleteForEveryone(m, a) == m.sender = a

\* The message as its command leaves it; hide and mark leave it as it was loaded.
Changed(j, now) ==
    CASE j.op = "edit" -> Edit(j.msg, now)
      [] j.op = "delete" -> DeleteForEveryone(j.msg)
      [] j.op = "react" -> ToggleReaction(j.msg, j.by)
      [] OTHER -> j.msg

GetLastMessageByRoomID(ms) ==
    LET i == CHOOSE i \in DOMAIN ms : \A k \in DOMAIN ms : ms[k].at <= ms[i].at
    IN  [id |-> i, body |-> ms[i].body]

-----------------------------------------------------------------------------
(* The aggregate: whether a command is accepted, and what it makes of the room. *)

Accepted(j) ==
    CASE j.op \in {"send", "forward"} -> j.by \in DOMAIN j.members /\ BodyIsThere(j)
      [] j.op = "add" -> CanManageGroup(j) /\ j.who \notin DOMAIN j.members
      [] j.op = "remove" -> CanRemoveFrom(j)
      [] j.op = "rename" -> CanManageGroup(j) /\ j.val # j.room.name
      [] j.op = "pin" -> CanManageGroup(j)

UpdateDetails(r, name, now) == [r EXCEPT !.name = name, !.at = now]
PinMessage(r, id, now) == [r EXCEPT !.pin = id, !.at = now]
Touch(r, now) == [r EXCEPT !.at = now]

RoomOf(j) ==
    CASE j.op = "rename" -> UpdateDetails(j.room, j.val, j.now)
      [] j.op = "pin" -> PinMessage(j.room, j.id, j.now)
      [] j.op \in Creations -> j.room
      [] OTHER -> Touch(j.room, j.now)

\* The members the aggregate holds after the command: what it loaded and its change.
AddMember(ms, a, role, now) ==
    [x \in DOMAIN ms \cup {a} |-> IF x = a THEN NewRoomMember(role, now) ELSE ms[x]]
RemoveMember(ms, a) == [x \in DOMAIN ms \ {a} |-> ms[x]]

MembersOf(j) ==
    CASE j.op = "add" -> AddMember(j.members, j.who, j.val, j.now)
      [] j.op = "remove" -> RemoveMember(j.members, j.who)
      [] OTHER -> j.members

\* Every command on a room leaves one message in it.
MessageOf(j) ==
    CASE j.op = "send" -> NewMessage(j.by, "text", j.now, j.now)
      [] j.op = "forward" -> NewMessage(j.by, j.msg.type, j.msg.body, j.now)
      [] OTHER -> NewMessage(j.by, "system", j.now, j.now)

\* SendMessage leaves a receipt for every other member it has loaded.
ReceiptsOf(j) ==
    IF j.op \in {"send", "forward"}
    THEN {<< a, "sent" >> : a \in DOMAIN j.members \ {j.by}} ELSE {}

DomainEvent(j) ==
    CASE j.op \in Creations -> << [t |-> "created", who |-> DOMAIN j.members, name |-> j.room.name] >>
      [] j.op = "add" -> << [t |-> "added", who |-> {j.who}] >>
      [] j.op = "remove" -> << [t |-> "removed", who |-> {j.who}] >>
      [] j.op = "rename" -> << [t |-> "renamed", name |-> j.val] >>
      [] j.op = "pin" -> << [t |-> "pinned", id |-> j.id] >>
      [] OTHER -> << >>

-----------------------------------------------------------------------------
(* What a save puts into the outbox. *)

buildRoomAggregateProjectionSyncEvent(j, last, own) ==
    [t |-> "room", own |-> own, room |-> j.room, members |-> MembersOf(j), last |-> last,
     roomAt |-> j.roomAt, seen |-> j.seen, dirty |-> j.dirty]

buildMessageAggregateProjectionSyncEvent(j, id, msg, ms, receipts, hidden) ==
    [t |-> "message", id |-> id, msg |-> msg, members |-> ms, receipts |-> receipts,
     hidden |-> hidden, op |-> j.op, base |-> j.base]

appendRoomOutboxEvents(events) ==
    outbox' = outbox \o [i \in DOMAIN events |->
        [x \in DOMAIN events[i] \cup {"n"} |-> IF x = "n" THEN Saves + 1 ELSE events[i][x]]]

-----------------------------------------------------------------------------
(* The commands as they arrive. *)

IsIdle(w) == job[w].op = "none"
At(w, step) == job[w].pc = step
Work(w, j) == job' = [job EXCEPT ![w] = j]
Done(w) == Work(w, Idle)

Waiting == Cardinality({w \in Workers : ~IsIdle(w) /\ job[w].now = 0})

Begin(w, j) ==
    /\ IsIdle(w)
    /\ clock + Waiting < MaxCommands
    /\ Work(w, j)
    /\ UNCHANGED << clock, tables, cache, leaked, blurred >>

Command(op, a, step) == [Idle EXCEPT !.op = op, !.by = a, !.pc = step]

\* The room is the one of two accounts, or it is a group.
createDirectConversation(w, a, b) ==
    /\ a # b
    /\ \A x \in Workers : job[x].op \in Creations =>
                            job[x].op = "direct" /\ {job[x].by, job[x].who} = {a, b}
    /\ room.kind # "none" => room.kind = "direct" /\ DOMAIN members = {a, b}
    /\ Begin(w, [Command("direct", a, "lookup") EXCEPT !.who = b])

createGroupChat(w, a, others, name) ==
    /\ room.kind = "none" /\ \A x \in Workers : IsIdle(x)
    /\ clock < MaxCommands /\ clock' = clock + 1
    /\ Work(w, [Command("group", a, "insert") EXCEPT
                  !.room = [kind |-> "group", name |-> name, pin |-> 0, at |-> clock'],
                  !.members = BuildGroupMemberRoles(a, others, clock'), !.now = clock'])
    /\ UNCHANGED << tables, cache, leaked, blurred >>

RoomCommand(w, j) == room.kind # "none" /\ Begin(w, j)

sendChatMessage(w, a) == RoomCommand(w, Command("send", a, "room"))
addChatMember(w, a, b, role) ==
    RoomCommand(w, [Command("add", a, "room") EXCEPT !.who = b, !.val = role])
removeChatMember(w, a, b) == RoomCommand(w, [Command("remove", a, "room") EXCEPT !.who = b])
updateGroupChat(w, a, name) == RoomCommand(w, [Command("rename", a, "room") EXCEPT !.val = name])
pinChatMessage(w, a, i) == RoomCommand(w, [Command("pin", a, "room") EXCEPT !.id = i])

MessageCommand(w, op, a, i) == RoomCommand(w, [Command(op, a, "message") EXCEPT !.id = i])

forwardChatMessage(w, a, i) == MessageCommand(w, "forward", a, i)
editChatMessage(w, a, i) == MessageCommand(w, "edit", a, i)
deleteChatMessage(w, a, i) == \E op \in {"delete", "hide"} : MessageCommand(w, op, a, i)
toggleChatMessageReaction(w, a, i) == MessageCommand(w, "react", a, i)
markChatMessageStatus(w, a, i, status) ==
    RoomCommand(w, [Command("mark", a, "message") EXCEPT !.id = i, !.val = status])

-----------------------------------------------------------------------------
(* Loading. *)

\* What follows once the room is at hand.
AfterRoom(j) ==
    IF j.op = "direct" THEN Idle
    ELSE [j EXCEPT !.pc = IF j.op \in {"hide", "mark"} THEN "commit" ELSE "members"]

LoadByDirectKey(w) ==
    /\ At(w, "lookup")
    /\ IF room.kind # "none"
       THEN Work(w, [job[w] EXCEPT !.room = room, !.pc = "warm"]) /\ UNCHANGED clock
       ELSE /\ clock' = clock + 1
            /\ Work(w, [job[w] EXCEPT
                  !.room = [kind |-> "direct", name |-> "direct", pin |-> 0, at |-> clock'],
                  !.members = BuildGroupMemberRoles(job[w].by, {job[w].who}, clock'),
                  !.now = clock', !.pc = "insert"])
    /\ UNCHANGED << tables, cache, leaked, blurred >>

GetRoomByID(w) ==
    /\ At(w, "room")
    /\ LET hit == cache.kind # "none"
           j == [job[w] EXCEPT !.room = IF hit THEN cache ELSE room, !.roomAt = Saves,
                               !.dirty = hit /\ cache # room]
       IN  Work(w, IF hit THEN AfterRoom(j) ELSE [j EXCEPT !.pc = "warm"])
    /\ UNCHANGED << clock, tables, cache, leaked, blurred >>

\* Between UpdateRoom and the commit the row is locked.
RoomIsLocked(w) == \E x \in Workers \ {w} : At(x, "saving")

\* A row read after a miss goes into Redis, if Redis answers, whatever happened since.
WarmCache(w) ==
    /\ At(w, "warm")
    /\ \/ /\ cache' = job[w].room
          /\ blurred' = (job[w].room # room \/ RoomIsLocked(w))
       \/ UNCHANGED << cache, blurred >>
    /\ Work(w, AfterRoom(job[w]))
    /\ UNCHANGED << clock, tables, leaked >>

\* The members; a command on the room is then decided and dated.
ListRoomMembers(w) ==
    /\ At(w, "members")
    /\ LET j == [job[w] EXCEPT !.members = members, !.seen = Saves]
       IN  \/ /\ j.op \in MessageOps
              /\ Work(w, [j EXCEPT !.pc = "commit",
                    !.last = GetLastMessageByRoomID([messages EXCEPT ![j.id] = j.msg])])
              /\ UNCHANGED clock
           \/ /\ j.op \notin MessageOps /\ Accepted(j)
              /\ clock' = clock + 1
              /\ Work(w, [j EXCEPT !.now = clock', !.pc = "update"])
           \/ /\ j.op \notin MessageOps /\ ~Accepted(j)
              /\ Done(w) /\ UNCHANGED clock
    /\ UNCHANGED << tables, cache, leaked, blurred >>

\* A receipt takes the member's row along; MarkStatus ignores the sender's own.
LoadMessage(w) ==
    /\ At(w, "message")
    /\ LET i == job[w].id
           j == [job[w] EXCEPT !.msg = messages[i], !.base = Saves]
           now == clock + 1
           refused == \/ j.op = "edit" /\ ~CanEdit(j.msg, j.by)
                      \/ j.op = "delete" /\ ~CanDeleteForEveryone(j.msg, j.by)
                      \/ j.op = "mark" /\ j.msg.sender = j.by
           mine == IF j.op = "mark"
                   THEN [a \in {j.by} \cap DOMAIN members |->
                            ApplyReceiptStatus(members[a], j.val, now)]
                   ELSE NoOne
       IN  \/ j.op = "forward" /\ Work(w, [j EXCEPT !.pc = "room"]) /\ UNCHANGED clock
           \/ j.op # "forward" /\ refused /\ Done(w) /\ UNCHANGED clock
           \/ /\ j.op # "forward" /\ ~refused
              /\ clock' = now
              /\ Work(w, [j EXCEPT !.now = now, !.msg = Changed(j, now), !.members = mine,
                            !.pc = IF j.op \in MessageWrites THEN "lock" ELSE "room"])
    /\ UNCHANGED << tables, cache, leaked, blurred >>

-----------------------------------------------------------------------------
(* Saving a room. *)

\* Redis has the row before the transaction ends; an error of Redis is ignored.
SetCache(r) ==
    \/ cache' = r /\ blurred' = FALSE
    \/ UNCHANGED cache /\ blurred' = (blurred \/ cache.kind # "none")

\* direct_key is unique: whoever inserts second waits for the first and is refused.
CreateRoom(w) ==
    /\ At(w, "insert")
    /\ ~RoomIsLocked(w)
    /\ \/ room.kind # "none" /\ Done(w) /\ UNCHANGED << cache, blurred >>
       \/ /\ room.kind = "none"
          /\ SetCache(job[w].room)
          /\ Work(w, [job[w] EXCEPT !.pc = "saving"])
    /\ UNCHANGED << clock, tables, leaked >>

UpdateRoom(w) ==
    /\ At(w, "update")
    /\ ~RoomIsLocked(w)
    /\ SetCache(RoomOf(job[w]))
    /\ Work(w, [job[w] EXCEPT !.room = RoomOf(job[w]), !.pc = "saving"])
    /\ UNCHANGED << clock, tables, leaked >>

\* Mutant: the members are replaced by the ones the command holds.
ReplacesMembers(j) == MembersOf(j)

\* A member who is there already is "updated" under the new row's id, which no row has.
SaveMembers(j) ==
    CASE j.op \in Creations -> j.members
      [] j.op = "remove" -> RemoveMember(members, j.who)
      [] j.op = "add" /\ j.who \notin DOMAIN members -> AddMember(members, j.who, j.val, j.now)
      [] OTHER -> members

SaveRoom(w) ==
    /\ At(w, "saving")
    /\ LET j == job[w]
           id == Len(messages) + 1
           msg == MessageOf(j)
       IN  /\ room' = j.room
           /\ members' = SaveMembers(j)
           /\ messages' = Append(messages, msg)
           /\ appendRoomOutboxEvents(
                << buildRoomAggregateProjectionSyncEvent(j, [id |-> id, body |-> msg.body], TRUE),
                   buildMessageAggregateProjectionSyncEvent(j, id, msg, NoOne, ReceiptsOf(j), {}) >>
                \o DomainEvent(j) \o << [t |-> "sent", id |-> id] >>)
    /\ Done(w)
    /\ UNCHANGED << clock, cache, leaked, blurred >>

-----------------------------------------------------------------------------
(* Saving a message. *)

UpdateMessage(w) ==
    /\ At(w, "lock")
    /\ \A x \in Workers \ {w} :
        ~(job[x].op \in MessageWrites /\ job[x].id = job[w].id
            /\ job[x].pc \in {"room", "warm", "members", "commit"})
    /\ Work(w, [job[w] EXCEPT !.pc = "room"])
    /\ UNCHANGED << clock, tables, cache, leaked, blurred >>

\* UpdateRoomMember finds the row by its id: nothing happens when the member is gone.
UpdateRoomMember(mine) ==
    [a \in DOMAIN members |->
        IF a \in DOMAIN mine /\ mine[a].id = members[a].id THEN mine[a] ELSE members[a]]

SaveMessage(w) ==
    /\ At(w, "commit")
    /\ LET j == job[w]
           sync == buildMessageAggregateProjectionSyncEvent(j, j.id, j.msg,
                     IF j.op = "mark" THEN j.members ELSE NoOne,
                     IF j.op = "mark" THEN {<< j.by, j.val >>} ELSE {},
                     IF j.op = "hide" THEN {j.by} ELSE {})
       IN  \/ /\ j.op \in MessageWrites
              /\ messages' = [messages EXCEPT ![j.id] = j.msg]
              /\ appendRoomOutboxEvents(
                   << sync, buildRoomAggregateProjectionSyncEvent(j, j.last, FALSE) >>)
              /\ UNCHANGED members
           \/ /\ j.op \notin MessageWrites
              /\ members' = UpdateRoomMember(IF j.op = "mark" THEN j.members ELSE NoOne)
              /\ appendRoomOutboxEvents(<< sync >>)
              /\ UNCHANGED messages
    /\ Done(w)
    /\ UNCHANGED << clock, room, cache, leaked, blurred >>

-----------------------------------------------------------------------------
(* What goes wrong. *)

\* A command ends with an error, its transaction rolled back.  Redis keeps what it was
\* told, except that nobody ever hears of the id of a room that was not created.
Fail(w) ==
    /\ ~IsIdle(w)
    /\ Done(w)
    /\ LET told == At(w, "saving") /\ cache = job[w].room
           created == job[w].op \in Creations
       IN  /\ cache' = IF told /\ created THEN NoRoom ELSE cache
           /\ blurred' = (blurred \/ (told /\ ~created))
    /\ leaked' = IF At(w, "saving") /\ job[w].op = "rename"
                 THEN leaked \cup {job[w].val} ELSE leaked
    /\ UNCHANGED << clock, tables >>

CacheExpires ==
    /\ cache.kind # "none"
    /\ cache' = NoRoom /\ blurred' = FALSE
    /\ UNCHANGED << clock, tables, job, leaked >>

Commands(w) ==
    \E a \in Accounts :
        \/ \E b \in Accounts : createDirectConversation(w, a, b)
        \/ \E S \in SUBSET Accounts, n \in Names : createGroupChat(w, a, S, n)
        \/ sendChatMessage(w, a)
        \/ \E b \in Accounts, r \in {"admin", "member"} : addChatMember(w, a, b, r)
        \/ \E b \in Accounts : removeChatMember(w, a, b)
        \/ \E n \in Names : updateGroupChat(w, a, n)
        \/ \E i \in DOMAIN messages :
            \/ pinChatMessage(w, a, i)
            \/ forwardChatMessage(w, a, i)
            \/ editChatMessage(w, a, i)
            \/ deleteChatMessage(w, a, i)
            \/ toggleChatMessageReaction(w, a, i)
            \/ \E s \in {"delivered", "seen"} : markChatMessageStatus(w, a, i, s)

RoomNext ==
    \/ CacheExpires
    \/ \E w \in Workers :
        \/ Commands(w)
        \/ LoadByDirectKey(w) \/ GetRoomByID(w) \/ WarmCache(w)
        \/ ListRoomMembers(w) \/ LoadMessage(w)
        \/ CreateRoom(w) \/ UpdateRoom(w) \/ SaveRoom(w)
        \/ UpdateMessage(w) \/ SaveMessage(w)
        \/ Fail(w)

RoomSpec == RoomInit /\ [][RoomNext]_roomVars

-----------------------------------------------------------------------------
(* Properties. *)

RoomTypeOK ==
    /\ clock \in 0 .. MaxCommands
    /\ room.kind \in {"none", "direct", "group"} /\ cache.kind \in {"none", "direct", "group"}
    /\ DOMAIN members \subseteq Accounts
    /\ \A w \in Workers : job[w].pc \in {"idle", "lookup", "room", "warm", "members", "message",
                                          "lock", "insert", "update", "saving", "commit"}
    /\ blurred \in BOOLEAN /\ leaked \subseteq Names

Events(t) == {i \in DOMAIN outbox : outbox[i].t = t}
MemberEvents(a) == {i \in Events("created") \cup Events("added") \cup Events("removed") :
                        a \in outbox[i].who}

\* An account is a member exactly if the last event about its membership brought it in:
\* no save puts back a member another one removed, or loses one another one added.
MembersAreAnnounced ==
    \A a \in Accounts :
        a \in DOMAIN members <=>
            /\ MemberEvents(a) # {}
            /\ outbox[Max(MemberEvents(a))].t # "removed"

\* The two accounts of a direct conversation stay its members.
DirectIsForTwo == room.kind = "direct" => Cardinality(DOMAIN members) = 2

\* The room's name was announced, or it is that of a rename that was rolled back after
\* Redis had it and that a later command took for the room's.
NameIsAnnounced ==
    room.kind = "group" =>
        room.name \in {outbox[i].name : i \in Events("created") \cup Events("renamed")} \cup leaked

\* A rename stays until the next one, unless a later save was made of a room read before
\* it or of a copy in Redis that was not the row.
RenameSticks ==
    \A i \in Events("renamed") :
        \/ i # Max(Events("renamed"))
        \/ \E k \in Events("room") :
            /\ outbox[k].own /\ outbox[k].n > outbox[i].n
            /\ outbox[k].roomAt < outbox[i].n \/ outbox[k].dirty
        \/ room.name = outbox[i].name

\* With no save under way Redis has the row, unless it missed a save, kept one that was
\* rolled back, or was given a row that had been read before the last save.
CacheFollowsRow ==
    (\A w \in Workers : ~At(w, "saving")) /\ cache.kind # "none" /\ ~blurred => cache = room

\* A message deleted for everyone comes back only by a command that had loaded it before.
DeletedStaysDeleted ==
    \A i \in Events("message") : outbox[i].msg.deleted /\ outbox[i].op = "delete" =>
        \/ messages[outbox[i].id].deleted
        \/ \E k \in Events("message") :
            /\ outbox[k].id = outbox[i].id /\ outbox[k].n > outbox[i].n
            /\ outbox[k].base < outbox[i].n /\ outbox[k].op \in MessageWrites

\* The write side of a room: its members and its name are what its events say, what was
\* decided stays decided unless a command worked on an older reading, and the copy in
\* Redis is the row but for the faults named.
RoomIsSound ==
    /\ RoomTypeOK
    /\ MembersAreAnnounced
    /\ DirectIsForTwo
    /\ NameIsAnnounced
    /\ RenameSticks
    /\ CacheFollowsRow
    /\ DeletedStaysDeleted
=============================================================================
