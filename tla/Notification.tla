---------------------------- MODULE Notification ----------------------------
(***************************************************************************)
(* The notifications of an account, kept in four Cassandra tables: by id, by *)
(* account in the order of their times, the index of the unread ones, and    *)
(* for each room the notification that counts its messages.  No statement is *)
(* joined to another: a save is up to six of them, any of which can fail or  *)
(* be the last one before a crash, and two saves can interleave.             *)
(*                                                                           *)
(* Consumers, one per topic, turn the events of the other modules into       *)
(* notifications.  An event whose handling returns an error is handled again *)
(* from the start, and given up (to the dead letter topic) after some        *)
(* attempts; it can be delivered again at any time.  Requests mark one       *)
(* notification or all of them read, and read the list page by page.         *)
(*                                                                           *)
(* Texts, names and the times nothing depends on (read_at, updated_at,       *)
(* created_at) are left out.  Cassandra keeps milliseconds: a time that was  *)
(* stored has lost what is below Milli.                                      *)
(***************************************************************************)
EXTENDS Integers, Sequences, FiniteSets

CONSTANTS Accounts,
          Events,        \* the events of the topics
          Workers,       \* consumers and requests at work at the same time
          Milli,         \* ticks of the clock in a millisecond
          PageLimit,     \* size of a page of the list
          MaxAttempts,   \* bound: times an event is handled
          MaxRequests    \* bound: requests to mark something read

ASSUME BoundsAssumption ==
    /\ {Milli, PageLimit, MaxAttempts} \subseteq Nat \ {0}
    /\ MaxRequests \in Nat
\* An event: what it is about (a message's number is its id), the room, the time, the
\* account it comes from (a message's sender, the requester of a friend request), the
\* accounts its payload names besides, and whether its message was deleted.
ASSUME EventsAssumption ==
    /\ IsFiniteSet(Events)
    /\ \A e \in Events :
        /\ e.kind \in {"welcome", "mention", "message", "sent", "cancelled", "accepted", "rejected"}
        /\ {e.id, e.room, e.at} \subseteq Nat /\ e.at >= Milli
        /\ e.from \in Accounts /\ e.to \in Seq(Accounts)
        /\ e.kind \in {"sent", "cancelled"} => e.to # << >>

VARIABLES
    byID, byAccount, unread, groups,   \* the tables
    job,          \* what a worker is doing
    attempts,     \* times an event was handled
    requests,     \* requests made so far
    reader,       \* a client that reads the list
    handled,      \* history: events whose handler returned nil
    announced,    \* history: << notification, message >> sent to the client
    emailed,      \* history: accounts that were sent the welcome
    marked,       \* history: notifications whose mark-read was saved
    cut,          \* history: events with an attempt that failed
    torn,         \* history: notifications whose last save was not finished
    raced         \* history: notifications loaded while another save was under way

tables == << byID, byAccount, unread, groups >>
notes == << announced, emailed, marked, cut, torn, raced >>
notificationVars == << tables, job, attempts, requests, reader, handled, notes >>

None == [read |-> FALSE, sort |-> 0, count |-> 0, last |-> 0, lastAt |-> 0]
NoID == [kind |-> "none", key |-> 0, account |-> "none"]
NoEvent == [kind |-> "none", id |-> 0, room |-> 0, at |-> 0, from |-> "none", to |-> << >>,
            deleted |-> FALSE]
Idle == [op |-> "none", pc |-> "idle", e |-> NoEvent, todo |-> << >>, ids |-> {},
         id |-> NoID, n |-> None, prev |-> None]
NoReader == [state |-> "off", account |-> "none", cursor |-> [sort |-> 0, id |-> NoID],
             seen |-> {}, twice |-> {}, moved |-> {}]

IsIdle(w) == job[w].pc = "idle"

NotificationInit ==
    /\ byID = << >> /\ byAccount = {} /\ unread = {} /\ groups = << >>
    /\ job = [w \in Workers |-> Idle]
    /\ attempts = [e \in Events |-> 0] /\ requests = 0
    /\ reader = NoReader
    /\ handled = {} /\ announced = {} /\ emailed = {} /\ marked = {}
    /\ cut = {} /\ torn = {} /\ raced = {}

-----------------------------------------------------------------------------
(* The aggregate. *)

IsFriendRequest(e) == e.kind \in {"sent", "cancelled", "accepted", "rejected"}

\* WelcomeNotificationID, FriendRequestNotificationID, RoomMentionNotificationID and
\* RoomMessageNotificationID: hashes of what they are about, the same at every attempt.
NotificationID(e, a) ==
    [kind |-> e.kind, key |-> IF e.kind = "message" THEN e.room ELSE e.id, account |-> a]

\* A message is synced again when it changes or is deleted, with the members of that time,
\* but its room and time stay; everything else happens once.  No two notifications of an
\* account have one key.
ASSUME IDsAssumption ==
    \A e, f \in Events :
        /\ e.kind = f.kind /\ e.id = f.id =>
              IF e.kind = "message" THEN e.room = f.room /\ e.at = f.at ELSE e = f
        /\ \A a \in Accounts : NotificationID(e, a).key = NotificationID(f, a).key => e.kind = f.kind

IsMessageKind(id) == id.kind = "message"

Create(e) == [None EXCEPT !.sort = e.at]

CreateMessageNotification(e) ==
    [read |-> FALSE, sort |-> e.at, count |-> 1, last |-> e.id, lastAt |-> e.at]

\* Mutant: only the last message is recognised as old.
OnlyLastIsStale(n, e) == n.last = e.id

isMessageActivityStale(n, e) ==
    \/ n.last = e.id
    \/ e.at < n.lastAt
    \/ e.at = n.lastAt /\ e.id <= n.last

ApplyMessageActivity(n, e) ==
    [read |-> FALSE, sort |-> e.at, count |-> IF n.read THEN 1 ELSE n.count + 1,
     last |-> e.id, lastAt |-> e.at]

MarkRead(n) == [n EXCEPT !.read = TRUE]

-----------------------------------------------------------------------------
(* The statements. *)

Stored(t) == t - (t % Milli)
Row(n) == [n EXCEPT !.sort = Stored(@), !.lastAt = Stored(@)]
getNotificationByID(id) == IF id \in DOMAIN byID THEN byID[id] ELSE None
getMessageGroupRow(id) == IF id \in DOMAIN groups THEN groups[id] ELSE None

Put(table, id, n) ==
    [i \in DOMAIN table \cup {id} |-> IF i = id THEN Row(n) ELSE table[i]]

upsertNotificationByID(id, n) == byID' = Put(byID, id, n)
upsertNotificationByAccount(id, n) ==
    byAccount' = {r \in byAccount : r.id # id \/ r.n.sort # Stored(n.sort)}
                     \cup {[id |-> id, n |-> Row(n)]}
deleteNotificationByAccount(id, sort) ==
    byAccount' = {r \in byAccount : r.id # id \/ r.n.sort # sort}

syncUnreadIndex(id, prev, n) ==
    unread' = IF ~n.read THEN unread \cup {id}
              ELSE IF prev # None /\ ~prev.read THEN unread \ {id}
              ELSE unread

upsertMessageGroup(id, n) == groups' = Put(groups, id, n)

-----------------------------------------------------------------------------
(* What a worker does next. *)

At(w, pc) == job[w].pc = pc
Goto(w, pc) == job' = [job EXCEPT ![w].pc = pc]

\* A worker has a notification in hand from the load to the last statement of its save.
Holds(w, id) ==
    job[w].id = id /\ job[w].pc \in {"previous", "delete", "byID", "byAccount", "unread", "group"}

\* The worker has loaded, or made, n, and will save it.
WillSave(w, id, n) ==
    /\ job' = [job EXCEPT ![w].pc = "previous", ![w].id = id, ![w].n = n]
    /\ raced' = IF \E v \in Workers \ {w} : Holds(v, id) THEN raced \cup {id} ELSE raced

\* The loop over the recipients goes on; after the last of them the handler returns nil.
NextRecipient(w) ==
    IF Len(job[w].todo) > 1
    THEN /\ job' = [job EXCEPT ![w] =
                       [Idle EXCEPT !.op = "event", !.pc = "load", !.e = job[w].e,
                                    !.todo = Tail(job[w].todo)]]
         /\ UNCHANGED handled
    ELSE /\ job' = [job EXCEPT ![w] = Idle]
         /\ handled' = handled \cup {job[w].e}

-----------------------------------------------------------------------------
(* Consumers. *)

Topic(e) == CASE e.kind = "welcome" -> "account"
              [] IsFriendRequest(e) -> "relationship"
              [] OTHER -> "room"

\* The accounts at these places of the payload's list, in its order.
Picked(e, places) ==
    [i \in 1..Cardinality(places) |->
        e.to[CHOOSE k \in places : Cardinality({j \in places : j < k}) = i - 1]]

NotSender(e) == {k \in DOMAIN e.to : e.to[k] # e.from}

\* normalizeMentionRecipients keeps every account once, and its caller skips the sender.
MentionRecipients(e) ==
    Picked(e, {k \in NotSender(e) : \A j \in 1..(k - 1) : e.to[j] # e.to[k]})

\* The answer to a friend request goes to the requester, the request itself and its
\* cancellation to the addressee.
FriendRequestRecipient(e) == IF e.kind \in {"accepted", "rejected"} THEN e.from ELSE e.to[1]

\* A message that was deleted notifies nobody.
Recipients(e) ==
    CASE e.kind = "message" -> IF e.deleted THEN << >> ELSE Picked(e, NotSender(e))
      [] e.kind = "mention" -> MentionRecipients(e)
      [] e.kind = "welcome" -> e.to
      [] IsFriendRequest(e) -> << FriendRequestRecipient(e) >>

Start(e) == [Idle EXCEPT !.op = "event", !.pc = "load", !.e = e, !.todo = Recipients(e)]

Consume(w, e) ==
    /\ IsIdle(w)
    /\ \A v \in Workers : job[v].op = "event" => Topic(job[v].e) # Topic(e)
    /\ attempts[e] < MaxAttempts
    /\ attempts' = [attempts EXCEPT ![e] = @ + 1]
    /\ IF Recipients(e) = << >>
       THEN handled' = handled \cup {e} /\ UNCHANGED job
       ELSE job' = [job EXCEPT ![w] = Start(e)] /\ UNCHANGED handled
    /\ UNCHANGED << tables, requests, reader, notes >>

\* A notification that is there by id was made by an earlier attempt, and is left alone.
CreateUnlessThere(w) ==
    /\ LET id == NotificationID(job[w].e, Head(job[w].todo))
       IN  IF getNotificationByID(id) # None
           THEN NextRecipient(w) /\ UNCHANGED raced
           ELSE WillSave(w, id, Create(job[w].e)) /\ UNCHANGED handled
    /\ UNCHANGED << tables, attempts, requests, reader,
                    announced, emailed, marked, cut, torn >>

handleAccountCreatedEvent(w) ==
    At(w, "load") /\ job[w].op = "event" /\ job[w].e.kind = "welcome" /\ CreateUnlessThere(w)

createGeneralNotificationAndEmit(w) ==
    At(w, "load") /\ job[w].op = "event" /\ IsFriendRequest(job[w].e) /\ CreateUnlessThere(w)

\* It asks for nothing and writes over what is there.
handleRoomMentionNotificationEvent(w) ==
    /\ At(w, "load") /\ job[w].op = "event" /\ job[w].e.kind = "mention"
    /\ WillSave(w, NotificationID(job[w].e, Head(job[w].todo)), Create(job[w].e))
    /\ UNCHANGED << tables, attempts, requests, reader, handled,
                    announced, emailed, marked, cut, torn >>

handleRoomMessageProjectionEvent(w) ==
    /\ At(w, "load") /\ job[w].op = "event" /\ job[w].e.kind = "message"
    /\ LET e == job[w].e
           id == NotificationID(e, Head(job[w].todo))
           n == getMessageGroupRow(id)
       IN  IF n = None
           THEN WillSave(w, id, CreateMessageNotification(e)) /\ UNCHANGED handled
           ELSE IF isMessageActivityStale(n, e)
           THEN NextRecipient(w) /\ UNCHANGED raced
           ELSE WillSave(w, id, ApplyMessageActivity(n, e)) /\ UNCHANGED handled
    /\ UNCHANGED << tables, attempts, requests, reader, announced, emailed, marked, cut, torn >>

-----------------------------------------------------------------------------
(* Requests. *)

\* A notification that is read already is answered without a save.
MarkNotificationRead(w, id) ==
    /\ IsIdle(w) /\ requests < MaxRequests
    /\ id \in DOMAIN byID /\ ~byID[id].read
    /\ requests' = requests + 1
    /\ job' = [job EXCEPT ![w] = [Idle EXCEPT !.op = "read", !.pc = "previous", !.id = id,
                                              !.n = MarkRead(byID[id])]]
    /\ raced' = IF \E v \in Workers : Holds(v, id) THEN raced \cup {id} ELSE raced
    /\ UNCHANGED << tables, attempts, reader, handled, announced, emailed, marked, cut, torn >>

\* ListUnreadByAccountID: the index names them, and the ones that are gone are skipped.
ListUnreadByAccountID(a) == {id \in unread : id.account = a} \cap DOMAIN byID

MarkAllNotificationsRead(w, a) ==
    /\ IsIdle(w) /\ requests < MaxRequests
    /\ ListUnreadByAccountID(a) # {}
    /\ requests' = requests + 1
    /\ job' = [job EXCEPT ![w] = [Idle EXCEPT !.op = "readAll", !.pc = "load",
                                              !.ids = ListUnreadByAccountID(a)]]
    /\ UNCHANGED << tables, attempts, reader, handled, notes >>

\* One turn of its loop loads the notification again; after the last turn it answers.
MarkNext(w) ==
    /\ At(w, "load") /\ job[w].op = "readAll"
    /\ \/ /\ job[w].ids = {}
          /\ job' = [job EXCEPT ![w] = Idle] /\ UNCHANGED raced
       \/ \E id \in job[w].ids :
             IF byID[id].read
             THEN job' = [job EXCEPT ![w].ids = @ \ {id}] /\ UNCHANGED raced
             ELSE WillSave(w, id, MarkRead(byID[id]))
    /\ UNCHANGED << tables, attempts, requests, reader, handled,
                    announced, emailed, marked, cut, torn >>

-----------------------------------------------------------------------------
(* NotificationRepository.Save, statement by statement. *)

\* The notification has another place in the list than before.
ListsAnew(prev, n) == prev # None /\ prev.sort # n.sort

ReadPrevious(w) ==
    /\ At(w, "previous")
    /\ LET id == job[w].id
           prev == getNotificationByID(id)
       IN  job' = [job EXCEPT ![w].prev = prev,
                              ![w].pc = IF ListsAnew(prev, job[w].n) THEN "delete" ELSE "byID"]
    /\ UNCHANGED << tables, attempts, requests, reader, handled, notes >>

\* The list changes after a client began to read it.
Moves(id) == reader' = IF reader.state # "off" THEN [reader EXCEPT !.moved = @ \cup {id}]
                       ELSE reader

DeletePrevious(w) ==
    /\ At(w, "delete")
    /\ deleteNotificationByAccount(job[w].id, job[w].prev.sort)
    /\ Moves(job[w].id)
    /\ Goto(w, "byID")
    /\ UNCHANGED << byID, unread, groups, attempts, requests, handled, notes >>

SaveByID(w) ==
    /\ At(w, "byID")
    /\ upsertNotificationByID(job[w].id, job[w].n)
    /\ Goto(w, "byAccount")
    /\ UNCHANGED << byAccount, unread, groups, attempts, requests, reader, handled, notes >>

SaveByAccount(w) ==
    /\ At(w, "byAccount")
    /\ upsertNotificationByAccount(job[w].id, job[w].n)
    /\ Moves(job[w].id)
    /\ Goto(w, "unread")
    /\ UNCHANGED << byID, unread, groups, attempts, requests, handled, notes >>

\* The save is finished.  The loop over all of them goes on, the others tell the client.
Saved(w) ==
    /\ job' = IF job[w].op = "readAll"
              THEN [job EXCEPT ![w].pc = "load", ![w].ids = @ \ {job[w].id}]
              ELSE [job EXCEPT ![w].pc = "emit"]
    /\ torn' = torn \ {job[w].id}
    /\ marked' = IF job[w].n.read THEN marked \cup {job[w].id} ELSE marked
    /\ UNCHANGED << announced, emailed, cut, raced >>

SaveUnread(w) ==
    /\ At(w, "unread")
    /\ syncUnreadIndex(job[w].id, job[w].prev, job[w].n)
    /\ IF IsMessageKind(job[w].id) THEN Goto(w, "group") /\ UNCHANGED notes ELSE Saved(w)
    /\ UNCHANGED << byID, byAccount, groups, attempts, requests, reader, handled >>

SaveGroup(w) ==
    /\ At(w, "group")
    /\ upsertMessageGroup(job[w].id, job[w].n)
    /\ Saved(w)
    /\ UNCHANGED << byID, byAccount, unread, attempts, requests, reader, handled >>

-----------------------------------------------------------------------------
(* After the save: the client is told, over the local bus and by web push. *)

\* A request answers; a handler goes on with the next recipient, or sends the welcome.
GoOn(w) ==
    IF job[w].op = "read" THEN job' = [job EXCEPT ![w] = Idle] /\ UNCHANGED handled
    ELSE IF job[w].e.kind = "welcome" THEN Goto(w, "email") /\ UNCHANGED handled
    ELSE NextRecipient(w)

EmitMessage(w) ==
    /\ At(w, "emit")
    /\ GoOn(w)
    /\ announced' = IF job[w].op = "event" THEN announced \cup {<< job[w].id, job[w].n.last >>}
                    ELSE announced
    /\ UNCHANGED << tables, attempts, requests, reader, emailed, marked, cut, torn, raced >>

SendTemplate(w) ==
    /\ At(w, "email")
    /\ NextRecipient(w)
    /\ emailed' = emailed \cup {job[w].id.account}
    /\ UNCHANGED << tables, attempts, requests, reader, announced, marked, cut, torn, raced >>

\* A mention or an answer the bus refuses, and a welcome the mail server refuses, are only
\* logged.
FailsQuietly(w) ==
    /\ \/ At(w, "emit") /\ (job[w].e.kind = "mention" \/ IsFriendRequest(job[w].e)) /\ GoOn(w)
       \/ At(w, "email") /\ NextRecipient(w)
    /\ cut' = cut \cup {job[w].e}
    /\ UNCHANGED << tables, attempts, requests, reader, announced, emailed, marked, torn, raced >>

\* A statement fails, the bus refuses a message or a welcome, or the process dies.  The
\* consumer starts the event again, or gives it up; a request is not made again.
Fail(w) ==
    /\ ~IsIdle(w)
    /\ LET e == job[w].e
       IN  IF job[w].op = "event" /\ attempts[e] < MaxAttempts
           THEN /\ job' = [job EXCEPT ![w] = Start(e)]
                /\ attempts' = [attempts EXCEPT ![e] = @ + 1]
           ELSE job' = [job EXCEPT ![w] = Idle] /\ UNCHANGED attempts
    /\ cut' = IF job[w].op = "event" THEN cut \cup {job[w].e} ELSE cut
    /\ torn' = IF \/ job[w].pc \in {"byAccount", "unread", "group"}
                 \/ (job[w].pc = "byID" /\ ListsAnew(job[w].prev, job[w].n))
               THEN torn \cup {job[w].id} ELSE torn
    /\ UNCHANGED << tables, requests, reader, handled, announced, emailed, marked, raced >>

-----------------------------------------------------------------------------
(* The list, page by page. *)

\* The order of notifications_by_account; the keys stand for the order of the ids.
Above(r, s) == r.sort > s.sort \/ (r.sort = s.sort /\ r.id.key > s.id.key)

Position(r) == [sort |-> r.n.sort, id |-> r.id]

ListByAccountID(a, cursor) ==
    {p \in {Position(r) : r \in {r \in byAccount : r.id.account = a}} :
        cursor.sort = 0 \/ Above(cursor, p)}

Page(rows) == {p \in rows : Cardinality({q \in rows : Above(q, p)}) < PageLimit}

OpenList(a) ==
    /\ reader.state = "off"
    /\ reader' = [NoReader EXCEPT !.state = "reading", !.account = a]
    /\ UNCHANGED << tables, job, attempts, requests, handled, notes >>

ListNotification ==
    /\ reader.state = "reading"
    /\ LET rows == ListByAccountID(reader.account, reader.cursor)
           page == Page(rows)
           ids == {p.id : p \in page}
       IN  reader' = [reader EXCEPT
               !.seen = @ \cup ids,
               !.twice = @ \cup (ids \cap reader.seen)
                           \cup {id \in ids : Cardinality({p \in page : p.id = id}) > 1},
               !.cursor = IF page = rows THEN @
                          ELSE CHOOSE p \in page : \A q \in page \ {p} : Above(q, p),
               !.state = IF page = rows THEN "done" ELSE @]
    /\ UNCHANGED << tables, job, attempts, requests, handled, notes >>

-----------------------------------------------------------------------------
Step(w) ==
    \/ handleAccountCreatedEvent(w) \/ createGeneralNotificationAndEmit(w)
    \/ handleRoomMentionNotificationEvent(w) \/ handleRoomMessageProjectionEvent(w) \/ MarkNext(w)
    \/ ReadPrevious(w) \/ DeletePrevious(w) \/ SaveByID(w) \/ SaveByAccount(w)
    \/ SaveUnread(w) \/ SaveGroup(w)
    \/ EmitMessage(w) \/ SendTemplate(w) \/ FailsQuietly(w) \/ Fail(w)

NotificationNext ==
    \/ \E w \in Workers :
          \/ Step(w)
          \/ \E e \in Events : Consume(w, e)
          \/ \E id \in DOMAIN byID : MarkNotificationRead(w, id)
          \/ \E a \in Accounts : MarkAllNotificationsRead(w, a)
    \/ \E a \in Accounts : OpenList(a)
    \/ ListNotification

NotificationSpec == NotificationInit /\ [][NotificationNext]_notificationVars

-----------------------------------------------------------------------------
(* Properties. *)

IDs == {NotificationID(e, a) : e \in Events, a \in Accounts}
Quiet(id) == \A w \in Workers : ~Holds(w, id)
Calm == {id \in IDs \ raced : Quiet(id)}

RowsOf(id) == {r \in byAccount : r.id = id}
OnlyGroups(id) == IsMessageKind(id) => id \in DOMAIN groups /\ groups[id] = byID[id]

\* Once a notification's save is finished the four tables agree on it: it is listed once,
\* under its time, the index has it exactly when it is unread, and its room counts on
\* from what is shown.
TablesAgree ==
    \A id \in Calm \ torn :
        /\ id \in DOMAIN byID =>
              RowsOf(id) = {[id |-> id, n |-> byID[id]]} /\ OnlyGroups(id)
        /\ id \in unread <=> id \in DOMAIN byID /\ ~byID[id].read

Messages(id) == {e \in Events : e.kind = "message" /\ e.room = id.key}
SameMillisecond(id) ==
    \E e, f \in Messages(id) : e.id # f.id /\ Stored(e.at) = Stored(f.at) /\ e.at # Stored(e.at)

NotAhead(n, m) == n.lastAt < m.lastAt \/ (n.lastAt = m.lastAt /\ n.last <= m.last)

\* What an interrupted save leaves is behind, never ahead: no second row in the list, no
\* row of a notification that is not there by id, no room that counts on from a message
\* that is not shown.
TornIsBehind ==
    \A id \in Calm :
        /\ Cardinality(RowsOf(id)) <= 1
        /\ id \notin DOMAIN byID => RowsOf(id) = {}
        /\ id \in DOMAIN groups => NotAhead(groups[id], byID[id]) \/ SameMillisecond(id)

Snapshots(id) == {r.n : r \in RowsOf(id)} \cup {t[id] : t \in {u \in {byID, groups} : id \in DOMAIN u}}

\* However often and in whatever order the events of a room's messages come, and however
\* often their handling is cut and started again, no message is counted twice: the count
\* is at most the number of messages up to the last one.  Messages of the same
\* millisecond are the exception: each makes the others look new again.
CountedOnce ==
    \A id \in IDs : IsMessageKind(id) =>
        \A n \in Snapshots(id) :
            SameMillisecond(id) \/ n.count <=
                Cardinality({e.id : e \in {e \in Messages(id) :
                    NotAhead([last |-> e.id, lastAt |-> Stored(e.at)], n)}})

\* A message whose event was handled is in its recipients' notifications, or a later one
\* is.  (Lost only to two saves at once.)
HandledIsReflected ==
    \A e \in handled : \A i \in DOMAIN Recipients(e) :
        LET id == NotificationID(e, Recipients(e)[i])
        IN  /\ id \in DOMAIN byID
            /\ e.kind = "message" /\ id \notin raced =>
                  NotAhead([last |-> e.id, lastAt |-> Stored(e.at)], groups[id])
                      \/ SameMillisecond(id)

\* An event that was handled without a fault has been announced to every recipient, or a
\* later message was, and the welcome was sent.  After a fault nobody makes up for it: the
\* retry finds the notification there and stops.
HandledIsAnnounced ==
    \A e \in handled \ cut : \A i \in DOMAIN Recipients(e) :
        LET a == Recipients(e)[i]
            id == NotificationID(e, a)
            later == {f \in Messages(id) : f.at > e.at \/ (f.at = e.at /\ f.id >= e.id)}
        IN  /\ IF IsMessageKind(id)
               THEN \E f \in later : << id, f.id >> \in announced \/ f \in cut
               ELSE << id, 0 >> \in announced
            /\ e.kind = "welcome" => a \in emailed

\* What was marked read stays read, unless a message came or a mention was delivered again.
ReadStaysRead ==
    \A id \in marked \ raced :
        id.kind \in {"welcome", "sent", "cancelled", "accepted", "rejected"} => byID[id].read /\ (Quiet(id) => id \notin unread)

\* A client that read the list to its end has seen every notification that stayed where
\* it was, and none of those twice.
ListIsComplete ==
    reader.state = "done" =>
        \A id \in IDs \ (reader.moved \cup raced) :
            /\ id \notin reader.twice
            /\ id.account = reader.account /\ RowsOf(id) # {} => id \in reader.seen

NotificationTypeOK ==
    /\ DOMAIN byID \subseteq IDs /\ DOMAIN groups \subseteq DOMAIN byID
    /\ unread \subseteq DOMAIN byID
    /\ \A r \in byAccount : r.id \in IDs
    /\ handled \subseteq Events /\ cut \subseteq Events
    /\ torn \subseteq IDs /\ raced \subseteq IDs /\ marked \subseteq DOMAIN byID

\* The notifications are sound.
NotificationIsSound ==
    /\ NotificationTypeOK
    /\ TablesAgree
    /\ TornIsBehind
    /\ CountedOnce
    /\ HandledIsReflected
    /\ HandledIsAnnounced
    /\ ReadStaysRead
    /\ ListIsComplete
=============================================================================
