------------------------------- MODULE RoomPages -------------------------------
(***************************************************************************)
(* The paged lists of a room's readers: the messages of a room, read in     *)
(* batches from the timeline and filtered by what the viewer has deleted    *)
(* for oneself, the conversations of an account, and the members one may    *)
(* mention.                                                                 *)
(*                                                                          *)
(* A timeline is a function from message ids to the times they were sent    *)
(* at.  Ids are numbers in the order of their strings; two messages may     *)
(* have the same time.  Times are positive, and 0 is the time not given.    *)
(***************************************************************************)
EXTENDS Naturals, FiniteSets, SequencesExt

CONSTANTS Ids,           \* bound: the messages of a timeline, the rooms of a list
          MaxTime,       \* bound: times
          Tick,          \* units of time in a second
          Expansion,     \* rows read at once for one that is asked for
          MaxBatch,      \* the most rows that are read at once
          MaxLimit,      \* the largest limit that is accepted
          DefaultLimit   \* what every other limit becomes

ASSUME RoomPagesAssumption ==
    /\ Ids \subseteq Nat \ {0} /\ IsFiniteSet(Ids) /\ MaxTime \in Nat /\ Tick \in Nat \ {0}
    /\ Expansion \in Nat \ {0, 1} /\ MaxLimit \in Nat /\ MaxBatch > MaxLimit
    /\ DefaultLimit \in 1 .. MaxLimit

\* The timelines, and the sets of messages a viewer has deleted.
Paging == [sent : [Ids -> 1 .. MaxTime], deleted : SUBSET Ids]

FirstOf(rows, n) == SubSeq(rows, 1, Min({n, Len(rows)}))

-----------------------------------------------------------------------------
(* Messages *)

\* The order of the table, newest first, or the opposite one.
ListTimelineBatch(sent, before, size, ascending) ==
    LET rows == { m \in DOMAIN sent : before = 0 \/ sent[m] < before }
        Older(a, b) == sent[a] < sent[b] \/ (sent[a] = sent[b] /\ a < b)
        Newer(a, b) == Older(b, a)
    IN  FirstOf(IF ascending THEN SetToSortSeq(rows, Older) ELSE SetToSortSeq(rows, Newer), size)

\* No value is 0 here: limits are at least 1 by now.
boundedLimit(value, max) == Min({value, max})

\* Batches until the limit is reached.  The next batch starts before the last row of this
\* one, whichever way the table is read.
CollectMessages(sent, deleted, before, limit, ascending) ==
    LET size == boundedLimit(limit * Expansion, MaxBatch)
        Visible(m) == m \notin deleted
        collected[cursor \in 0 .. MaxTime] ==
            LET batch == ListTimelineBatch(sent, cursor, size, ascending)
                here == SelectSeq(batch, Visible)
            IN  IF Len(batch) < size \/ Len(here) >= limit THEN here
                ELSE here \o collected[sent[Last(batch)]]
    IN  FirstOf(collected[before], limit)

\* What is read newest first is turned around; the order of equal times is left open there.
ListMessages(sent, deleted, before, limit, ascending) ==
    LET found == CollectMessages(sent, deleted, before, limit, ascending)
        Earlier(a, b) == sent[a] < sent[b]
    IN  IF ascending THEN found ELSE SortSeq(found, Earlier)

\* A time, or else the time of a message; an id nobody knows is no bound.
BeforeBound(sent, beforeAt, beforeID) ==
    IF beforeAt = 0 /\ beforeID \in DOMAIN sent THEN sent[beforeID] ELSE beforeAt

PageOfMessages(sent, deleted, beforeAt, beforeID, limit, ascending) ==
    LET n == IF limit = 0 \/ limit > MaxLimit THEN DefaultLimit ELSE limit
    IN  ListMessages(sent, deleted, BeforeBound(sent, beforeAt, beforeID), n, ascending)

\* The time of a message as the client is told it: to the second.
CreatedAt(time) == time - (time % Tick)

-----------------------------------------------------------------------------
(* Conversations: the rooms of an account as rooms_by_account has them, newest first *)

normalizeOffsetLimit(limit) == IF limit = 0 THEN DefaultLimit ELSE Min({limit, MaxLimit})

sliceRoomRows(rows, offset, limit) == SubSeq(rows, offset + 1, Min({offset + limit, Len(rows)}))

\* limit + offset rows are read, and those from offset on returned.
ListRoomsByAccount(rows, limit, offset) ==
    LET n == normalizeOffsetLimit(limit)
    IN  sliceRoomRows(FirstOf(rows, n + offset), offset, n)

\* Rooms that do not have the account among their members are left out of the page.
PageOfConversations(rows, memberOf, limit, offset) ==
    LET n == IF limit = 0 \/ limit > MaxLimit THEN DefaultLimit ELSE limit
        Known(r) == r \in memberOf
    IN  SelectSeq(ListRoomsByAccount(rows, n, offset), Known)

-----------------------------------------------------------------------------
(* Mentions: the other members that match, in the order of their names *)

normalizeMentionLimit(limit) == IF limit = 0 THEN DefaultLimit ELSE Min({limit, MaxLimit})

SearchMentionCandidates(members, viewer, matching, limit) ==
    FirstOf(SetToSortSeq((members \ {viewer}) \cap matching, <), normalizeMentionLimit(limit))

PageOfMentions(kind, members, viewer, matching, limit) ==
    IF kind # "group" \/ viewer \notin members THEN << >>
    ELSE SearchMentionCandidates(members, viewer, matching, limit)

-----------------------------------------------------------------------------
(* Properties, of a timeline and of what the viewer has deleted *)

Limits == 1 .. MaxLimit
NoTies(sent) == \A a, b \in DOMAIN sent : sent[a] = sent[b] => a = b

Candidates(sent, deleted, before) ==
    { m \in DOMAIN sent \ deleted : before = 0 \/ sent[m] < before }

\* A page has no more than the limit, oldest first, no message twice and none that is
\* hidden or too new.  A message is missing from it only if the page is full of newer ones,
\* or if another message has the same time: the next batch starts before that time.
NewestPageIsExact(sent, deleted) ==
    \A before \in 0 .. MaxTime, limit \in Limits :
        LET page == PageOfMessages(sent, deleted, before, 0, limit, FALSE)
            all == Candidates(sent, deleted, before)
        IN  /\ Len(page) <= limit /\ ToSet(page) \subseteq all
            /\ Cardinality(ToSet(page)) = Len(page)
            /\ \A i, k \in DOMAIN page : i < k => sent[page[i]] <= sent[page[k]]
            /\ \A m \in all \ ToSet(page) :
                \/ Len(page) = limit /\ \A k \in ToSet(page) : sent[k] >= sent[m]
                \/ \E k \in Ids \ {m} : sent[k] = sent[m]

\* Read from the oldest on, a page is exact as long as one batch is enough for it; if not,
\* the second batch is the first one again, without its end, and messages come twice.
OldestPageIsExact(sent, deleted) ==
    \A before \in 0 .. MaxTime, limit \in Limits :
        LET page == PageOfMessages(sent, deleted, before, 0, limit, TRUE)
            all == Candidates(sent, deleted, before)
            size == boundedLimit(limit * Expansion, MaxBatch)
            batch == ListTimelineBatch(sent, before, size, TRUE)
            enough == Len(batch) < size \/ Cardinality(ToSet(batch) \ deleted) >= limit
        IN  /\ ToSet(page) \subseteq all
            /\ enough => /\ Len(page) = Min({limit, Cardinality(all)})
                         /\ Cardinality(ToSet(page)) = Len(page)
                         /\ \A m \in all \ ToSet(page), k \in ToSet(page) : sent[k] <= sent[m]
            /\ ~enough => ToSet(page) = ToSet(batch) \ deleted

\* What a client has seen that asks for the page before the oldest message it has, by its
\* id or by the time it was told, until a page is not full.
WalkedById(sent, deleted, limit) ==
    LET walk[id \in Ids \cup {0}] ==
            LET page == PageOfMessages(sent, deleted, 0, id, limit, FALSE)
            IN  ToSet(page) \cup (IF Len(page) < limit THEN {} ELSE walk[Head(page)])
    IN  walk[0]

WalkedByTime(sent, deleted, limit) ==
    LET walk[time \in 0 .. MaxTime] ==
            LET page == PageOfMessages(sent, deleted, time, 0, limit, FALSE)
                told == CreatedAt(sent[Head(page)])
            IN  ToSet(page) \cup (IF Len(page) < limit \/ told = 0 THEN {} ELSE walk[told])
    IN  walk[0]

\* Such a client sees every message if no two have the same time, and by the times it was
\* told if no two were sent in the same second: a page ends in the middle of a second, and
\* the rest of that second is passed over.
WalksAreComplete(sent, deleted) ==
    \A limit \in Limits :
        /\ NoTies(sent) => WalkedById(sent, deleted, limit) = Ids \ deleted
        /\ NoTies([m \in Ids |-> CreatedAt(sent[m])]) =>
                WalkedByTime(sent, deleted, limit) = Ids \ deleted

\* A client that pages through its conversations by offset, while one of them gets a message
\* and moves to the top after the first page, misses at most that one, and rooms it is no
\* member of are left out.
MovedRoomAtMostIsMissed(sent, left) ==
    LET rows == ListTimelineBatch(sent, 0, Cardinality(Ids), FALSE)
    IN  \A limit \in Limits, moved \in Ids :
            LET again == << moved >> \o SelectSeq(rows, LAMBDA r : r # moved)
                pages == { PageOfConversations(rows, Ids \ left, limit, 0) } \cup
                         { PageOfConversations(again, Ids \ left, limit, i * limit) :
                             i \in 1 .. Cardinality(Ids) }
                shown == UNION { ToSet(page) : page \in pages }
            IN  (Ids \ left) \ {moved} \subseteq shown /\ shown \cap left = {}

\* Whoever may be mentioned is another member of the group who matches, the first of them
\* in order, and all of them if they are not more than the limit.
MentionsAreExact(members) ==
    \A matching \in SUBSET Ids, viewer \in Ids, limit \in Limits :
        LET found == PageOfMentions("group", members, viewer, matching, limit)
            all == (members \cap matching) \ {viewer}
        IN  IF viewer \notin members THEN found = << >>
            ELSE /\ ToSet(found) \subseteq all
                 /\ Len(found) = Min({limit, Cardinality(all)})
                 /\ \A a \in ToSet(found), b \in all \ ToSet(found) : a < b

\* What the paged lists of rooms promise, and what they leave out or repeat.
RoomPagesAreSound(sent, deleted) ==
    /\ NewestPageIsExact(sent, deleted)
    /\ OldestPageIsExact(sent, deleted)
    /\ WalksAreComplete(sent, deleted)
    /\ MovedRoomAtMostIsMissed(sent, deleted)
    /\ (\A m \in Ids : sent[m] = 1) => MentionsAreExact(deleted)   \* no times in it: once is enough
=============================================================================
