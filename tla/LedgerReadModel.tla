-------------------------- MODULE LedgerReadModel --------------------------
(***************************************************************************)
(* What the ledger shows: a projector turns every event of the outbox into  *)
(* a header in ledger_transactions and an entry in ledger_entries, and the  *)
(* queries read balances, transactions and pages of them.                   *)
(*                                                                          *)
(* The outbox is partitioned by account, so the legs of one transaction are *)
(* projected apart from each other, in any order.  A member of the consumer *)
(* group that lost a partition may still be at work on an event that its    *)
(* successor is given again, and a projected event is given again when its  *)
(* offset was not committed.  Each projection is one READ COMMITTED         *)
(* transaction of PostgreSQL; ledger_entries has no unique key but its id.  *)
(***************************************************************************)
EXTENDS LedgerPostings, FiniteSets, FiniteSetsExt, Functions

CONSTANTS Projectors,  \* members of the group ledger-projection
          Outbox,      \* the events of each account in the order of its partition
          Before,      \* offsets to begin with: what is before them is projected
          IdOrder,     \* the transaction ids in the order of their names
          MaxPage,     \* bound: largest page asked for
          MaxLost      \* bound: events that are overlapped or dropped

ASSUME ReadBoundsAssumption == MaxPage \in Nat \ {0} /\ MaxLost \in Nat

-----------------------------------------------------------------------------
(* Events *)

\* An event carries the amount without its sign, which is in its name.
Direction(type) ==
    IF type \in {"DepositFromIntent", "DepositFromRefund", "DepositFromChargeback",
                 "ReceiveWithdrawalHold", "ReleaseWithdrawal", "ReceivedTransfer"} THEN 1 ELSE -1

absInt64(n) == IF n < 0 THEN -n ELSE n

\* newLedgerPaymentEvent, and the two events TransferToAccount makes.
newLedgerPaymentEvent(posting, bookedAt) ==
    [account |-> posting.account, name |-> posting.type, transaction |-> posting.transaction,
     amount |-> absInt64(posting.delta), bookedAt |-> bookedAt]

\* previewLedgerPostingFromEvent
previewLedgerPostingFromEvent(e) ==
    [account |-> e.account, transaction |-> e.transaction, createdAt |-> e.bookedAt,
     amount |-> Direction(e.name) * e.amount]

\* The events of a request in the order they are appended.
EventsOfRequest(r, bookedAt) ==
    [i \in DOMAIN Legs(r) |-> newLedgerPaymentEvent(Legs(r)[i], bookedAt)]

EventType ==
    [account : Accounts, name : ReferenceTypes, transaction : TransactionIds, amount : Nat, bookedAt : Nat]

OutboxEvents == UNION { Range(Outbox[a]) : a \in Accounts }

EventAt(slot) == Outbox[slot.account][slot.offset]

\* toLedgerTransactionProjection
Projection(e) == previewLedgerPostingFromEvent(e)
HeaderOf(e) == [transaction |-> e.transaction, createdAt |-> e.bookedAt]

\* What the outbox holds: the events of an account in its own partition, each transaction once
\* in it, and of every transaction two legs of opposite amounts.  PostedOnce and DoubleEntry of
\* Ledger say so of what is booked; a transfer draws a fresh id, and a payment has one user.
ASSUME OutboxAssumption ==
    /\ Outbox \in [Accounts -> Seq(EventType)] /\ Before \in [Accounts -> Nat]
    /\ \A a \in Accounts :
          /\ Before[a] <= Len(Outbox[a])
          /\ \A i \in 1..Len(Outbox[a]) : Outbox[a][i].account = a
          /\ \A i, j \in 1..Len(Outbox[a]) : Outbox[a][i].transaction = Outbox[a][j].transaction => i = j
    /\ \A e \in OutboxEvents : \E f \in OutboxEvents \ {e} :
          /\ { x \in OutboxEvents : x.transaction = e.transaction } = {e, f}
          /\ Projection(f).amount = -Projection(e).amount

\* Every transaction has its place in the order of the names.
ASSUME IdOrderAssumption ==
    IdOrder \in Seq(TransactionIds) /\ \A e \in OutboxEvents : e.transaction \in Range(IdOrder)

-----------------------------------------------------------------------------
(* The projector *)

VARIABLES
    headers,     \* table ledger_transactions: transaction id and created_at
    entries,     \* table ledger_entries: rows of an event
    offsets,     \* committed offset of an account's partition
    phase,       \* where a projector is in its transaction
    taken,       \* the account and offset of the event it projects
    opened,      \* the header it has inserted
    dropped,     \* history: events given up to the dead-letter topic
    overlapped   \* history: events two projectors have worked on at once

readVars == << headers, entries, offsets, phase, taken, opened, dropped, overlapped >>

ProjectorPhases == {"idle", "header", "create", "entries", "insert", "commit", "aborted", "ack"}

NoSlot == [account |-> Clearing, offset |-> 0]

BegunWith == UNION { { Outbox[a][i] : i \in 1..Before[a] } : a \in Accounts }

ReadInit ==
    /\ headers = { HeaderOf(e) : e \in BegunWith }
    /\ entries = [e \in OutboxEvents |-> IF e \in BegunWith THEN 1 ELSE 0]
    /\ offsets = Before
    /\ phase = [w \in Projectors |-> "idle"]
    /\ taken = [w \in Projectors |-> NoSlot]
    /\ opened = [w \in Projectors |-> {}]
    /\ dropped = {} /\ overlapped = {}

Taken(w) == EventAt(taken[w])

GoOn(w, next) == phase' = [phase EXCEPT ![w] = next]

\* handleLedgerOutboxEvent: the event after the committed offset, by any member.
handleLedgerOutboxEvent(w, a) ==
    LET slot == [account |-> a, offset |-> offsets[a] + 1] IN
    /\ phase[w] = "idle" /\ slot.offset <= Len(Outbox[a])
    /\ GoOn(w, "header")
    /\ taken' = [taken EXCEPT ![w] = slot]
    /\ overlapped' = IF \E v \in Projectors : phase[v] \notin {"idle", "ack"} /\ taken[v] = slot
                     THEN overlapped \cup {EventAt(slot)} ELSE overlapped
    /\ Cardinality(overlapped' \cup dropped) <= MaxLost
    /\ UNCHANGED << headers, entries, offsets, opened, dropped >>

Stored(transaction) == { h \in headers : h.transaction = transaction }

\* upsertProjectedTransactionHeader looks for the header; one of another time is an error.
findHeader(w) ==
    LET stored == Stored(Taken(w).transaction) IN
    /\ phase[w] = "header"
    /\ GoOn(w, CASE stored = {}                -> "create"
                 [] HeaderOf(Taken(w)) \in stored -> "entries"
                 [] OTHER                      -> "aborted")
    /\ UNCHANGED << headers, entries, offsets, taken, opened, dropped, overlapped >>

\* It inserts the header it missed.  The insert waits for another open one of the same
\* transaction; a duplicate is ignored by the code, but PostgreSQL has aborted the
\* transaction and refuses every statement that follows.
createHeader(w) ==
    /\ phase[w] = "create"
    /\ \A v \in Projectors : \A h \in opened[v] : h.transaction # Taken(w).transaction
    /\ IF Stored(Taken(w).transaction) = {}
       THEN GoOn(w, "entries") /\ opened' = [opened EXCEPT ![w] = {HeaderOf(Taken(w))}]
       ELSE GoOn(w, "aborted") /\ UNCHANGED opened
    /\ UNCHANGED << headers, entries, offsets, taken, dropped, overlapped >>

\* The rows of a transaction, as another transaction may see them.
EntriesOf(transaction) == { e \in OutboxEvents : entries[e] > 0 /\ e.transaction = transaction }

hasMatchingProjectedEntry(existing, e) ==
    \E x \in existing : Projection(x) = Projection(e)

hasConflictingProjectedEntry(existing, e) ==
    \E x \in existing : x.account = e.account /\ Projection(x) # Projection(e)

\* Mutant: the entry is written again whenever its event is.
EntryAlwaysMissing(w) ==
    /\ phase[w] = "entries" /\ GoOn(w, "insert")
    /\ UNCHANGED << headers, entries, offsets, taken, opened, dropped, overlapped >>

\* upsertProjectedTransactionEntries reads the entries and compares.
compareEntries(w) ==
    LET existing == EntriesOf(Taken(w).transaction) IN
    /\ phase[w] = "entries"
    /\ GoOn(w, IF hasMatchingProjectedEntry(existing, Taken(w)) THEN "commit"
               ELSE IF hasConflictingProjectedEntry(existing, Taken(w)) THEN "aborted" ELSE "insert")
    /\ UNCHANGED << headers, entries, offsets, taken, opened, dropped, overlapped >>

\* ProjectTransaction inserts the entry, which nobody sees before it commits; a crash from here on leaves the event to be given again.
ProjectTransaction(w) ==
    /\ phase[w] \in {"insert", "commit"}
    /\ GoOn(w, "ack")
    /\ headers' = headers \cup opened[w]
    /\ entries' = IF phase[w] = "insert" THEN [entries EXCEPT ![Taken(w)] = @ + 1] ELSE entries
    /\ opened' = [opened EXCEPT ![w] = {}]
    /\ UNCHANGED << offsets, taken, dropped, overlapped >>

Rest(w) ==
    /\ GoOn(w, "idle")
    /\ taken' = [taken EXCEPT ![w] = NoSlot]
    /\ opened' = [opened EXCEPT ![w] = {}]

\* The offset of a member that lost its partition is not taken back.
Passed(slot) ==
    IF slot.offset > offsets[slot.account]
    THEN [offsets EXCEPT ![slot.account] = slot.offset] ELSE offsets

commitOffset(w) ==
    /\ phase[w] = "ack"
    /\ offsets' = Passed(taken[w])
    /\ Rest(w)
    /\ UNCHANGED << headers, entries, dropped, overlapped >>

\* The attempt fails, or the member dies: the transaction is rolled back.
rollBackProjection(w) ==
    /\ phase[w] # "idle"
    /\ Rest(w)
    /\ UNCHANGED << headers, entries, offsets, dropped, overlapped >>

\* After three failed attempts the event goes to the dead-letter topic and is passed over.
deadLetter(w) ==
    /\ phase[w] = "aborted"
    /\ offsets' = Passed(taken[w])
    /\ dropped' = dropped \cup {Taken(w)}
    /\ Cardinality(overlapped \cup dropped') <= MaxLost
    /\ Rest(w)
    /\ UNCHANGED << headers, entries, overlapped >>

ReadNext ==
    \E w \in Projectors :
        \/ \E a \in Accounts : handleLedgerOutboxEvent(w, a)
        \/ findHeader(w) \/ createHeader(w)
        \/ compareEntries(w)
        \/ ProjectTransaction(w) \/ commitOffset(w)
        \/ rollBackProjection(w) \/ deadLetter(w)

ReadSpec == ReadInit /\ [][ReadNext]_readVars

-----------------------------------------------------------------------------
(* Queries *)

\* Row amounts of some events, each as often as it was written.
Total(events) == MapThenSumSet(LAMBDA e : entries[e] * Projection(e).amount, events)

GetBalance(a) == Total({ e \in OutboxEvents : e.account = a })

\* Nothing where there is no header.
GetTransaction(transaction) == IF Stored(transaction) = {} THEN {} ELSE EntriesOf(transaction)

\* listTransactionsBaseQuery: the headers joined to the account's entries.
listTransactionsBaseQuery(a) ==
    LET own == { e.transaction : e \in { x \in OutboxEvents : x.account = a /\ entries[x] > 0 } }
    IN { h \in headers : h.transaction \in own }

CountTransactions(listed) == Cardinality(listed)

Rank(transaction) == CHOOSE i \in DOMAIN IdOrder : IdOrder[i] = transaction

\* created_at DESC, transaction_id DESC
ComesFirst(h, g) ==
    \/ h.createdAt > g.createdAt
    \/ h.createdAt = g.createdAt /\ Rank(h.transaction) > Rank(g.transaction)

\* Some headers in that order.
Ordered(hs) ==
    [i \in 1..Cardinality(hs) |->
        CHOOSE h \in hs : Cardinality({ g \in hs : ComesFirst(g, h) }) = i - 1]

NoCursor == << >>

\* The repository's ListTransactions: at most limit of the listed headers after the cursor.
ListTransactions(listed, cursor, limit) ==
    LET all == Ordered({ h \in listed : cursor = NoCursor \/ ComesFirst(cursor[1], h) })
    IN SubSeq(all, 1, Min({limit, Len(all)}))

\* The service asks for one more than the page holds to know whether there is more; the
\* cursor is the last transaction of the page.
TransactionPage(listed, cursor, limit) ==
    LET found == ListTransactions(listed, cursor, limit + 1)
        hasMore == Len(found) > limit
        records == SubSeq(found, 1, Min({limit, Len(found)}))
    IN [records |-> records, hasMore |-> hasMore, total |-> CountTransactions(listed),
        nextCursor |-> IF hasMore THEN << records[Len(records)] >> ELSE NoCursor]

\* A client that follows the cursors from page to page while nothing is projected: what it
\* has seen after n more pages.
FollowCursor(listed, limit, page) ==
    LET following == TransactionPage(listed, page.nextCursor, limit)
    IN IF page.hasMore THEN [following EXCEPT !.records = page.records \o @] ELSE page

Walk(listed, limit) ==
    LET walk[n \in 0..Cardinality(listed)] ==
            IF n = 0 THEN TransactionPage(listed, NoCursor, limit)
            ELSE FollowCursor(listed, limit, walk[n - 1])
    IN walk[Cardinality(listed)]

-----------------------------------------------------------------------------
(* Properties *)

\* What the tables, the offsets and the projectors hold.
ReadTypeOK ==
    /\ headers \subseteq { HeaderOf(e) : e \in OutboxEvents }
    /\ entries \in [OutboxEvents -> Nat]
    /\ \A a \in Accounts : offsets[a] \in 0..Len(Outbox[a])
    /\ phase \in [Projectors -> ProjectorPhases]

\* An event read back is the leg that was booked: its sign survives the amount that drops it.
LegsSurviveEncoding ==
    \A r \in Requests : \A i \in DOMAIN Legs(r) :
        LET leg == Legs(r)[i]
            read == previewLedgerPostingFromEvent(newLedgerPaymentEvent(leg, 0))
        IN read.amount = leg.delta /\ read.account = leg.account
           /\ read.transaction = leg.transaction

\* An event given again is not entered again, unless two members worked on it at once: then
\* neither sees the other's entry, and no key of the table keeps them apart.
EnteredOnce ==
    \A e \in OutboxEvents : entries[e] > 1 => e \in overlapped

\* An event that was passed over is in the tables or in the dead-letter topic, and an entry
\* has its header.
NothingIsSkipped ==
    \A a \in Accounts : \A i \in 1..offsets[a] :
        LET e == Outbox[a][i]
        IN e \notin dropped => entries[e] > 0 /\ HeaderOf(e) \in headers

\* Without overlap and dead letters, a balance that is read is one the account has had: its
\* history up to the committed offset, or one event further.
BalancesAreOld ==
    \A a \in Accounts :
        Range(Outbox[a]) \cap (overlapped \cup dropped) = {} =>
            \E n \in offsets[a]..Len(Outbox[a]) :
                GetBalance(a) = MapThenSumSet(LAMBDA i : Projection(Outbox[a][i]).amount, 1..n)

\* A transaction is shown with all its legs, which sum to zero, once each partition has passed
\* the leg it holds; before that, a reader may see half of it.
PassedTransactionsAreWhole ==
    \A t \in { e.transaction : e \in OutboxEvents } :
        LET legsOf == { e \in OutboxEvents : e.transaction = t }
            past == UNION { { Outbox[a][i] : i \in 1..offsets[a] } : a \in Accounts }
        IN legsOf \subseteq past \ (overlapped \cup dropped) =>
               GetTransaction(t) = legsOf /\ Total(legsOf) = 0

\* Following the cursors shows each transaction of the account once, newest first, for every
\* page size, also where several were booked at the same time.
PagesShowEverything ==
    \A listed \in { listTransactionsBaseQuery(a) : a \in Accounts }, limit \in 1..MaxPage :
        LET seen == Walk(listed, limit)
        IN /\ seen.records = Ordered(listed)
           /\ seen.total = Len(seen.records)
           /\ ~ seen.hasMore

\* The tables follow the history of the ledger and the queries show them whole.
ReadsAreSound ==
    /\ ReadTypeOK /\ LegsSurviveEncoding
    /\ EnteredOnce /\ NothingIsSkipped
    /\ BalancesAreOld /\ PassedTransactionsAreWhole /\ PagesShowEverything
=============================================================================
