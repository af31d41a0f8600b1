------------------------------- MODULE Ledger -------------------------------
(***************************************************************************)
(* The event-sourced ledger: workers (HTTP requests and Kafka consumers)    *)
(* run TransferToAccount or RecordLedgerEvents in a PostgreSQL transaction. *)
(*                                                                          *)
(* Each loops over the legs of its request three times: it loads the        *)
(* accounts (newest snapshot, then the events after it, replayed one by     *)
(* one), books the legs on the loaded aggregates, and saves the aggregates. *)
(* Statements of different transactions interleave; a read sees what is     *)
(* committed (READ COMMITTED).  Saving an account updates its row of        *)
(* ledger_aggregates, so it waits while another open transaction has saved  *)
(* the same account.                                                        *)
(*                                                                          *)
(* The Redis locks around both entry points have a time to live and can     *)
(* expire under a slow worker.  They are left out here: what this module    *)
(* shows holds without them.                                                *)
(***************************************************************************)
EXTENDS LedgerPostings, FiniteSetsExt

CONSTANTS Workers,        \* concurrent executions
          NoWorker,       \* holder of a row nobody has updated
          SnapshotEvery   \* a snapshot every so many versions (100 in the code)

\* One Save appends at most two events to an account, so two of them are never
\* both multiples of SnapshotEvery and snapshot ids do not collide.
ASSUME WorkersAssumption == NoWorker \notin Workers
ASSUME SnapshotAssumption == SnapshotEvery \in Nat \ {0, 1}

VARIABLES
    ledgerEvents,        \* table ledger_events
    postedTransactions,  \* table ledger_posted_transactions
    aggregateVersion,    \* column version of table ledger_aggregates
    snapshots,           \* table ledger_snapshots
    outbox,              \* ledger_outbox_events in commit order, per account
    rowHolder,           \* open transaction that has updated an account's row
    issued,              \* transfers begun: each has a fresh transaction id
    pc,                  \* where a worker is
    req,                 \* its request
    next,                \* index of the leg its loop has reached
    applied,             \* appliedCount: legs newly booked
    loaded,              \* accounts in its loadedLedgerAccounts map
    agg,                 \* those aggregates
    tail                 \* events read and not yet replayed

tables == << ledgerEvents, postedTransactions, aggregateVersion, snapshots, outbox >>
local  == << req, next, applied, loaded, agg, tail >>
vars   == << tables, rowHolder, issued, pc, local >>

Rows == [posting : Postings, version : Nat]

\* base and version are AggregateRoot's baseVersion and Version(); fresh holds
\* the uncommitted events, in order.
Aggregates ==
    [base : Nat, version : Nat, balance : Int,
     posted : SUBSET Postings, fresh : Seq(Rows)]

SnapshotRows ==
    [account : Accounts, version : Nat, balance : Int, posted : SUBSET Postings]

NewLedgerAccountAggregate ==
    [base |-> 0, version |-> 0, balance |-> 0, posted |-> {}, fresh |-> << >>]

\* What req holds of an idle worker; never read.
AnyRequest == CHOOSE r \in Requests : TRUE

Phases == {"idle", "load", "replay", "apply", "save"}

TypeOK ==
    /\ ledgerEvents \subseteq Rows
    /\ postedTransactions \subseteq (Accounts \X TransactionIds)
    /\ aggregateVersion \in [Accounts -> Nat]
    /\ snapshots \subseteq SnapshotRows
    /\ outbox \in [Accounts -> Seq(Rows)]
    /\ rowHolder \in [Accounts -> Workers \cup {NoWorker}]
    /\ issued \subseteq Requests
    /\ pc \in [Workers -> Phases]
    /\ req \in [Workers -> Requests]
    /\ next \in [Workers -> Nat \ {0}]
    /\ applied \in [Workers -> Nat]
    /\ loaded \in [Workers -> SUBSET Accounts]
    /\ agg \in [Workers -> [Accounts -> Aggregates]]
    /\ tail \in [Workers -> SUBSET Rows]

Init ==
    /\ ledgerEvents = {}
    /\ postedTransactions = {}
    /\ aggregateVersion = [a \in Accounts |-> 0]
    /\ snapshots = {}
    /\ outbox = [a \in Accounts |-> << >>]
    /\ rowHolder = [a \in Accounts |-> NoWorker]
    /\ issued = {}
    /\ pc = [w \in Workers |-> "idle"]
    /\ req = [w \in Workers |-> AnyRequest]
    /\ next = [w \in Workers |-> 1]
    /\ applied = [w \in Workers |-> 0]
    /\ loaded = [w \in Workers |-> {}]
    /\ agg = [w \in Workers |-> [a \in Accounts |-> NewLedgerAccountAggregate]]
    /\ tail = [w \in Workers |-> {}]

-----------------------------------------------------------------------------
(* Helpers *)

EventsOf(a) == { e \in ledgerEvents : e.posting.account = a }

SnapshotsOf(a) == { s \in snapshots : s.account = a }

\* The same legs whether a payment event comes from Kafka or over gRPC.
legs(w) == Legs(req[w])
leg(w) == legs(w)[next[w]]
InLoop(w) == next[w] <= Len(legs(w))

\* PostedTransactions[tx] of a loaded aggregate.
PostedTransaction(g, tx) == { p \in g.posted : p.transaction = tx }

\* applyPosting on a new event: ApplyChange numbers it and applies it.
ApplyChange(g, p) ==
    [base    |-> g.base,
     version |-> g.version + 1,
     balance |-> g.balance + p.delta,
     posted  |-> g.posted \cup {p},
     fresh   |-> Append(g.fresh, [posting |-> p, version |-> g.version + 1])]

\* applyPosting on an event read back.
LoadFromHistory(g, e) ==
    [base    |-> e.version,
     version |-> e.version,
     balance |-> g.balance + e.posting.delta,
     posted  |-> g.posted \cup {e.posting},
     fresh   |-> g.fresh]

\* ReadSnapshot: the aggregate in the newest snapshot, or a new one.
ReadSnapshot(a) ==
    IF SnapshotsOf(a) = {}
    THEN {NewLedgerAccountAggregate}
    ELSE { [base |-> s.version, version |-> s.version, balance |-> s.balance,
            posted |-> s.posted, fresh |-> << >>] :
              s \in { t \in SnapshotsOf(a) : \A u \in SnapshotsOf(a) : u.version <= t.version } }

\* Mutant: the rows stay locked when the transaction ends.
LeaveRowsHeld(w) ==
    /\ pc' = [pc EXCEPT ![w] = "idle"]
    /\ next' = [next EXCEPT ![w] = 1]
    /\ applied' = [applied EXCEPT ![w] = 0]
    /\ loaded' = [loaded EXCEPT ![w] = {}]
    /\ agg' = [agg EXCEPT ![w] = [a \in Accounts |-> NewLedgerAccountAggregate]]
    /\ tail' = [tail EXCEPT ![w] = {}]
    /\ req' = [req EXCEPT ![w] = AnyRequest]
    /\ UNCHANGED << issued, rowHolder >>

\* The transaction ends without effect: its rows are released, its memory is
\* dropped.  The worker is free for the next request.
Leave(w) ==
    /\ pc' = [pc EXCEPT ![w] = "idle"]
    /\ rowHolder' = [a \in Accounts |-> IF rowHolder[a] = w THEN NoWorker ELSE rowHolder[a]]
    /\ next' = [next EXCEPT ![w] = 1]
    /\ applied' = [applied EXCEPT ![w] = 0]
    /\ loaded' = [loaded EXCEPT ![w] = {}]
    /\ agg' = [agg EXCEPT ![w] = [a \in Accounts |-> NewLedgerAccountAggregate]]
    /\ tail' = [tail EXCEPT ![w] = {}]
    /\ req' = [req EXCEPT ![w] = AnyRequest]
    /\ UNCHANGED issued

RollBack(w) == Leave(w) /\ UNCHANGED tables

Goto(w, phase, index) ==
    /\ pc' = [pc EXCEPT ![w] = phase]
    /\ next' = [next EXCEPT ![w] = index]

-----------------------------------------------------------------------------
(* Actions *)

\* A transfer gets a fresh transaction id and is never retried.  A payment
\* event is delivered at least once: it may come again at any time.
Begin(w, r) ==
    /\ pc[w] = "idle"
    /\ r.kind = "transfer" => r \notin issued
    /\ issued' = IF r.kind = "transfer" THEN issued \cup {r} ELSE issued
    /\ req' = [req EXCEPT ![w] = r]
    /\ Goto(w, "load", 1)
    /\ UNCHANGED << tables, rowHolder, applied, loaded, agg, tail >>

\* One account of the load loop.  The snapshot and the events after it are two
\* statements; what the second one reads completes the first, so together they
\* read what is committed at the second.
loadLedgerAccount(w) ==
    /\ pc[w] = "load" /\ InLoop(w)
    /\ LET a == leg(w).account
       IN IF a \in loaded[w]
          THEN /\ Goto(w, "load", next[w] + 1)
               /\ UNCHANGED << loaded, agg, tail >>
          ELSE \E g \in ReadSnapshot(a) :
               LET after == { e \in EventsOf(a) : e.version > g.version }
               IN /\ loaded' = [loaded EXCEPT ![w] = @ \cup {a}]
                  /\ agg' = [agg EXCEPT ![w][a] = g]
                  /\ tail' = [tail EXCEPT ![w] = after]
                  /\ IF after = {} THEN Goto(w, "load", next[w] + 1)
                                   ELSE Goto(w, "replay", next[w])
    /\ UNCHANGED << tables, rowHolder, issued, req, applied >>

\* The oldest of the events still to replay.
Oldest(w) == { e \in tail[w] : \A f \in tail[w] : e.version <= f.version }

\* Replay applies the events in version order and runs the funds check again;
\* an event that fails it makes the load fail.
replayEvent(w) ==
    /\ pc[w] = "replay" /\ InLoop(w)
    /\ \E e \in Oldest(w) :
        LET a == leg(w).account
        IN IF ensurePostingAllowed(agg[w][a].balance, e.posting)
           THEN /\ agg' = [agg EXCEPT ![w][a] = LoadFromHistory(agg[w][a], e)]
                /\ tail' = [tail EXCEPT ![w] = @ \ {e}]
                /\ IF tail[w] = {e} THEN Goto(w, "load", next[w] + 1)
                                    ELSE Goto(w, "replay", next[w])
                /\ UNCHANGED << tables, rowHolder, issued, req, applied, loaded >>
           ELSE RollBack(w)

\* TransferToAccount compares what is posted with what it expects before it
\* books anything; RecordLedgerEvents goes straight to its loop.
Matching(w) ==
    { i \in 1..Len(legs(w)) :
        legs(w)[i] \in agg[w][legs(w)[i].account].posted }

Mismatching(w) ==
    { i \in 1..Len(legs(w)) :
        \E p \in agg[w][legs(w)[i].account].posted :
            p.transaction = legs(w)[i].transaction /\ p # legs(w)[i] }

\* Everything posted already, or something that differs, ends the transaction
\* with nothing written.
ensureLedgerPostingsState(w) ==
    /\ pc[w] = "load" /\ ~ InLoop(w)
    /\ IF req[w].kind = "transfer" /\ Mismatching(w) \cup Matching(w) # {}
       THEN RollBack(w)
       ELSE /\ Goto(w, "apply", 1)
            /\ UNCHANGED << tables, rowHolder, issued, req, applied, loaded, agg, tail >>

\* ApplyPostingEvent, TransferToAccount and ReceiveTransfer of the aggregate.
applyPosting(w) ==
    /\ pc[w] = "apply" /\ InLoop(w)
    /\ LET p == leg(w)
           g == agg[w][p.account]
       IN \/ /\ PostedTransaction(g, p.transaction) = {}
             /\ ensurePostingAllowed(g.balance, p)
             /\ agg' = [agg EXCEPT ![w][p.account] = ApplyChange(g, p)]
             /\ applied' = [applied EXCEPT ![w] = @ + 1]
          \/ /\ PostedTransaction(g, p.transaction) = {p}
             /\ UNCHANGED << agg, applied >>
    /\ Goto(w, "apply", next[w] + 1)
    /\ UNCHANGED << tables, rowHolder, issued, req, loaded, tail >>

\* A different posting under the same transaction id, or insufficient funds.
postingRejected(w) ==
    /\ pc[w] = "apply" /\ InLoop(w)
    /\ LET p == leg(w)
           g == agg[w][p.account]
       IN \/ PostedTransaction(g, p.transaction) \notin {{}, {p}}
          \/ /\ PostedTransaction(g, p.transaction) = {}
             /\ ~ ensurePostingAllowed(g.balance, p)
    /\ RollBack(w)

\* All legs are new: save them.  None is: the event was applied before, and
\* the handler succeeds without writing.  Some are: the state is inconsistent.
startSaving(w) ==
    /\ pc[w] = "apply" /\ ~ InLoop(w)
    /\ applied[w] = Len(legs(w))
    /\ Goto(w, "save", 1)
    /\ UNCHANGED << tables, rowHolder, issued, req, applied, loaded, agg, tail >>

nothingToSave(w) ==
    /\ pc[w] = "apply" /\ ~ InLoop(w)
    /\ applied[w] # Len(legs(w))
    /\ RollBack(w)

\* Mutants: the version is not compared; nothing is compared.
ReservationConflicts(w, a) ==
    \E i \in 1..Len(agg[w][a].fresh) :
        << a, agg[w][a].fresh[i].posting.transaction >> \in postedTransactions

\* Mutant: a transaction that was posted is not noticed.
NeverConflicts(w, a) == FALSE

\* What Save finds wrong: the version moved since the load, or a posting is
\* already reserved.  The duplicate key aborts the PostgreSQL transaction, so
\* whatever ReservePostedTransaction makes of it the next statement fails.
SaveConflicts(w, a) ==
    \/ aggregateVersion[a] # agg[w][a].base
    \/ \E i \in 1..Len(agg[w][a].fresh) :
          << a, agg[w][a].fresh[i].posting.transaction >> \in postedTransactions

\* The second Save of an account finds no events left and does nothing.
saveLedgerAccount(w) ==
    /\ pc[w] = "save" /\ InLoop(w)
    /\ LET a == leg(w).account
       IN /\ rowHolder[a] \in {w, NoWorker}
          /\ rowHolder[a] = NoWorker => ~ SaveConflicts(w, a)
          /\ rowHolder' = [rowHolder EXCEPT ![a] = w]
    /\ Goto(w, "save", next[w] + 1)
    /\ UNCHANGED << tables, issued, req, applied, loaded, agg, tail >>

saveConflict(w) ==
    /\ pc[w] = "save" /\ InLoop(w)
    /\ rowHolder[leg(w).account] = NoWorker
    /\ SaveConflicts(w, leg(w).account)
    /\ RollBack(w)

\* Mutant: the save writes the first uncommitted event of each account only.
FirstFreshRows(w) == { agg[w][a].fresh[1] : a \in { b \in loaded[w] : agg[w][b].fresh # << >> } }

FreshRows(w) == UNION { { agg[w][a].fresh[i] : i \in 1..Len(agg[w][a].fresh) } : a \in loaded[w] }

\* CreateSnapshot is called for an event whose version is a multiple of
\* SnapshotEvery and stores the whole aggregate, later events of the batch too.
SnapshotDue(g) == \E i \in 1..Len(g.fresh) : g.fresh[i].version % SnapshotEvery = 0

CreateSnapshots(w) ==
    { [account |-> a, version |-> agg[w][a].version, balance |-> agg[w][a].balance,
       posted |-> agg[w][a].posted] : a \in { b \in loaded[w] : SnapshotDue(agg[w][b]) } }

\* WithTransaction commits what the saves wrote.
commit(w) ==
    /\ pc[w] = "save" /\ ~ InLoop(w)
    /\ ledgerEvents' = ledgerEvents \cup FreshRows(w)
    /\ postedTransactions' = postedTransactions \cup
          { << e.posting.account, e.posting.transaction >> : e \in FreshRows(w) }
    /\ aggregateVersion' = [a \in Accounts |->
          IF a \in loaded[w] THEN agg[w][a].version ELSE aggregateVersion[a]]
    /\ outbox' = [a \in Accounts |->
          IF a \in loaded[w] THEN outbox[a] \o agg[w][a].fresh ELSE outbox[a]]
    /\ snapshots' = snapshots \cup CreateSnapshots(w)
    /\ Leave(w)

\* A crash, a cancelled context or a failed statement at any point.
crash(w) ==
    /\ pc[w] # "idle"
    /\ RollBack(w)

WaitsFor(w) ==
    IF pc[w] = "save" /\ InLoop(w) THEN {rowHolder[leg(w).account]} \ {w, NoWorker} ELSE {}

\* PostgreSQL aborts a transaction of a cycle of transactions that wait.
deadlockVictim(w) ==
    /\ \E S \in SUBSET Workers : w \in S /\ \A v \in S : WaitsFor(v) \cap S # {}
    /\ RollBack(w)

Step(w) ==
    \/ loadLedgerAccount(w) \/ replayEvent(w) \/ ensureLedgerPostingsState(w)
    \/ applyPosting(w) \/ postingRejected(w) \/ startSaving(w) \/ nothingToSave(w)
    \/ saveLedgerAccount(w) \/ saveConflict(w) \/ commit(w)

Next ==
    \E w \in Workers :
        \/ \E r \in Requests : Begin(w, r)
        \/ Step(w)
        \/ crash(w)
        \/ deadlockVictim(w)

Spec == Init /\ [][Next]_vars

\* A worker that can move does, PostgreSQL hands a released row to a waiting
\* transaction, whoever else wants it, and its deadlock detector runs.
Fairness == \A w \in Workers : SF_vars(Step(w) \/ deadlockVictim(w))

FairSpec == Spec /\ Fairness

-----------------------------------------------------------------------------
(* Properties *)

\* Every posting in the history has its mirror: the counterparty holds the
\* opposite amount under the same transaction.  It is what makes the ledger a
\* ledger, and it rests on one transaction writing all legs or none.
DoubleEntry ==
    \A e \in ledgerEvents : \E f \in ledgerEvents :
        /\ f.posting.account = e.posting.counterparty
        /\ f.posting.counterparty = e.posting.account
        /\ f.posting.transaction = e.posting.transaction
        /\ f.posting.delta = - e.posting.delta

\* An account books a transaction at most once, however often a payment event
\* is redelivered and however many workers handle it at the same time.
PostedOnce ==
    \A e, f \in ledgerEvents :
        /\ e.posting.account = f.posting.account
        /\ e.posting.transaction = f.posting.transaction
        => e = f

\* The history of an account is numbered 1, 2, ... without gap or duplicate up
\* to the version of its row, although workers number their events from what
\* they have read and not from what is there when they write.
GaplessHistory ==
    \A a \in Accounts :
        /\ { e.version : e \in EventsOf(a) } = 1..aggregateVersion[a]
        /\ \A e, f \in EventsOf(a) : e.version = f.version => e = f

\* The outbox carries the same events in the same order, as the comment in
\* aggregateStoreImpl.Save promises to the projections.
OutboxIsHistory ==
    \A a \in Accounts :
        /\ Len(outbox[a]) = aggregateVersion[a]
        /\ \A i \in 1..Len(outbox[a]) :
              outbox[a][i] \in ledgerEvents /\ outbox[a][i].version = i

\* The balance of an account after version n, from the events alone.
BalanceAt(a, n) ==
    MapThenSumSet(LAMBDA e : e.posting.delta, { e \in EventsOf(a) : e.version <= n })

\* A debit that needs funds had them: at the moment of every guarded debit the
\* history up to and including it does not sum below zero.  The check ran on a
\* loaded copy that may have been stale.
NoOverdraft ==
    \A e \in ledgerEvents :
        e.posting.delta < 0 /\ requiresNonNegativeBalance(e.posting.type)
        => BalanceAt(e.posting.account, e.version) >= 0

\* A snapshot is what replaying the history up to its version gives, although
\* it is written in the middle of a batch from the aggregate in memory.
SnapshotIsReplay ==
    \A s \in snapshots :
        /\ s.balance = BalanceAt(s.account, s.version)
        /\ s.posted = { e.posting : e \in { f \in EventsOf(s.account) : f.version <= s.version } }

\* A committed history can always be loaded again: replay runs the funds check
\* on every event and would make the account unusable if it failed.
HistoryReplays ==
    \A w \in Workers :
        pc[w] = "replay" =>
            \A e \in Oldest(w) :
                ensurePostingAllowed(agg[w][leg(w).account].balance, e.posting)

\* What a load gives is what the history says, with or without a snapshot.
LoadsAreReplays == HistoryReplays /\ SnapshotIsReplay

\* The principal and the fee are booked together or not at all: every posting
\* belongs to a request all of whose legs are in the history.
RequestsAreAtomic ==
    \A e \in ledgerEvents : \E r \in Requests :
        LET all == Legs(r)
        IN  /\ \E i \in 1..Len(all) : all[i] = e.posting
            /\ \A i \in 1..Len(all) : \E f \in ledgerEvents : f.posting = all[i]

\* Every execution ends, although workers wait for one another's rows in the
\* order of their legs, which differs from request to request.
ExecutionsEnd == \A w \in Workers : pc[w] # "idle" ~> pc[w] = "idle"

=============================================================================
