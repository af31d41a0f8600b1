---------------------------- MODULE LedgerProofs ----------------------------
(***************************************************************************)
(* Proofs about Ledger, for every set of accounts, requests and workers,    *)
(* and about LedgerReadModel, for every outbox and set of projectors.       *)
(***************************************************************************)
EXTENDS MCLedger, FiniteSetTheorems, WellFoundedInduction, TLAPS

-----------------------------------------------------------------------------
(* Facts about the legs of a request *)

\* q is the other side of p.
Mirrors(q, p) ==
    /\ q.account = p.counterparty
    /\ q.counterparty = p.account
    /\ q.transaction = p.transaction
    /\ q.delta = -p.delta

\* A sequence of postings in which every posting has its other side.
Balanced(s) ==
    /\ s \in Seq(Postings)
    /\ \A i \in 1..Len(s) : \E j \in 1..Len(s) : Mirrors(s[j], s[i])

\* A double entry is balanced.
LEMMA DoubleEntryLegsBalanced ==
    ASSUME NEW tx \in TransactionIds, NEW a \in Accounts, NEW b \in Accounts,
           NEW d \in Int, NEW ta \in ReferenceTypes, NEW tb \in ReferenceTypes
    PROVE  Balanced(DoubleEntryLegs(tx, a, b, d, ta, tb))
  <1> DEFINE s == DoubleEntryLegs(tx, a, b, d, ta, tb)
  <1>1. /\ s \in Seq(Postings)
        /\ Len(s) = 2
        /\ s[1] = Posting(a, tx, b, d, ta)
        /\ s[2] = Posting(b, tx, a, -d, tb)
    BY DEF DoubleEntryLegs, Posting, Postings
  <1>2. Mirrors(s[1], s[2]) /\ Mirrors(s[2], s[1])
    BY <1>1 DEF Mirrors, Posting
  <1>3. \A i \in 1..2 : \E j \in 1..2 : Mirrors(s[j], s[i])
    <2>1. \A i \in 1..2 : i = 1 \/ i = 2
      OBVIOUS
    <2>2. 1 \in 1..2 /\ 2 \in 1..2
      OBVIOUS
    <2> HIDE DEF s
    <2> QED BY <1>2, <2>1, <2>2
  <1> HIDE DEF s
  <1>4. Balanced(s) BY <1>1, <1>3 DEF Balanced
  <1> QED BY <1>4 DEF s

\* Balanced sequences one after the other are balanced.
LEMMA BalancedConcat ==
    ASSUME NEW s, NEW t, Balanced(s), Balanced(t)
    PROVE  Balanced(s \o t)
  <1>1. s \in Seq(Postings) /\ t \in Seq(Postings)
    BY DEF Balanced
  <1>2. /\ s \o t \in Seq(Postings)
        /\ Len(s \o t) = Len(s) + Len(t)
        /\ Len(s) \in Nat /\ Len(t) \in Nat
        /\ \A i \in 1..Len(s) : (s \o t)[i] = s[i]
        /\ \A i \in 1..Len(t) : (s \o t)[Len(s) + i] = t[i]
    BY <1>1
  <1> DEFINE st == s \o t
  <1>3. ASSUME NEW i \in 1..Len(st) PROVE \E j \in 1..Len(st) : Mirrors(st[j], st[i])
    <2>1. CASE i <= Len(s)
      <3>1. PICK j \in 1..Len(s) : Mirrors(s[j], s[i])
        BY <1>2, <2>1 DEF Balanced
      <3>2. j \in 1..Len(st) /\ st[j] = s[j] /\ st[i] = s[i]
        BY <1>2, <2>1
      <3> QED BY <3>1, <3>2
    <2>2. CASE i > Len(s)
      <3> DEFINE k == i - Len(s)
      <3>1. k \in 1..Len(t) /\ i = Len(s) + k
        BY <1>2, <2>2
      <3>2. PICK j \in 1..Len(t) : Mirrors(t[j], t[k])
        BY <3>1 DEF Balanced
      <3>3. Len(s) + j \in 1..Len(st) /\ st[Len(s) + j] = t[j] /\ st[i] = t[k]
        BY <1>2, <3>1
      <3> QED BY <3>2, <3>3
    <2> QED BY <1>2, <2>1, <2>2
  <1> QED BY <1>2, <1>3 DEF Balanced

\* What every request books is balanced.
LEMMA LegsBalanced ==
    ASSUME NEW r \in Requests
    PROVE  Balanced(Legs(r))
  <1>1. /\ r.kind \in Kinds /\ r.id \in Ids
        /\ r.user \in Accounts /\ r.to \in Accounts
        /\ Clearing \in Accounts /\ FeeAccount \in Accounts
        /\ r.amount \in Int /\ -r.amount \in Int
        /\ r.fee \in Int /\ -r.fee \in Int
    BY RequestsAssumption DEF RequestType, Accounts
  <1>2. \A part \in Parts : TransactionId(r, part) \in TransactionIds
    BY <1>1 DEF TransactionId, TransactionIds
  <1>3. "principal" \in Parts /\ "fee" \in Parts
    BY DEF Parts
  <1>4. Balanced(<< >>)
    BY DEF Balanced
  <1>5. ASSUME NEW p, NEW f, Balanced(p), Balanced(f)
        PROVE  Balanced(p \o FeeLegs(r, f))
    <2>1. Balanced(FeeLegs(r, f))
      BY <1>4, <1>5 DEF FeeLegs
    <2> QED BY <1>5, <2>1, BalancedConcat
  <1>6. CASE r.kind = "transfer"
    <2>1. Balanced(transferLegs(r))
      BY <1>1, <1>2, <1>3, <1>5, DoubleEntryLegsBalanced DEF transferLegs, ReferenceTypes
    <2> QED BY <1>6, <2>1 DEF Legs
  <1>7. CASE r.kind = "succeeded"
    <2>1. Balanced(paymentSucceededLedgerEvents(r))
      BY <1>1, <1>2, <1>3, <1>5, DoubleEntryLegsBalanced DEF paymentSucceededLedgerEvents, ReferenceTypes
    <2> QED BY <1>7, <2>1 DEF Legs
  <1>8. ASSUME NEW x \in ReferenceTypes, NEW y \in ReferenceTypes
        PROVE  Balanced(paymentReversedLedgerEvents(r, x, y))
    BY <1>1, <1>2, <1>3, <1>5, DoubleEntryLegsBalanced DEF paymentReversedLedgerEvents
  <1>9. CASE r.kind = "refunded"
    BY <1>8, <1>9 DEF Legs, ReferenceTypes
  <1>10. CASE r.kind = "chargeback"
    BY <1>8, <1>10 DEF Legs, ReferenceTypes
  <1>11. CASE r.kind = "withdrawal"
    <2>1. Balanced(paymentWithdrawalRequestedLedgerEvents(r))
      BY <1>1, <1>2, <1>3, <1>5, DoubleEntryLegsBalanced DEF paymentWithdrawalRequestedLedgerEvents, ReferenceTypes
    <2> QED BY <1>11, <2>1 DEF Legs
  <1>12. CASE r.kind = "failed"
    <2>1. Balanced(paymentFailedLedgerEvents(r))
      BY <1>1, <1>2, <1>3, <1>5, DoubleEntryLegsBalanced DEF paymentFailedLedgerEvents, ReferenceTypes
    <2> QED BY <1>12, <2>1 DEF Legs
  <1> QED BY <1>1, <1>6, <1>7, <1>9, <1>10, <1>11, <1>12 DEF Kinds

-----------------------------------------------------------------------------
(* Type correctness *)

LEMMA AnyRequestType == AnyRequest \in Requests
  BY RequestsAssumption DEF AnyRequest

LEMMA NewAggregateType == NewLedgerAccountAggregate \in Aggregates
  BY DEF NewLedgerAccountAggregate, Aggregates

\* The leg a worker's loop has reached is a posting.
LEMMA LegType ==
    ASSUME TypeOK, NEW w \in Workers, InLoop(w)
    PROVE  leg(w) \in Postings /\ leg(w).account \in Accounts
  <1>1. legs(w) \in Seq(Postings)
    BY LegsBalanced DEF TypeOK, legs, Balanced
  <1>2. next[w] \in 1..Len(legs(w))
    BY <1>1 DEF TypeOK, InLoop
  <1>3. leg(w) \in Postings
    BY <1>1, <1>2 DEF leg
  <1> QED BY <1>3 DEF Postings

\* Ending a transaction keeps the local state well formed.
LEMMA LeaveType ==
    ASSUME TypeOK, NEW w \in Workers, Leave(w)
    PROVE  /\ rowHolder' \in [Accounts -> Workers \cup {NoWorker}]
           /\ issued' \subseteq Requests
           /\ pc' \in [Workers -> Phases]
           /\ req' \in [Workers -> Requests]
           /\ next' \in [Workers -> Nat \ {0}]
           /\ applied' \in [Workers -> Nat]
           /\ loaded' \in [Workers -> SUBSET Accounts]
           /\ agg' \in [Workers -> [Accounts -> Aggregates]]
           /\ tail' \in [Workers -> SUBSET Rows]
  BY AnyRequestType, NewAggregateType DEF TypeOK, Leave, Phases

LEMMA RollBackType ==
    ASSUME TypeOK, NEW w \in Workers, RollBack(w)
    PROVE  TypeOK'
  BY LeaveType DEF TypeOK, RollBack, tables

\* What a worker may put into its aggregates is an aggregate.
LEMMA AggregateSteps ==
    ASSUME NEW g \in Aggregates
    PROVE  /\ \A p \in Postings : ApplyChange(g, p) \in Aggregates
           /\ \A e \in Rows : LoadFromHistory(g, e) \in Aggregates
  <1>1. /\ g.base \in Nat /\ g.version \in Nat /\ g.balance \in Int
        /\ g.posted \subseteq Postings /\ g.fresh \in Seq(Rows)
    BY DEF Aggregates
  <1>2. ASSUME NEW p \in Postings PROVE ApplyChange(g, p) \in Aggregates
    <2>1. p.delta \in Int
      BY DEF Postings
    <2>2. [posting |-> p, version |-> g.version + 1] \in Rows
      BY <1>1 DEF Rows
    <2>3. Append(g.fresh, [posting |-> p, version |-> g.version + 1]) \in Seq(Rows)
      BY <1>1, <2>2
    <2> QED BY <1>1, <2>1, <2>3 DEF ApplyChange, Aggregates
  <1>3. ASSUME NEW e \in Rows PROVE LoadFromHistory(g, e) \in Aggregates
    <2>1. e.posting \in Postings /\ e.version \in Nat /\ e.posting.delta \in Int
      BY DEF Rows, Postings
    <2> QED BY <1>1, <2>1 DEF LoadFromHistory, Aggregates
  <1> QED BY <1>2, <1>3

LEMMA ReadSnapshotType ==
    ASSUME TypeOK, NEW a \in Accounts, NEW g \in ReadSnapshot(a)
    PROVE  g \in Aggregates
  <1>1. CASE SnapshotsOf(a) = {}
    BY <1>1, NewAggregateType DEF ReadSnapshot
  <1>2. CASE SnapshotsOf(a) # {}
    <2>1. PICK s \in snapshots :
             g = [base |-> s.version, version |-> s.version, balance |-> s.balance,
                  posted |-> s.posted, fresh |-> << >>]
      BY <1>2 DEF ReadSnapshot, SnapshotsOf
    <2>2. s \in SnapshotRows
      BY DEF TypeOK
    <2> QED BY <2>1, <2>2 DEF Aggregates, SnapshotRows
  <1> QED BY <1>1, <1>2

LEMMA AggregateUpdateType ==
    ASSUME TypeOK, NEW w \in Workers, NEW a \in Accounts, NEW g \in Aggregates
    PROVE  [agg EXCEPT ![w][a] = g] \in [Workers -> [Accounts -> Aggregates]]
  BY DEF TypeOK

\* The rows a worker has ready to write are rows.
LEMMA FreshRowsType ==
    ASSUME TypeOK, NEW w \in Workers
    PROVE  /\ FreshRows(w) \subseteq Rows
           /\ CreateSnapshots(w) \subseteq SnapshotRows
  <1>1. \A a \in loaded[w] : a \in Accounts /\ agg[w][a] \in Aggregates
    BY DEF TypeOK
  <1>2. ASSUME NEW e \in FreshRows(w) PROVE e \in Rows
    <2>1. PICK a \in loaded[w] : \E i \in 1..Len(agg[w][a].fresh) : e = agg[w][a].fresh[i]
      BY DEF FreshRows
    <2>2. agg[w][a].fresh \in Seq(Rows)
      BY <1>1 DEF Aggregates
    <2> QED BY <2>1, <2>2
  <1>3. CreateSnapshots(w) \subseteq SnapshotRows
    BY <1>1 DEF CreateSnapshots, SnapshotRows, Aggregates
  <1> QED BY <1>2, <1>3

\* Every step keeps the state well formed.
LEMMA TypeOKStep == TypeOK /\ [Next]_vars => TypeOK'
  <1> SUFFICES ASSUME TypeOK, [Next]_vars PROVE TypeOK'
    OBVIOUS
  <1>1. CASE UNCHANGED vars
    BY <1>1 DEF TypeOK, vars, tables, local
  <1>2. ASSUME NEW w \in Workers, NEW r \in Requests, Begin(w, r) PROVE TypeOK'
    BY <1>2 DEF TypeOK, Begin, Goto, Phases, tables
  <1>3. ASSUME NEW w \in Workers, loadLedgerAccount(w) PROVE TypeOK'
    <2> DEFINE a == leg(w).account
    <2>1. a \in Accounts
      BY <1>3, LegType DEF loadLedgerAccount
    <2>2. next[w] + 1 \in Nat \ {0} /\ next[w] \in Nat \ {0}
      BY DEF TypeOK
    <2>3. CASE a \in loaded[w]
      BY <1>3, <2>2, <2>3, ZenonT(40) DEF TypeOK, loadLedgerAccount, Goto, Phases, tables
    <2>4. CASE a \notin loaded[w]
      <3> DEFINE after(g) == { e \in EventsOf(a) : e.version > g.version }
      <3>1. PICK g \in ReadSnapshot(a) :
              /\ loaded' = [loaded EXCEPT ![w] = @ \cup {a}]
              /\ agg' = [agg EXCEPT ![w][a] = g]
              /\ tail' = [tail EXCEPT ![w] = after(g)]
              /\ IF after(g) = {} THEN Goto(w, "load", next[w] + 1)
                                  ELSE Goto(w, "replay", next[w])
        BY <1>3, <2>4 DEF loadLedgerAccount
      <3>2. g \in Aggregates
        BY <2>1, ReadSnapshotType
      <3>3. after(g) \subseteq Rows
        BY DEF TypeOK, EventsOf
      <3> HIDE DEF after, a
      <3>4. pc' \in [Workers -> Phases] /\ next' \in [Workers -> Nat \ {0}]
        BY <2>2, <3>1 DEF TypeOK, Goto, Phases
      <3>5. /\ loaded' \in [Workers -> SUBSET Accounts]
            /\ tail' \in [Workers -> SUBSET Rows]
        BY <2>1, <3>1, <3>3 DEF TypeOK
      <3>6. agg' \in [Workers -> [Accounts -> Aggregates]]
        BY <2>1, <3>1, <3>2 DEF TypeOK
      <3>7. UNCHANGED << tables, rowHolder, issued, req, applied >>
        BY <1>3 DEF loadLedgerAccount
      <3> QED BY <3>4, <3>5, <3>6, <3>7 DEF TypeOK, tables
    <2> QED BY <2>3, <2>4
  <1>4. ASSUME NEW w \in Workers, replayEvent(w) PROVE TypeOK'
    <2> DEFINE a == leg(w).account
    <2>1. a \in Accounts
      BY <1>4, LegType DEF replayEvent
    <2>2. PICK e \in Oldest(w) :
            IF ensurePostingAllowed(agg[w][a].balance, e.posting)
            THEN /\ agg' = [agg EXCEPT ![w][a] = LoadFromHistory(agg[w][a], e)]
                 /\ tail' = [tail EXCEPT ![w] = @ \ {e}]
                 /\ IF tail[w] = {e} THEN Goto(w, "load", next[w] + 1)
                                     ELSE Goto(w, "replay", next[w])
                 /\ UNCHANGED << tables, rowHolder, issued, req, applied, loaded >>
            ELSE RollBack(w)
      BY <1>4 DEF replayEvent
    <2> HIDE DEF a
    <2>3. e \in Rows
      BY DEF TypeOK, Oldest
    <2>4. LoadFromHistory(agg[w][a], e) \in Aggregates
      BY <2>1, <2>3, AggregateSteps DEF TypeOK
    <2>5. CASE ensurePostingAllowed(agg[w][a].balance, e.posting)
      <3>1. /\ agg' = [agg EXCEPT ![w][a] = LoadFromHistory(agg[w][a], e)]
            /\ tail' = [tail EXCEPT ![w] = @ \ {e}]
            /\ \/ Goto(w, "load", next[w] + 1)
               \/ Goto(w, "replay", next[w])
            /\ UNCHANGED << tables, rowHolder, issued, req, applied, loaded >>
        BY <2>2, <2>5
      <3>2. pc' \in [Workers -> Phases] /\ next' \in [Workers -> Nat \ {0}]
        <4>1. pc \in [Workers -> Phases] /\ next \in [Workers -> Nat \ {0}]
          BY DEF TypeOK
        <4>2. \/ Goto(w, "load", next[w] + 1)
              \/ Goto(w, "replay", next[w])
          BY <3>1
        <4> QED BY <4>1, <4>2 DEF Goto, Phases
      <3>3. agg' \in [Workers -> [Accounts -> Aggregates]]
        <4>1. [agg EXCEPT ![w][a] = LoadFromHistory(agg[w][a], e)]
                \in [Workers -> [Accounts -> Aggregates]]
          BY <2>1, <2>4, AggregateUpdateType
        <4> QED BY <3>1, <4>1
      <3> QED BY <3>1, <3>2, <3>3 DEF TypeOK, tables
    <2>6. CASE ~ ensurePostingAllowed(agg[w][a].balance, e.posting)
      BY <2>2, <2>6, RollBackType
    <2> QED BY <2>5, <2>6
  <1>5. ASSUME NEW w \in Workers, ensureLedgerPostingsState(w) PROVE TypeOK'
    <2>1. \/ RollBack(w)
          \/ /\ Goto(w, "apply", 1)
             /\ UNCHANGED << tables, rowHolder, issued, req, applied, loaded, agg, tail >>
      BY <1>5 DEF ensureLedgerPostingsState
    <2>2. CASE RollBack(w)
      BY <2>2, RollBackType
    <2>3. CASE /\ Goto(w, "apply", 1)
               /\ UNCHANGED << tables, rowHolder, issued, req, applied, loaded, agg, tail >>
      BY <2>3 DEF TypeOK, Goto, Phases, tables
    <2> QED BY <2>1, <2>2, <2>3
  <1>6. ASSUME NEW w \in Workers, applyPosting(w) PROVE TypeOK'
    <2> DEFINE p == leg(w)
    <2>1. p \in Postings /\ p.account \in Accounts
      BY <1>6, LegType DEF applyPosting
    <2>2. ApplyChange(agg[w][p.account], p) \in Aggregates
      BY <2>1, AggregateSteps DEF TypeOK
    <2>3. \/ /\ agg' = [agg EXCEPT ![w][p.account] = ApplyChange(agg[w][p.account], p)]
             /\ applied' = [applied EXCEPT ![w] = @ + 1]
          \/ UNCHANGED << agg, applied >>
      BY <1>6 DEF applyPosting
    <2> HIDE DEF p
    <2>4. agg' \in [Workers -> [Accounts -> Aggregates]]
      <3>1. CASE agg' = [agg EXCEPT ![w][p.account] = ApplyChange(agg[w][p.account], p)]
        BY <2>1, <2>2, <3>1, AggregateUpdateType
      <3>2. CASE UNCHANGED agg
        BY <3>2 DEF TypeOK
      <3> QED BY <2>3, <3>1, <3>2
    <2>5. applied' = [applied EXCEPT ![w] = applied[w] + 1] \/ applied' = applied
      BY <1>6 DEF applyPosting
    <2>6. applied' \in [Workers -> Nat]
      <3>1. applied \in [Workers -> Nat]
        BY DEF TypeOK
      <3> QED BY <2>5, <3>1
    <2>7. /\ Goto(w, "apply", next[w] + 1)
          /\ UNCHANGED << tables, rowHolder, issued, req, loaded, tail >>
      BY <1>6 DEF applyPosting
    <2> QED BY <2>4, <2>6, <2>7 DEF TypeOK, Goto, Phases, tables
  <1>7. ASSUME NEW w \in Workers, startSaving(w) PROVE TypeOK'
    BY <1>7 DEF TypeOK, startSaving, Goto, Phases, tables
  <1>8. ASSUME NEW w \in Workers, saveLedgerAccount(w) PROVE TypeOK'
    <2>1. leg(w).account \in Accounts
      BY <1>8, LegType DEF saveLedgerAccount
    <2> QED BY <1>8, <2>1 DEF TypeOK, saveLedgerAccount, Goto, Phases, tables
  <1>9. ASSUME NEW w \in Workers, commit(w) PROVE TypeOK'
    <2>1. \A a \in loaded[w] : a \in Accounts /\ agg[w][a] \in Aggregates
      BY DEF TypeOK
    <2>2. ledgerEvents' \subseteq Rows /\ snapshots' \subseteq SnapshotRows
      BY <1>9, FreshRowsType DEF TypeOK, commit
    <2>3. postedTransactions' \subseteq (Accounts \X TransactionIds)
      <3>1. \A e \in FreshRows(w) :
              << e.posting.account, e.posting.transaction >> \in Accounts \X TransactionIds
        BY FreshRowsType DEF Rows, Postings
      <3> QED BY <1>9, <3>1 DEF TypeOK, commit
    <2>4. aggregateVersion' \in [Accounts -> Nat]
      BY <1>9, <2>1 DEF TypeOK, commit, Aggregates
    <2>5. outbox' \in [Accounts -> Seq(Rows)]
      BY <1>9, <2>1 DEF TypeOK, commit, Aggregates
    <2>6. Leave(w)
      BY <1>9 DEF commit
    <2> QED BY <2>2, <2>3, <2>4, <2>5, <2>6, LeaveType DEF TypeOK
  <1>10. ASSUME NEW w \in Workers,
                \/ postingRejected(w) \/ nothingToSave(w) \/ saveConflict(w)
                \/ crash(w) \/ deadlockVictim(w)
         PROVE TypeOK'
    BY <1>10, RollBackType
       DEF postingRejected, nothingToSave, saveConflict, crash, deadlockVictim
  <1> QED BY <1>1, <1>2, <1>3, <1>4, <1>5, <1>6, <1>7, <1>8, <1>9, <1>10 DEF Next, Step

\* The state of the ledger stays well formed: in particular every worker books
\* postings of its own request only on accounts of the ledger.
THEOREM TypeCorrect == Spec => []TypeOK
  <1>1. Init => TypeOK
    BY AnyRequestType, NewAggregateType DEF Init, TypeOK, Phases
  <1> QED BY <1>1, TypeOKStep, PTL DEF Spec

-----------------------------------------------------------------------------
(***************************************************************************)
(* The inductive invariant.  It says what the workers' copies are worth:    *)
(* their events are numbered from the version they were loaded at, which    *)
(* is the version of the row from the moment the row is held; a worker that *)
(* saves has booked every leg of its request; and it holds the rows it has  *)
(* gone through.  What commits is therefore whole, new and next in line.    *)
(***************************************************************************)

\* A copy g of account a, loaded at or below version n, for the legs L.
WellNumbered(g, a, n, L) ==
    /\ g.base <= n
    /\ g.version = g.base + Len(g.fresh)
    /\ \A i \in 1..Len(g.fresh) :
         /\ g.fresh[i].version = g.base + i
         /\ g.fresh[i].posting.account = a
         /\ g.fresh[i].posting \in g.posted
         /\ \E k \in 1..Len(L) : g.fresh[i].posting = L[k]
    /\ \A i, j \in 1..Len(g.fresh) :
         g.fresh[i].posting.transaction = g.fresh[j].posting.transaction => i = j

\* The copy a worker has of an account.
Numbered(w, a) == WellNumbered(agg[w][a], a, aggregateVersion[a], legs(w))

\* Leg i of a worker's request is among its uncommitted events.
Booked(w, i) ==
    LET g == agg[w][legs(w)[i].account]
    IN \E k \in 1..Len(g.fresh) : g.fresh[k].posting = legs(w)[i]

LoopInv(w) ==
    /\ pc[w] = "idle" => loaded[w] = {} /\ applied[w] = 0
    /\ pc[w] \in {"load", "replay"} =>
          /\ applied[w] = 0
          /\ \A a \in loaded[w] : agg[w][a].fresh = << >>
          /\ \A i \in 1..Len(legs(w)) : i < next[w] => legs(w)[i].account \in loaded[w]
    /\ pc[w] = "replay" =>
          /\ InLoop(w)
          /\ leg(w).account \in loaded[w]
          /\ tail[w] \subseteq EventsOf(leg(w).account)
    /\ pc[w] \in {"apply", "save"} =>
          \A i \in 1..Len(legs(w)) : legs(w)[i].account \in loaded[w]
    /\ pc[w] = "apply" =>
          /\ next[w] <= Len(legs(w)) + 1
          /\ applied[w] <= next[w] - 1
          /\ applied[w] = next[w] - 1 =>
                \A i \in 1..Len(legs(w)) : i < next[w] => Booked(w, i)
    /\ pc[w] = "save" => \A i \in 1..Len(legs(w)) : Booked(w, i)

WorkerInv(w) ==
    /\ LoopInv(w)
    /\ \A a \in loaded[w] :
          /\ Numbered(w, a)
          /\ \E i \in 1..Len(legs(w)) : legs(w)[i].account = a

\* What holding a row means.
RowsInv ==
    /\ \A w \in Workers, a \in Accounts : rowHolder[a] = w =>
          /\ pc[w] = "save"
          /\ a \in loaded[w]
          /\ agg[w][a].base = aggregateVersion[a]
          /\ \A i \in 1..Len(agg[w][a].fresh) :
                << a, agg[w][a].fresh[i].posting.transaction >> \notin postedTransactions
    /\ \A w \in Workers : pc[w] = "save" =>
          \A i \in 1..Len(legs(w)) : i < next[w] => rowHolder[legs(w)[i].account] = w

TablesInv ==
    /\ \A s \in snapshots : s.version <= aggregateVersion[s.account]
    /\ \A e \in ledgerEvents :
          << e.posting.account, e.posting.transaction >> \in postedTransactions
    /\ GaplessHistory
    /\ PostedOnce
    /\ DoubleEntry
    /\ RequestsAreAtomic
    /\ OutboxIsHistory

Inv == TypeOK /\ TablesInv /\ RowsInv /\ \A w \in Workers : WorkerInv(w)

-----------------------------------------------------------------------------
(* What a step of one worker leaves alone *)

SameWorker(v) ==
    /\ pc'[v] = pc[v]
    /\ req'[v] = req[v]
    /\ next'[v] = next[v]
    /\ applied'[v] = applied[v]
    /\ loaded'[v] = loaded[v]
    /\ agg'[v] = agg[v]
    /\ tail'[v] = tail[v]

\* The invariant of a worker that does not move survives what others commit.
LEMMA SameWorkerInv ==
    ASSUME TypeOK, NEW v \in Workers, WorkerInv(v), SameWorker(v),
           ledgerEvents \subseteq ledgerEvents',
           aggregateVersion' \in [Accounts -> Nat],
           \A a \in Accounts : aggregateVersion[a] <= aggregateVersion'[a]
    PROVE  WorkerInv(v)'
  <1>1. legs(v)' = legs(v) /\ leg(v)' = leg(v) /\ InLoop(v)' = InLoop(v)
    BY DEF SameWorker, legs, leg, InLoop
  <1>2. \A i : Booked(v, i)' = Booked(v, i)
    BY <1>1 DEF SameWorker, Booked
  <1>3. \A a : EventsOf(a) \subseteq EventsOf(a)'
    BY DEF EventsOf
  <1>4. LoopInv(v)'
    <2>1. LoopInv(v)
      BY DEF WorkerInv
    <2>2. (pc[v] = "replay" => tail[v] \subseteq EventsOf(leg(v).account))'
      BY <1>1, <1>3, <2>1 DEF LoopInv, SameWorker
    <2> QED BY <1>1, <1>2, <2>1, <2>2, Zenon DEF LoopInv, SameWorker
  <1>5. ASSUME NEW a \in loaded'[v] PROVE Numbered(v, a)'
    <2>1. a \in loaded[v] /\ a \in Accounts /\ agg[v][a] \in Aggregates
      BY DEF TypeOK, SameWorker
    <2>2. Numbered(v, a)
      BY <2>1 DEF WorkerInv
    <2>3. agg[v][a].base <= aggregateVersion'[a]
      <3>1. agg[v][a].base \in Nat /\ aggregateVersion[a] \in Nat /\ aggregateVersion'[a] \in Nat
        BY <2>1 DEF TypeOK, Aggregates
      <3>2. agg[v][a].base <= aggregateVersion[a]
        BY <2>2 DEF Numbered, WellNumbered
      <3> QED BY <2>1, <3>1, <3>2
    <2>4. legs(v)' = legs(v) /\ agg'[v] = agg[v]
      BY <1>1 DEF SameWorker
    <2> QED BY <2>2, <2>3, <2>4, SMTT(30) DEF Numbered, WellNumbered
  <1> QED BY <1>1, <1>4, <1>5 DEF WorkerInv, SameWorker

\* A worker that has not reached its saves holds no row.
LEMMA LocalRowsInv ==
    ASSUME TypeOK, RowsInv, NEW w \in Workers,
           pc[w] # "save", pc'[w] = "save" => next'[w] = 1,
           \A v \in Workers \ {w} : SameWorker(v),
           UNCHANGED << rowHolder, aggregateVersion, postedTransactions >>
    PROVE  RowsInv'
  <1>1. ASSUME NEW v \in Workers, NEW a \in Accounts, rowHolder'[a] = v
        PROVE  /\ pc'[v] = "save"
               /\ a \in loaded'[v]
               /\ agg'[v][a].base = aggregateVersion'[a]
               /\ \A i \in 1..Len(agg'[v][a].fresh) :
                    << a, agg'[v][a].fresh[i].posting.transaction >> \notin postedTransactions'
    <2>1. rowHolder[a] = v
      BY <1>1
    <2>2. v # w
      BY <2>1 DEF RowsInv
    <2> QED BY <2>1, <2>2 DEF RowsInv, SameWorker
  <1>2. ASSUME NEW v \in Workers, pc'[v] = "save", NEW i \in 1..Len(legs(v)'), i < next'[v]
        PROVE  rowHolder'[legs(v)'[i].account] = v
    <2>1. CASE v = w
      BY <1>2, <2>1
    <2>2. CASE v # w
      BY <1>2, <2>2 DEF RowsInv, SameWorker, legs
    <2> QED BY <2>1, <2>2
  <1> QED BY <1>1, <1>2 DEF RowsInv

LEMMA SameTablesInv ==
    ASSUME TablesInv, UNCHANGED tables
    PROVE  TablesInv'
  <1>1. UNCHANGED << ledgerEvents, postedTransactions, aggregateVersion, snapshots, outbox >>
    BY DEF tables
  <1>2. GaplessHistory'
    BY <1>1 DEF TablesInv, GaplessHistory, EventsOf
  <1>3. PostedOnce' /\ DoubleEntry' /\ RequestsAreAtomic' /\ OutboxIsHistory'
    BY <1>1, ZenonT(40) DEF TablesInv, PostedOnce, DoubleEntry, RequestsAreAtomic, OutboxIsHistory
  <1> QED BY <1>1, <1>2, <1>3 DEF TablesInv

\* Leaving a transaction, with or without a commit.
LEMMA LeaveWorkerInv ==
    ASSUME TypeOK, NEW w \in Workers, Leave(w)
    PROVE  /\ WorkerInv(w)'
           /\ \A v \in Workers \ {w} : SameWorker(v)
  <1>1. pc'[w] = "idle" /\ loaded'[w] = {} /\ applied'[w] = 0
    BY DEF TypeOK, Leave
  <1>2. WorkerInv(w)'
    BY <1>1 DEF WorkerInv, LoopInv
  <1>3. \A v \in Workers \ {w} : SameWorker(v)
    BY DEF TypeOK, Leave, SameWorker
  <1> QED BY <1>2, <1>3

LEMMA RollBackInv ==
    ASSUME Inv, NEW w \in Workers, RollBack(w)
    PROVE  Inv'
  <1>1. TypeOK /\ Leave(w) /\ UNCHANGED tables
    BY DEF Inv, RollBack
  <1>2. TypeOK'
    BY <1>1, RollBackType
  <1>3. TablesInv'
    BY <1>1, SameTablesInv DEF Inv
  <1>4. WorkerInv(w)' /\ \A v \in Workers \ {w} : SameWorker(v)
    BY <1>1, LeaveWorkerInv
  <1>5. \A v \in Workers : WorkerInv(v)'
    <2>1. ASSUME NEW v \in Workers \ {w} PROVE WorkerInv(v)'
      <3>1. /\ ledgerEvents \subseteq ledgerEvents'
            /\ aggregateVersion' \in [Accounts -> Nat]
            /\ \A a \in Accounts : aggregateVersion[a] <= aggregateVersion'[a]
        BY <1>1 DEF TypeOK, tables
      <3>2. WorkerInv(v) /\ SameWorker(v)
        BY <1>4 DEF Inv
      <3> QED BY <1>1, <3>1, <3>2, SameWorkerInv
    <2> QED BY <1>4, <2>1
  <1>6. RowsInv'
    <2>1. RowsInv
      BY DEF Inv
    <2>2. pc'[w] = "idle"
      BY <1>1 DEF TypeOK, Leave
    <2>3. ASSUME NEW v \in Workers, NEW a \in Accounts, rowHolder'[a] = v
          PROVE  v # w /\ rowHolder[a] = v
      BY <1>1, <2>3, WorkersAssumption DEF Leave
    <2>4. ASSUME NEW v \in Workers \ {w}, NEW a \in Accounts, rowHolder[a] = v
          PROVE  rowHolder'[a] = v
      BY <1>1, <2>4 DEF Leave
    <2>5. ASSUME NEW v \in Workers, pc'[v] = "save", NEW i \in 1..Len(legs(v)'), i < next'[v]
          PROVE  rowHolder'[legs(v)'[i].account] = v
      <3>1. v # w
        BY <2>2, <2>5
      <3>2. pc[v] = "save" /\ legs(v)' = legs(v) /\ next'[v] = next[v]
        BY <1>4, <2>5, <3>1 DEF SameWorker, legs
      <3>3. rowHolder[legs(v)[i].account] = v
        BY <2>1, <2>5, <3>2 DEF RowsInv
      <3>4. legs(v)[i].account \in Accounts
        <4>1. legs(v) \in Seq(Postings)
          BY <1>1, LegsBalanced DEF TypeOK, legs, Balanced
        <4>2. legs(v)[i] \in Postings
          BY <2>5, <3>2, <4>1
        <4> QED BY <4>2 DEF Postings
      <3> QED BY <2>4, <3>1, <3>2, <3>3, <3>4
    <2>6. UNCHANGED << aggregateVersion, postedTransactions >>
      BY <1>1 DEF tables
    <2> QED BY <1>4, <2>1, <2>3, <2>5, <2>6 DEF RowsInv, SameWorker
  <1> QED BY <1>2, <1>3, <1>5, <1>6 DEF Inv

\* A step inside a transaction, before its saves.
LEMMA LocalInv ==
    ASSUME Inv, TypeOK', NEW w \in Workers, UNCHANGED << tables, rowHolder >>,
           pc[w] # "save", pc'[w] = "save" => next'[w] = 1,
           \A v \in Workers \ {w} : SameWorker(v), WorkerInv(w)'
    PROVE  Inv'
  <1>1. TypeOK /\ RowsInv /\ TablesInv /\ \A v \in Workers : WorkerInv(v)
    BY DEF Inv
  <1>2. UNCHANGED tables /\ UNCHANGED << rowHolder, aggregateVersion, postedTransactions >>
    BY DEF tables
  <1>3. TablesInv'
    BY <1>1, <1>2, SameTablesInv
  <1>4. RowsInv'
    BY <1>1, <1>2, LocalRowsInv
  <1>5. /\ ledgerEvents \subseteq ledgerEvents'
        /\ aggregateVersion' \in [Accounts -> Nat]
        /\ \A a \in Accounts : aggregateVersion[a] <= aggregateVersion'[a]
    BY <1>1 DEF TypeOK, tables
  <1>6. \A v \in Workers \ {w} : WorkerInv(v)'
    BY <1>1, <1>5, SameWorkerInv
  <1> QED BY <1>3, <1>4, <1>6 DEF Inv

LEMMA BeginInv ==
    ASSUME Inv, TypeOK', NEW w \in Workers, NEW r \in Requests, Begin(w, r)
    PROVE  Inv'
  <1>1. TypeOK /\ LoopInv(w)
    BY DEF Inv, WorkerInv
  <1>2. /\ pc[w] = "idle" /\ pc'[w] = "load" /\ next'[w] = 1
        /\ loaded'[w] = {} /\ applied'[w] = 0
    BY <1>1 DEF TypeOK, Begin, Goto, LoopInv
  <1>3. \A v \in Workers \ {w} : SameWorker(v)
    BY <1>1 DEF TypeOK, Begin, Goto, SameWorker
  <1>4. WorkerInv(w)'
    <2>1. \A i \in 1..Len(legs(w)') : ~ (i < next'[w])
      BY <1>2
    <2> QED BY <1>2, <2>1 DEF WorkerInv, LoopInv
  <1>5. UNCHANGED << tables, rowHolder >>
    BY DEF Begin
  <1> QED BY <1>2, <1>3, <1>4, <1>5, LocalInv

\* A copy is never ahead of its row: what is read is committed.
LEMMA ReadSnapshotFacts ==
    ASSUME Inv, NEW a \in Accounts, NEW g \in ReadSnapshot(a)
    PROVE  /\ g.fresh = << >>
           /\ g.version = g.base
           /\ g.base <= aggregateVersion[a]
  <1>1. TypeOK /\ TablesInv
    BY DEF Inv
  <1>2. aggregateVersion[a] \in Nat
    BY <1>1 DEF TypeOK
  <1>3. CASE SnapshotsOf(a) = {}
    BY <1>2, <1>3 DEF ReadSnapshot, NewLedgerAccountAggregate
  <1>4. CASE SnapshotsOf(a) # {}
    <2>1. PICK s \in SnapshotsOf(a) :
             g = [base |-> s.version, version |-> s.version, balance |-> s.balance,
                  posted |-> s.posted, fresh |-> << >>]
      BY <1>4 DEF ReadSnapshot
    <2>2. s \in snapshots /\ s.account = a
      BY DEF SnapshotsOf
    <2>3. s.version <= aggregateVersion[a]
      BY <1>1, <2>2 DEF TablesInv
    <2> QED BY <2>1, <2>3
  <1> QED BY <1>3, <1>4

\* An aggregate with no events of its own, loaded from what is committed.
LEMMA LoadedNumbered ==
    ASSUME NEW w, NEW a, agg[w][a].fresh = << >>, agg[w][a].version = agg[w][a].base,
           agg[w][a].base \in Nat, agg[w][a].base <= aggregateVersion[a]
    PROVE  Numbered(w, a)
  BY DEF Numbered, WellNumbered

\* Legs of a worker are postings of ledger accounts.
LEMMA LegsType ==
    ASSUME TypeOK, NEW w \in Workers
    PROVE  /\ legs(w) \in Seq(Postings)
           /\ Len(legs(w)) \in Nat
           /\ \A i \in 1..Len(legs(w)) : legs(w)[i] \in Postings /\ legs(w)[i].account \in Accounts
  <1>1. legs(w) \in Seq(Postings)
    BY LegsBalanced DEF TypeOK, legs, Balanced
  <1>2. \A i \in 1..Len(legs(w)) : legs(w)[i] \in Postings
    BY <1>1
  <1> QED BY <1>1, <1>2 DEF Postings

\* A copy that was only loaded.
LEMMA NothingFresh ==
    ASSUME NEW g, NEW a, NEW n, NEW L,
           g.fresh = << >>, g.version = g.base, g.base \in Nat, g.base <= n
    PROVE  WellNumbered(g, a, n, L)
  BY DEF WellNumbered

\* One account of the load loop, read from a snapshot or replayed further.
LEMMA LoadStepInv ==
    ASSUME Inv, TypeOK', NEW w \in Workers, NEW a,
           pc[w] \in {"load", "replay"}, InLoop(w), a = leg(w).account,
           UNCHANGED << tables, req, applied >>,
           loaded'[w] = loaded[w] \cup {a},
           \A b \in Accounts \ {a} : agg'[w][b] = agg[w][b],
           agg'[w][a].fresh = << >>,
           agg'[w][a].version = agg'[w][a].base,
           agg'[w][a].base <= aggregateVersion[a],
           \/ pc'[w] = "load" /\ next'[w] = next[w] + 1
           \/ pc'[w] = "replay" /\ next'[w] = next[w] /\ tail'[w] \subseteq EventsOf(a)
    PROVE  WorkerInv(w)'
  <1>1. TypeOK /\ LoopInv(w) /\ a \in Accounts
    BY LegType DEF Inv, WorkerInv
  <1>2. UNCHANGED << ledgerEvents, aggregateVersion, req, applied >>
    BY DEF tables
  <1>3. legs(w)' = legs(w)
    BY <1>2 DEF legs
  <1>4. /\ next[w] \in 1..Len(legs(w)) /\ legs(w)[next[w]] = leg(w)
        /\ next[w] \in Nat /\ Len(legs(w)) \in Nat
    BY <1>1, LegsType DEF InLoop, TypeOK, leg
  <1>5. \A b \in loaded'[w] : agg'[w][b].fresh = << >>
    BY <1>1 DEF LoopInv, TypeOK
  <1>6. ASSUME NEW i \in 1..Len(legs(w)), i < next'[w]
        PROVE  legs(w)[i].account \in loaded'[w]
    BY <1>1, <1>4, <1>6 DEF LoopInv
  <1>7. pc'[w] = "replay" =>
          /\ InLoop(w)'
          /\ leg(w)' = leg(w)
          /\ tail'[w] \subseteq EventsOf(a)'
    BY <1>2, <1>3 DEF InLoop, leg, EventsOf
  <1>8. LoopInv(w)'
    <2>1. pc'[w] \in {"load", "replay"}
      OBVIOUS
    <2>2. applied'[w] = 0
      BY <1>1, <1>2 DEF LoopInv
    <2>3. (\A i \in 1..Len(legs(w)) : i < next[w] => legs(w)[i].account \in loaded[w])'
      BY <1>3, <1>6
    <2>4. pc'[w] = "replay" =>
            /\ InLoop(w)'
            /\ leg(w)'.account \in loaded'[w]
            /\ (tail[w] \subseteq EventsOf(leg(w).account))'
      BY <1>2, <1>7 DEF EventsOf
    <2>5. pc'[w] \notin {"idle", "apply", "save"}
      BY <2>1
    <2> QED BY <1>5, <2>1, <2>2, <2>3, <2>4, <2>5 DEF LoopInv
  <1>9. ASSUME NEW b \in loaded'[w] PROVE Numbered(w, b)'
    <2>1. b \in Accounts
      BY <1>1 DEF TypeOK
    <2>2. CASE b = a
      <3>1. agg'[w][a].base \in Nat
        BY <1>1 DEF TypeOK, Aggregates
      <3>2. WellNumbered(agg'[w][a], a, aggregateVersion[a], legs(w)')
        BY <3>1, NothingFresh
      <3> QED BY <1>2, <2>2, <3>2 DEF Numbered
    <2>3. CASE b # a
      <3>1. Numbered(w, b)
        BY <2>3 DEF Inv, WorkerInv
      <3>2. agg'[w][b] = agg[w][b]
        BY <2>1, <2>3
      <3> QED BY <1>2, <1>3, <3>1, <3>2 DEF Numbered
    <2> QED BY <2>2, <2>3
  <1>10. ASSUME NEW b \in loaded'[w] PROVE \E i \in 1..Len(legs(w)) : legs(w)[i].account = b
    BY <1>4 DEF Inv, WorkerInv
  <1> QED BY <1>3, <1>8, <1>9, <1>10 DEF WorkerInv

LEMMA LoadInv ==
    ASSUME Inv, TypeOK', NEW w \in Workers, loadLedgerAccount(w)
    PROVE  Inv'
  <1> DEFINE a == leg(w).account
  <1>1. /\ TypeOK /\ LoopInv(w) /\ a \in Accounts
        /\ pc[w] = "load" /\ InLoop(w)
        /\ UNCHANGED << tables, rowHolder, issued, req, applied >>
    BY LegType DEF Inv, WorkerInv, loadLedgerAccount
  <1>2. CASE a \in loaded[w]
    <2>1. Goto(w, "load", next[w] + 1) /\ UNCHANGED << loaded, agg, tail >>
      BY <1>2 DEF loadLedgerAccount
    <2>2. pc'[w] = "load" /\ next'[w] = next[w] + 1
      BY <1>1, <2>1 DEF Goto, TypeOK
    <2>3. \A v \in Workers \ {w} : SameWorker(v)
      BY <1>1, <2>1 DEF SameWorker, Goto, TypeOK
    <2>4. agg[w][a].fresh = << >>
      BY <1>1, <1>2 DEF LoopInv
    <2>5. /\ agg[w][a].base <= aggregateVersion[a]
          /\ agg[w][a].version = agg[w][a].base
      <3>1. Numbered(w, a)
        BY <1>2 DEF Inv, WorkerInv
      <3>2. agg[w][a].base \in Nat
        BY <1>1 DEF TypeOK, Aggregates
      <3> QED BY <2>4, <3>1, <3>2 DEF Numbered, WellNumbered
    <2>6. WorkerInv(w)'
      BY <1>1, <1>2, <2>1, <2>2, <2>4, <2>5, LoadStepInv
    <2> QED BY <1>1, <2>2, <2>3, <2>6, LocalInv
  <1>3. CASE a \notin loaded[w]
    <2> DEFINE after(g) == { e \in EventsOf(a) : e.version > g.version }
    <2>1. PICK g \in ReadSnapshot(a) :
            /\ loaded' = [loaded EXCEPT ![w] = @ \cup {a}]
            /\ agg' = [agg EXCEPT ![w][a] = g]
            /\ tail' = [tail EXCEPT ![w] = after(g)]
            /\ IF after(g) = {} THEN Goto(w, "load", next[w] + 1)
                                ELSE Goto(w, "replay", next[w])
      BY <1>3 DEF loadLedgerAccount
    <2>2. after(g) \subseteq EventsOf(a)
      OBVIOUS
    <2> HIDE DEF after, a
    <2>3. Goto(w, "load", next[w] + 1) \/ Goto(w, "replay", next[w])
      BY <2>1
    <2>4. /\ loaded'[w] = loaded[w] \cup {a}
          /\ agg'[w][a] = g
          /\ \A b \in Accounts \ {a} : agg'[w][b] = agg[w][b]
          /\ tail'[w] = after(g)
      BY <1>1, <2>1 DEF TypeOK
    <2>5. \/ pc'[w] = "load" /\ next'[w] = next[w] + 1
          \/ pc'[w] = "replay" /\ next'[w] = next[w]
      BY <1>1, <2>3 DEF Goto, TypeOK
    <2>6. \A v \in Workers \ {w} : SameWorker(v)
      <3>1. \A v \in Workers \ {w} : pc'[v] = pc[v] /\ next'[v] = next[v]
        BY <1>1, <2>3 DEF Goto, TypeOK
      <3>2. \A v \in Workers \ {w} : loaded'[v] = loaded[v] /\ agg'[v] = agg[v] /\ tail'[v] = tail[v]
        BY <1>1, <2>1 DEF TypeOK
      <3> QED BY <1>1, <3>1, <3>2 DEF SameWorker
    <2>7. g.fresh = << >> /\ g.version = g.base /\ g.base <= aggregateVersion[a]
      BY <1>1, ReadSnapshotFacts
    <2>8. WorkerInv(w)'
      <3>1. a = leg(w).account
        BY DEF a
      <3> QED BY <1>1, <2>2, <2>4, <2>5, <2>7, <3>1, LoadStepInv
    <2> QED BY <1>1, <2>5, <2>6, <2>8, LocalInv
  <1> QED BY <1>2, <1>3

LEMMA ReplayInv ==
    ASSUME Inv, TypeOK', NEW w \in Workers, replayEvent(w)
    PROVE  Inv'
  <1> DEFINE a == leg(w).account
  <1>1. /\ TypeOK /\ LoopInv(w) /\ a \in Accounts
        /\ pc[w] = "replay" /\ InLoop(w)
    BY LegType DEF Inv, WorkerInv, replayEvent
  <1>2. PICK e \in Oldest(w) :
          IF ensurePostingAllowed(agg[w][a].balance, e.posting)
          THEN /\ agg' = [agg EXCEPT ![w][a] = LoadFromHistory(agg[w][a], e)]
               /\ tail' = [tail EXCEPT ![w] = @ \ {e}]
               /\ IF tail[w] = {e} THEN Goto(w, "load", next[w] + 1)
                                   ELSE Goto(w, "replay", next[w])
               /\ UNCHANGED << tables, rowHolder, issued, req, applied, loaded >>
          ELSE RollBack(w)
    BY DEF replayEvent
  <1> HIDE DEF a
  <1>3. CASE ~ ensurePostingAllowed(agg[w][a].balance, e.posting)
    BY <1>2, <1>3, RollBackInv
  <1>4. CASE ensurePostingAllowed(agg[w][a].balance, e.posting)
    <2> DEFINE g == LoadFromHistory(agg[w][a], e)
    <2>1. /\ agg' = [agg EXCEPT ![w][a] = g]
          /\ tail' = [tail EXCEPT ![w] = @ \ {e}]
          /\ Goto(w, "load", next[w] + 1) \/ Goto(w, "replay", next[w])
          /\ UNCHANGED << tables, rowHolder, issued, req, applied, loaded >>
      BY <1>2, <1>4
    <2>2. e \in tail[w] /\ tail[w] \subseteq EventsOf(a) /\ a \in loaded[w]
      BY <1>1 DEF Oldest, LoopInv, a
    <2>3. e.version \in 1..aggregateVersion[a]
      BY <1>1, <2>2 DEF Inv, TablesInv, GaplessHistory
    <2>4. agg[w][a].fresh = << >>
      BY <1>1, <2>2 DEF LoopInv
    <2>5. g.fresh = << >> /\ g.version = g.base /\ g.base <= aggregateVersion[a]
      BY <1>1, <2>3, <2>4 DEF LoadFromHistory, TypeOK
    <2> HIDE DEF g
    <2>6. /\ agg'[w][a] = g
          /\ \A b \in Accounts \ {a} : agg'[w][b] = agg[w][b]
      <3>1. agg \in [Workers -> [Accounts -> Aggregates]]
        BY <1>1 DEF TypeOK
      <3> QED BY <1>1, <2>1, <3>1
    <2>7. tail'[w] \subseteq EventsOf(a) /\ loaded'[w] = loaded[w] \cup {a}
      <3>1. tail \in [Workers -> SUBSET Rows]
        BY <1>1 DEF TypeOK
      <3>2. tail' = [tail EXCEPT ![w] = @ \ {e}] /\ loaded' = loaded
        BY <2>1
      <3> QED BY <2>2, <3>1, <3>2
    <2>8. Goto(w, "load", next[w] + 1) \/ Goto(w, "replay", next[w])
      BY <2>1
    <2>9. \/ pc'[w] = "load" /\ next'[w] = next[w] + 1
          \/ pc'[w] = "replay" /\ next'[w] = next[w]
      BY <1>1, <2>8 DEF Goto, TypeOK
    <2>10. \A v \in Workers \ {w} : SameWorker(v)
      <3>1. \A v \in Workers \ {w} : pc'[v] = pc[v] /\ next'[v] = next[v]
        BY <1>1, <2>8 DEF Goto, TypeOK
      <3>2. agg' = [agg EXCEPT ![w][a] = g] /\ tail' = [tail EXCEPT ![w] = @ \ {e}]
        BY <2>1
      <3>3. \A v \in Workers \ {w} : agg'[v] = agg[v] /\ tail'[v] = tail[v]
        BY <1>1, <3>2 DEF TypeOK
      <3>4. UNCHANGED << req, applied, loaded >>
        BY <2>1
      <3> QED BY <3>1, <3>3, <3>4 DEF SameWorker
    <2>11. WorkerInv(w)'
      <3>1. a = leg(w).account
        BY DEF a
      <3>2. UNCHANGED << tables, req, applied >>
        BY <2>1
      <3> QED BY <1>1, <2>5, <2>6, <2>7, <2>9, <3>1, <3>2, LoadStepInv
    <2>12. UNCHANGED << tables, rowHolder >>
      BY <2>1
    <2> QED BY <1>1, <2>9, <2>10, <2>11, <2>12, LocalInv
  <1> QED BY <1>3, <1>4

LEMMA EnsureInv ==
    ASSUME Inv, TypeOK', NEW w \in Workers, ensureLedgerPostingsState(w)
    PROVE  Inv'
  <1>1. TypeOK /\ WorkerInv(w) /\ LoopInv(w) /\ pc[w] = "load" /\ ~ InLoop(w)
    BY DEF Inv, WorkerInv, ensureLedgerPostingsState
  <1>2. \/ RollBack(w)
        \/ /\ Goto(w, "apply", 1)
           /\ UNCHANGED << tables, rowHolder, issued, req, applied, loaded, agg, tail >>
    BY DEF ensureLedgerPostingsState
  <1>3. CASE RollBack(w)
    BY <1>3, RollBackInv
  <1>4. CASE /\ Goto(w, "apply", 1)
             /\ UNCHANGED << tables, rowHolder, issued, req, applied, loaded, agg, tail >>
    <2>1. UNCHANGED << tables, rowHolder >>
      BY <1>4
    <2>2. UNCHANGED << ledgerEvents, aggregateVersion, req, applied, loaded, agg, tail >>
      BY <1>4 DEF tables
    <2>3. pc'[w] = "apply" /\ next'[w] = 1
      BY <1>1, <1>4 DEF Goto, TypeOK
    <2>4. \A v \in Workers \ {w} : SameWorker(v)
      BY <1>1, <1>4 DEF Goto, TypeOK, SameWorker
    <2>5. legs(w)' = legs(w)
      BY <2>2 DEF legs
    <2>6. \A i \in 1..Len(legs(w)) : legs(w)[i].account \in loaded[w]
      BY <1>1, LegsType DEF LoopInv, InLoop, TypeOK
    <2>7. LoopInv(w)'
      <3>1. applied'[w] = 0 /\ applied'[w] = next'[w] - 1
        BY <1>1, <2>2, <2>3 DEF LoopInv
      <3>2. next'[w] <= Len(legs(w)') + 1
        BY <1>1, <2>3, <2>5, LegsType
      <3>3. \A i \in 1..Len(legs(w)') : ~ (i < next'[w])
        BY <2>3
      <3>4. \A i \in 1..Len(legs(w)') : legs(w)'[i].account \in loaded'[w]
        BY <2>2, <2>5, <2>6
      <3> QED BY <2>3, <3>1, <3>2, <3>3, <3>4 DEF LoopInv
    <2>8. \A a \in loaded[w] : Numbered(w, a)'
      BY <1>1, <2>2, <2>5 DEF WorkerInv, Numbered
    <2>9. \A a \in loaded'[w] : \E i \in 1..Len(legs(w)') : legs(w)'[i].account = a
      BY <1>1, <2>2, <2>5 DEF WorkerInv
    <2>10. WorkerInv(w)'
      BY <2>2, <2>7, <2>8, <2>9 DEF WorkerInv
    <2> QED BY <1>1, <2>1, <2>3, <2>4, <2>10, LocalInv
  <1> QED BY <1>2, <1>3, <1>4

\* What ApplyChange adds to the uncommitted events.
LEMMA ApplyChangeFacts ==
    ASSUME NEW g \in Aggregates, NEW p \in Postings
    PROVE  LET h == ApplyChange(g, p)
           IN /\ h.base = g.base /\ h.version = g.version + 1
              /\ h.posted = g.posted \cup {p}
              /\ Len(h.fresh) = Len(g.fresh) + 1
              /\ h.fresh[Len(g.fresh) + 1].posting = p
              /\ h.fresh[Len(g.fresh) + 1].version = g.version + 1
              /\ \A i \in 1..Len(g.fresh) : h.fresh[i] = g.fresh[i]
              /\ Len(g.fresh) \in Nat
  <1>1. g.fresh \in Seq(Rows) /\ g.version \in Nat
    BY DEF Aggregates
  <1>2. [posting |-> p, version |-> g.version + 1] \in Rows
    BY <1>1 DEF Rows
  <1> QED BY <1>1, <1>2 DEF ApplyChange

\* Booking a leg that is not posted keeps the copy well numbered.
LEMMA ApplyChangeNumbered ==
    ASSUME NEW g \in Aggregates, NEW a, NEW n, NEW L, WellNumbered(g, a, n, L),
           NEW p \in Postings, p.account = a, PostedTransaction(g, p.transaction) = {},
           \E k \in 1..Len(L) : p = L[k]
    PROVE  WellNumbered(ApplyChange(g, p), a, n, L)
  <1> DEFINE h == ApplyChange(g, p)
             m == Len(g.fresh)
  <1>1. /\ h.base = g.base /\ h.version = g.version + 1
        /\ h.posted = g.posted \cup {p}
        /\ Len(h.fresh) = m + 1 /\ m \in Nat
        /\ h.fresh[m + 1].posting = p
        /\ h.fresh[m + 1].version = g.version + 1
        /\ \A i \in 1..m : h.fresh[i] = g.fresh[i]
    BY ApplyChangeFacts
  <1>2. g.base \in Nat /\ g.version = g.base + m
    BY DEF Aggregates, WellNumbered
  <1>3. \A q \in g.posted : q.transaction # p.transaction
    BY DEF PostedTransaction
  <1> HIDE DEF h
  <1>4. ASSUME NEW i \in 1..(m + 1)
        PROVE  /\ h.fresh[i].version = h.base + i
               /\ h.fresh[i].posting.account = a
               /\ h.fresh[i].posting \in h.posted
               /\ \E k \in 1..Len(L) : h.fresh[i].posting = L[k]
    <2>1. CASE i = m + 1
      <3>1. h.fresh[i].posting = p /\ h.fresh[i].version = g.version + 1
        BY <1>1, <2>1
      <3>2. h.fresh[i].version = h.base + i
        <4>1. \A x, y \in Nat : (x + y) + 1 = x + (y + 1)
          OBVIOUS
        <4>2. g.version + 1 = g.base + (m + 1)
          BY <1>1, <1>2, <4>1, Zenon
        <4> QED BY <1>1, <2>1, <3>1, <4>2, Zenon
      <3>3. p \in h.posted
        BY <1>1
      <3> QED BY <3>1, <3>2, <3>3
    <2>2. CASE i # m + 1
      <3>1. i \in 1..m
        BY <1>1, <2>2
      <3>2. /\ g.fresh[i].version = g.base + i
            /\ g.fresh[i].posting.account = a
            /\ g.fresh[i].posting \in g.posted
            /\ \E k \in 1..Len(L) : g.fresh[i].posting = L[k]
        BY <3>1 DEF WellNumbered
      <3>3. h.fresh[i] = g.fresh[i] /\ h.base = g.base /\ g.posted \subseteq h.posted
        BY <1>1, <3>1
      <3> QED BY <3>2, <3>3
    <2> QED BY <2>1, <2>2
  <1>5. ASSUME NEW i \in 1..(m + 1), NEW j \in 1..(m + 1),
               h.fresh[i].posting.transaction = h.fresh[j].posting.transaction
        PROVE  i = j
    <2>1. \A l \in 1..m : h.fresh[l].posting.transaction # p.transaction
      BY <1>1, <1>3 DEF WellNumbered
    <2>2. h.fresh[m + 1].posting.transaction = p.transaction
      BY <1>1
    <2>3. (i \in 1..m \/ i = m + 1) /\ (j \in 1..m \/ j = m + 1)
      BY <1>1
    <2>4. CASE i \in 1..m /\ j \in 1..m
      BY <1>1, <1>5, <2>4 DEF WellNumbered
    <2>5. CASE i = m + 1 \/ j = m + 1
      BY <1>5, <2>1, <2>2, <2>3, <2>5
    <2> QED BY <2>3, <2>4, <2>5
  <1>6. h.base <= n /\ h.version = h.base + Len(h.fresh)
    <2>1. g.base <= n
      BY DEF WellNumbered
    <2> QED BY <1>1, <1>2, <2>1
  <1>7. WellNumbered(h, a, n, L)
    BY <1>1, <1>4, <1>5, <1>6 DEF WellNumbered
  <1> QED BY <1>7 DEF h

LEMMA ApplyInv ==
    ASSUME Inv, TypeOK', NEW w \in Workers, applyPosting(w)
    PROVE  Inv'
  <1> DEFINE p == leg(w)
             a == p.account
             g == agg[w][a]
  <1>1. /\ TypeOK /\ WorkerInv(w) /\ LoopInv(w)
        /\ pc[w] = "apply" /\ InLoop(w)
        /\ p \in Postings /\ a \in Accounts
    BY LegType DEF Inv, WorkerInv, applyPosting
  <1>2. /\ Goto(w, "apply", next[w] + 1)
        /\ UNCHANGED << tables, rowHolder, issued, req, loaded, tail >>
    BY DEF applyPosting
  <1>3. pc'[w] = "apply" /\ next'[w] = next[w] + 1
    BY <1>1, <1>2 DEF Goto, TypeOK
  <1>4. UNCHANGED << ledgerEvents, aggregateVersion, req, loaded, tail >>
    BY <1>2 DEF tables
  <1>5. legs(w)' = legs(w) /\ Len(legs(w)) \in Nat
    BY <1>1, <1>4, LegsType DEF legs
  <1>6. next[w] \in 1..Len(legs(w)) /\ legs(w)[next[w]] = p
    BY <1>1, <1>5 DEF InLoop, TypeOK, leg
  <1>7. g \in Aggregates /\ applied[w] \in Nat /\ next[w] \in Nat
    BY <1>1 DEF TypeOK
  <1>8. \A i \in 1..Len(legs(w)) : legs(w)[i].account \in loaded[w]
    BY <1>1 DEF LoopInv
  <1>9. next'[w] <= Len(legs(w)) + 1
    BY <1>3, <1>5, <1>6
  <1>10. UNCHANGED << tables, rowHolder >>
    BY <1>2
  <1>11. CASE /\ PostedTransaction(g, p.transaction) = {}
              /\ agg' = [agg EXCEPT ![w][a] = ApplyChange(g, p)]
              /\ applied' = [applied EXCEPT ![w] = applied[w] + 1]
    <2> DEFINE h == ApplyChange(g, p)
    <2>1. /\ Len(h.fresh) = Len(g.fresh) + 1
          /\ h.fresh[Len(g.fresh) + 1].posting = p
          /\ \A i \in 1..Len(g.fresh) : h.fresh[i] = g.fresh[i]
          /\ Len(g.fresh) \in Nat
      BY <1>1, <1>7, ApplyChangeFacts
    <2>2. WellNumbered(h, a, aggregateVersion[a], legs(w))
      <3>1. WellNumbered(g, a, aggregateVersion[a], legs(w))
        BY <1>1, <1>6, <1>8 DEF WorkerInv, Numbered
      <3> QED BY <1>1, <1>6, <1>7, <1>11, <3>1, ApplyChangeNumbered
    <2>3. PostedTransaction(g, p.transaction) = {} /\ agg' = [agg EXCEPT ![w][a] = h]
      BY <1>11
    <2>4. applied'[w] = applied[w] + 1 /\ \A v \in Workers \ {w} : applied'[v] = applied[v]
      <3>1. applied \in [Workers -> Nat] /\ applied' = [applied EXCEPT ![w] = applied[w] + 1]
        BY <1>1, <1>11 DEF TypeOK
      <3> QED BY <3>1
    <2> HIDE DEF h, g, a, p
    <2>5. /\ agg'[w][a] = h
          /\ \A b \in Accounts \ {a} : agg'[w][b] = agg[w][b]
          /\ \A v \in Workers \ {w} : agg'[v] = agg[v]
      <3>1. agg \in [Workers -> [Accounts -> Aggregates]]
        BY <1>1 DEF TypeOK
      <3> QED BY <1>1, <2>3, <3>1
    <2>6. \A v \in Workers \ {w} : SameWorker(v)
      <3>1. \A v \in Workers \ {w} : pc'[v] = pc[v] /\ next'[v] = next[v]
        BY <1>1, <1>2 DEF Goto, TypeOK
      <3> QED BY <1>4, <2>4, <2>5, <3>1 DEF SameWorker
    <2>7. ASSUME NEW b \in loaded[w] PROVE Numbered(w, b)'
      <3>1. CASE b = a
        BY <1>4, <1>5, <2>2, <2>5, <3>1 DEF Numbered
      <3>2. CASE b # a
        <4>1. b \in Accounts /\ agg'[w][b] = agg[w][b] /\ Numbered(w, b)
          BY <1>1, <2>5, <3>2 DEF TypeOK, WorkerInv
        <4> QED BY <1>4, <1>5, <4>1 DEF Numbered
      <3> QED BY <3>1, <3>2
    <2>8. ASSUME NEW i \in 1..Len(legs(w)), Booked(w, i) PROVE Booked(w, i)'
      <3> DEFINE b == legs(w)[i].account
      <3>1. PICK k \in 1..Len(agg[w][b].fresh) : agg[w][b].fresh[k].posting = legs(w)[i]
        BY <2>8 DEF Booked
      <3>2. CASE b = a
        <4>1. agg[w][b] = g /\ agg'[w][b] = h
          BY <2>5, <3>2 DEF g
        <4>2. k \in 1..Len(g.fresh) /\ g.fresh[k].posting = legs(w)[i]
          BY <3>1, <4>1
        <4>3. k \in 1..Len(h.fresh) /\ h.fresh[k].posting = legs(w)[i]
          BY <2>1, <4>2
        <4> QED BY <1>5, <4>1, <4>3 DEF Booked
      <3>3. CASE b # a
        <4>1. b \in Accounts
          BY <1>1, LegsType
        <4>2. agg'[w][b] = agg[w][b]
          BY <2>5, <3>3, <4>1
        <4> QED BY <1>5, <3>1, <4>2 DEF Booked
      <3> QED BY <3>2, <3>3
    <2>9. ASSUME NEW n, n = next[w] PROVE Booked(w, n)'
      <3>1. Len(g.fresh) + 1 \in 1..Len(h.fresh) /\ h.fresh[Len(g.fresh) + 1].posting = p
        BY <2>1
      <3>2. legs(w)'[n] = p /\ agg'[w][p.account] = h
        BY <1>5, <1>6, <2>5, <2>9 DEF a
      <3> QED BY <3>1, <3>2 DEF Booked
    <2>10. /\ applied'[w] <= next'[w] - 1
           /\ applied'[w] = next'[w] - 1 =>
                 \A i \in 1..Len(legs(w)) : i < next'[w] => Booked(w, i)'
      <3>1. /\ applied[w] <= next[w] - 1
            /\ applied[w] = next[w] - 1 =>
                  \A i \in 1..Len(legs(w)) : i < next[w] => Booked(w, i)
        BY <1>1 DEF LoopInv
      <3>2. applied'[w] <= next'[w] - 1 /\ (applied'[w] = next'[w] - 1 => applied[w] = next[w] - 1)
        BY <1>3, <1>7, <2>4, <3>1
      <3>3. ASSUME applied'[w] = next'[w] - 1, NEW i \in 1..Len(legs(w)), i < next'[w]
            PROVE  Booked(w, i)'
        <4>1. i < next[w] \/ i = next[w]
          BY <1>3, <1>5, <1>7, <3>3
        <4>2. CASE i < next[w]
          BY <2>8, <3>1, <3>2, <3>3, <4>2
        <4>3. CASE i = next[w]
          BY <2>9, <4>3
        <4> QED BY <4>1, <4>2, <4>3
      <3> QED BY <3>2, <3>3
    <2>11. LoopInv(w)'
      <3>1. (\A i \in 1..Len(legs(w)) : i < next[w] => Booked(w, i))'
            <=> \A i \in 1..Len(legs(w)) : i < next'[w] => Booked(w, i)'
        BY <1>5
      <3>2. \A i \in 1..Len(legs(w)') : legs(w)'[i].account \in loaded'[w]
        BY <1>4, <1>5, <1>8
      <3>3. next'[w] <= Len(legs(w)') + 1
        BY <1>5, <1>9
      <3> QED BY <1>3, <2>10, <3>1, <3>2, <3>3, Zenon DEF LoopInv
    <2>12. WorkerInv(w)'
      BY <1>1, <1>4, <1>5, <2>7, <2>11 DEF WorkerInv
    <2> QED BY <1>1, <1>3, <1>10, <2>6, <2>12, LocalInv
  <1>12. CASE UNCHANGED << agg, applied >>
    <2>1. agg' = agg /\ applied' = applied
      BY <1>12
    <2> HIDE DEF g, a, p
    <2>2. \A v \in Workers \ {w} : SameWorker(v)
      <3>1. \A v \in Workers \ {w} : pc'[v] = pc[v] /\ next'[v] = next[v]
        BY <1>1, <1>2 DEF Goto, TypeOK
      <3> QED BY <1>4, <2>1, <3>1 DEF SameWorker
    <2>3. ASSUME NEW b \in loaded[w] PROVE Numbered(w, b)'
      <3>1. Numbered(w, b)
        BY <1>1 DEF WorkerInv
      <3> QED BY <1>4, <1>5, <2>1, <3>1 DEF Numbered
    <2>4. applied'[w] <= next'[w] - 1 /\ applied'[w] # next'[w] - 1
      <3>1. applied[w] <= next[w] - 1
        BY <1>1 DEF LoopInv
      <3> QED BY <1>3, <1>7, <2>1, <3>1
    <2>5. LoopInv(w)'
      <3>1. \A i \in 1..Len(legs(w)') : legs(w)'[i].account \in loaded'[w]
        BY <1>4, <1>5, <1>8
      <3>2. next'[w] <= Len(legs(w)') + 1
        BY <1>5, <1>9
      <3> QED BY <1>3, <2>4, <3>1, <3>2, Zenon DEF LoopInv
    <2>6. WorkerInv(w)'
      BY <1>1, <1>4, <1>5, <2>3, <2>5 DEF WorkerInv
    <2> QED BY <1>1, <1>3, <1>10, <2>2, <2>6, LocalInv
  <1> QED BY <1>11, <1>12 DEF applyPosting

LEMMA StartSavingInv ==
    ASSUME Inv, TypeOK', NEW w \in Workers, startSaving(w)
    PROVE  Inv'
  <1>1. /\ TypeOK /\ WorkerInv(w) /\ LoopInv(w)
        /\ pc[w] = "apply" /\ ~ InLoop(w) /\ applied[w] = Len(legs(w))
        /\ Goto(w, "save", 1)
        /\ UNCHANGED << tables, rowHolder, issued, req, applied, loaded, agg, tail >>
    BY DEF Inv, WorkerInv, startSaving
  <1>2. UNCHANGED << tables, rowHolder >>
    BY <1>1
  <1>3. UNCHANGED << aggregateVersion, req, applied, loaded, agg, tail >>
    BY <1>1 DEF tables
  <1>4. pc'[w] = "save" /\ next'[w] = 1
    BY <1>1 DEF Goto, TypeOK
  <1>5. legs(w)' = legs(w) /\ Len(legs(w)) \in Nat
    BY <1>1, <1>3, LegsType DEF legs
  <1>6. next[w] = Len(legs(w)) + 1
    BY <1>1, <1>5 DEF LoopInv, InLoop, TypeOK
  <1>7. \A i \in 1..Len(legs(w)) : Booked(w, i) /\ legs(w)[i].account \in loaded[w]
    BY <1>1, <1>5, <1>6 DEF LoopInv
  <1>8. LoopInv(w)'
    <2>1. \A i \in 1..Len(legs(w)') : Booked(w, i)'
      BY <1>3, <1>5, <1>7 DEF Booked
    <2>2. \A i \in 1..Len(legs(w)') : legs(w)'[i].account \in loaded'[w]
      BY <1>3, <1>5, <1>7
    <2> QED BY <1>4, <2>1, <2>2, Zenon DEF LoopInv
  <1>9. \A a \in loaded[w] : Numbered(w, a)'
    BY <1>1, <1>3, <1>5 DEF WorkerInv, Numbered
  <1>10. WorkerInv(w)'
    BY <1>1, <1>3, <1>5, <1>8, <1>9 DEF WorkerInv
  <1>11. \A v \in Workers \ {w} : SameWorker(v)
    BY <1>1 DEF Goto, TypeOK, SameWorker
  <1> QED BY <1>1, <1>2, <1>4, <1>10, <1>11, LocalInv

LEMMA SaveInv ==
    ASSUME Inv, TypeOK', NEW w \in Workers, saveLedgerAccount(w)
    PROVE  Inv'
  <1> DEFINE a == leg(w).account
  <1>1. /\ TypeOK /\ WorkerInv(w) /\ LoopInv(w) /\ RowsInv /\ TablesInv
        /\ pc[w] = "save" /\ InLoop(w) /\ a \in Accounts
        /\ rowHolder[a] \in {w, NoWorker}
        /\ rowHolder[a] = NoWorker => ~ SaveConflicts(w, a)
        /\ rowHolder' = [rowHolder EXCEPT ![a] = w]
        /\ Goto(w, "save", next[w] + 1)
        /\ UNCHANGED << tables, issued, req, applied, loaded, agg, tail >>
    BY LegType DEF Inv, WorkerInv, saveLedgerAccount
  <1>2. UNCHANGED tables
    BY <1>1
  <1>3. UNCHANGED << ledgerEvents, postedTransactions, aggregateVersion, req, applied, loaded, agg, tail >>
    BY <1>1 DEF tables
  <1>4. pc'[w] = "save" /\ next'[w] = next[w] + 1 /\ next[w] \in Nat
    BY <1>1 DEF Goto, TypeOK
  <1>5. legs(w)' = legs(w) /\ Len(legs(w)) \in Nat
    BY <1>1, <1>3, LegsType DEF legs
  <1>6. /\ next[w] \in 1..Len(legs(w)) /\ legs(w)[next[w]].account = a
        /\ a \in loaded[w]
    BY <1>1, <1>5 DEF InLoop, TypeOK, leg, LoopInv
  <1>7. \A v \in Workers \ {w} : SameWorker(v)
    BY <1>1 DEF Goto, TypeOK, SameWorker
  <1> HIDE DEF a
  <1>8. WorkerInv(w)'
    <2>1. \A i \in 1..Len(legs(w)) : Booked(w, i) /\ legs(w)[i].account \in loaded[w]
      BY <1>1 DEF LoopInv
    <2>2. LoopInv(w)'
      <3>1. \A i \in 1..Len(legs(w)') : Booked(w, i)'
        BY <1>3, <1>5, <2>1 DEF Booked
      <3>2. \A i \in 1..Len(legs(w)') : legs(w)'[i].account \in loaded'[w]
        BY <1>3, <1>5, <2>1
      <3> QED BY <1>4, <3>1, <3>2, Zenon DEF LoopInv
    <2>3. \A b \in loaded[w] : Numbered(w, b)'
      BY <1>1, <1>3, <1>5 DEF WorkerInv, Numbered
    <2> QED BY <1>1, <1>3, <1>5, <2>2, <2>3 DEF WorkerInv
  <1>9. /\ rowHolder'[a] = w
        /\ \A b \in Accounts \ {a} : rowHolder'[b] = rowHolder[b]
    BY <1>1 DEF TypeOK
  <1>10. /\ agg[w][a].base = aggregateVersion[a]
         /\ \A i \in 1..Len(agg[w][a].fresh) :
              << a, agg[w][a].fresh[i].posting.transaction >> \notin postedTransactions
    <2>1. CASE rowHolder[a] = w
      BY <1>1, <2>1 DEF RowsInv
    <2>2. CASE rowHolder[a] = NoWorker
      BY <1>1, <2>2 DEF SaveConflicts
    <2> QED BY <1>1, <2>1, <2>2
  <1>11. RowsInv'
    <2>1. ASSUME NEW v \in Workers, NEW b \in Accounts, rowHolder'[b] = v
          PROVE  /\ pc'[v] = "save"
                 /\ b \in loaded'[v]
                 /\ agg'[v][b].base = aggregateVersion'[b]
                 /\ \A i \in 1..Len(agg'[v][b].fresh) :
                      << b, agg'[v][b].fresh[i].posting.transaction >> \notin postedTransactions'
      <3>1. CASE b = a
        BY <1>3, <1>4, <1>6, <1>9, <1>10, <2>1, <3>1
      <3>2. CASE b # a
        <4>1. rowHolder[b] = v
          BY <1>9, <2>1, <3>2
        <4>2. pc'[v] = "save"
          BY <1>1, <1>4, <1>7, <4>1 DEF RowsInv, SameWorker
        <4> QED BY <1>1, <1>3, <4>1, <4>2 DEF RowsInv
      <3> QED BY <3>1, <3>2
    <2>2. ASSUME NEW v \in Workers, pc'[v] = "save", NEW i \in 1..Len(legs(v)'), i < next'[v]
          PROVE  rowHolder'[legs(v)'[i].account] = v
      <3>1. legs(v)' = legs(v)
        BY <1>3 DEF legs
      <3>2. legs(v)[i].account \in Accounts
        BY <1>1, <2>2, <3>1, LegsType
      <3>3. CASE v = w
        <4>1. i < next[w] \/ i = next[w]
          BY <1>4, <1>5, <2>2, <3>1, <3>3
        <4>2. rowHolder[legs(w)[i].account] = w \/ legs(w)[i].account = a
          BY <1>1, <1>6, <2>2, <3>1, <3>3, <4>1 DEF RowsInv
        <4> QED BY <1>9, <3>1, <3>2, <3>3, <4>2
      <3>4. CASE v # w
        <4>1. rowHolder[legs(v)[i].account] = v
          BY <1>1, <1>7, <2>2, <3>1, <3>4 DEF RowsInv, SameWorker
        <4>2. legs(v)[i].account # a
          BY <1>1, <3>4, <4>1, WorkersAssumption
        <4> QED BY <1>9, <3>1, <3>2, <4>1, <4>2
      <3> QED BY <3>3, <3>4
    <2> QED BY <2>1, <2>2 DEF RowsInv
  <1>12. /\ ledgerEvents \subseteq ledgerEvents'
         /\ aggregateVersion' \in [Accounts -> Nat]
         /\ \A b \in Accounts : aggregateVersion[b] <= aggregateVersion'[b]
    BY <1>1, <1>3 DEF TypeOK
  <1>13. \A v \in Workers \ {w} : WorkerInv(v)'
    BY <1>1, <1>7, <1>12, SameWorkerInv DEF Inv
  <1>14. TablesInv'
    BY <1>1, <1>2, SameTablesInv
  <1> QED BY <1>8, <1>11, <1>13, <1>14 DEF Inv

-----------------------------------------------------------------------------
(* Commit *)

\* What a worker is about to commit continues the history of its accounts.
LEMMA CommitFacts ==
    ASSUME Inv, NEW w \in Workers, commit(w)
    PROVE  /\ \A a \in loaded[w] :
                /\ rowHolder[a] = w
                /\ Numbered(w, a)
                /\ agg[w][a].base = aggregateVersion[a]
                /\ aggregateVersion[a] \in Nat
                /\ Len(agg[w][a].fresh) \in Nat
                /\ aggregateVersion'[a] = aggregateVersion[a] + Len(agg[w][a].fresh)
                /\ \A i \in 1..Len(agg[w][a].fresh) : agg[w][a].fresh[i] \in FreshRows(w)
           /\ \A a \in Accounts \ loaded[w] : aggregateVersion'[a] = aggregateVersion[a]
           /\ \A e \in FreshRows(w) :
                /\ e.posting.account \in loaded[w]
                /\ \E i \in 1..Len(agg[w][e.posting.account].fresh) :
                      e = agg[w][e.posting.account].fresh[i]
                /\ << e.posting.account, e.posting.transaction >> \notin postedTransactions
           /\ ledgerEvents' = ledgerEvents \cup FreshRows(w)
  <1>1. /\ TypeOK /\ WorkerInv(w) /\ RowsInv
        /\ pc[w] = "save" /\ ~ InLoop(w)
    BY DEF Inv, commit
  <1>2. \A i \in 1..Len(legs(w)) : i < next[w]
    BY <1>1, LegsType DEF InLoop, TypeOK
  <1>3. ASSUME NEW a \in loaded[w]
        PROVE  /\ a \in Accounts
               /\ rowHolder[a] = w
               /\ agg[w][a].base = aggregateVersion[a]
               /\ \A i \in 1..Len(agg[w][a].fresh) :
                    << a, agg[w][a].fresh[i].posting.transaction >> \notin postedTransactions
    <2>1. PICK i \in 1..Len(legs(w)) : legs(w)[i].account = a
      BY <1>1 DEF WorkerInv
    <2>2. rowHolder[a] = w
      BY <1>1, <1>2, <2>1 DEF RowsInv
    <2>3. a \in Accounts
      BY <1>1 DEF TypeOK
    <2> QED BY <1>1, <2>2, <2>3 DEF RowsInv
  <1>4. ASSUME NEW a \in loaded[w]
        PROVE  /\ Numbered(w, a)
               /\ aggregateVersion[a] \in Nat
               /\ Len(agg[w][a].fresh) \in Nat
               /\ aggregateVersion'[a] = aggregateVersion[a] + Len(agg[w][a].fresh)
    <2>1. Numbered(w, a)
      BY <1>1 DEF WorkerInv
    <2>2. aggregateVersion[a] \in Nat /\ agg[w][a] \in Aggregates
      BY <1>1, <1>3 DEF TypeOK
    <2>3. agg[w][a].fresh \in Seq(Rows)
      BY <2>2 DEF Aggregates
    <2>4. aggregateVersion'[a] = agg[w][a].version
      BY <1>3 DEF commit
    <2>5. agg[w][a].version = agg[w][a].base + Len(agg[w][a].fresh)
      BY <2>1 DEF Numbered, WellNumbered
    <2> QED BY <1>3, <2>1, <2>2, <2>3, <2>4, <2>5
  <1>5. \A a \in loaded[w] : \A i \in 1..Len(agg[w][a].fresh) : agg[w][a].fresh[i] \in FreshRows(w)
    BY DEF FreshRows
  <1>6. \A a \in Accounts \ loaded[w] : aggregateVersion'[a] = aggregateVersion[a]
    BY DEF commit
  <1>7. ASSUME NEW e \in FreshRows(w)
        PROVE  /\ e.posting.account \in loaded[w]
               /\ \E i \in 1..Len(agg[w][e.posting.account].fresh) :
                     e = agg[w][e.posting.account].fresh[i]
               /\ << e.posting.account, e.posting.transaction >> \notin postedTransactions
    <2>1. PICK a \in loaded[w] : \E i \in 1..Len(agg[w][a].fresh) : e = agg[w][a].fresh[i]
      BY DEF FreshRows
    <2>2. PICK i \in 1..Len(agg[w][a].fresh) : e = agg[w][a].fresh[i]
      BY <2>1
    <2>3. e.posting.account = a
      BY <1>4, <2>2 DEF Numbered, WellNumbered
    <2> QED BY <1>3, <2>2, <2>3
  <1>8. ledgerEvents' = ledgerEvents \cup FreshRows(w)
    BY DEF commit
  <1> QED BY <1>3, <1>4, <1>5, <1>6, <1>7, <1>8

\* The rows a worker is about to commit, and nothing about versions.
LEMMA CommitRows ==
    ASSUME Inv, NEW w \in Workers, commit(w)
    PROVE  /\ \A e \in FreshRows(w) : e.posting.account \in loaded[w]
           /\ \A e \in FreshRows(w) :
                \E i \in 1..Len(agg[w][e.posting.account].fresh) :
                   e = agg[w][e.posting.account].fresh[i]
           /\ ledgerEvents' = ledgerEvents \cup FreshRows(w)
  BY CommitFacts, ZenonT(40)

LEMMA CommitGapless ==
    ASSUME Inv, NEW w \in Workers, commit(w)
    PROVE  GaplessHistory'
  <1>1. GaplessHistory /\ TypeOK
    BY DEF Inv, TablesInv
  <1>2. ASSUME NEW a \in Accounts
        PROVE  /\ { e.version : e \in EventsOf(a)' } = 1..aggregateVersion'[a]
               /\ \A e, f \in EventsOf(a)' : e.version = f.version => e = f
    <2>1. /\ { e.version : e \in EventsOf(a) } = 1..aggregateVersion[a]
          /\ \A e, f \in EventsOf(a) : e.version = f.version => e = f
      BY <1>1 DEF GaplessHistory
    <2>2. CASE a \notin loaded[w]
      <3>1. EventsOf(a)' = EventsOf(a)
        <4>1. \A e \in FreshRows(w) : e.posting.account # a
          BY <2>2, CommitRows
        <4>2. ledgerEvents' = ledgerEvents \cup FreshRows(w)
          BY CommitRows
        <4> QED BY <4>1, <4>2 DEF EventsOf
      <3>2. aggregateVersion'[a] = aggregateVersion[a]
        BY <2>2, CommitFacts
      <3> QED BY <2>1, <3>1, <3>2
    <2>3. CASE a \in loaded[w]
      <3> DEFINE s == agg[w][a].fresh
                 n == Len(s)
                 v == aggregateVersion[a]
                 E == EventsOf(a)
                 F == EventsOf(a)'
      <3>1. /\ v \in Nat /\ n \in Nat /\ aggregateVersion'[a] = v + n
            /\ \A i \in 1..n : s[i] \in FreshRows(w)
        BY <2>3, CommitFacts
      <3>2. \A i \in 1..n : s[i].version = v + i /\ s[i].posting.account = a
        <4>1. Numbered(w, a) /\ agg[w][a].base = v
          BY <2>3, CommitFacts
        <4> QED BY <4>1 DEF Numbered, WellNumbered
      <3>3. \A e \in F : e \in E \/ \E i \in 1..n : e = s[i]
        <4>1. ASSUME NEW e \in FreshRows(w), e.posting.account = a PROVE \E i \in 1..n : e = s[i]
          BY <4>1, CommitRows
        <4> QED BY <4>1, CommitRows DEF EventsOf
      <3>4. E \subseteq F /\ \A i \in 1..n : s[i] \in F
        BY <3>1, <3>2, CommitFacts DEF EventsOf
      <3>5. \A e \in E : e.version \in 1..v
        BY <2>1
      <3>6. \A k \in 1..v : \E e \in E : e.version = k
        BY <2>1
      <3>7. \A e, f \in E : e.version = f.version => e = f
        BY <2>1
      <3> HIDE DEF s, n, v, E, F
      <3>8. ASSUME NEW e \in F PROVE e.version \in 1..(v + n)
        BY <3>1, <3>2, <3>3, <3>5
      <3>9. ASSUME NEW k \in 1..(v + n) PROVE \E e \in F : e.version = k
        <4>1. CASE k <= v
          BY <3>1, <3>4, <3>6, <4>1
        <4>2. CASE k > v
          <5>1. k - v \in 1..n /\ v + (k - v) = k
            BY <3>1, <4>2
          <5>2. s[k - v] \in F /\ s[k - v].version = k
            BY <3>2, <3>4, <5>1
          <5> QED BY <5>2
        <4> QED BY <3>1, <4>1, <4>2
      <3>10. { e.version : e \in F } = 1..(v + n)
        BY <3>8, <3>9
      <3>11. ASSUME NEW e \in F, NEW f \in F, e.version = f.version PROVE e = f
        <4>1. CASE e \in E /\ f \in E
          BY <3>7, <3>11, <4>1
        <4>2. ASSUME NEW i \in 1..n, NEW x \in E PROVE s[i].version # x.version
          BY <3>1, <3>2, <3>5
        <4>3. ASSUME NEW i \in 1..n, NEW j \in 1..n, s[i].version = s[j].version PROVE s[i] = s[j]
          <5>1. i = j
            BY <3>1, <3>2, <4>3
          <5> QED BY <5>1
        <4> QED BY <3>3, <3>11, <4>1, <4>2, <4>3
      <3> QED BY <3>1, <3>10, <3>11 DEF F
    <2> QED BY <2>2, <2>3
  <1> QED BY <1>2 DEF GaplessHistory

LEMMA CommitPostedOnce ==
    ASSUME Inv, NEW w \in Workers, commit(w)
    PROVE  PostedOnce'
  <1>1. /\ PostedOnce
        /\ \A e \in ledgerEvents :
             << e.posting.account, e.posting.transaction >> \in postedTransactions
    BY DEF Inv, TablesInv
  <1>2. ASSUME NEW e \in ledgerEvents', NEW f \in ledgerEvents',
               e.posting.account = f.posting.account,
               e.posting.transaction = f.posting.transaction
        PROVE  e = f
    <2>1. CASE e \in ledgerEvents /\ f \in ledgerEvents
      BY <1>1, <1>2, <2>1 DEF PostedOnce
    <2>2. CASE e \in FreshRows(w) /\ f \in FreshRows(w)
      <3> DEFINE a == e.posting.account
      <3>1. PICK i \in 1..Len(agg[w][a].fresh) : e = agg[w][a].fresh[i]
        BY <2>2, CommitFacts
      <3>2. PICK j \in 1..Len(agg[w][a].fresh) : f = agg[w][a].fresh[j]
        <4>1. f.posting.account = a
          BY <1>2
        <4> QED BY <2>2, <4>1, CommitRows
      <3>3. Numbered(w, a)
        BY <2>2, CommitFacts
      <3>4. \A k, l \in 1..Len(agg[w][a].fresh) :
              agg[w][a].fresh[k].posting.transaction = agg[w][a].fresh[l].posting.transaction => k = l
        BY <3>3 DEF Numbered, WellNumbered
      <3>5. i = j
        BY <1>2, <3>1, <3>2, <3>4
      <3> QED BY <3>1, <3>2, <3>5
    <2>3. CASE e \in ledgerEvents /\ f \in FreshRows(w)
      BY <1>1, <1>2, <2>3, CommitFacts
    <2>4. CASE e \in FreshRows(w) /\ f \in ledgerEvents
      BY <1>1, <1>2, <2>4, CommitFacts
    <2> QED BY <2>1, <2>2, <2>3, <2>4, CommitFacts
  <1> QED BY <1>2 DEF PostedOnce

\* Every leg of a worker that commits is among the rows it writes.
LEMMA CommitWhole ==
    ASSUME Inv, NEW w \in Workers, commit(w)
    PROVE  /\ \A i \in 1..Len(legs(w)) : \E f \in FreshRows(w) : f.posting = legs(w)[i]
           /\ \A e \in FreshRows(w) : \E i \in 1..Len(legs(w)) : e.posting = legs(w)[i]
  <1>1. LoopInv(w) /\ pc[w] = "save"
    BY DEF Inv, WorkerInv, commit
  <1>2. ASSUME NEW i \in 1..Len(legs(w)) PROVE \E f \in FreshRows(w) : f.posting = legs(w)[i]
    <2> DEFINE a == legs(w)[i].account
    <2>1. Booked(w, i) /\ a \in loaded[w]
      BY <1>1 DEF LoopInv
    <2>2. PICK k \in 1..Len(agg[w][a].fresh) : agg[w][a].fresh[k].posting = legs(w)[i]
      BY <2>1 DEF Booked
    <2>3. agg[w][a].fresh[k] \in FreshRows(w)
      BY <2>1, CommitFacts
    <2> QED BY <2>2, <2>3
  <1>3. ASSUME NEW e \in FreshRows(w) PROVE \E i \in 1..Len(legs(w)) : e.posting = legs(w)[i]
    <2> DEFINE a == e.posting.account
    <2>1. PICK k \in 1..Len(agg[w][a].fresh) : e = agg[w][a].fresh[k]
      BY CommitFacts
    <2>2. Numbered(w, a)
      BY CommitFacts
    <2> QED BY <2>1, <2>2 DEF Numbered, WellNumbered
  <1> QED BY <1>2, <1>3

LEMMA CommitDoubleEntry ==
    ASSUME Inv, NEW w \in Workers, commit(w)
    PROVE  DoubleEntry' /\ RequestsAreAtomic'
  <1>1. DoubleEntry /\ RequestsAreAtomic /\ TypeOK /\ req[w] \in Requests
    BY DEF Inv, TablesInv, TypeOK
  <1>2. ledgerEvents' = ledgerEvents \cup FreshRows(w)
    BY CommitFacts
  <1>3. DoubleEntry'
    <2>1. ASSUME NEW e \in FreshRows(w)
          PROVE  \E f \in FreshRows(w) : Mirrors(f.posting, e.posting)
      <3>1. PICK i \in 1..Len(legs(w)) : e.posting = legs(w)[i]
        BY CommitWhole
      <3>2. PICK j \in 1..Len(legs(w)) : Mirrors(legs(w)[j], legs(w)[i])
        BY <1>1, LegsBalanced DEF Balanced, legs
      <3>3. PICK f \in FreshRows(w) : f.posting = legs(w)[j]
        BY CommitWhole
      <3> QED BY <3>1, <3>2, <3>3
    <2> QED BY <1>1, <1>2, <2>1 DEF DoubleEntry, Mirrors
  <1>4. RequestsAreAtomic'
    <2>1. ASSUME NEW e \in ledgerEvents'
          PROVE  \E r \in Requests :
                   /\ \E i \in 1..Len(Legs(r)) : Legs(r)[i] = e.posting
                   /\ \A i \in 1..Len(Legs(r)) : \E f \in ledgerEvents' : f.posting = Legs(r)[i]
      <3>1. CASE e \in ledgerEvents
        <4>1. PICK r \in Requests :
                /\ \E i \in 1..Len(Legs(r)) : Legs(r)[i] = e.posting
                /\ \A i \in 1..Len(Legs(r)) : \E f \in ledgerEvents : f.posting = Legs(r)[i]
          BY <1>1, <3>1 DEF RequestsAreAtomic
        <4>2. ledgerEvents \subseteq ledgerEvents'
          BY <1>2
        <4> QED BY <4>1, <4>2
      <3>2. CASE e \in FreshRows(w)
        <4>1. \E i \in 1..Len(Legs(req[w])) : Legs(req[w])[i] = e.posting
          BY <3>2, CommitWhole DEF legs
        <4>2. \A i \in 1..Len(Legs(req[w])) : \E f \in ledgerEvents' : f.posting = Legs(req[w])[i]
          BY <1>2, CommitWhole DEF legs
        <4> QED BY <1>1, <4>1, <4>2
      <3> QED BY <1>2, <2>1, <3>1, <3>2
    <2> QED BY <2>1 DEF RequestsAreAtomic
  <1> QED BY <1>3, <1>4

LEMMA CommitOutbox ==
    ASSUME Inv, NEW w \in Workers, commit(w)
    PROVE  OutboxIsHistory'
  <1>1. OutboxIsHistory /\ TypeOK
    BY DEF Inv, TablesInv
  <1>2. ledgerEvents \subseteq ledgerEvents' /\ FreshRows(w) \subseteq ledgerEvents'
    BY CommitRows
  <1>3. ASSUME NEW a \in Accounts
        PROVE  /\ Len(outbox'[a]) = aggregateVersion'[a]
               /\ \A i \in 1..Len(outbox'[a]) :
                    outbox'[a][i] \in ledgerEvents' /\ outbox'[a][i].version = i
    <2> DEFINE o == outbox[a]
               v == aggregateVersion[a]
    <2>1. Len(o) = v /\ \A i \in 1..Len(o) : o[i] \in ledgerEvents /\ o[i].version = i
      BY <1>1 DEF OutboxIsHistory
    <2>2. CASE a \notin loaded[w]
      <3>1. outbox'[a] = o /\ aggregateVersion'[a] = v
        BY <2>2 DEF commit
      <3> QED BY <1>2, <2>1, <3>1
    <2>3. CASE a \in loaded[w]
      <3> DEFINE s == agg[w][a].fresh
                 n == Len(s)
      <3>1. outbox'[a] = o \o s
        BY <2>3 DEF commit
      <3>2. o \in Seq(Rows) /\ s \in Seq(Rows)
        BY <1>1, <2>3 DEF TypeOK, Aggregates
      <3>3. /\ v \in Nat /\ n \in Nat /\ aggregateVersion'[a] = v + n
            /\ \A i \in 1..n : s[i] \in FreshRows(w)
        BY <2>3, CommitFacts
      <3>4. \A i \in 1..n : s[i].version = v + i
        <4>1. Numbered(w, a) /\ agg[w][a].base = v
          BY <2>3, CommitFacts
        <4> QED BY <4>1 DEF Numbered, WellNumbered
      <3> HIDE DEF s, o, v
      <3>5. /\ Len(o \o s) = v + n
            /\ \A i \in 1..v : (o \o s)[i] = o[i]
            /\ \A i \in 1..n : (o \o s)[v + i] = s[i]
        <4>1. /\ Len(o \o s) = Len(o) + Len(s)
              /\ \A i \in 1..Len(o) : (o \o s)[i] = o[i]
              /\ \A i \in 1..Len(s) : (o \o s)[Len(o) + i] = s[i]
          BY <3>2
        <4> QED BY <2>1, <4>1
      <3>6. ASSUME NEW i \in 1..(v + n)
            PROVE  (o \o s)[i] \in ledgerEvents' /\ (o \o s)[i].version = i
        <4>1. CASE i <= v
          <5>1. i \in 1..v
            BY <3>3, <4>1
          <5>2. (o \o s)[i] = o[i] /\ o[i] \in ledgerEvents /\ o[i].version = i
            BY <2>1, <3>5, <5>1
          <5> QED BY <1>2, <5>2
        <4>2. CASE i > v
          <5>1. i - v \in 1..n /\ v + (i - v) = i
            BY <3>3, <4>2
          <5>2. (o \o s)[i] = s[i - v] /\ s[i - v].version = i /\ s[i - v] \in FreshRows(w)
            BY <3>3, <3>4, <3>5, <5>1
          <5> QED BY <1>2, <5>2
        <4>3. i <= v \/ i > v
          BY <3>3
        <4> QED BY <4>1, <4>2, <4>3, Zenon
      <3> QED BY <3>1, <3>3, <3>5, <3>6
    <2> QED BY <2>2, <2>3
  <1> QED BY <1>3 DEF OutboxIsHistory

LEMMA CommitInv ==
    ASSUME Inv, TypeOK', NEW w \in Workers, commit(w)
    PROVE  Inv'
  <1>1. /\ TypeOK /\ RowsInv /\ TablesInv
        /\ \A v \in Workers : WorkerInv(v)
        /\ Leave(w)
    BY DEF Inv, commit
  <1>2. /\ WorkerInv(w)'
        /\ \A v \in Workers \ {w} : SameWorker(v)
    BY <1>1, LeaveWorkerInv
  <1>3. \A a \in Accounts : aggregateVersion[a] <= aggregateVersion'[a]
    <2>1. ASSUME NEW a \in Accounts PROVE aggregateVersion[a] <= aggregateVersion'[a]
      <3>1. aggregateVersion[a] \in Nat
        BY <1>1 DEF TypeOK
      <3>2. CASE a \in loaded[w]
        BY <3>1, <3>2, CommitFacts
      <3>3. CASE a \notin loaded[w]
        BY <3>1, <3>3, CommitFacts
      <3> QED BY <3>2, <3>3
    <2> QED BY <2>1
  <1>4. \A v \in Workers \ {w} : WorkerInv(v)'
    <2>1. ledgerEvents \subseteq ledgerEvents' /\ aggregateVersion' \in [Accounts -> Nat]
      BY CommitRows DEF TypeOK
    <2> QED BY <1>1, <1>2, <1>3, <2>1, SameWorkerInv
  <1>5. RowsInv'
    <2>1. pc'[w] = "idle"
      BY <1>1 DEF TypeOK, Leave
    <2>2. ASSUME NEW v \in Workers, NEW a \in Accounts, rowHolder'[a] = v
          PROVE  v # w /\ rowHolder[a] = v /\ a \notin loaded[w]
      <3>1. v # w /\ rowHolder[a] = v
        BY <1>1, <2>2, WorkersAssumption DEF Leave
      <3>2. a \notin loaded[w]
        BY <3>1, CommitFacts
      <3> QED BY <3>1, <3>2
    <2>3. ASSUME NEW a \in Accounts \ loaded[w], NEW x, << a, x >> \in postedTransactions'
          PROVE  << a, x >> \in postedTransactions
      BY <2>3, CommitRows DEF commit
    <2>4. ASSUME NEW v \in Workers, NEW a \in Accounts, rowHolder'[a] = v
          PROVE  /\ pc'[v] = "save"
                 /\ a \in loaded'[v]
                 /\ agg'[v][a].base = aggregateVersion'[a]
                 /\ \A i \in 1..Len(agg'[v][a].fresh) :
                      << a, agg'[v][a].fresh[i].posting.transaction >> \notin postedTransactions'
      <3>1. v # w /\ rowHolder[a] = v /\ a \notin loaded[w]
        BY <2>2, <2>4
      <3>2. aggregateVersion'[a] = aggregateVersion[a]
        BY <3>1, CommitFacts
      <3>3. /\ pc[v] = "save"
            /\ a \in loaded[v]
            /\ agg[v][a].base = aggregateVersion[a]
            /\ \A i \in 1..Len(agg[v][a].fresh) :
                 << a, agg[v][a].fresh[i].posting.transaction >> \notin postedTransactions
        BY <1>1, <3>1 DEF RowsInv
      <3>4. pc'[v] = pc[v] /\ loaded'[v] = loaded[v] /\ agg'[v] = agg[v]
        BY <1>2, <3>1 DEF SameWorker
      <3> QED BY <2>3, <3>1, <3>2, <3>3, <3>4
    <2>5. ASSUME NEW v \in Workers, pc'[v] = "save", NEW i \in 1..Len(legs(v)'), i < next'[v]
          PROVE  rowHolder'[legs(v)'[i].account] = v
      <3>1. v # w
        BY <2>1, <2>5
      <3>2. pc[v] = "save" /\ legs(v)' = legs(v) /\ next'[v] = next[v]
        BY <1>2, <2>5, <3>1 DEF SameWorker, legs
      <3>3. rowHolder[legs(v)[i].account] = v /\ legs(v)[i].account \in Accounts
        BY <1>1, <2>5, <3>2, LegsType DEF RowsInv
      <3>4. rowHolder'[legs(v)[i].account] = v
        BY <1>1, <3>1, <3>3 DEF Leave
      <3> QED BY <3>2, <3>4
    <2> QED BY <2>4, <2>5 DEF RowsInv
  <1>6. TablesInv'
    <2>1. ASSUME NEW s \in snapshots' PROVE s.version <= aggregateVersion'[s.account]
      <3>1. CASE s \in snapshots
        <4>1. /\ s.version <= aggregateVersion[s.account]
              /\ s.account \in Accounts /\ s.version \in Nat
          BY <1>1, <3>1 DEF TablesInv, TypeOK, SnapshotRows
        <4>2. aggregateVersion[s.account] \in Nat /\ aggregateVersion'[s.account] \in Nat
          BY <4>1 DEF TypeOK, Inv
        <4> QED BY <1>3, <4>1, <4>2
      <3>2. CASE s \in CreateSnapshots(w)
        <4>1. PICK a \in loaded[w] : s.account = a /\ s.version = agg[w][a].version
          BY <3>2 DEF CreateSnapshots
        <4>2. a \in Accounts
          BY <1>1 DEF TypeOK
        <4>3. aggregateVersion'[a] = agg[w][a].version /\ aggregateVersion'[a] \in Nat
          BY <4>1, <4>2 DEF commit, TypeOK
        <4> QED BY <4>1, <4>3
      <3>3. snapshots' = snapshots \cup CreateSnapshots(w)
        BY DEF commit
      <3> QED BY <3>1, <3>2, <3>3
    <2>2. \A e \in ledgerEvents' :
            << e.posting.account, e.posting.transaction >> \in postedTransactions'
      BY <1>1 DEF TablesInv, commit
    <2> QED BY <2>1, <2>2, CommitGapless, CommitPostedOnce, CommitDoubleEntry, CommitOutbox
            DEF TablesInv
  <1> QED BY <1>2, <1>4, <1>5, <1>6 DEF Inv

-----------------------------------------------------------------------------
(* The theorems *)

LEMMA InitInv == Init => Inv
  <1> SUFFICES ASSUME Init PROVE Inv
    OBVIOUS
  <1>1. TypeOK
    BY AnyRequestType, NewAggregateType DEF Init, TypeOK, Phases
  <1>2. TablesInv
    BY DEF Init, TablesInv, GaplessHistory, PostedOnce, DoubleEntry, RequestsAreAtomic,
           OutboxIsHistory, EventsOf
  <1>3. RowsInv
    BY WorkersAssumption DEF Init, RowsInv
  <1>4. \A w \in Workers : WorkerInv(w)
    BY DEF Init, WorkerInv, LoopInv
  <1> QED BY <1>1, <1>2, <1>3, <1>4 DEF Inv

LEMMA NextInv == Inv /\ [Next]_vars => Inv'
  <1> SUFFICES ASSUME Inv, [Next]_vars PROVE Inv'
    OBVIOUS
  <1>1. TypeOK'
    BY TypeOKStep DEF Inv
  <1>2. CASE UNCHANGED vars
    <2>1. /\ UNCHANGED tables
          /\ UNCHANGED << rowHolder, pc, req, next, applied, loaded, agg, tail >>
      BY <1>2 DEF vars, local
    <2>2. TablesInv'
      BY <2>1, SameTablesInv DEF Inv
    <2>3. \A w \in Workers : SameWorker(w)
      BY <2>1 DEF SameWorker
    <2>4. /\ ledgerEvents \subseteq ledgerEvents'
          /\ aggregateVersion' \in [Accounts -> Nat]
          /\ \A a \in Accounts : aggregateVersion[a] <= aggregateVersion'[a]
      BY <2>1 DEF Inv, TypeOK, tables
    <2>5. \A w \in Workers : WorkerInv(w)'
      BY <2>3, <2>4, SameWorkerInv DEF Inv
    <2>6. RowsInv'
      BY <2>1 DEF Inv, RowsInv, tables, legs
    <2> QED BY <1>1, <2>2, <2>5, <2>6 DEF Inv
  <1>3. ASSUME NEW w \in Workers, NEW r \in Requests, Begin(w, r) PROVE Inv'
    BY <1>1, <1>3, BeginInv
  <1>4. ASSUME NEW w \in Workers, Step(w) PROVE Inv'
    <2>1. CASE postingRejected(w) \/ nothingToSave(w) \/ saveConflict(w)
      BY <2>1, RollBackInv DEF postingRejected, nothingToSave, saveConflict
    <2> QED BY <1>1, <1>4, <2>1, LoadInv, ReplayInv, EnsureInv, ApplyInv, StartSavingInv,
               SaveInv, CommitInv DEF Step
  <1>5. ASSUME NEW w \in Workers, crash(w) \/ deadlockVictim(w) PROVE Inv'
    BY <1>5, RollBackInv DEF crash, deadlockVictim
  <1> QED BY <1>2, <1>3, <1>4, <1>5 DEF Next

\* The inductive invariant holds of every reachable state.
THEOREM Invariance == Spec => []Inv
  BY InitInv, NextInv, PTL DEF Spec

\* Every posting of the history has its other side on the counterparty, for
\* any accounts, requests and number of concurrent workers.
THEOREM LedgerIsDoubleEntry == Spec => []DoubleEntry
  <1>1. Inv => DoubleEntry
    BY DEF Inv, TablesInv
  <1> QED BY <1>1, Invariance, PTL

\* No account books a transaction twice, whatever is redelivered or raced.
THEOREM LedgerPostsOnce == Spec => []PostedOnce
  <1>1. Inv => PostedOnce
    BY DEF Inv, TablesInv
  <1> QED BY <1>1, Invariance, PTL

\* The optimistic version check keeps every account's history gapless.
THEOREM LedgerIsGapless == Spec => []GaplessHistory
  <1>1. Inv => GaplessHistory
    BY DEF Inv, TablesInv
  <1> QED BY <1>1, Invariance, PTL

\* Principal and fee of a request are in the history together or not at all.
THEOREM LedgerIsAtomic == Spec => []RequestsAreAtomic
  <1>1. Inv => RequestsAreAtomic
    BY DEF Inv, TablesInv
  <1> QED BY <1>1, Invariance, PTL

\* The outbox the projections consume is the history, in the same order.
THEOREM OutboxFollowsHistory == Spec => []OutboxIsHistory
  <1>1. Inv => OutboxIsHistory
    BY DEF Inv, TablesInv
  <1> QED BY <1>1, Invariance, PTL

-----------------------------------------------------------------------------
(* Induction on natural numbers, and sums over finite sets *)

\* A set of natural numbers that has an element has a least one.
LEMMA LeastNumber ==
    ASSUME NEW T, T \subseteq Nat, T # {}
    PROVE  \E n \in T : \A m \in T : n <= m
  <1>1. IsWellFoundedOn(OpToRel(<, Nat), Nat)
    BY NatLessThanWellFounded
  <1>2. PICK n \in T : \A m \in T : ~ (<< m, n >> \in OpToRel(<, Nat))
    BY <1>1, WFMin
  <1>3. \A m \in T : ~ (m < n)
    BY <1>2 DEF OpToRel
  <1> QED BY <1>3

\* Induction, with the property given as the set of numbers that have it.
LEMMA Induction ==
    ASSUME NEW S, 0 \in S, \A n \in Nat : n \in S => n + 1 \in S
    PROVE  Nat \subseteq S
  <1> SUFFICES ASSUME Nat \ S # {} PROVE FALSE
    OBVIOUS
  <1>1. PICK n \in Nat \ S : \A m \in Nat \ S : n <= m
    BY LeastNumber
  <1>2. n # 0 /\ n - 1 \in Nat
    BY <1>1
  <1>3. n - 1 \in S
    BY <1>1, <1>2
  <1> QED BY <1>1, <1>2, <1>3

Chosen(s) == CHOOSE x \in s : TRUE

\* z sums f over every subset of S, one chosen element after the other.
Sums(z, f, S) ==
    z = [s \in SUBSET S |-> IF s = {} THEN 0 ELSE f[Chosen(s)] + z[s \ {Chosen(s)}]]

\* What removing the chosen element does to the size of a finite set.
LEMMA ChosenElement ==
    ASSUME NEW s, IsFiniteSet(s), s # {}
    PROVE  /\ Chosen(s) \in s
           /\ IsFiniteSet(s \ {Chosen(s)})
           /\ Cardinality(s \ {Chosen(s)}) = Cardinality(s) - 1
           /\ Cardinality(s) \in Nat \ {0}
  <1>1. Chosen(s) \in s
    BY Zenon DEF Chosen
  <1>2. Cardinality(s) \in Nat /\ Cardinality(s) # 0
    BY FS_CardinalityType, FS_EmptySet
  <1> QED BY <1>1, <1>2, FS_RemoveElement

\* A finite set has its sums.
LEMMA SumsExist ==
    ASSUME NEW S, IsFiniteSet(S), NEW f \in [S -> Int]
    PROVE  \E z \in [SUBSET S -> Int] : Sums(z, f, S)
  <1> DEFINE D(n) == { s \in SUBSET S : Cardinality(s) <= n }
             P(z, n) == \A s \in D(n) :
                            z[s] = IF s = {} THEN 0 ELSE f[Chosen(s)] + z[s \ {Chosen(s)}]
             N == { n \in Nat : \E z \in [D(n) -> Int] : P(z, n) }
  <1>1. \A s \in SUBSET S : IsFiniteSet(s) /\ Cardinality(s) \in Nat
    BY FS_Subset, FS_CardinalityType
  <1>2. \A s \in SUBSET S : Cardinality(s) = 0 <=> s = {}
    BY <1>1, FS_EmptySet
  <1>3. ASSUME NEW s \in SUBSET S, s # {}
        PROVE  /\ Chosen(s) \in S
               /\ s \ {Chosen(s)} \in SUBSET S
               /\ Cardinality(s \ {Chosen(s)}) = Cardinality(s) - 1
    BY <1>1, <1>3, ChosenElement
  <1>4. 0 \in N
    <2> DEFINE z == [s \in D(0) |-> 0]
    <2>1. \A s \in D(0) : s = {}
      BY <1>1, <1>2
    <2>2. z \in [D(0) -> Int] /\ P(z, 0)
      BY <2>1
    <2> QED BY <2>2
  <1>5. ASSUME NEW n \in Nat, n \in N PROVE n + 1 \in N
    <2>1. PICK z \in [D(n) -> Int] : P(z, n)
      BY <1>5
    <2> DEFINE y == [s \in D(n + 1) |-> IF s \in D(n) THEN z[s]
                                        ELSE f[Chosen(s)] + z[s \ {Chosen(s)}]]
    <2>2. ASSUME NEW s \in D(n + 1), s \notin D(n)
          PROVE  s # {} /\ Chosen(s) \in S /\ s \ {Chosen(s)} \in D(n)
      <3>1. Cardinality(s) = n + 1
        BY <1>1, <2>2
      <3>2. s # {}
        BY <1>2, <3>1
      <3> QED BY <1>3, <3>1, <3>2
    <2>3. ASSUME NEW s \in D(n), s # {}
          PROVE  s \ {Chosen(s)} \in D(n)
      BY <1>1, <1>3, <2>3
    <2>4. D(n) \subseteq D(n + 1)
      BY <1>1
    <2>5. y \in [D(n + 1) -> Int]
      BY <2>1, <2>2
    <2>6. ASSUME NEW s \in D(n + 1)
          PROVE  y[s] = IF s = {} THEN 0 ELSE f[Chosen(s)] + y[s \ {Chosen(s)}]
      <3>1. CASE s \in D(n)
        BY <2>1, <2>3, <2>4, <3>1
      <3>2. CASE s \notin D(n)
        BY <2>2, <2>4, <3>2
      <3> QED BY <3>1, <3>2
    <2>7. P(y, n + 1)
      BY <2>6
    <2> HIDE DEF y, D, P
    <2>8. \E v \in [D(n + 1) -> Int] : P(v, n + 1)
      BY <2>5, <2>7
    <2> QED BY <2>8
  <1>6. Cardinality(S) \in N
    <2> HIDE DEF N
    <2>1. Nat \subseteq N
      BY <1>4, <1>5, Induction
    <2> QED BY <1>1, <2>1
  <1>7. D(Cardinality(S)) = SUBSET S
    BY <1>1, FS_Subset
  <1>8. PICK z \in [SUBSET S -> Int] : P(z, Cardinality(S))
    BY <1>6, <1>7
  <1>9. \A s \in SUBSET S : z[s] = IF s = {} THEN 0 ELSE f[Chosen(s)] + z[s \ {Chosen(s)}]
    BY <1>7, <1>8
  <1>10. z = [s \in SUBSET S |-> z[s]]
    OBVIOUS
  <1>11. Sums(z, f, S)
    BY <1>9, <1>10 DEF Sums
  <1> QED BY <1>11

\* Sums of the same function agree, whatever set they were made for.
LEMMA SumsAgree ==
    ASSUME NEW S, NEW T, NEW f, NEW y, NEW z, Sums(y, f, S), Sums(z, f, T),
           NEW u, u \subseteq S, u \subseteq T, IsFiniteSet(u)
    PROVE  y[u] = z[u]
  <1> DEFINE N == { n \in Nat : \A s \in SUBSET u : Cardinality(s) = n => y[s] = z[s] }
  <1>1. \A s \in SUBSET u : IsFiniteSet(s) /\ Cardinality(s) \in Nat
    BY FS_Subset, FS_CardinalityType
  <1>2. \A s \in SUBSET u :
          /\ y[s] = IF s = {} THEN 0 ELSE f[Chosen(s)] + y[s \ {Chosen(s)}]
          /\ z[s] = IF s = {} THEN 0 ELSE f[Chosen(s)] + z[s \ {Chosen(s)}]
    BY DEF Sums
  <1>3. 0 \in N
    BY <1>1, <1>2, FS_EmptySet
  <1>4. ASSUME NEW n \in Nat, n \in N PROVE n + 1 \in N
    <2>1. ASSUME NEW s \in SUBSET u, Cardinality(s) = n + 1 PROVE y[s] = z[s]
      <3>1. s # {}
        BY <2>1, FS_EmptySet
      <3>2. s \ {Chosen(s)} \in SUBSET u /\ Cardinality(s \ {Chosen(s)}) = n
        BY <1>1, <2>1, <3>1, ChosenElement
      <3>3. y[s \ {Chosen(s)}] = z[s \ {Chosen(s)}]
        BY <1>4, <3>2
      <3> QED BY <1>2, <3>1, <3>3
    <2> QED BY <2>1
  <1>5. Cardinality(u) \in N
    <2> HIDE DEF N
    <2>1. Nat \subseteq N
      BY <1>3, <1>4, Induction
    <2> QED BY <1>1, <2>1
  <1> QED BY <1>5

\* The sum of f over S.
SumOver(f, S) == (CHOOSE z : Sums(z, f, S))[S]

LEMMA SumIsUnique ==
    ASSUME NEW U, NEW f \in [U -> Int], NEW S, S \subseteq U, IsFiniteSet(S),
           NEW T, NEW z, Sums(z, f, T), S \subseteq T
    PROVE  SumOver(f, S) = z[S]
  <1> DEFINE g == [x \in S |-> f[x]]
  <1>1. PICK y : Sums(y, g, S)
    BY SumsExist
  <1>2. \A s \in SUBSET S : s # {} => Chosen(s) \in S
    BY DEF Chosen
  <1>3. Sums(y, f, S)
    BY <1>1, <1>2 DEF Sums
  <1> DEFINE w == CHOOSE v : Sums(v, f, S)
  <1>4. Sums(w, f, S)
    BY <1>3, Zenon
  <1> HIDE DEF w
  <1>5. w[S] = z[S]
    BY <1>4, SumsAgree
  <1> QED BY <1>5 DEF SumOver, w

\* z holds the sum over every subset of S.
HoldsSums(z, f, S) ==
    /\ z \in [SUBSET S -> Int]
    /\ Sums(z, f, S)
    /\ \A s \in SUBSET S : SumOver(f, s) = z[s]

LEMMA SumIsHeld ==
    ASSUME NEW U, NEW f \in [U -> Int], NEW S, S \subseteq U, IsFiniteSet(S)
    PROVE  \E z : HoldsSums(z, f, S)
  <1> DEFINE g == [x \in S |-> f[x]]
  <1>1. PICK z \in [SUBSET S -> Int] : Sums(z, g, S)
    BY SumsExist
  <1>2. \A s \in SUBSET S : s # {} => Chosen(s) \in S
    BY DEF Chosen
  <1>3. Sums(z, f, S)
    BY <1>1, <1>2 DEF Sums
  <1>4. \A s \in SUBSET S : SumOver(f, s) = z[s]
    <2>1. ASSUME NEW s \in SUBSET S PROVE SumOver(f, s) = z[s]
      <3>1. IsFiniteSet(s) /\ s \subseteq U
        BY FS_Subset
      <3> QED BY <1>3, <3>1, SumIsUnique
    <2> QED BY <2>1
  <1> QED BY <1>3, <1>4 DEF HoldsSums

\* Sums of integers are integers, and nothing sums to zero.
LEMMA SumType ==
    ASSUME NEW U, NEW f \in [U -> Int], NEW S, S \subseteq U, IsFiniteSet(S)
    PROVE  SumOver(f, S) \in Int /\ SumOver(f, {}) = 0
  <1>0. PICK z : HoldsSums(z, f, S)
    BY SumIsHeld
  <1>1. /\ z \in [SUBSET S -> Int] /\ Sums(z, f, S)
        /\ \A s \in SUBSET S : SumOver(f, s) = z[s]
    BY <1>0 DEF HoldsSums
  <1>2. z[{}] = 0
    BY <1>1 DEF Sums
  <1> QED BY <1>1, <1>2

\* The order in which elements are chosen does not matter.
LEMMA SumRemove ==
    ASSUME NEW U, NEW f \in [U -> Int], NEW S, S \subseteq U, IsFiniteSet(S), NEW e \in S
    PROVE  SumOver(f, S) = f[e] + SumOver(f, S \ {e})
  <1>0. PICK z : HoldsSums(z, f, S)
    BY SumIsHeld
  <1>1. /\ z \in [SUBSET S -> Int] /\ Sums(z, f, S)
        /\ \A s \in SUBSET S : SumOver(f, s) = z[s]
    BY <1>0 DEF HoldsSums
  <1>2. \A s \in SUBSET S : IsFiniteSet(s) /\ Cardinality(s) \in Nat
    BY FS_Subset, FS_CardinalityType
  <1>3. ASSUME NEW s \in SUBSET S, s # {}
        PROVE  /\ Chosen(s) \in s
               /\ z[s] = f[Chosen(s)] + z[s \ {Chosen(s)}]
               /\ Cardinality(s \ {Chosen(s)}) = Cardinality(s) - 1
    <2>1. z[s] = f[Chosen(s)] + z[s \ {Chosen(s)}]
      BY <1>1, <1>3 DEF Sums
    <2> QED BY <1>2, <1>3, <2>1, ChosenElement
  <1> DEFINE N == { n \in Nat : \A s \in SUBSET S : Cardinality(s) = n =>
                        \A x \in s : z[s] = f[x] + z[s \ {x}] }
  <1>4. 0 \in N
    BY <1>2, FS_EmptySet
  <1>5. ASSUME NEW n \in Nat, n \in N PROVE n + 1 \in N
    <2>1. ASSUME NEW s \in SUBSET S, Cardinality(s) = n + 1, NEW x \in s
          PROVE  z[s] = f[x] + z[s \ {x}]
      <3> DEFINE c == Chosen(s)
      <3>1. /\ c \in s /\ z[s] = f[c] + z[s \ {c}]
            /\ Cardinality(s \ {c}) = n /\ s \ {c} \in SUBSET S
        BY <1>3, <2>1
      <3>2. Cardinality(s \ {x}) = n /\ s \ {x} \in SUBSET S
        <4>1. IsFiniteSet(s)
          BY <1>2
        <4>2. Cardinality(s \ {x}) = Cardinality(s) - 1
          BY <2>1, <4>1, FS_RemoveElement
        <4> QED BY <2>1, <4>2
      <3> HIDE DEF c
      <3>3. CASE x = c
        BY <3>1, <3>3
      <3>4. CASE x # c
        <4>1. z[s \ {c}] = f[x] + z[(s \ {c}) \ {x}]
          BY <1>5, <3>1, <3>4
        <4>2. z[s \ {x}] = f[c] + z[(s \ {x}) \ {c}]
          BY <1>5, <3>1, <3>2, <3>4
        <4>3. (s \ {c}) \ {x} = (s \ {x}) \ {c} /\ (s \ {x}) \ {c} \in SUBSET S
          OBVIOUS
        <4>4. f[x] \in Int /\ f[c] \in Int /\ z[(s \ {x}) \ {c}] \in Int
          BY <1>1, <3>1, <4>3
        <4>5. \A i, j, k \in Int : i + (j + k) = j + (i + k)
          OBVIOUS
        <4>6. z[s] = f[c] + (f[x] + z[(s \ {x}) \ {c}])
          BY <3>1, <4>1, <4>3, Zenon
        <4>7. f[c] + (f[x] + z[(s \ {x}) \ {c}]) = f[x] + (f[c] + z[(s \ {x}) \ {c}])
          BY <4>4, <4>5, Zenon
        <4> QED BY <4>2, <4>6, <4>7, Zenon
      <3> QED BY <3>3, <3>4
    <2> QED BY <2>1
  <1>6. Cardinality(S) \in N
    <2> HIDE DEF N
    <2>1. Nat \subseteq N
      BY <1>4, <1>5, Induction
    <2> QED BY <1>2, <2>1
  <1>7. z[S] = f[e] + z[S \ {e}]
    BY <1>6
  <1> QED BY <1>1, <1>7

-----------------------------------------------------------------------------
(* Balances *)

Delta == [e \in Rows |-> e.posting.delta]

\* The sum of the deltas of some events, as the properties write it.
LEMMA DeltasAreSummed ==
    ASSUME NEW S, S \subseteq Rows, IsFiniteSet(S)
    PROVE  MapThenSumSet(LAMBDA e : e.posting.delta, S) = SumOver(Delta, S)
  <1>1. Delta \in [Rows -> Int]
    BY DEF Delta, Rows, Postings
  <1> DEFINE Eq(z) == z = [s \in SUBSET S |->
                 IF s = {} THEN 0
                 ELSE (CHOOSE x \in s : TRUE).posting.delta + z[s \ {CHOOSE x \in s : TRUE}]]
             y == CHOOSE z : Eq(z)
  <1>2. PICK z : HoldsSums(z, Delta, S)
    BY <1>1, SumIsHeld
  <1>3. \A s \in SUBSET S : s # {} => Chosen(s) \in S /\ Delta[Chosen(s)] = Chosen(s).posting.delta
    BY DEF Chosen, Delta
  <1>4. z = [s \in SUBSET S |-> IF s = {} THEN 0 ELSE Chosen(s).posting.delta + z[s \ {Chosen(s)}]]
    BY <1>2, <1>3 DEF HoldsSums, Sums
  <1>5. Eq(z)
    BY <1>4, Zenon DEF Chosen
  <1>6. Eq(y)
    BY <1>5, Zenon
  <1>7. MapThenSumSet(LAMBDA e : e.posting.delta, S) = y[S]
    BY Zenon DEF MapThenSumSet, MapThenFoldSet
  <1>8. y = [s \in SUBSET S |-> IF s = {} THEN 0 ELSE Chosen(s).posting.delta + y[s \ {Chosen(s)}]]
    BY <1>6, Zenon DEF Chosen
  <1> HIDE DEF y
  <1>9. Sums(y, Delta, S)
    BY <1>3, <1>8 DEF Sums
  <1>10. SumOver(Delta, S) = y[S]
    BY <1>1, <1>9, SumIsUnique
  <1> QED BY <1>7, <1>10, Zenon

\* The events of a history up to version n, and what they add up to.
UpTo(h, n) == { e \in h : e.version <= n }

Money(h) == SumOver(Delta, h)

\* A set of rows numbered 1, 2, ... n.
Gapless(h, n) ==
    /\ h \subseteq Rows
    /\ n \in Nat
    /\ \A e \in h : e.version \in 1..n
    /\ \A k \in 1..n : \E e \in h : e.version = k
    /\ \A e, f \in h : e.version = f.version => e = f

\* Every event passed the funds check on the balance it found.
Funded(h) == \A e \in h : ensurePostingAllowed(Money(UpTo(h, e.version - 1)), e.posting)

PostingsOf(h) == { e.posting : e \in h }

LEMMA DeltaType == Delta \in [Rows -> Int]
  BY DEF Delta, Rows, Postings

LEMMA GaplessFinite ==
    ASSUME NEW h, NEW n, Gapless(h, n)
    PROVE  IsFiniteSet(h)
  <1> DEFINE f == [e \in h |-> e.version]
  <1>1. IsFiniteSet(1..n)
    BY FS_Interval DEF Gapless
  <1>2. f \in Injection(h, 1..n)
    BY DEF Gapless, Injection, IsInjective
  <1> QED BY <1>1, <1>2, FS_Injection

\* A part of a history is a history.
LEMMA UpToGapless ==
    ASSUME NEW h, NEW n, Gapless(h, n), NEW m \in 0..n
    PROVE  Gapless(UpTo(h, m), m) /\ (Funded(h) => Funded(UpTo(h, m)))
  <1>1. n \in Nat /\ m \in Nat
    BY DEF Gapless
  <1>2. Gapless(UpTo(h, m), m)
    BY <1>1 DEF Gapless, UpTo
  <1>3. ASSUME Funded(h), NEW e \in UpTo(h, m)
        PROVE  ensurePostingAllowed(Money(UpTo(UpTo(h, m), e.version - 1)), e.posting)
    <2>1. e \in h /\ e.version <= m /\ e.version \in Nat
      BY DEF UpTo, Gapless
    <2>2. \A x \in h : x.version \in Nat
      BY DEF Gapless
    <2>3. UpTo(UpTo(h, m), e.version - 1) = UpTo(h, e.version - 1)
      BY <1>1, <2>1, <2>2 DEF UpTo
    <2>4. ensurePostingAllowed(Money(UpTo(h, e.version - 1)), e.posting)
      BY <1>3, <2>1 DEF Funded
    <2> QED BY <2>3, <2>4
  <1> QED BY <1>2, <1>3 DEF Funded

\* The whole of a history is what is up to its last number, or beyond.
LEMMA UpToAll ==
    ASSUME NEW h, NEW n, Gapless(h, n)
    PROVE  UpTo(h, n) = h
  BY DEF Gapless, UpTo

LEMMA UpToNone ==
    ASSUME NEW h, NEW n, Gapless(h, n)
    PROVE  UpTo(h, 0) = {}
  BY DEF Gapless, UpTo

LEMMA NoMoney == Money({}) = 0
  BY DeltaType, SumType, FS_EmptySet DEF Money

\* The next event of a history.
LEMMA NextEvent ==
    ASSUME NEW h, NEW n, Gapless(h, n), NEW e \in Rows, e.version = n + 1
    PROVE  /\ Gapless(h \cup {e}, n + 1)
           /\ UpTo(h \cup {e}, n) = h
           /\ Money(h) \in Int
           /\ Money(h \cup {e}) = Money(h) + e.posting.delta
           /\ PostingsOf(h \cup {e}) = PostingsOf(h) \cup {e.posting}
           /\ Funded(h) /\ ensurePostingAllowed(Money(h), e.posting) => Funded(h \cup {e})
  <1> DEFINE g == h \cup {e}
  <1>1. /\ n \in Nat /\ h \subseteq Rows /\ \A x \in h : x.version \in 1..n
        /\ \A k \in 1..n : \E x \in h : x.version = k
        /\ \A x, y \in h : x.version = y.version => x = y
    BY DEF Gapless
  <1>2. e \notin h
    BY <1>1
  <1>3. Gapless(g, n + 1)
    <2>1. g \subseteq Rows /\ n + 1 \in Nat
      BY <1>1
    <2>2. \A x \in g : x.version \in 1..(n + 1)
      BY <1>1
    <2>3. ASSUME NEW k \in 1..(n + 1) PROVE \E x \in g : x.version = k
      <3>1. CASE k = n + 1
        BY <3>1
      <3>2. CASE k # n + 1
        BY <1>1, <3>2
      <3> QED BY <3>1, <3>2
    <2>4. \A x, y \in g : x.version = y.version => x = y
      BY <1>1
    <2> QED BY <2>1, <2>2, <2>3, <2>4 DEF Gapless
  <1>4. IsFiniteSet(h) /\ IsFiniteSet(g)
    BY <1>3, GaplessFinite
  <1>5. Money(h) \in Int /\ Money(g) = Money(h) + e.posting.delta
    <2>1. Money(h) \in Int
      BY <1>1, <1>4, DeltaType, SumType DEF Money
    <2>2. g \subseteq Rows /\ e \in g
      BY <1>1
    <2>3. SumOver(Delta, g) = Delta[e] + SumOver(Delta, g \ {e})
      BY <1>4, <2>2, DeltaType, SumRemove
    <2>4. g \ {e} = h
      BY <1>2
    <2>5. Delta[e] = e.posting.delta /\ Delta[e] \in Int
      BY DeltaType DEF Delta
    <2>6. Money(g) = Delta[e] + Money(h)
      BY <2>3, <2>4, Zenon DEF Money
    <2> HIDE DEF g
    <2> QED BY <2>1, <2>5, <2>6
  <1>6. \A m \in 0..n : UpTo(g, m) = UpTo(h, m)
    BY <1>1 DEF UpTo
  <1>7. UpTo(g, n) = h
    <2>1. UpTo(h, n) = h /\ n \in 0..n
      BY <1>1, UpToAll
    <2> QED BY <1>6, <2>1
  <1>8. ASSUME Funded(h), ensurePostingAllowed(Money(h), e.posting), NEW x \in g
        PROVE  ensurePostingAllowed(Money(UpTo(g, x.version - 1)), x.posting)
    <2>1. CASE x = e
      <3>1. x.version - 1 = n
        BY <1>1, <2>1
      <3> QED BY <1>7, <1>8, <2>1, <3>1
    <2>2. CASE x \in h
      <3>1. x.version - 1 \in 0..n
        BY <1>1, <2>2
      <3>2. ensurePostingAllowed(Money(UpTo(h, x.version - 1)), x.posting)
        BY <1>8, <2>2 DEF Funded
      <3> QED BY <1>6, <3>1, <3>2
    <2> QED BY <2>1, <2>2
  <1>9. PostingsOf(g) = PostingsOf(h) \cup {e.posting}
    BY DEF PostingsOf
  <1> QED BY <1>3, <1>5, <1>7, <1>8, <1>9 DEF Funded

\* The event of a history that has a number, and the money there was before it.
LEMMA EventInHistory ==
    ASSUME NEW h, NEW n, Gapless(h, n), NEW e \in h
    PROVE  /\ e.version \in 1..n
           /\ e.version - 1 \in 0..n
           /\ UpTo(h, e.version) = UpTo(h, e.version - 1) \cup {e}
           /\ Gapless(UpTo(h, e.version - 1), e.version - 1)
           /\ Money(UpTo(h, e.version)) = Money(UpTo(h, e.version - 1)) + e.posting.delta
           /\ Money(UpTo(h, e.version - 1)) \in Int
           /\ PostingsOf(UpTo(h, e.version)) = PostingsOf(UpTo(h, e.version - 1)) \cup {e.posting}
  <1>1. /\ n \in Nat /\ e \in Rows /\ e.version \in 1..n /\ e.version - 1 \in 0..n
        /\ \A x \in h : x.version \in Nat
        /\ \A x \in h : x.version = e.version => x = e
    BY DEF Gapless
  <1>2. PICK m \in 0..n : m = e.version - 1 /\ e.version = m + 1
    BY <1>1
  <1>3. UpTo(h, m + 1) = UpTo(h, m) \cup {e}
    BY <1>1, <1>2 DEF UpTo
  <1>4. Gapless(UpTo(h, m), m)
    BY UpToGapless
  <1>5. /\ Money(UpTo(h, m) \cup {e}) = Money(UpTo(h, m)) + e.posting.delta
        /\ Money(UpTo(h, m)) \in Int
        /\ PostingsOf(UpTo(h, m) \cup {e}) = PostingsOf(UpTo(h, m)) \cup {e.posting}
    BY <1>1, <1>2, <1>4, NextEvent
  <1> QED BY <1>1, <1>2, <1>3, <1>4, <1>5

-----------------------------------------------------------------------------
(***************************************************************************)
(* The second invariant, about money.  A worker's copy stands for a history:*)
(* the committed events up to the version it was loaded at and its own      *)
(* events after them.  It holds what replaying that history gives, and      *)
(* every event of it passed the funds check on the balance it found.  The   *)
(* row a worker holds when it commits has not moved since the load, so the  *)
(* history its copy stands for becomes the history of the account.          *)
(***************************************************************************)

\* What a copy g stands for: the history it was loaded from and its own events.
FreshOf(g) == { g.fresh[i] : i \in 1..Len(g.fresh) }

HistoryOf(g, h) == UpTo(h, g.base) \cup FreshOf(g)

\* A copy holds what replaying its history gives.
Faithful(g, h) ==
    /\ Gapless(HistoryOf(g, h), g.version)
    /\ g.balance = Money(HistoryOf(g, h))
    /\ g.posted = PostingsOf(HistoryOf(g, h))
    /\ Funded(HistoryOf(g, h))

\* What is left to replay are the events after the copy's version, up to the newest that
\* were read.
InOrder(t, g, h) ==
    /\ t # {}
    /\ \A e \in t :
          /\ e.version > g.version
          /\ \A f \in h : f.version > g.version /\ f.version <= e.version => f \in t

FaithfulSnapshot(s, h) ==
    /\ s.balance = Money(UpTo(h, s.version))
    /\ s.posted = PostingsOf(UpTo(h, s.version))

FaithfulWorker(w) ==
    /\ \A a \in loaded[w] : Faithful(agg[w][a], EventsOf(a))
    /\ pc[w] = "replay" =>
          InOrder(tail[w], agg[w][leg(w).account], EventsOf(leg(w).account))

FaithfulTables ==
    /\ \A a \in Accounts : Funded(EventsOf(a))
    /\ \A s \in snapshots : FaithfulSnapshot(s, EventsOf(s.account))

MoneyInv == FaithfulTables /\ \A w \in Workers : FaithfulWorker(w)

LEMMA HistoryGapless ==
    ASSUME Inv, NEW a \in Accounts
    PROVE  Gapless(EventsOf(a), aggregateVersion[a])
  <1>1. TypeOK /\ GaplessHistory
    BY DEF Inv, TablesInv
  <1>2. EventsOf(a) \subseteq Rows /\ aggregateVersion[a] \in Nat
    BY <1>1 DEF TypeOK, EventsOf
  <1>3. /\ { e.version : e \in EventsOf(a) } = 1..aggregateVersion[a]
        /\ \A e, f \in EventsOf(a) : e.version = f.version => e = f
    BY <1>1 DEF GaplessHistory
  <1>4. \A k \in 1..aggregateVersion[a] : \E e \in EventsOf(a) : e.version = k
    BY <1>3
  <1> QED BY <1>2, <1>3, <1>4 DEF Gapless

\* Rows that are written later do not change what was read before.
LEMMA LaterRows ==
    ASSUME NEW h, NEW n, Gapless(h, n), NEW k, k \subseteq Rows, h \subseteq k,
           \A e \in k : e \in h \/ e.version > n,
           NEW m \in 0..n
    PROVE  UpTo(k, m) = UpTo(h, m)
  <1>1. n \in Nat /\ m <= n /\ m \in Nat
    BY DEF Gapless
  <1>2. ASSUME NEW e \in k, e.version <= m PROVE e \in h
    <2>0. e.version \in Nat
      BY DEF Rows
    <2>1. CASE e.version > n
      BY <1>1, <1>2, <2>0, <2>1
    <2> QED BY <2>1
  <1> QED BY <1>2 DEF UpTo

\* A worker that does not move keeps faithful copies, whatever others commit.
LEMMA SameWorkerFaithful ==
    ASSUME Inv, NEW v \in Workers, FaithfulWorker(v), SameWorker(v),
           ledgerEvents \subseteq ledgerEvents', ledgerEvents' \subseteq Rows,
           \A e \in ledgerEvents' : e \in ledgerEvents \/ e.version > aggregateVersion[e.posting.account]
    PROVE  FaithfulWorker(v)'
  <1>1. ASSUME NEW a \in Accounts
        PROVE  /\ Gapless(EventsOf(a), aggregateVersion[a])
               /\ EventsOf(a) \subseteq EventsOf(a)' /\ EventsOf(a)' \subseteq Rows
               /\ \A e \in EventsOf(a)' : e \in EventsOf(a) \/ e.version > aggregateVersion[a]
    BY HistoryGapless DEF EventsOf
  <1>2. ASSUME NEW a \in loaded[v] PROVE Faithful(agg[v][a], EventsOf(a)')
    <2>1. a \in Accounts /\ agg[v][a].base \in Nat
      BY DEF Inv, TypeOK, Aggregates
    <2>2. agg[v][a].base <= aggregateVersion[a]
      BY DEF Inv, WorkerInv, Numbered, WellNumbered
    <2>3. aggregateVersion[a] \in Nat
      BY <2>1 DEF Inv, TypeOK
    <2>4. agg[v][a].base \in 0..aggregateVersion[a]
      BY <2>1, <2>2, <2>3
    <2>5. UpTo(EventsOf(a)', agg[v][a].base) = UpTo(EventsOf(a), agg[v][a].base)
      BY <1>1, <2>1, <2>4, LaterRows
    <2>6. HistoryOf(agg[v][a], EventsOf(a)') = HistoryOf(agg[v][a], EventsOf(a))
      BY <2>5 DEF HistoryOf
    <2>7. Faithful(agg[v][a], EventsOf(a))
      BY DEF FaithfulWorker
    <2> QED BY <2>6, <2>7 DEF Faithful
  <1>3. leg(v)' = leg(v)
    BY DEF SameWorker, leg, legs
  <1>4. ASSUME pc[v] = "replay"
        PROVE  (InOrder(tail[v], agg[v][leg(v).account], EventsOf(leg(v).account)))'
    <2>1. PICK a \in Accounts : a = leg(v).account /\ tail[v] \subseteq EventsOf(a)
      BY <1>4, LegType DEF Inv, WorkerInv, LoopInv
    <2>2. InOrder(tail[v], agg[v][a], EventsOf(a))
      BY <1>4, <2>1 DEF FaithfulWorker
    <2>3. ASSUME NEW e \in tail[v], NEW f \in EventsOf(a)', f.version <= e.version PROVE f \in EventsOf(a)
      <3>0. /\ Gapless(EventsOf(a), aggregateVersion[a])
            /\ f \in EventsOf(a) \/ f.version > aggregateVersion[a]
        BY <1>1, <2>1, <2>3
      <3>1. e.version \in 1..aggregateVersion[a] /\ aggregateVersion[a] \in Nat
        BY <2>1, <3>0 DEF Gapless
      <3>2. f.version \in Nat
        BY <1>1, <2>1 DEF Rows
      <3>3. ~ (f.version > aggregateVersion[a])
        BY <2>3, <3>1, <3>2
      <3> QED BY <3>0, <3>3
    <2>4. InOrder(tail[v], agg[v][a], EventsOf(a)')
      BY <2>2, <2>3 DEF InOrder
    <2> QED BY <1>3, <2>1, <2>4 DEF SameWorker
  <1> QED BY <1>2, <1>3, <1>4 DEF FaithfulWorker, SameWorker

\* Nothing that is committed changes.
LEMMA SameTablesFaithful ==
    ASSUME FaithfulTables, UNCHANGED tables
    PROVE  FaithfulTables'
  <1>1. ledgerEvents' = ledgerEvents /\ snapshots' = snapshots
    BY DEF tables
  <1>2. \A a : EventsOf(a)' = EventsOf(a)
    BY <1>1 DEF EventsOf
  <1> QED BY <1>1, <1>2 DEF FaithfulTables

\* A step that changes no table, of one worker.
LEMMA LocalFaithful ==
    ASSUME Inv, MoneyInv, NEW w \in Workers, UNCHANGED tables,
           \A v \in Workers \ {w} : SameWorker(v), FaithfulWorker(w)'
    PROVE  MoneyInv'
  <1>1. ledgerEvents' = ledgerEvents
    BY DEF tables
  <1>2. FaithfulTables'
    BY SameTablesFaithful DEF MoneyInv
  <1>3. \A v \in Workers \ {w} : FaithfulWorker(v)'
    <2>1. ledgerEvents' \subseteq Rows
      BY <1>1 DEF Inv, TypeOK
    <2> QED BY <1>1, <2>1, SameWorkerFaithful DEF MoneyInv
  <1> QED BY <1>2, <1>3 DEF MoneyInv

\* A worker that leaves has no copies.
LEMMA LeaveFaithful ==
    ASSUME Inv, NEW w \in Workers, Leave(w)
    PROVE  FaithfulWorker(w)' /\ \A v \in Workers \ {w} : SameWorker(v)
  <1>1. pc'[w] = "idle" /\ loaded'[w] = {}
    BY DEF Inv, TypeOK, Leave
  <1>2. FaithfulWorker(w)'
    BY <1>1 DEF FaithfulWorker
  <1> QED BY <1>2, LeaveWorkerInv DEF Inv

LEMMA RollBackFaithful ==
    ASSUME Inv, MoneyInv, NEW w \in Workers, RollBack(w)
    PROVE  MoneyInv'
  <1>1. Leave(w) /\ UNCHANGED tables
    BY DEF RollBack
  <1> QED BY <1>1, LeaveFaithful, LocalFaithful

\* A worker that moves without touching its copies.
LEMMA SameCopiesFaithful ==
    ASSUME Inv, MoneyInv, NEW w \in Workers, UNCHANGED tables, UNCHANGED << loaded, agg >>,
           pc'[w] # "replay", \A v \in Workers \ {w} : SameWorker(v)
    PROVE  MoneyInv'
  <1>1. \A a : EventsOf(a)' = EventsOf(a)
    BY DEF tables, EventsOf
  <1>2. FaithfulWorker(w)
    BY DEF MoneyInv
  <1>3. FaithfulWorker(w)'
    BY <1>1, <1>2 DEF FaithfulWorker
  <1> QED BY <1>3, LocalFaithful

\* What a load starts from.
LEMMA ReadSnapshotFaithful ==
    ASSUME Inv, MoneyInv, NEW a \in Accounts, NEW g \in ReadSnapshot(a)
    PROVE  Faithful(g, EventsOf(a))
  <1> DEFINE h == EventsOf(a)
  <1>1. Gapless(h, aggregateVersion[a]) /\ Funded(h)
    BY HistoryGapless DEF MoneyInv, FaithfulTables
  <1>2. g.fresh = << >> /\ g.version = g.base /\ g.base <= aggregateVersion[a]
    BY ReadSnapshotFacts
  <1>3. g.base \in Nat /\ aggregateVersion[a] \in Nat
    BY ReadSnapshotType DEF Inv, TypeOK, Aggregates
  <1>4. HistoryOf(g, h) = UpTo(h, g.base)
    BY <1>2 DEF HistoryOf, FreshOf
  <1>5. Gapless(UpTo(h, g.base), g.base) /\ Funded(UpTo(h, g.base))
    BY <1>1, <1>2, <1>3, UpToGapless
  <1>6. g.balance = Money(UpTo(h, g.base)) /\ g.posted = PostingsOf(UpTo(h, g.base))
    <2>1. CASE SnapshotsOf(a) = {}
      <3>1. g.base = 0 /\ g.balance = 0 /\ g.posted = {}
        BY <2>1 DEF ReadSnapshot, NewLedgerAccountAggregate
      <3>2. UpTo(h, 0) = {}
        BY <1>1, UpToNone
      <3> QED BY <3>1, <3>2, NoMoney DEF PostingsOf
    <2>2. CASE SnapshotsOf(a) # {}
      <3>1. PICK s \in SnapshotsOf(a) :
               g = [base |-> s.version, version |-> s.version, balance |-> s.balance,
                    posted |-> s.posted, fresh |-> << >>]
        BY <2>2 DEF ReadSnapshot
      <3>2. s \in snapshots /\ s.account = a
        BY DEF SnapshotsOf
      <3>3. FaithfulSnapshot(s, h)
        BY <3>2 DEF MoneyInv, FaithfulTables
      <3> QED BY <3>1, <3>3 DEF FaithfulSnapshot
    <2> QED BY <2>1, <2>2
  <1> HIDE DEF h
  <1>7. Faithful(g, h)
    BY <1>2, <1>4, <1>5, <1>6 DEF Faithful
  <1> QED BY <1>7 DEF h

\* The copies of a worker that changes one of them.
LEMMA OneCopyFaithful ==
    ASSUME Inv, MoneyInv, NEW w \in Workers, NEW a \in Accounts, UNCHANGED tables,
           loaded'[w] = loaded[w] \cup {a},
           \A b \in Accounts \ {a} : agg'[w][b] = agg[w][b],
           Faithful(agg'[w][a], EventsOf(a)),
           pc'[w] = "replay" =>
               leg(w)'.account = a /\ InOrder(tail'[w], agg'[w][a], EventsOf(a)),
           \A v \in Workers \ {w} : SameWorker(v)
    PROVE  MoneyInv'
  <1>1. \A b : EventsOf(b)' = EventsOf(b)
    BY DEF tables, EventsOf
  <1>2. ASSUME NEW b \in loaded'[w] PROVE Faithful(agg'[w][b], EventsOf(b)')
    <2>1. CASE b = a
      BY <1>1, <2>1
    <2>2. CASE b # a
      <3>1. b \in loaded[w] /\ b \in Accounts
        BY <2>2 DEF Inv, TypeOK
      <3>2. Faithful(agg[w][b], EventsOf(b))
        BY <3>1 DEF MoneyInv, FaithfulWorker
      <3> QED BY <1>1, <2>2, <3>1, <3>2
    <2> QED BY <2>1, <2>2
  <1>3. FaithfulWorker(w)'
    BY <1>1, <1>2 DEF FaithfulWorker
  <1> QED BY <1>3, LocalFaithful

LEMMA LoadFaithful ==
    ASSUME Inv, MoneyInv, NEW w \in Workers, loadLedgerAccount(w)
    PROVE  MoneyInv'
  <1>1. /\ TypeOK /\ LoopInv(w)
        /\ pc[w] = "load" /\ InLoop(w)
        /\ UNCHANGED << tables, rowHolder, issued, req, applied >>
    BY DEF Inv, WorkerInv, loadLedgerAccount
  <1>2. PICK a \in Accounts : a = leg(w).account
    BY <1>1, LegType
  <1>3. CASE a \in loaded[w]
    <2>1. Goto(w, "load", next[w] + 1) /\ UNCHANGED << loaded, agg, tail >>
      BY <1>2, <1>3 DEF loadLedgerAccount
    <2>2. pc'[w] = "load"
      BY <1>1, <2>1 DEF Goto, TypeOK
    <2>3. \A v \in Workers \ {w} : SameWorker(v)
      BY <1>1, <2>1 DEF SameWorker, Goto, TypeOK
    <2> QED BY <1>1, <2>1, <2>2, <2>3, SameCopiesFaithful
  <1>4. CASE a \notin loaded[w]
    <2> DEFINE after(g) == { e \in EventsOf(a) : e.version > g.version }
    <2>1. PICK g \in ReadSnapshot(a) :
            /\ loaded' = [loaded EXCEPT ![w] = @ \cup {a}]
            /\ agg' = [agg EXCEPT ![w][a] = g]
            /\ tail' = [tail EXCEPT ![w] = after(g)]
            /\ IF after(g) = {} THEN Goto(w, "load", next[w] + 1)
                                ELSE Goto(w, "replay", next[w])
      BY <1>2, <1>4 DEF loadLedgerAccount
    <2>2. Faithful(g, EventsOf(a))
      BY ReadSnapshotFaithful
    <2>3. after(g) # {} => InOrder(after(g), g, EventsOf(a))
      BY DEF InOrder
    <2> HIDE DEF after
    <2>4. /\ loaded'[w] = loaded[w] \cup {a}
          /\ agg'[w][a] = g
          /\ \A b \in Accounts \ {a} : agg'[w][b] = agg[w][b]
          /\ tail'[w] = after(g)
      BY <1>1, <2>1 DEF TypeOK
    <2>5. \A v \in Workers \ {w} : SameWorker(v)
      <3>1. Goto(w, "load", next[w] + 1) \/ Goto(w, "replay", next[w])
        BY <2>1
      <3>2. \A v \in Workers \ {w} : pc'[v] = pc[v] /\ next'[v] = next[v]
        BY <1>1, <3>1 DEF Goto, TypeOK
      <3>3. \A v \in Workers \ {w} : loaded'[v] = loaded[v] /\ agg'[v] = agg[v] /\ tail'[v] = tail[v]
        BY <1>1, <2>1 DEF TypeOK
      <3> QED BY <1>1, <3>2, <3>3 DEF SameWorker
    <2>6. pc'[w] = "replay" => after(g) # {} /\ next'[w] = next[w]
      <3>1. CASE after(g) = {}
        BY <1>1, <2>1, <3>1 DEF Goto, TypeOK
      <3>2. CASE after(g) # {}
        BY <1>1, <2>1, <3>2 DEF Goto, TypeOK
      <3> QED BY <3>1, <3>2
    <2>7. pc'[w] = "replay" => leg(w)'.account = a
      BY <1>1, <1>2, <2>6 DEF leg, legs
    <2>8. Faithful(agg'[w][a], EventsOf(a))
      BY <2>2, <2>4
    <2>9. pc'[w] = "replay" => InOrder(tail'[w], agg'[w][a], EventsOf(a))
      BY <2>3, <2>4, <2>6
    <2> QED BY <1>1, <2>4, <2>5, <2>7, <2>8, <2>9, OneCopyFaithful
  <1> QED BY <1>3, <1>4

\* The oldest event left to replay is the next one of the history, and it passes the funds
\* check a second time.
LEMMA OldestIsNext ==
    ASSUME Inv, MoneyInv, NEW w \in Workers, pc[w] = "replay", NEW e \in Oldest(w)
    PROVE  /\ e \in EventsOf(leg(w).account)
           /\ e.version = agg[w][leg(w).account].version + 1
           /\ agg[w][leg(w).account].base = agg[w][leg(w).account].version
           /\ HistoryOf(agg[w][leg(w).account], EventsOf(leg(w).account))
                = UpTo(EventsOf(leg(w).account), agg[w][leg(w).account].version)
           /\ ensurePostingAllowed(agg[w][leg(w).account].balance, e.posting)
  <1>1. PICK a \in Accounts : a = leg(w).account /\ a \in loaded[w] /\ tail[w] \subseteq EventsOf(a)
    BY LegType DEF Inv, WorkerInv, LoopInv
  <1>2. PICK g \in Aggregates : g = agg[w][a]
    BY DEF Inv, TypeOK
  <1>3. InOrder(tail[w], g, EventsOf(a)) /\ Faithful(g, EventsOf(a))
    BY <1>1, <1>2 DEF MoneyInv, FaithfulWorker
  <1>4. PICK h : h = EventsOf(a)
    OBVIOUS
  <1>5. PICK n \in Nat : n = aggregateVersion[a]
    BY DEF Inv, TypeOK
  <1>6. Gapless(h, n) /\ Funded(h)
    BY <1>4, <1>5, HistoryGapless DEF MoneyInv, FaithfulTables
  <1>7. g.fresh = << >> /\ g.base = g.version
    <2>1. g.fresh = << >>
      BY <1>1, <1>2 DEF Inv, WorkerInv, LoopInv
    <2>2. g.version = g.base + Len(g.fresh)
      BY <1>1, <1>2 DEF Inv, WorkerInv, Numbered, WellNumbered
    <2>3. g.base \in Nat
      BY DEF Aggregates
    <2> QED BY <2>1, <2>2, <2>3
  <1>8. HistoryOf(g, h) = UpTo(h, g.version)
    BY <1>7 DEF HistoryOf, FreshOf
  <1>9. e \in h /\ e \in tail[w] /\ \A f \in tail[w] : e.version <= f.version
    BY <1>1, <1>4 DEF Oldest
  <1>10. e.version \in 1..n /\ e.version > g.version /\ g.version \in Nat
    BY <1>3, <1>6, <1>9 DEF InOrder, Gapless, Aggregates
  <1>11. e.version = g.version + 1
    <2>1. g.version + 1 \in 1..n
      BY <1>10
    <2>2. PICK f \in h : f.version = g.version + 1
      BY <1>6, <2>1 DEF Gapless
    <2>3. f \in tail[w]
      <3>1. f.version > g.version /\ f.version <= e.version
        BY <1>10, <2>2
      <3> QED BY <1>3, <1>4, <1>9, <3>1 DEF InOrder
    <2> QED BY <1>9, <1>10, <2>2, <2>3
  <1>12. ensurePostingAllowed(g.balance, e.posting)
    <2>1. e.version - 1 = g.version
      BY <1>10, <1>11
    <2>2. ensurePostingAllowed(Money(UpTo(h, e.version - 1)), e.posting)
      BY <1>6, <1>9 DEF Funded
    <2>3. g.balance = Money(UpTo(h, g.version))
      BY <1>3, <1>4, <1>8 DEF Faithful
    <2> QED BY <2>1, <2>2, <2>3
  <1> QED BY <1>1, <1>2, <1>4, <1>7, <1>8, <1>9, <1>11, <1>12

\* One event replayed.
LEMMA ReplayedCopy ==
    ASSUME NEW g \in Aggregates, NEW h, NEW n, Gapless(h, n), Funded(h), Faithful(g, h),
           HistoryOf(g, h) = UpTo(h, g.version), g.fresh = << >>,
           NEW e \in h, e.version = g.version + 1
    PROVE  Faithful(LoadFromHistory(g, e), h)
  <1> DEFINE k == LoadFromHistory(g, e)
  <1>1. /\ k.base = e.version /\ k.version = e.version /\ k.fresh = << >>
        /\ k.balance = g.balance + e.posting.delta
        /\ k.posted = g.posted \cup {e.posting}
    BY DEF LoadFromHistory
  <1>2. g.version \in Nat /\ e.version - 1 = g.version
    BY DEF Aggregates
  <1>3. /\ e.version \in 1..n
        /\ Money(UpTo(h, e.version)) = Money(UpTo(h, e.version - 1)) + e.posting.delta
        /\ PostingsOf(UpTo(h, e.version)) = PostingsOf(UpTo(h, e.version - 1)) \cup {e.posting}
    BY EventInHistory
  <1>4. g.balance = Money(UpTo(h, g.version)) /\ g.posted = PostingsOf(UpTo(h, g.version))
    BY DEF Faithful
  <1>5. e.version \in 0..n
    BY <1>3
  <1>6. Gapless(UpTo(h, e.version), e.version) /\ Funded(UpTo(h, e.version))
    BY <1>5, UpToGapless
  <1>7. HistoryOf(k, h) = UpTo(h, e.version)
    BY <1>1 DEF HistoryOf, FreshOf
  <1> HIDE DEF k
  <1>8. k.balance = Money(UpTo(h, e.version)) /\ k.posted = PostingsOf(UpTo(h, e.version))
    BY <1>1, <1>2, <1>3, <1>4
  <1>9. Faithful(k, h)
    BY <1>1, <1>6, <1>7, <1>8 DEF Faithful
  <1> QED BY <1>9 DEF k

LEMMA ReplayFaithful ==
    ASSUME Inv, MoneyInv, NEW w \in Workers, replayEvent(w)
    PROVE  MoneyInv'
  <1>1. TypeOK /\ LoopInv(w) /\ pc[w] = "replay" /\ InLoop(w)
    BY DEF Inv, WorkerInv, replayEvent
  <1>2. PICK a \in Accounts : a = leg(w).account /\ a \in loaded[w] /\ tail[w] \subseteq EventsOf(a)
    BY <1>1, LegType DEF LoopInv
  <1>3. PICK e \in Oldest(w) :
          IF ensurePostingAllowed(agg[w][a].balance, e.posting)
          THEN /\ agg' = [agg EXCEPT ![w][a] = LoadFromHistory(agg[w][a], e)]
               /\ tail' = [tail EXCEPT ![w] = @ \ {e}]
               /\ IF tail[w] = {e} THEN Goto(w, "load", next[w] + 1)
                                   ELSE Goto(w, "replay", next[w])
               /\ UNCHANGED << tables, rowHolder, issued, req, applied, loaded >>
          ELSE RollBack(w)
    BY <1>2 DEF replayEvent
  <1>4. PICK g \in Aggregates : g = agg[w][a]
    BY <1>1 DEF TypeOK
  <1>5. /\ e \in EventsOf(a)
        /\ e.version = g.version + 1
        /\ HistoryOf(g, EventsOf(a)) = UpTo(EventsOf(a), g.version)
        /\ ensurePostingAllowed(g.balance, e.posting)
    BY <1>1, <1>2, <1>4, OldestIsNext
  <1>6. PICK k \in Aggregates : k = LoadFromHistory(g, e)
    <2>1. e \in Rows
      BY <1>1, <1>5 DEF TypeOK, EventsOf
    <2> QED BY <2>1, AggregateSteps
  <1>7. /\ agg' = [agg EXCEPT ![w][a] = k]
        /\ tail' = [tail EXCEPT ![w] = @ \ {e}]
        /\ IF tail[w] = {e} THEN Goto(w, "load", next[w] + 1)
                            ELSE Goto(w, "replay", next[w])
        /\ UNCHANGED << tables, rowHolder, issued, req, applied, loaded >>
    BY <1>3, <1>4, <1>5, <1>6
  <1>8. Faithful(k, EventsOf(a))
    <2>1. Gapless(EventsOf(a), aggregateVersion[a]) /\ Funded(EventsOf(a))
      BY HistoryGapless DEF MoneyInv, FaithfulTables
    <2>2. Faithful(g, EventsOf(a))
      BY <1>2, <1>4 DEF MoneyInv, FaithfulWorker
    <2>3. g.fresh = << >>
      BY <1>1, <1>2, <1>4 DEF LoopInv
    <2> QED BY <1>5, <1>6, <2>1, <2>2, <2>3, ReplayedCopy
  <1>9. /\ agg'[w][a] = k
        /\ \A b \in Accounts \ {a} : agg'[w][b] = agg[w][b]
        /\ tail'[w] = tail[w] \ {e}
        /\ loaded'[w] = loaded[w] \cup {a}
    BY <1>1, <1>2, <1>7 DEF TypeOK
  <1>10. \A v \in Workers \ {w} : SameWorker(v)
    <2>1. Goto(w, "load", next[w] + 1) \/ Goto(w, "replay", next[w])
      BY <1>7
    <2>2. \A v \in Workers \ {w} : pc'[v] = pc[v] /\ next'[v] = next[v]
      BY <1>1, <2>1 DEF Goto, TypeOK
    <2>3. \A v \in Workers \ {w} : agg'[v] = agg[v] /\ tail'[v] = tail[v]
      BY <1>1, <1>7 DEF TypeOK
    <2> QED BY <1>7, <2>2, <2>3 DEF SameWorker
  <1>11. pc'[w] = "replay" => tail[w] # {e} /\ next'[w] = next[w]
    <2>1. CASE tail[w] = {e}
      BY <1>1, <1>7, <2>1 DEF Goto, TypeOK
    <2>2. CASE tail[w] # {e}
      BY <1>1, <1>7, <2>2 DEF Goto, TypeOK
    <2> QED BY <2>1, <2>2
  <1>12. pc'[w] = "replay" => leg(w)'.account = a
    BY <1>2, <1>7, <1>11 DEF leg, legs
  <1>13. ASSUME tail[w] # {e} PROVE InOrder(tail[w] \ {e}, k, EventsOf(a))
    <2>1. InOrder(tail[w], g, EventsOf(a))
      BY <1>1, <1>2, <1>4 DEF MoneyInv, FaithfulWorker
    <2>2. Gapless(EventsOf(a), aggregateVersion[a])
      BY HistoryGapless
    <2>3. k.version = g.version + 1 /\ g.version \in Nat
      BY <1>5, <1>6 DEF LoadFromHistory, Aggregates
    <2>4. \A f \in EventsOf(a) : f.version \in Nat /\ (f.version = e.version => f = e)
      BY <1>5, <2>2 DEF Gapless
    <2>5. tail[w] \ {e} # {}
      BY <1>13, <2>1 DEF InOrder
    <2>6. ASSUME NEW f \in tail[w] \ {e} PROVE f.version > k.version
      <3>1. f \in EventsOf(a) /\ f.version > g.version
        BY <1>2, <2>1 DEF InOrder
      <3> QED BY <1>5, <2>3, <2>4, <3>1
    <2>7. ASSUME NEW f \in tail[w] \ {e}, NEW x \in EventsOf(a),
                 x.version > k.version, x.version <= f.version
          PROVE  x \in tail[w] \ {e}
      <3>1. x.version > g.version /\ x # e
        BY <1>5, <2>3, <2>4, <2>7
      <3>2. x \in tail[w]
        BY <2>1, <2>7, <3>1 DEF InOrder
      <3> QED BY <3>1, <3>2
    <2> QED BY <2>5, <2>6, <2>7 DEF InOrder
  <1>14. UNCHANGED tables
    BY <1>7
  <1>15. Faithful(agg'[w][a], EventsOf(a))
    BY <1>8, <1>9
  <1>16. pc'[w] = "replay" =>
           leg(w)'.account = a /\ InOrder(tail'[w], agg'[w][a], EventsOf(a))
    BY <1>9, <1>11, <1>12, <1>13
  <1> QED BY <1>9, <1>10, <1>14, <1>15, <1>16, OneCopyFaithful

\* One leg booked.
LEMMA BookedCopy ==
    ASSUME NEW g \in Aggregates, NEW h, Faithful(g, h), NEW p \in Postings,
           ensurePostingAllowed(g.balance, p)
    PROVE  Faithful(ApplyChange(g, p), h)
  <1>1. PICK e \in Rows : e = [posting |-> p, version |-> g.version + 1]
    <2>1. g.version + 1 \in Nat
      BY DEF Aggregates
    <2> QED BY <2>1 DEF Rows
  <1>2. e.version = g.version + 1 /\ e.posting = p
    BY <1>1
  <1>3. PICK s \in Seq(Rows) : s = g.fresh
    BY DEF Aggregates
  <1>4. PICK k : k = ApplyChange(g, p)
    OBVIOUS
  <1>5. /\ k.base = g.base /\ k.version = g.version + 1
        /\ k.balance = g.balance + p.delta
        /\ k.posted = g.posted \cup {p}
        /\ k.fresh = Append(s, e)
    BY <1>1, <1>3, <1>4 DEF ApplyChange
  <1>6. FreshOf(k) = FreshOf(g) \cup {e}
    <2>1. /\ Len(Append(s, e)) = Len(s) + 1 /\ Len(s) \in Nat
          /\ \A i \in 1..Len(s) : Append(s, e)[i] = s[i]
          /\ Append(s, e)[Len(s) + 1] = e
      OBVIOUS
    <2>2. \A i \in 1..(Len(s) + 1) : i \in 1..Len(s) \/ i = Len(s) + 1
      BY <2>1
    <2>3. 1..Len(s) \subseteq 1..(Len(s) + 1) /\ Len(s) + 1 \in 1..(Len(s) + 1)
      BY <2>1
    <2>4. FreshOf(k) = { Append(s, e)[i] : i \in 1..(Len(s) + 1) }
      BY <1>5, <2>1 DEF FreshOf
    <2>5. FreshOf(g) = { s[i] : i \in 1..Len(s) }
      BY <1>3 DEF FreshOf
    <2> QED BY <2>1, <2>2, <2>3, <2>4, <2>5
  <1>7. PICK v : v = HistoryOf(g, h)
    OBVIOUS
  <1>8. HistoryOf(k, h) = v \cup {e}
    BY <1>5, <1>6, <1>7 DEF HistoryOf
  <1>9. /\ Gapless(v, g.version) /\ Funded(v)
        /\ g.balance = Money(v) /\ g.posted = PostingsOf(v)
    BY <1>7 DEF Faithful
  <1>10. /\ Gapless(v \cup {e}, g.version + 1)
         /\ Money(v \cup {e}) = Money(v) + e.posting.delta
         /\ PostingsOf(v \cup {e}) = PostingsOf(v) \cup {e.posting}
         /\ Funded(v \cup {e})
    <2>1. ensurePostingAllowed(Money(v), e.posting)
      BY <1>2, <1>9
    <2>2. PICK n : n = g.version /\ Gapless(v, n) /\ e.version = n + 1
      BY <1>2, <1>9
    <2>3. /\ Gapless(v \cup {e}, n + 1)
          /\ Money(v \cup {e}) = Money(v) + e.posting.delta
          /\ PostingsOf(v \cup {e}) = PostingsOf(v) \cup {e.posting}
          /\ Funded(v) /\ ensurePostingAllowed(Money(v), e.posting) => Funded(v \cup {e})
      BY <2>2, NextEvent
    <2> QED BY <1>9, <2>1, <2>2, <2>3
  <1>11. Faithful(k, h)
    BY <1>2, <1>5, <1>8, <1>9, <1>10 DEF Faithful
  <1> QED BY <1>4, <1>11

LEMMA ApplyFaithful ==
    ASSUME Inv, MoneyInv, NEW w \in Workers, applyPosting(w)
    PROVE  MoneyInv'
  <1>1. /\ TypeOK /\ LoopInv(w) /\ pc[w] = "apply" /\ InLoop(w)
        /\ Goto(w, "apply", next[w] + 1)
        /\ UNCHANGED << tables, rowHolder, issued, req, loaded, tail >>
    BY DEF Inv, WorkerInv, applyPosting
  <1>2. PICK p \in Postings : p = leg(w)
    BY <1>1, LegType
  <1>3. PICK a \in Accounts : a = p.account
    BY DEF Postings
  <1>4. a \in loaded[w]
    <2>1. next[w] \in 1..Len(legs(w)) /\ legs(w)[next[w]] = leg(w)
      BY <1>1, LegsType DEF InLoop, TypeOK, leg
    <2> QED BY <1>1, <1>2, <1>3, <2>1 DEF LoopInv
  <1>5. PICK g \in Aggregates : g = agg[w][a]
    BY <1>1 DEF TypeOK
  <1>6. pc'[w] = "apply"
    BY <1>1 DEF Goto, TypeOK
  <1>7. CASE UNCHANGED << agg, applied >>
    <2>1. \A v \in Workers \ {w} : SameWorker(v)
      BY <1>1, <1>7 DEF SameWorker, Goto, TypeOK
    <2> QED BY <1>1, <1>6, <1>7, <2>1, SameCopiesFaithful
  <1>8. CASE /\ ensurePostingAllowed(g.balance, p)
             /\ agg' = [agg EXCEPT ![w][a] = ApplyChange(g, p)]
             /\ applied' = [applied EXCEPT ![w] = @ + 1]
    <2>1. PICK k : k = ApplyChange(g, p)
      OBVIOUS
    <2>2. Faithful(k, EventsOf(a))
      <3>1. Faithful(g, EventsOf(a))
        BY <1>4, <1>5 DEF MoneyInv, FaithfulWorker
      <3> QED BY <1>8, <2>1, <3>1, BookedCopy
    <2>3. /\ agg'[w][a] = k
          /\ \A b \in Accounts \ {a} : agg'[w][b] = agg[w][b]
      BY <1>1, <1>8, <2>1 DEF TypeOK
    <2>4. loaded'[w] = loaded[w] \cup {a}
      BY <1>1, <1>4
    <2>5. \A v \in Workers \ {w} : SameWorker(v)
      <3>1. \A v \in Workers \ {w} : agg'[v] = agg[v] /\ applied'[v] = applied[v]
        BY <1>1, <1>8 DEF TypeOK
      <3>2. \A v \in Workers \ {w} : pc'[v] = pc[v] /\ next'[v] = next[v]
        BY <1>1 DEF Goto, TypeOK
      <3> QED BY <1>1, <3>1, <3>2 DEF SameWorker
    <2>6. Faithful(agg'[w][a], EventsOf(a)) /\ UNCHANGED tables
      BY <1>1, <2>2, <2>3
    <2> QED BY <1>6, <2>3, <2>4, <2>5, <2>6, OneCopyFaithful
  <1>9. \/ /\ ensurePostingAllowed(g.balance, p)
           /\ agg' = [agg EXCEPT ![w][a] = ApplyChange(g, p)]
           /\ applied' = [applied EXCEPT ![w] = @ + 1]
        \/ UNCHANGED << agg, applied >>
    BY <1>2, <1>3, <1>5 DEF applyPosting
  <1> QED BY <1>7, <1>8, <1>9

\* What a worker commits is its copy's history.
LEMMA CommittedHistory ==
    ASSUME Inv, MoneyInv, NEW w \in Workers, commit(w), NEW a \in Accounts
    PROVE  /\ a \in loaded[w] => EventsOf(a)' = HistoryOf(agg[w][a], EventsOf(a))
           /\ a \notin loaded[w] => EventsOf(a)' = EventsOf(a)
           /\ \A e \in EventsOf(a)' : e \in EventsOf(a) \/ e.version > aggregateVersion[a]
  <1>1. ledgerEvents' = ledgerEvents \cup FreshRows(w)
    BY CommitRows
  <1>2. CASE a \notin loaded[w]
    <2>1. \A e \in FreshRows(w) : e.posting.account # a
      BY <1>2, CommitRows
    <2>2. EventsOf(a)' = EventsOf(a)
      BY <1>1, <2>1 DEF EventsOf
    <2> QED BY <1>2, <2>2
  <1>3. CASE a \in loaded[w]
    <2>1. PICK g \in Aggregates : g = agg[w][a]
      BY DEF Inv, TypeOK
    <2>2. /\ g.base = aggregateVersion[a] /\ aggregateVersion[a] \in Nat
          /\ Len(g.fresh) \in Nat
          /\ \A i \in 1..Len(g.fresh) : g.fresh[i] \in FreshRows(w)
      BY <1>3, <2>1, CommitFacts
    <2>3. \A i \in 1..Len(g.fresh) : g.fresh[i].version = g.base + i /\ g.fresh[i].posting.account = a
      BY <1>3, <2>1, CommitFacts DEF Numbered, WellNumbered
    <2>4. ASSUME NEW e \in FreshRows(w), e.posting.account = a PROVE e \in FreshOf(g)
      BY <2>1, <2>4, CommitRows DEF FreshOf
    <2>5. ASSUME NEW e \in FreshOf(g)
          PROVE  e \in FreshRows(w) /\ e.posting.account = a /\ e.version > aggregateVersion[a]
      <3>1. PICK i \in 1..Len(g.fresh) : e = g.fresh[i]
        BY DEF FreshOf
      <3> QED BY <2>2, <2>3, <3>1
    <2>6. EventsOf(a)' = EventsOf(a) \cup FreshOf(g)
      BY <1>1, <2>4, <2>5 DEF EventsOf
    <2>7. UpTo(EventsOf(a), g.base) = EventsOf(a)
      BY <2>2, HistoryGapless, UpToAll
    <2>8. EventsOf(a)' = HistoryOf(g, EventsOf(a))
      BY <2>6, <2>7 DEF HistoryOf
    <2> QED BY <1>3, <2>1, <2>5, <2>6, <2>8
  <1> QED BY <1>2, <1>3

LEMMA CommitFaithful ==
    ASSUME Inv, Inv', MoneyInv, NEW w \in Workers, commit(w)
    PROVE  MoneyInv'
  <1>1. Leave(w) /\ TypeOK /\ snapshots' = snapshots \cup CreateSnapshots(w)
    BY DEF Inv, commit
  <1>2. FaithfulWorker(w)' /\ \A v \in Workers \ {w} : SameWorker(v)
    BY <1>1, LeaveFaithful
  <1>3. /\ ledgerEvents \subseteq ledgerEvents' /\ ledgerEvents' \subseteq Rows
        /\ \A e \in ledgerEvents' : e \in ledgerEvents \/ e.version > aggregateVersion[e.posting.account]
    <2>1. ledgerEvents \subseteq ledgerEvents'
      BY CommitRows
    <2>2. ledgerEvents' \subseteq Rows
      BY DEF Inv, TypeOK
    <2>3. ASSUME NEW e \in ledgerEvents', e \notin ledgerEvents
          PROVE  e.version > aggregateVersion[e.posting.account]
      <3>1. e.posting.account \in Accounts
        BY <2>2 DEF Rows, Postings
      <3>2. e \in EventsOf(e.posting.account)' /\ e \notin EventsOf(e.posting.account)
        BY <2>3 DEF EventsOf
      <3> QED BY <3>1, <3>2, CommittedHistory
    <2> QED BY <2>1, <2>2, <2>3
  <1>4. \A v \in Workers \ {w} : FaithfulWorker(v)'
    BY <1>2, <1>3, SameWorkerFaithful DEF MoneyInv
  <1>5. ASSUME NEW a \in Accounts PROVE Funded(EventsOf(a)')
    <2>1. CASE a \in loaded[w]
      <3>1. Funded(HistoryOf(agg[w][a], EventsOf(a)))
        BY <2>1 DEF MoneyInv, FaithfulWorker, Faithful
      <3> QED BY <2>1, <3>1, CommittedHistory
    <2>2. CASE a \notin loaded[w]
      BY <2>2, CommittedHistory DEF MoneyInv, FaithfulTables
    <2> QED BY <2>1, <2>2
  <1>6. ASSUME NEW s \in snapshots' PROVE FaithfulSnapshot(s, EventsOf(s.account)')
    <2>1. CASE s \in snapshots
      <3>1. PICK a \in Accounts : a = s.account /\ s.version \in Nat
        BY <1>1, <2>1 DEF TypeOK, SnapshotRows
      <3>2. s.version <= aggregateVersion[a]
        BY <2>1, <3>1 DEF Inv, TablesInv
      <3>3. Gapless(EventsOf(a), aggregateVersion[a])
        BY HistoryGapless
      <3>4. s.version \in 0..aggregateVersion[a]
        BY <3>1, <3>2, <3>3 DEF Gapless
      <3>5. EventsOf(a) \subseteq EventsOf(a)' /\ EventsOf(a)' \subseteq Rows
        BY <1>3 DEF EventsOf
      <3>6. UpTo(EventsOf(a)', s.version) = UpTo(EventsOf(a), s.version)
        BY <3>3, <3>4, <3>5, CommittedHistory, LaterRows
      <3>7. FaithfulSnapshot(s, EventsOf(a))
        BY <2>1, <3>1 DEF MoneyInv, FaithfulTables
      <3>8. FaithfulSnapshot(s, EventsOf(a)')
        BY <3>6, <3>7 DEF FaithfulSnapshot
      <3> QED BY <3>1, <3>8
    <2>2. CASE s \in CreateSnapshots(w)
      <3>1. PICK a \in loaded[w] :
              s = [account |-> a, version |-> agg[w][a].version, balance |-> agg[w][a].balance,
                   posted |-> agg[w][a].posted]
        BY <2>2 DEF CreateSnapshots
      <3>2. a \in Accounts /\ s.account = a
        BY <1>1, <3>1 DEF TypeOK
      <3>3. PICK h : h = EventsOf(a)'
        OBVIOUS
      <3>4. h = HistoryOf(agg[w][a], EventsOf(a))
        BY <3>2, <3>3, CommittedHistory
      <3>5. /\ Gapless(h, agg[w][a].version)
            /\ agg[w][a].balance = Money(h)
            /\ agg[w][a].posted = PostingsOf(h)
        BY <3>4 DEF MoneyInv, FaithfulWorker, Faithful
      <3>6. UpTo(h, agg[w][a].version) = h
        BY <3>5, UpToAll
      <3>7. FaithfulSnapshot(s, h)
        BY <3>1, <3>5, <3>6 DEF FaithfulSnapshot
      <3> QED BY <3>2, <3>3, <3>7
    <2> QED BY <1>1, <2>1, <2>2
  <1>7. FaithfulTables'
    BY <1>5, <1>6 DEF FaithfulTables
  <1> QED BY <1>2, <1>4, <1>7 DEF MoneyInv

LEMMA InitMoney == Init => MoneyInv
  <1> SUFFICES ASSUME Init PROVE MoneyInv
    OBVIOUS
  <1>1. \A a : EventsOf(a) = {}
    BY DEF Init, EventsOf
  <1>2. FaithfulTables
    BY <1>1 DEF Init, FaithfulTables, Funded
  <1>3. \A w \in Workers : FaithfulWorker(w)
    BY DEF Init, FaithfulWorker
  <1> QED BY <1>2, <1>3 DEF MoneyInv

LEMMA NextMoney == Inv /\ Inv' /\ MoneyInv /\ [Next]_vars => MoneyInv'
  <1> SUFFICES ASSUME Inv, Inv', MoneyInv, [Next]_vars PROVE MoneyInv'
    OBVIOUS
  <1>1. CASE UNCHANGED vars
    <2>1. /\ UNCHANGED tables /\ UNCHANGED << pc, req, next, applied, loaded, agg, tail >>
      BY <1>1 DEF vars, local
    <2>2. \A w \in Workers : SameWorker(w)
      BY <2>1 DEF SameWorker
    <2>3. ledgerEvents' = ledgerEvents /\ ledgerEvents' \subseteq Rows
      BY <2>1 DEF tables, Inv, TypeOK
    <2>4. \A w \in Workers : FaithfulWorker(w)'
      BY <2>2, <2>3, SameWorkerFaithful DEF MoneyInv
    <2> QED BY <2>1, <2>4, SameTablesFaithful DEF MoneyInv
  <1>2. ASSUME NEW w \in Workers, NEW r \in Requests, Begin(w, r) PROVE MoneyInv'
    <2>1. UNCHANGED tables /\ UNCHANGED << loaded, agg >> /\ pc'[w] # "replay"
      BY <1>2 DEF Begin, Goto, Inv, TypeOK
    <2>2. \A v \in Workers \ {w} : SameWorker(v)
      BY <1>2 DEF Begin, Goto, SameWorker, Inv, TypeOK
    <2> QED BY <2>1, <2>2, SameCopiesFaithful
  <1>3. ASSUME NEW w \in Workers, NEW place, NEW index, place # "replay",
               Goto(w, place, index), UNCHANGED << tables, req, applied, loaded, agg, tail >>
        PROVE  MoneyInv'
    <2>1. UNCHANGED tables /\ UNCHANGED << loaded, agg >> /\ pc'[w] # "replay"
      BY <1>3 DEF Goto, Inv, TypeOK
    <2>2. \A v \in Workers \ {w} : SameWorker(v)
      BY <1>3 DEF Goto, SameWorker, Inv, TypeOK
    <2> QED BY <2>1, <2>2, SameCopiesFaithful
  <1>4. ASSUME NEW w \in Workers, ensureLedgerPostingsState(w) \/ startSaving(w) \/ saveLedgerAccount(w)
        PROVE  MoneyInv'
    <2>1. CASE RollBack(w)
      BY <2>1, RollBackFaithful
    <2>2. CASE ~ RollBack(w)
      <3>1. \/ Goto(w, "apply", 1) \/ Goto(w, "save", 1) \/ Goto(w, "save", next[w] + 1)
        BY <1>4, <2>2 DEF ensureLedgerPostingsState, startSaving, saveLedgerAccount
      <3>2. UNCHANGED << tables, req, applied, loaded, agg, tail >>
        BY <1>4, <2>2 DEF ensureLedgerPostingsState, startSaving, saveLedgerAccount
      <3> QED BY <1>3, <3>1, <3>2
    <2> QED BY <2>1, <2>2
  <1>5. ASSUME NEW w \in Workers, Step(w) PROVE MoneyInv'
    <2>1. CASE postingRejected(w) \/ nothingToSave(w) \/ saveConflict(w)
      BY <2>1, RollBackFaithful DEF postingRejected, nothingToSave, saveConflict
    <2> QED BY <1>4, <1>5, <2>1, LoadFaithful, ReplayFaithful, ApplyFaithful, CommitFaithful DEF Step
  <1>6. ASSUME NEW w \in Workers, crash(w) \/ deadlockVictim(w) PROVE MoneyInv'
    BY <1>6, RollBackFaithful DEF crash, deadlockVictim
  <1> QED BY <1>1, <1>2, <1>5, <1>6 DEF Next

\* Every copy a worker holds, every snapshot and every account's history agree at all times,
\* and every event passed the funds check on the balance it found.
THEOREM MoneyIsTracked == Spec => []MoneyInv
  BY InitMoney, NextMoney, Invariance, PTL DEF Spec

\* The balance as the properties compute it.
LEMMA BalanceIsMoney ==
    ASSUME Inv, NEW a \in Accounts, NEW n \in 0..aggregateVersion[a]
    PROVE  BalanceAt(a, n) = Money(UpTo(EventsOf(a), n))
  <1>1. Gapless(EventsOf(a), aggregateVersion[a])
    BY HistoryGapless
  <1>2. Gapless(UpTo(EventsOf(a), n), n)
    BY <1>1, UpToGapless
  <1>3. UpTo(EventsOf(a), n) \subseteq Rows /\ IsFiniteSet(UpTo(EventsOf(a), n))
    BY <1>2, GaplessFinite DEF Gapless
  <1>4. MapThenSumSet(LAMBDA e : e.posting.delta, UpTo(EventsOf(a), n)) = Money(UpTo(EventsOf(a), n))
    BY <1>3, DeltasAreSummed DEF Money
  <1> QED BY <1>4, Zenon DEF BalanceAt, UpTo

\* No guarded debit overdraws an account, however many workers spend from copies that were
\* loaded before: the history up to and including it never sums below zero.
THEOREM LedgerNeverOverdraws == Spec => []NoOverdraft
  <1>1. Inv /\ MoneyInv => NoOverdraft
    <2> SUFFICES ASSUME Inv, MoneyInv, NEW e \in ledgerEvents,
                        e.posting.delta < 0, requiresNonNegativeBalance(e.posting.type)
                 PROVE  BalanceAt(e.posting.account, e.version) >= 0
      BY DEF NoOverdraft
    <2>1. PICK a \in Accounts : a = e.posting.account
      BY DEF Inv, TypeOK, Rows, Postings
    <2>2. e \in EventsOf(a) /\ e.posting.delta \in Int
      BY <2>1 DEF EventsOf, Inv, TypeOK, Rows, Postings
    <2>3. Gapless(EventsOf(a), aggregateVersion[a]) /\ Funded(EventsOf(a))
      BY HistoryGapless DEF MoneyInv, FaithfulTables
    <2>4. PICK m \in Int : m = Money(UpTo(EventsOf(a), e.version - 1))
      BY <2>2, <2>3, EventInHistory
    <2>5. /\ e.version \in 1..aggregateVersion[a]
          /\ Money(UpTo(EventsOf(a), e.version)) = m + e.posting.delta
      BY <2>2, <2>3, <2>4, EventInHistory
    <2>6. ensurePostingAllowed(m, e.posting)
      BY <2>2, <2>3, <2>4 DEF Funded
    <2>7. m + e.posting.delta >= 0
      BY <2>2, <2>6 DEF ensurePostingAllowed
    <2>8. e.version \in 0..aggregateVersion[a]
      BY <2>5
    <2>9. BalanceAt(a, e.version) = m + e.posting.delta
      BY <2>5, <2>8, BalanceIsMoney
    <2> QED BY <2>1, <2>7, <2>9
  <1> QED BY <1>1, Invariance, MoneyIsTracked, PTL

\* What is loaded is what was booked: a snapshot is the replay of the history up to its
\* version, and no committed event fails the funds check when it is replayed.
THEOREM LoadsReplayHistory == Spec => []LoadsAreReplays
  <1>1. Inv /\ MoneyInv => HistoryReplays
    BY OldestIsNext DEF HistoryReplays
  <1>2. Inv /\ MoneyInv => SnapshotIsReplay
    <2> SUFFICES ASSUME Inv, MoneyInv, NEW s \in snapshots
                 PROVE  /\ s.balance = BalanceAt(s.account, s.version)
                        /\ s.posted = { e.posting : e \in { f \in EventsOf(s.account) : f.version <= s.version } }
      BY DEF SnapshotIsReplay
    <2>1. PICK a \in Accounts : a = s.account /\ s.version \in Nat
      BY DEF Inv, TypeOK, SnapshotRows
    <2>2. s.version <= aggregateVersion[a] /\ aggregateVersion[a] \in Nat
      BY <2>1 DEF Inv, TablesInv, TypeOK
    <2>3. FaithfulSnapshot(s, EventsOf(a))
      BY <2>1 DEF MoneyInv, FaithfulTables
    <2>4. s.version \in 0..aggregateVersion[a]
      BY <2>1, <2>2
    <2>5. BalanceAt(a, s.version) = Money(UpTo(EventsOf(a), s.version))
      BY <2>4, BalanceIsMoney
    <2> QED BY <2>1, <2>3, <2>5 DEF FaithfulSnapshot, PostingsOf, UpTo
  <1> QED BY <1>1, <1>2, Invariance, MoneyIsTracked, PTL DEF LoadsAreReplays


-----------------------------------------------------------------------------
(* The projection: its state *)

Slots == [account : Accounts, offset : Nat]

\* A projector is inside its database transaction.
Active(w) == phase[w] \notin {"idle", "ack"}

LEMMA EventsInOutbox ==
    /\ OutboxEvents \subseteq EventType
    /\ \A a \in Accounts : \A i \in 1..Len(Outbox[a]) : Outbox[a][i] \in OutboxEvents
    /\ \A e \in OutboxEvents : \E i \in 1..Len(Outbox[e.account]) : e.account \in Accounts /\ e = Outbox[e.account][i]
    /\ \A a, b \in Accounts : \A i \in 1..Len(Outbox[a]), j \in 1..Len(Outbox[b]) :
          Outbox[a][i] = Outbox[b][j] => a = b /\ i = j
    /\ \A e, f \in OutboxEvents : e.account = f.account /\ e.transaction = f.transaction => e = f
  <1>1. \A a \in Accounts : Outbox[a] \in Seq(EventType) /\ DOMAIN Outbox[a] = 1..Len(Outbox[a])
    BY OutboxAssumption
  <1>2. \A a \in Accounts : \A i \in 1..Len(Outbox[a]) : Outbox[a][i] \in EventType /\ Outbox[a][i].account = a
    BY <1>1, OutboxAssumption
  <1>3. \A e : e \in OutboxEvents <=> \E a \in Accounts : \E i \in 1..Len(Outbox[a]) : e = Outbox[a][i]
    BY <1>1 DEF OutboxEvents, Range
  <1>4. \A a \in Accounts : \A i, j \in 1..Len(Outbox[a]) : Outbox[a][i].transaction = Outbox[a][j].transaction => i = j
    BY OutboxAssumption
  <1>5. /\ OutboxEvents \subseteq EventType
        /\ \A a \in Accounts : \A i \in 1..Len(Outbox[a]) : Outbox[a][i] \in OutboxEvents
    BY <1>2, <1>3
  <1>6. \A e \in OutboxEvents : \E i \in 1..Len(Outbox[e.account]) : e.account \in Accounts /\ e = Outbox[e.account][i]
    BY <1>2, <1>3
  <1>7. \A a, b \in Accounts : \A i \in 1..Len(Outbox[a]), j \in 1..Len(Outbox[b]) :
           Outbox[a][i] = Outbox[b][j] => a = b /\ i = j
    BY <1>2, <1>4
  <1>8. ASSUME NEW e \in OutboxEvents, NEW f \in OutboxEvents, e.account = f.account, e.transaction = f.transaction
        PROVE  e = f
    <2>1. PICK a \in Accounts : a = e.account
      BY <1>6
    <2>2. PICK i \in 1..Len(Outbox[a]) : e = Outbox[a][i]
      BY <1>6, <2>1
    <2>3. PICK j \in 1..Len(Outbox[a]) : f = Outbox[a][j]
      BY <1>6, <1>8, <2>1
    <2> QED BY <1>4, <1>8, <2>2, <2>3
  <1> QED BY <1>5, <1>6, <1>7, <1>8

ReadTypes ==
    /\ ReadTypeOK
    /\ offsets \in [Accounts -> Nat]
    /\ taken \in [Projectors -> Slots]
    /\ opened \in [Projectors -> SUBSET { HeaderOf(e) : e \in OutboxEvents }]

\* What a projector has found out about the event it has taken.
WorkInv(w) ==
    /\ phase[w] # "idle" =>
          /\ taken[w].offset \in 1..Len(Outbox[taken[w].account])
          /\ taken[w].offset <= offsets[taken[w].account] + 1
    /\ phase[w] \in {"entries", "insert", "commit"} => HeaderOf(Taken(w)) \in headers \cup opened[w]
    /\ phase[w] = "insert" /\ Taken(w) \notin overlapped => entries[Taken(w)] = 0
    /\ phase[w] = "commit" => entries[Taken(w)] > 0
    /\ phase[w] = "ack" => entries[Taken(w)] > 0 /\ HeaderOf(Taken(w)) \in headers

\* Two projectors inside their transactions have taken different events, or one that is
\* known to be overlapped.
ApartInv ==
    \A v, w \in Projectors :
        v # w /\ Active(v) /\ Active(w) /\ taken[v] = taken[w] => Taken(w) \in overlapped

\* Nothing is entered that lies further ahead than the next event.
AheadInv ==
    \A a \in Accounts : \A i \in 1..Len(Outbox[a]) : entries[Outbox[a][i]] > 0 => i <= offsets[a] + 1

ReadInv ==
    /\ ReadTypes /\ EnteredOnce /\ NothingIsSkipped
    /\ \A w \in Projectors : WorkInv(w)
    /\ ApartInv /\ AheadInv

\* The event of a slot.
LEMMA SlotEvent ==
    ASSUME NEW s \in Slots, s.offset \in 1..Len(Outbox[s.account])
    PROVE  /\ EventAt(s) \in OutboxEvents /\ EventAt(s).account = s.account
           /\ EventAt(s) = Outbox[s.account][s.offset]
           /\ \A t \in Slots : t.offset \in 1..Len(Outbox[t.account]) /\ EventAt(t) = EventAt(s) => t = s
  <1>1. s.account \in Accounts
    BY DEF Slots
  <1>2. EventAt(s) = Outbox[s.account][s.offset]
    BY DEF EventAt
  <1>3. EventAt(s) \in OutboxEvents /\ EventAt(s).account = s.account
    BY <1>1, <1>2, EventsInOutbox, OutboxAssumption
  <1>4. ASSUME NEW t \in Slots, t.offset \in 1..Len(Outbox[t.account]), EventAt(t) = EventAt(s)
        PROVE  t = s
    <2>1. t.account \in Accounts /\ EventAt(t) = Outbox[t.account][t.offset]
      BY DEF Slots, EventAt
    <2>2. PICK a, b, i, j : a = s.account /\ i = s.offset /\ b = t.account /\ j = t.offset
      OBVIOUS
    <2>3. /\ a \in Accounts /\ b \in Accounts /\ i \in 1..Len(Outbox[a]) /\ j \in 1..Len(Outbox[b])
          /\ Outbox[a][i] = Outbox[b][j]
      BY <1>1, <1>2, <1>4, <2>1, <2>2
    <2>4. a = b /\ i = j
      BY <2>3, EventsInOutbox
    <2>5. s = [account |-> s.account, offset |-> s.offset] /\ t = [account |-> t.account, offset |-> t.offset]
      BY <1>4 DEF Slots
    <2> QED BY <2>2, <2>4, <2>5, Zenon
  <1> QED BY <1>2, <1>3, <1>4

\* What is known of the event a projector has taken.
LEMMA TakenEvent ==
    ASSUME ReadTypes, NEW w \in Projectors, WorkInv(w), phase[w] # "idle"
    PROVE  /\ taken[w] \in Slots /\ taken[w].account \in Accounts
           /\ taken[w].offset \in 1..Len(Outbox[taken[w].account])
           /\ Taken(w) \in OutboxEvents /\ Taken(w) = Outbox[taken[w].account][taken[w].offset]
  <1>1. taken[w] \in Slots /\ taken[w].offset \in 1..Len(Outbox[taken[w].account])
    BY DEF ReadTypes, WorkInv
  <1> QED BY <1>1, SlotEvent DEF Taken, Slots

LEMMA InitRead == ReadInit => ReadInv
  <1> SUFFICES ASSUME ReadInit PROVE ReadInv
    OBVIOUS
  <1> USE DEF ReadInit
  <1>1. Before \in [Accounts -> Nat] /\ \A a \in Accounts : Before[a] <= Len(Outbox[a]) /\ Len(Outbox[a]) \in Nat
    BY OutboxAssumption
  <1>2. BegunWith \subseteq OutboxEvents
    BY <1>1, EventsInOutbox DEF BegunWith
  <1>3. NoSlot \in Slots
    BY DEF NoSlot, Slots, Accounts
  <1>4. ReadTypes
    <2>1. ReadTypeOK
      BY <1>1, <1>2 DEF ReadTypeOK, ProjectorPhases
    <2> QED BY <1>1, <1>3, <2>1 DEF ReadTypes
  <1>5. EnteredOnce
    BY DEF EnteredOnce
  <1>6. \A a \in Accounts : \A i \in 1..Before[a] : Outbox[a][i] \in BegunWith /\ Outbox[a][i] \in OutboxEvents
    BY <1>1, <1>2 DEF BegunWith
  <1>7. NothingIsSkipped
    BY <1>6 DEF NothingIsSkipped
  <1>8. AheadInv
    <2> SUFFICES ASSUME NEW a \in Accounts, NEW i \in 1..Len(Outbox[a]), entries[Outbox[a][i]] > 0
                 PROVE  i <= offsets[a] + 1
      BY DEF AheadInv
    <2>1. Outbox[a][i] \in BegunWith
      BY EventsInOutbox
    <2>2. PICK b \in Accounts : \E j \in 1..Before[b] : Outbox[a][i] = Outbox[b][j]
      BY <2>1 DEF BegunWith
    <2>3. PICK j \in 1..Before[b] : Outbox[a][i] = Outbox[b][j]
      BY <2>2
    <2>4. j \in 1..Len(Outbox[b])
      BY <1>1
    <2>5. a = b /\ i = j
      BY <2>3, <2>4, EventsInOutbox
    <2> QED BY <1>1, <2>5
  <1>9. (\A w \in Projectors : WorkInv(w)) /\ ApartInv
    BY DEF WorkInv, ApartInv, Active
  <1> QED BY <1>4, <1>5, <1>7, <1>8, <1>9 DEF ReadInv

\* A step of w that changes no table, no offset and what is overlapped not.
LEMMA LocalRead ==
    ASSUME ReadInv, NEW w \in Projectors, UNCHANGED << headers, entries, offsets, taken, dropped, overlapped >>,
           NEW ph \in ProjectorPhases, GoOn(w, ph), phase[w] \notin {"idle", "ack"}, ph # "idle",
           opened' = opened \/ opened' = [opened EXCEPT ![w] = {HeaderOf(Taken(w))}],
           ph \in {"entries", "insert", "commit"} => HeaderOf(Taken(w)) \in headers \cup opened'[w],
           ph = "insert" /\ Taken(w) \notin overlapped => entries[Taken(w)] = 0,
           ph \in {"commit", "ack"} => entries[Taken(w)] > 0,
           ph # "ack"
    PROVE  ReadInv'
  <1> USE DEF GoOn
  <1>0. WorkInv(w) /\ ReadTypes /\ Taken(w) \in OutboxEvents
    BY TakenEvent DEF ReadInv
  <1>1. ReadTypes'
    BY <1>0 DEF ReadTypes, ReadTypeOK
  <1>2. (EnteredOnce /\ NothingIsSkipped /\ AheadInv)'
    BY DEF ReadInv, EnteredOnce, NothingIsSkipped, AheadInv
  <1>3. \A v \in Projectors : Taken(v)' = Taken(v)
    BY DEF Taken, EventAt
  <1>4. \A v \in Projectors : WorkInv(v)'
    <2>1. ASSUME NEW v \in Projectors \ {w} PROVE WorkInv(v)'
      <3>1. WorkInv(v) /\ phase'[v] = phase[v] /\ opened'[v] = opened[v]
        BY <1>0 DEF ReadInv, ReadTypes, ReadTypeOK
      <3> QED BY <1>3, <3>1 DEF WorkInv
    <2>2. WorkInv(w)'
      <3>1. phase'[w] = ph
        BY <1>0 DEF ReadTypes, ReadTypeOK
      <3> QED BY <1>0, <1>3, <3>1 DEF WorkInv
    <2> QED BY <2>1, <2>2
  <1>5. ApartInv'
    <2>1. \A v \in Projectors : Active(v)' => Active(v)
      BY <1>0 DEF Active, ReadTypes, ReadTypeOK
    <2> QED BY <1>3, <2>1 DEF ApartInv, ReadInv
  <1> QED BY <1>1, <1>2, <1>4, <1>5 DEF ReadInv

\* w leaves its event behind.
LEMMA RestRead ==
    ASSUME ReadInv, NEW w \in Projectors, Rest(w), UNCHANGED << headers, entries, overlapped >>,
           dropped \subseteq dropped',
           \/ UNCHANGED << offsets, dropped >>
           \/ /\ offsets' = Passed(taken[w]) /\ phase[w] # "idle"
              /\ \/ Taken(w) \in dropped'
                 \/ entries[Taken(w)] > 0 /\ HeaderOf(Taken(w)) \in headers
    PROVE  ReadInv'
  <1> USE DEF Rest, GoOn
  <1>0. WorkInv(w) /\ ReadTypes /\ NoSlot \in Slots
    BY DEF ReadInv, NoSlot, Slots, Accounts
  <1>1. /\ offsets' \in [Accounts -> Nat] 
        /\ \A a \in Accounts : offsets'[a] >= offsets[a] /\ offsets'[a] \in 0..Len(Outbox[a])
        /\ \A a \in Accounts : offsets'[a] = offsets[a] \/
             (offsets'[a] = offsets[a] + 1 /\ phase[w] # "idle" /\ taken[w] = [account |-> a, offset |-> offsets[a] + 1]
              /\ (Taken(w) \in dropped' \/ (entries[Taken(w)] > 0 /\ HeaderOf(Taken(w)) \in headers)))
    <2>1. CASE UNCHANGED offsets
      BY <1>0, <2>1 DEF ReadTypes, ReadTypeOK
    <2>2. CASE ~ UNCHANGED offsets
      <3>1. /\ phase[w] # "idle"
            /\ Taken(w) \in dropped' \/ (entries[Taken(w)] > 0 /\ HeaderOf(Taken(w)) \in headers)
            /\ offsets' = Passed(taken[w])
        BY <2>2
      <3>2. /\ taken[w].account \in Accounts /\ taken[w] \in Slots
            /\ taken[w].offset \in 1..Len(Outbox[taken[w].account])
            /\ taken[w].offset <= offsets[taken[w].account] + 1
        BY <1>0, <3>1, TakenEvent DEF WorkInv
      <3>3. PICK a, n : a = taken[w].account /\ n = taken[w].offset
        OBVIOUS
      <3>4. n > offsets[a] /\ offsets' = [offsets EXCEPT ![a] = n]
        BY <2>2, <3>1, <3>3 DEF Passed
      <3>5. offsets[a] \in Nat /\ n = offsets[a] + 1 /\ n \in 1..Len(Outbox[a]) /\ a \in Accounts
        BY <1>0, <3>2, <3>3, <3>4 DEF ReadTypes
      <3>6. taken[w] = [account |-> a, offset |-> n]
        BY <3>2, <3>3 DEF Slots
      <3> QED BY <1>0, <3>1, <3>4, <3>5, <3>6 DEF ReadTypes, ReadTypeOK
    <2> QED BY <2>1, <2>2
  <1>2. ReadTypes'
    BY <1>0, <1>1 DEF ReadTypes, ReadTypeOK, ProjectorPhases
  <1>3. EnteredOnce'
    BY DEF ReadInv, EnteredOnce
  <1>4. AheadInv'
    <2>1. AheadInv /\ \A a \in Accounts : offsets[a] \in Nat /\ Len(Outbox[a]) \in Nat
      BY <1>0, OutboxAssumption DEF ReadInv, ReadTypes
    <2> SUFFICES ASSUME NEW a \in Accounts, NEW i \in 1..Len(Outbox[a]), entries[Outbox[a][i]] > 0
                 PROVE  i <= offsets'[a] + 1
      BY DEF AheadInv
    <2>2. i <= offsets[a] + 1
      BY <2>1 DEF AheadInv
    <2> QED BY <1>1, <2>1, <2>2
  <1>5. NothingIsSkipped'
    <2> SUFFICES ASSUME NEW a \in Accounts, NEW i \in 1..offsets'[a], Outbox[a][i] \notin dropped'
                 PROVE  entries[Outbox[a][i]] > 0 /\ HeaderOf(Outbox[a][i]) \in headers
      BY DEF NothingIsSkipped
    <2>1. CASE i <= offsets[a]
      <3>1. i \in 1..offsets[a]
        BY <1>0, <1>1, <2>1 DEF ReadTypes
      <3> QED BY <3>1 DEF ReadInv, NothingIsSkipped
    <2>2. CASE i > offsets[a]
      <3>1. i = offsets[a] + 1
        BY <1>0, <1>1, <2>2 DEF ReadTypes
      <3>2. /\ phase[w] # "idle" /\ taken[w].account = a /\ taken[w].offset = i
            /\ Taken(w) \in dropped' \/ (entries[Taken(w)] > 0 /\ HeaderOf(Taken(w)) \in headers)
        BY <1>0, <1>1, <2>2, <3>1 DEF ReadTypes
      <3>3. Taken(w) = Outbox[a][i]
        BY <3>2 DEF Taken, EventAt
      <3> QED BY <3>2, <3>3
    <2> QED BY <1>0, <1>1, <2>1, <2>2 DEF ReadTypes
  <1>6. \A v \in Projectors : WorkInv(v)'
    <2>1. ASSUME NEW v \in Projectors \ {w} PROVE WorkInv(v)'
      <3>1. WorkInv(v) /\ phase'[v] = phase[v] /\ opened'[v] = opened[v] /\ taken'[v] = taken[v] /\ taken[v].account \in Accounts
        BY <1>0 DEF ReadInv, ReadTypes, ReadTypeOK, Slots
      <3>2. Taken(v)' = Taken(v)
        BY <3>1 DEF Taken, EventAt
      <3>3. phase[v] # "idle" => taken[v].offset \in Nat /\ taken[v].offset <= offsets'[taken[v].account] + 1
        BY <1>0, <1>1, <3>1 DEF WorkInv, ReadTypes, Slots
      <3> QED BY <3>1, <3>2, <3>3 DEF WorkInv
    <2>2. phase'[w] = "idle"
      BY <1>0 DEF ReadTypes, ReadTypeOK
    <2> QED BY <2>1, <2>2 DEF WorkInv
  <1>7. ApartInv'
    <2>1. \A v \in Projectors : Active(v)' => v # w /\ Active(v) /\ taken'[v] = taken[v]
      BY <1>0 DEF Active, ReadTypes, ReadTypeOK
    <2>2. \A v \in Projectors : taken'[v] = taken[v] => Taken(v)' = Taken(v)
      BY DEF Taken, EventAt
    <2> QED BY <2>1, <2>2 DEF ApartInv, ReadInv
  <1> QED BY <1>2, <1>3, <1>4, <1>5, <1>6, <1>7 DEF ReadInv

-----------------------------------------------------------------------------
(* The projection: its steps *)

LEMMA TakeRead ==
    ASSUME ReadInv, NEW w \in Projectors, NEW a \in Accounts, handleLedgerOutboxEvent(w, a)
    PROVE  ReadInv'
  <1> DEFINE slot == [account |-> a, offset |-> offsets[a] + 1]
  <1>1. /\ phase' = [phase EXCEPT ![w] = "header"]
        /\ taken' = [taken EXCEPT ![w] = slot]
        /\ overlapped \subseteq overlapped'
        /\ (\E v \in Projectors : Active(v) /\ taken[v] = slot) => EventAt(slot) \in overlapped'
        /\ UNCHANGED << headers, entries, offsets, opened, dropped >>
        /\ phase[w] = "idle" /\ offsets[a] + 1 <= Len(Outbox[a])
    BY DEF handleLedgerOutboxEvent, GoOn, Active
  <1>2. ReadTypes /\ offsets[a] \in Nat /\ Len(Outbox[a]) \in Nat
    BY OutboxAssumption DEF ReadInv, ReadTypes
  <1>3. slot \in Slots /\ slot.account = a /\ slot.offset = offsets[a] + 1
    BY <1>2 DEF Slots
  <1> HIDE DEF slot
  <1>4. /\ phase'[w] = "header" /\ taken'[w] = slot
        /\ \A v \in Projectors \ {w} : phase'[v] = phase[v] /\ taken'[v] = taken[v]
    BY <1>1, <1>2 DEF ReadTypes, ReadTypeOK
  <1>5. ReadTypes'
    <2>1. ReadTypeOK'
      BY <1>1, <1>2 DEF ReadTypes, ReadTypeOK, ProjectorPhases
    <2> QED BY <1>1, <1>2, <1>3, <2>1 DEF ReadTypes
  <1>6. (EnteredOnce /\ NothingIsSkipped /\ AheadInv)'
    BY <1>1 DEF ReadInv, EnteredOnce, NothingIsSkipped, AheadInv
  <1>7. \A v \in Projectors : WorkInv(v)'
    <2>1. ASSUME NEW v \in Projectors \ {w} PROVE WorkInv(v)'
      <3>1. WorkInv(v) /\ Taken(v)' = Taken(v)
        BY <1>4 DEF ReadInv, Taken, EventAt
      <3> QED BY <1>1, <1>4, <3>1 DEF WorkInv
    <2>2. WorkInv(w)'
      BY <1>1, <1>2, <1>3, <1>4 DEF WorkInv
    <2> QED BY <2>1, <2>2
  <1>8. ApartInv'
    <2>1. ASSUME NEW v \in Projectors, NEW u \in Projectors, v # u, Active(v)', Active(u)', taken'[v] = taken'[u]
          PROVE  Taken(u)' \in overlapped'
      <3>1. CASE v # w /\ u # w
        <4>1. Active(v) /\ Active(u) /\ taken[v] = taken[u] /\ Taken(u)' = Taken(u)
          BY <1>4, <2>1, <3>1 DEF Active, Taken, EventAt
        <4>2. Taken(u) \in overlapped
          BY <2>1, <4>1 DEF ReadInv, ApartInv
        <4> QED BY <1>1, <4>1, <4>2
      <3>2. CASE v = w \/ u = w
        <4>1. PICK x \in Projectors \ {w} : Active(x)' /\ taken'[x] = slot
          BY <1>4, <2>1, <3>2
        <4>2. Active(x) /\ taken[x] = slot
          BY <1>4, <4>1 DEF Active
        <4>3. taken'[u] = slot
          BY <1>4, <2>1, <3>2
        <4>4. Taken(u)' = EventAt(slot)
          BY <4>3 DEF Taken, EventAt
        <4> QED BY <1>1, <4>2, <4>4
      <3> QED BY <3>1, <3>2
    <2> QED BY <2>1 DEF ApartInv
  <1> QED BY <1>5, <1>6, <1>7, <1>8 DEF ReadInv

LEMMA FindRead ==
    ASSUME ReadInv, NEW w \in Projectors, findHeader(w)
    PROVE  ReadInv'
  <1> DEFINE stored == Stored(Taken(w).transaction)
  <1>1. PICK ph : ph = CASE stored = {} -> "create" [] HeaderOf(Taken(w)) \in stored -> "entries" [] OTHER -> "aborted"
    OBVIOUS
  <1>2. GoOn(w, ph) /\ phase[w] = "header" /\ UNCHANGED << headers, entries, offsets, taken, opened, dropped, overlapped >>
    BY <1>1 DEF findHeader
  <1>3. stored \subseteq headers
    BY DEF Stored
  <1> HIDE DEF stored
  <1>4. ph \in {"create", "entries", "aborted"} /\ (ph = "entries" => HeaderOf(Taken(w)) \in headers)
    BY <1>1, <1>3
  <1>5. /\ ph \in ProjectorPhases /\ phase[w] \notin {"idle", "ack"} /\ ph \notin {"idle", "ack"}
        /\ opened' = opened
        /\ ph \in {"entries", "insert", "commit"} => HeaderOf(Taken(w)) \in headers \cup opened'[w]
        /\ ph = "insert" /\ Taken(w) \notin overlapped => entries[Taken(w)] = 0
        /\ ph \in {"commit", "ack"} => entries[Taken(w)] > 0
    BY <1>2, <1>4 DEF ProjectorPhases
  <1> QED BY <1>2, <1>5, LocalRead

LEMMA CreateRead ==
    ASSUME ReadInv, NEW w \in Projectors, createHeader(w)
    PROVE  ReadInv'
  <1>1. phase[w] = "create" /\ UNCHANGED << headers, entries, offsets, taken, dropped, overlapped >>
    BY DEF createHeader
  <1>2. ReadTypes
    BY DEF ReadInv
  <1>3. CASE GoOn(w, "entries") /\ opened' = [opened EXCEPT ![w] = {HeaderOf(Taken(w))}]
    <2>1. HeaderOf(Taken(w)) \in opened'[w]
      BY <1>2, <1>3 DEF ReadTypes
    <2>2. PICK ph : ph = "entries"
      OBVIOUS
    <2>3. /\ ph \in ProjectorPhases /\ phase[w] \notin {"idle", "ack"} /\ ph \notin {"idle", "ack"}
          /\ GoOn(w, ph)
          /\ ph \in {"entries", "insert", "commit"} => HeaderOf(Taken(w)) \in headers \cup opened'[w]
          /\ ph = "insert" /\ Taken(w) \notin overlapped => entries[Taken(w)] = 0
          /\ ph \in {"commit", "ack"} => entries[Taken(w)] > 0
      BY <1>1, <1>3, <2>1, <2>2 DEF ProjectorPhases
    <2> QED BY <1>1, <1>3, <2>3, LocalRead
  <1>4. CASE GoOn(w, "aborted") /\ UNCHANGED opened
    <2>2. PICK ph : ph = "aborted"
      OBVIOUS
    <2>3. /\ ph \in ProjectorPhases /\ phase[w] \notin {"idle", "ack"} /\ ph \notin {"idle", "ack"}
          /\ GoOn(w, ph)
          /\ ph \in {"entries", "insert", "commit"} => HeaderOf(Taken(w)) \in headers \cup opened'[w]
          /\ ph = "insert" /\ Taken(w) \notin overlapped => entries[Taken(w)] = 0
          /\ ph \in {"commit", "ack"} => entries[Taken(w)] > 0
      BY <1>1, <1>4, <2>2 DEF ProjectorPhases
    <2> QED BY <1>1, <1>4, <2>3, LocalRead
  <1> QED BY <1>3, <1>4 DEF createHeader

LEMMA CompareRead ==
    ASSUME ReadInv, NEW w \in Projectors, compareEntries(w)
    PROVE  ReadInv'
  <1> DEFINE existing == EntriesOf(Taken(w).transaction)
  <1>1. PICK ph : ph = IF hasMatchingProjectedEntry(existing, Taken(w)) THEN "commit"
                       ELSE IF hasConflictingProjectedEntry(existing, Taken(w)) THEN "aborted" ELSE "insert"
    OBVIOUS
  <1>2. GoOn(w, ph) /\ phase[w] = "entries" /\ UNCHANGED << headers, entries, offsets, taken, opened, dropped, overlapped >>
    BY <1>1 DEF compareEntries
  <1>3. ReadTypes /\ WorkInv(w) /\ Taken(w) \in OutboxEvents
    BY <1>2, TakenEvent DEF ReadInv
  <1>4. HeaderOf(Taken(w)) \in headers \cup opened[w]
    BY <1>2, <1>3 DEF WorkInv
  <1>5. hasMatchingProjectedEntry(existing, Taken(w)) => entries[Taken(w)] > 0
    <2> SUFFICES ASSUME NEW x \in existing, Projection(x) = Projection(Taken(w)) PROVE entries[Taken(w)] > 0
      BY DEF hasMatchingProjectedEntry
    <2>1. x \in OutboxEvents /\ entries[x] > 0
      BY DEF EntriesOf
    <2>2. x.account = Taken(w).account /\ x.transaction = Taken(w).transaction
      BY DEF Projection, previewLedgerPostingFromEvent
    <2>3. x = Taken(w)
      BY <1>3, <2>1, <2>2, EventsInOutbox
    <2> QED BY <2>1, <2>3
  <1>6. entries[Taken(w)] > 0 => hasMatchingProjectedEntry(existing, Taken(w))
    BY <1>3 DEF hasMatchingProjectedEntry, EntriesOf
  <1>7. entries[Taken(w)] \in Nat
    BY <1>3 DEF ReadTypes, ReadTypeOK
  <1>8. ph \in {"commit", "aborted", "insert"} /\ (ph = "commit" => entries[Taken(w)] > 0) /\ (ph = "insert" => entries[Taken(w)] = 0)
    BY <1>1, <1>5, <1>6, <1>7
  <1>9. /\ ph \in ProjectorPhases /\ phase[w] \notin {"idle", "ack"} /\ ph \notin {"idle", "ack"}
        /\ opened' = opened
        /\ ph \in {"entries", "insert", "commit"} => HeaderOf(Taken(w)) \in headers \cup opened'[w]
        /\ ph = "insert" /\ Taken(w) \notin overlapped => entries[Taken(w)] = 0
        /\ ph \in {"commit", "ack"} => entries[Taken(w)] > 0
    BY <1>2, <1>4, <1>8 DEF ProjectorPhases
  <1> QED BY <1>2, <1>9, LocalRead

LEMMA ProjectRead ==
    ASSUME ReadInv, NEW w \in Projectors, ProjectTransaction(w)
    PROVE  ReadInv'
  <1>1. /\ phase[w] \in {"insert", "commit"} /\ phase' = [phase EXCEPT ![w] = "ack"]
        /\ headers' = headers \cup opened[w]
        /\ entries' = IF phase[w] = "insert" THEN [entries EXCEPT ![Taken(w)] = @ + 1] ELSE entries
        /\ opened' = [opened EXCEPT ![w] = {}]
        /\ UNCHANGED << offsets, taken, dropped, overlapped >>
    BY DEF ProjectTransaction, GoOn
  <1>2. ReadTypes /\ WorkInv(w) /\ Taken(w) \in OutboxEvents
    BY <1>1, TakenEvent DEF ReadInv
  <1>3. /\ taken[w] \in Slots /\ taken[w].account \in Accounts /\ taken[w].offset \in 1..Len(Outbox[taken[w].account])
        /\ Taken(w) = Outbox[taken[w].account][taken[w].offset]
    BY <1>1, <1>2, TakenEvent
  <1>4. PICK e \in OutboxEvents : e = Taken(w)
    BY <1>2
  <1>5. /\ entries \in [OutboxEvents -> Nat] /\ entries' \in [OutboxEvents -> Nat]
        /\ \A x \in OutboxEvents : entries'[x] >= entries[x]
        /\ \A x \in OutboxEvents \ {e} : entries'[x] = entries[x]
        /\ phase[w] = "insert" => entries'[e] = entries[e] + 1
        /\ phase[w] = "commit" => entries' = entries
    BY <1>1, <1>2, <1>4 DEF ReadTypes, ReadTypeOK
  <1>6. /\ phase'[w] = "ack" /\ opened'[w] = {}
        /\ \A v \in Projectors \ {w} : phase'[v] = phase[v] /\ opened'[v] = opened[v]
    BY <1>1, <1>2 DEF ReadTypes, ReadTypeOK
  <1>7. \A v \in Projectors : Taken(v)' = Taken(v)
    BY <1>1 DEF Taken, EventAt
  <1>8. HeaderOf(e) \in headers'
    BY <1>1, <1>2, <1>4 DEF WorkInv
  <1>9. entries'[e] > 0
    <2>1. entries[e] \in Nat
      BY <1>5
    <2> QED BY <1>1, <1>2, <1>4, <1>5, <2>1 DEF WorkInv
  <1>10. ReadTypes'
    <2>1. ReadTypeOK'
      <3>1. headers' \subseteq { HeaderOf(x) : x \in OutboxEvents }
        BY <1>1, <1>2 DEF ReadTypes, ReadTypeOK
      <3> QED BY <1>1, <1>2, <1>5, <3>1 DEF ReadTypes, ReadTypeOK, ProjectorPhases
    <2> QED BY <1>1, <1>2, <2>1 DEF ReadTypes
  <1>11. EnteredOnce'
    <2>1. ASSUME NEW x \in OutboxEvents, entries'[x] > 1 PROVE x \in overlapped
      <3>1. entries[x] \in Nat
        BY <1>5
      <3>2. CASE x # e \/ phase[w] = "commit"
        <4>1. entries[x] > 1
          BY <1>5, <2>1, <3>2
        <4> QED BY <4>1 DEF ReadInv, EnteredOnce
      <3>3. CASE x = e /\ phase[w] = "insert"
        <4>1. entries[e] # 0
          BY <1>5, <2>1, <3>1, <3>3
        <4> QED BY <1>2, <1>4, <3>3, <4>1 DEF WorkInv
      <3> QED BY <1>1, <3>2, <3>3
    <2> QED BY <1>1, <2>1 DEF EnteredOnce
  <1>12. NothingIsSkipped'
    <2>1. ASSUME NEW a \in Accounts, NEW i \in 1..offsets[a], Outbox[a][i] \notin dropped
          PROVE  entries'[Outbox[a][i]] > 0 /\ HeaderOf(Outbox[a][i]) \in headers'
      <3>1. entries[Outbox[a][i]] > 0 /\ HeaderOf(Outbox[a][i]) \in headers
        BY <2>1 DEF ReadInv, NothingIsSkipped
      <3>2. offsets[a] \in Nat /\ offsets[a] <= Len(Outbox[a]) /\ Len(Outbox[a]) \in Nat
        BY <1>2, OutboxAssumption DEF ReadTypes, ReadTypeOK
      <3>3. Outbox[a][i] \in OutboxEvents
        BY <3>2, EventsInOutbox
      <3>4. PICK x \in OutboxEvents : x = Outbox[a][i]
        BY <3>3
      <3>5. entries'[x] >= entries[x] /\ entries[x] \in Nat /\ entries'[x] \in Nat
        BY <1>5
      <3> QED BY <1>1, <3>1, <3>4, <3>5
    <2> QED BY <1>1, <2>1 DEF NothingIsSkipped
  <1>13. AheadInv'
    <2>1. ASSUME NEW a \in Accounts, NEW i \in 1..Len(Outbox[a]), entries'[Outbox[a][i]] > 0
          PROVE  i <= offsets[a] + 1
      <3>1. PICK x \in OutboxEvents : x = Outbox[a][i]
        BY EventsInOutbox
      <3>2. CASE x # e
        <4>1. entries[Outbox[a][i]] > 0
          BY <1>5, <2>1, <3>1, <3>2
        <4> QED BY <4>1 DEF ReadInv, AheadInv
      <3>3. CASE x = e
        <4>1. PICK b \in Accounts : b = taken[w].account
          BY <1>3
        <4>2. PICK j \in 1..Len(Outbox[b]) : j = taken[w].offset
          BY <1>3, <4>1
        <4>3. Outbox[a][i] = Outbox[b][j]
          BY <1>3, <1>4, <3>1, <3>3, <4>1, <4>2
        <4>4. a = b /\ i = j
          BY <4>3, EventsInOutbox
        <4>5. j <= offsets[b] + 1
          BY <1>1, <1>2, <4>1, <4>2 DEF WorkInv
        <4> QED BY <4>4, <4>5
      <3> QED BY <3>2, <3>3
    <2> QED BY <1>1, <2>1 DEF AheadInv
  <1>14. \A v \in Projectors : WorkInv(v)'
    <2>1. ASSUME NEW v \in Projectors \ {w} PROVE WorkInv(v)'
      <3>0. WorkInv(v) /\ phase'[v] = phase[v] /\ opened'[v] = opened[v] /\ Taken(v)' = Taken(v) /\ headers \subseteq headers'
        BY <1>1, <1>6, <1>7 DEF ReadInv
      <3>1. CASE phase[v] = "idle"
        BY <3>0, <3>1 DEF WorkInv
      <3>2. CASE phase[v] # "idle"
        <4>1. PICK x \in OutboxEvents : x = Taken(v)
          BY <1>2, <3>0, <3>2, TakenEvent
        <4>2. taken[v] \in Slots /\ taken[v].offset \in 1..Len(Outbox[taken[v].account])
          BY <1>2, <3>0, <3>2, TakenEvent
        <4>3. entries'[x] >= entries[x] /\ entries[x] \in Nat /\ entries'[x] \in Nat
          BY <1>5
        <4>4. phase[v] = "insert" /\ x \notin overlapped => entries'[x] = 0
          <5> SUFFICES ASSUME phase[v] = "insert", x \notin overlapped PROVE entries'[x] = 0
            OBVIOUS
          <5>1. entries[x] = 0
            BY <3>0, <4>1 DEF WorkInv
          <5>2. CASE x = e
            <6>1. taken[v] = taken[w]
              BY <1>3, <1>4, <4>1, <4>2, <5>2, SlotEvent DEF Taken
            <6>2. Active(v) /\ Active(w)
              BY <1>1 DEF Active
            <6>3. Taken(v) \in overlapped
              BY <6>1, <6>2 DEF ReadInv, ApartInv
            <6> QED BY <4>1, <6>3
          <5>3. CASE x # e
            BY <1>5, <5>1, <5>3
          <5> QED BY <5>2, <5>3
        <4>5. entries[x] > 0 => entries'[x] > 0
          BY <4>3
        <4> QED BY <1>1, <3>0, <4>1, <4>4, <4>5 DEF WorkInv
      <3> QED BY <3>1, <3>2
    <2>2. WorkInv(w)'
      <3>1. /\ taken[w].offset \in 1..Len(Outbox[taken[w].account])
            /\ taken[w].offset <= offsets[taken[w].account] + 1
        BY <1>1, <1>2 DEF WorkInv
      <3> QED BY <1>1, <1>4, <1>6, <1>7, <1>8, <1>9, <3>1 DEF WorkInv
    <2> QED BY <2>1, <2>2
  <1>15. ApartInv'
    <2>1. \A v \in Projectors : Active(v)' => Active(v)
      BY <1>1, <1>6 DEF Active
    <2> QED BY <1>1, <1>7, <2>1 DEF ApartInv, ReadInv
  <1> QED BY <1>10, <1>11, <1>12, <1>13, <1>14, <1>15 DEF ReadInv

LEMMA NextRead == ReadInv /\ [ReadNext]_readVars => ReadInv'
  <1> SUFFICES ASSUME ReadInv, [ReadNext]_readVars PROVE ReadInv'
    OBVIOUS
  <1>1. CASE UNCHANGED readVars
    BY <1>1 DEF readVars, ReadInv, ReadTypes, ReadTypeOK, EnteredOnce, NothingIsSkipped, WorkInv, ApartInv,
                AheadInv, Active, Taken, EventAt
  <1>2. ASSUME NEW w \in Projectors, commitOffset(w) PROVE ReadInv'
    <2>1. Rest(w) /\ UNCHANGED << headers, entries, dropped, overlapped >> /\ offsets' = Passed(taken[w]) /\ phase[w] = "ack"
      BY <1>2 DEF commitOffset
    <2>2. entries[Taken(w)] > 0 /\ HeaderOf(Taken(w)) \in headers
      BY <2>1 DEF ReadInv, WorkInv
    <2> QED BY <2>1, <2>2, RestRead
  <1>3. ASSUME NEW w \in Projectors, rollBackProjection(w) PROVE ReadInv'
    BY <1>3, RestRead DEF rollBackProjection
  <1>4. ASSUME NEW w \in Projectors, deadLetter(w) PROVE ReadInv'
    <2>1. /\ Rest(w) /\ UNCHANGED << headers, entries, overlapped >> /\ offsets' = Passed(taken[w]) /\ phase[w] # "idle"
          /\ dropped \subseteq dropped' /\ Taken(w) \in dropped'
      BY <1>4 DEF deadLetter
    <2> QED BY <2>1, RestRead
  <1> QED BY <1>1, <1>2, <1>3, <1>4, TakeRead, FindRead, CreateRead, CompareRead, ProjectRead DEF ReadNext

-----------------------------------------------------------------------------
(* What an event carries *)

\* Postings whose sign is in the name of their event.
Signed(s) ==
    /\ s \in Seq(Postings)
    /\ \A i \in 1..Len(s) : Direction(s[i].type) * absInt64(s[i].delta) = s[i].delta

\* A double entry whose legs are named for their signs.
LEMMA DoubleEntryLegsSigned ==
    ASSUME NEW tx \in TransactionIds, NEW a \in Accounts, NEW b \in Accounts, NEW d \in Int,
           NEW ta \in ReferenceTypes, NEW tb \in ReferenceTypes,
           \/ d <= 0 /\ Direction(ta) = -1 /\ Direction(tb) = 1
           \/ d >= 0 /\ Direction(ta) = 1 /\ Direction(tb) = -1
    PROVE  Signed(DoubleEntryLegs(tx, a, b, d, ta, tb))
  <1> DEFINE s == DoubleEntryLegs(tx, a, b, d, ta, tb)
  <1>1. /\ s \in Seq(Postings)
        /\ Len(s) = 2
        /\ s[1] = Posting(a, tx, b, d, ta)
        /\ s[2] = Posting(b, tx, a, -d, tb)
    BY DEF DoubleEntryLegs, Posting, Postings
  <1>2. s[1].type = ta /\ s[1].delta = d /\ s[2].type = tb /\ s[2].delta = -d
    BY <1>1 DEF Posting
  <1> HIDE DEF s
  <1>3. Direction(ta) * absInt64(d) = d /\ Direction(tb) * absInt64(-d) = -d
    BY DEF absInt64
  <1>4. \A i \in 1..2 : i = 1 \/ i = 2
    OBVIOUS
  <1>5. Signed(s)
    BY <1>1, <1>2, <1>3, <1>4 DEF Signed
  <1> QED BY <1>5 DEF s

LEMMA SignedConcat ==
    ASSUME NEW s, NEW t, Signed(s), Signed(t)
    PROVE  Signed(s \o t)
  <1>1. s \in Seq(Postings) /\ t \in Seq(Postings)
    BY DEF Signed
  <1>2. /\ s \o t \in Seq(Postings)
        /\ Len(s \o t) = Len(s) + Len(t)
        /\ Len(s) \in Nat /\ Len(t) \in Nat
        /\ \A i \in 1..Len(s) : (s \o t)[i] = s[i]
        /\ \A i \in 1..Len(t) : (s \o t)[Len(s) + i] = t[i]
    BY <1>1
  <1> DEFINE st == s \o t
             Good(p) == Direction(p.type) * absInt64(p.delta) = p.delta
  <1>3. (\A i \in 1..Len(s) : Good(s[i])) /\ (\A i \in 1..Len(t) : Good(t[i]))
    BY DEF Signed
  <1> HIDE DEF Good
  <1>4. ASSUME NEW i \in 1..Len(st) PROVE Good(st[i])
    <2>1. CASE i <= Len(s)
      <3>1. i \in 1..Len(s) /\ st[i] = s[i]
        BY <1>2, <2>1
      <3> QED BY <1>3, <3>1
    <2>2. CASE i > Len(s)
      <3> DEFINE k == i - Len(s)
      <3>1. k \in 1..Len(t) /\ st[i] = t[k]
        BY <1>2, <2>2
      <3> QED BY <1>3, <3>1
    <2> QED BY <1>2, <2>1, <2>2
  <1> QED BY <1>2, <1>4 DEF Signed, Good

\* Every name of a leg says which way the money goes.
LEMMA LegsSigned ==
    ASSUME NEW r \in Requests
    PROVE  Signed(Legs(r))
  <1>1. /\ r.kind \in Kinds /\ r.id \in Ids
        /\ r.user \in Accounts /\ r.to \in Accounts
        /\ Clearing \in Accounts /\ FeeAccount \in Accounts
        /\ r.amount \in Int /\ -r.amount \in Int /\ r.amount >= 0 /\ -r.amount <= 0
        /\ r.fee \in Int /\ -r.fee \in Int /\ r.fee >= 0 /\ -r.fee <= 0
    BY RequestsAssumption DEF RequestType, Accounts
  <1>2. /\ TransactionId(r, "principal") \in TransactionIds
        /\ TransactionId(r, "fee") \in TransactionIds
    BY <1>1 DEF TransactionId, TransactionIds, Parts
  <1>3. Signed(<< >>)
    BY DEF Signed
  <1>4. ASSUME NEW p, NEW f, Signed(p), Signed(f)
        PROVE  Signed(p \o FeeLegs(r, f))
    <2>1. Signed(FeeLegs(r, f))
      BY <1>3, <1>4 DEF FeeLegs
    <2> QED BY <1>4, <2>1, SignedConcat
  <1>5. ASSUME NEW a \in Accounts, NEW b \in Accounts, NEW d \in Int, d <= 0, NEW tx \in TransactionIds,
               NEW ta \in ReferenceTypes, NEW tb \in ReferenceTypes, Direction(ta) = -1, Direction(tb) = 1
        PROVE  Signed(DoubleEntryLegs(tx, a, b, d, ta, tb))
    BY <1>5, DoubleEntryLegsSigned
  <1>6. ASSUME NEW a \in Accounts, NEW b \in Accounts, NEW d \in Int, d >= 0, NEW tx \in TransactionIds,
               NEW ta \in ReferenceTypes, NEW tb \in ReferenceTypes, Direction(ta) = 1, Direction(tb) = -1
        PROVE  Signed(DoubleEntryLegs(tx, a, b, d, ta, tb))
    BY <1>6, DoubleEntryLegsSigned
  <1>7. /\ Direction("TransferredToAccount") = -1 /\ Direction("ReceivedTransfer") = 1
        /\ Direction("WithdrawFromIntent") = -1 /\ Direction("DepositFromIntent") = 1
        /\ Direction("WithdrawFromRefund") = -1 /\ Direction("DepositFromRefund") = 1
        /\ Direction("WithdrawFromChargeback") = -1 /\ Direction("DepositFromChargeback") = 1
        /\ Direction("ReserveWithdrawal") = -1 /\ Direction("ReceiveWithdrawalHold") = 1
        /\ Direction("ReleaseWithdrawal") = 1 /\ Direction("WithdrawReleasedHold") = -1
    BY DEF Direction
  <1>8. /\ "TransferredToAccount" \in ReferenceTypes /\ "ReceivedTransfer" \in ReferenceTypes
        /\ "WithdrawFromIntent" \in ReferenceTypes /\ "DepositFromIntent" \in ReferenceTypes
        /\ "WithdrawFromRefund" \in ReferenceTypes /\ "DepositFromRefund" \in ReferenceTypes
        /\ "WithdrawFromChargeback" \in ReferenceTypes /\ "DepositFromChargeback" \in ReferenceTypes
        /\ "ReserveWithdrawal" \in ReferenceTypes /\ "ReceiveWithdrawalHold" \in ReferenceTypes
        /\ "ReleaseWithdrawal" \in ReferenceTypes /\ "WithdrawReleasedHold" \in ReferenceTypes
    BY DEF ReferenceTypes
  <1>9. CASE r.kind = "transfer"
    <2>1. Signed(transferLegs(r))
      BY <1>1, <1>2, <1>4, <1>5, <1>7, <1>8 DEF transferLegs
    <2> QED BY <1>9, <2>1 DEF Legs
  <1>10. CASE r.kind = "succeeded"
    <2>1. Signed(paymentSucceededLedgerEvents(r))
      BY <1>1, <1>2, <1>4, <1>5, <1>7, <1>8 DEF paymentSucceededLedgerEvents
    <2> QED BY <1>10, <2>1 DEF Legs
  <1>11. ASSUME NEW x \in ReferenceTypes, NEW y \in ReferenceTypes, Direction(x) = -1, Direction(y) = 1
        PROVE  Signed(paymentReversedLedgerEvents(r, x, y))
    BY <1>1, <1>2, <1>4, <1>5, <1>11 DEF paymentReversedLedgerEvents
  <1>12. CASE r.kind = "refunded"
    BY <1>7, <1>8, <1>11, <1>12 DEF Legs
  <1>13. CASE r.kind = "chargeback"
    BY <1>7, <1>8, <1>11, <1>13 DEF Legs
  <1>14. CASE r.kind = "withdrawal"
    <2>1. Signed(paymentWithdrawalRequestedLedgerEvents(r))
      BY <1>1, <1>2, <1>4, <1>5, <1>7, <1>8 DEF paymentWithdrawalRequestedLedgerEvents
    <2> QED BY <1>14, <2>1 DEF Legs
  <1>15. CASE r.kind = "failed"
    <2>1. Signed(paymentFailedLedgerEvents(r))
      BY <1>1, <1>2, <1>4, <1>6, <1>7, <1>8 DEF paymentFailedLedgerEvents
    <2> QED BY <1>15, <2>1 DEF Legs
  <1> QED BY <1>1, <1>9, <1>10, <1>12, <1>13, <1>14, <1>15 DEF Kinds

LEMMA LegsSurvive == LegsSurviveEncoding
  <1> SUFFICES ASSUME NEW r \in Requests, NEW i \in DOMAIN Legs(r)
               PROVE  LET p == Legs(r)[i]
                          x == previewLedgerPostingFromEvent(newLedgerPaymentEvent(p, 0))
                      IN x.amount = p.delta /\ x.account = p.account /\ x.transaction = p.transaction
    BY DEF LegsSurviveEncoding
  <1>1. PICK p : p = Legs(r)[i]
    OBVIOUS
  <1>2. i \in 1..Len(Legs(r))
    BY LegsSigned DEF Signed
  <1>3. Direction(p.type) * absInt64(p.delta) = p.delta
    BY <1>1, <1>2, LegsSigned DEF Signed
  <1>4. PICK e : e = newLedgerPaymentEvent(p, 0)
    OBVIOUS
  <1>5. e.account = p.account /\ e.name = p.type /\ e.transaction = p.transaction /\ e.amount = absInt64(p.delta)
    BY <1>4 DEF newLedgerPaymentEvent
  <1>6. PICK x : x = previewLedgerPostingFromEvent(e)
    OBVIOUS
  <1>7. x.account = e.account /\ x.transaction = e.transaction /\ x.amount = Direction(e.name) * e.amount
    BY <1>6 DEF previewLedgerPostingFromEvent
  <1>8. x.amount = p.delta /\ x.account = p.account /\ x.transaction = p.transaction
    BY <1>3, <1>5, <1>7
  <1> QED BY <1>1, <1>4, <1>6, <1>8

-----------------------------------------------------------------------------
(* What the tables add up to *)

\* What the rows of an event add to a sum.
Weight == [e \in OutboxEvents |-> entries[e] * Projection(e).amount]

\* What the events of an account add to its balance, in their order.
Amounts(a) == [i \in 1..Len(Outbox[a]) |-> Projection(Outbox[a][i]).amount]

LEMMA AmountType == \A e \in OutboxEvents : Projection(e).amount \in Int
  <1> SUFFICES ASSUME NEW e \in OutboxEvents PROVE Projection(e).amount \in Int
    OBVIOUS
  <1>1. e.amount \in Nat
    BY EventsInOutbox DEF EventType
  <1>2. Projection(e).amount = Direction(e.name) * e.amount
    BY DEF Projection, previewLedgerPostingFromEvent
  <1>3. Direction(e.name) = 1 \/ Direction(e.name) = -1
    BY DEF Direction
  <1> QED BY <1>1, <1>2, <1>3

LEMMA WeightType ==
    ASSUME ReadTypes
    PROVE  Weight \in [OutboxEvents -> Int]
  <1>1. \A m \in Nat, n \in Int : m * n \in Int
    OBVIOUS
  <1>2. \A e \in OutboxEvents : entries[e] \in Nat
    BY DEF ReadTypes, ReadTypeOK
  <1> QED BY <1>1, <1>2, AmountType DEF Weight

LEMMA AmountsType ==
    ASSUME NEW a \in Accounts
    PROVE  Amounts(a) \in [1..Len(Outbox[a]) -> Int]
  BY AmountType, EventsInOutbox DEF Amounts

\* f can be summed over S.
Summable(f, U, S) == f \in [U -> Int] /\ S \subseteq U /\ IsFiniteSet(S)

LEMMA SummableRemove ==
    ASSUME NEW f, NEW U, NEW S, Summable(f, U, S), NEW e, e \in S
    PROVE  SumOver(f, S) = f[e] + SumOver(f, S \ {e})
  BY SumRemove DEF Summable

LEMMA SummableUnique ==
    ASSUME NEW f, NEW U, NEW S, Summable(f, U, S), NEW z, Sums(z, f, S)
    PROVE  SumOver(f, S) = z[S]
  BY SumIsUnique DEF Summable

\* Total, and the sum of the amounts, as sums over finite sets.
LEMMA TotalIsSum ==
    ASSUME ReadTypes, NEW S, S \subseteq OutboxEvents, IsFiniteSet(S)
    PROVE  Total(S) = SumOver(Weight, S)
  <1>1. Weight \in [OutboxEvents -> Int]
    BY WeightType
  <1> DEFINE Eq(z) == z = [s \in SUBSET S |->
                 IF s = {} THEN 0
                 ELSE entries[CHOOSE x \in s : TRUE] * Projection(CHOOSE x \in s : TRUE).amount
                      + z[s \ {CHOOSE x \in s : TRUE}]]
             y == CHOOSE z : Eq(z)
  <1>2. PICK z : HoldsSums(z, Weight, S)
    BY <1>1, SumIsHeld
  <1>3. \A s \in SUBSET S : s # {} =>
            Chosen(s) \in S /\ Weight[Chosen(s)] = entries[Chosen(s)] * Projection(Chosen(s)).amount
    BY DEF Chosen, Weight
  <1>4. z = [s \in SUBSET S |-> IF s = {} THEN 0
                 ELSE entries[Chosen(s)] * Projection(Chosen(s)).amount + z[s \ {Chosen(s)}]]
    BY <1>2, <1>3 DEF HoldsSums, Sums
  <1>5. Eq(z)
    BY <1>4, Zenon DEF Chosen
  <1>6. Eq(y)
    BY <1>5, Zenon
  <1>7. Total(S) = y[S]
    BY Zenon DEF Total, MapThenSumSet, MapThenFoldSet
  <1>8. y = [s \in SUBSET S |-> IF s = {} THEN 0
                 ELSE entries[Chosen(s)] * Projection(Chosen(s)).amount + y[s \ {Chosen(s)}]]
    BY <1>6, Zenon DEF Chosen
  <1> HIDE DEF y
  <1>9. Sums(y, Weight, S)
    BY <1>3, <1>8 DEF Sums
  <1>10. SumOver(Weight, S) = y[S]
    BY <1>1, <1>9, SumIsUnique
  <1> QED BY <1>7, <1>10, Zenon

LEMMA AmountsAreSummed ==
    ASSUME NEW a \in Accounts, NEW S, S \subseteq 1..Len(Outbox[a]), IsFiniteSet(S)
    PROVE  MapThenSumSet(LAMBDA i : Projection(Outbox[a][i]).amount, S) = SumOver(Amounts(a), S)
  <1>1. Amounts(a) \in [1..Len(Outbox[a]) -> Int]
    BY AmountsType
  <1> DEFINE Eq(z) == z = [s \in SUBSET S |->
                 IF s = {} THEN 0
                 ELSE Projection(Outbox[a][CHOOSE x \in s : TRUE]).amount
                      + z[s \ {CHOOSE x \in s : TRUE}]]
             y == CHOOSE z : Eq(z)
  <1>2. PICK z : HoldsSums(z, Amounts(a), S)
    BY <1>1, SumIsHeld
  <1>3. \A s \in SUBSET S : s # {} =>
            Chosen(s) \in S /\ Amounts(a)[Chosen(s)] = Projection(Outbox[a][Chosen(s)]).amount
    BY DEF Chosen, Amounts
  <1>4. z = [s \in SUBSET S |-> IF s = {} THEN 0
                 ELSE Projection(Outbox[a][Chosen(s)]).amount + z[s \ {Chosen(s)}]]
    BY <1>2, <1>3 DEF HoldsSums, Sums
  <1>5. Eq(z)
    BY <1>4, Zenon DEF Chosen
  <1>6. Eq(y)
    BY <1>5, Zenon
  <1>7. MapThenSumSet(LAMBDA i : Projection(Outbox[a][i]).amount, S) = y[S]
    BY Zenon DEF MapThenSumSet, MapThenFoldSet
  <1>8. y = [s \in SUBSET S |-> IF s = {} THEN 0
                 ELSE Projection(Outbox[a][Chosen(s)]).amount + y[s \ {Chosen(s)}]]
    BY <1>6, Zenon DEF Chosen
  <1> HIDE DEF y
  <1>9. Sums(y, Amounts(a), S)
    BY <1>3, <1>8 DEF Sums
  <1>10. SumOver(Amounts(a), S) = y[S]
    <2>1. Summable(Amounts(a), 1..Len(Outbox[a]), S)
      BY <1>1 DEF Summable
    <2> QED BY <1>9, <2>1, SummableUnique, Zenon
  <1> QED BY <1>7, <1>10, Zenon

\* f along the sequence q is g up to n and nothing after that.
Along(q, f, U, g, L, n) ==
    /\ L \in Nat /\ n \in 0..L
    /\ f \in [U -> Int] /\ g \in [1..L -> Int]
    /\ \A i \in 1..L : q[i] \in U
    /\ \A i, j \in 1..L : q[i] = q[j] => i = j
    /\ \A i \in 1..n : f[q[i]] = g[i]
    /\ \A i \in 1..L : i > n => f[q[i]] = 0

Prefix(q, k) == { q[i] : i \in 1..k }

\* The events of the sequence are then summed by g up to n.
LEMMA SumAlong ==
    ASSUME NEW q, NEW f, NEW U, NEW g, NEW L, NEW n, Along(q, f, U, g, L, n)
    PROVE  IsFiniteSet(Prefix(q, L)) /\ SumOver(f, Prefix(q, L)) = SumOver(g, 1..n)
  <1>0. /\ L \in Nat /\ n \in Nat /\ n <= L /\ f \in [U -> Int] /\ g \in [1..L -> Int]
        /\ \A i \in 1..L : q[i] \in U
        /\ \A i, j \in 1..L : q[i] = q[j] => i = j
        /\ \A i \in 1..n : f[q[i]] = g[i]
        /\ \A i \in 1..L : i > n => f[q[i]] = 0
    BY DEF Along
  <1> DEFINE least(m) == IF m <= n THEN m ELSE n
             N == { m \in Nat : m <= L =>
                      IsFiniteSet(Prefix(q, m)) /\ SumOver(f, Prefix(q, m)) = SumOver(g, 1..least(m)) }
  <1>1. 0 \in N
    <2>1. Prefix(q, 0) = {} /\ 1..least(0) = {}
      BY <1>0 DEF Prefix
    <2>2. IsFiniteSet({})
      BY FS_EmptySet
    <2>3. SumOver(f, {}) = 0 /\ SumOver(g, {}) = 0
      BY <1>0, <2>2, SumType
    <2> QED BY <2>1, <2>2, <2>3
  <1>2. ASSUME NEW m \in Nat, m \in N PROVE m + 1 \in N
    <2> SUFFICES ASSUME m + 1 <= L
                 PROVE  IsFiniteSet(Prefix(q, m + 1)) /\ SumOver(f, Prefix(q, m + 1)) = SumOver(g, 1..least(m + 1))
      OBVIOUS
    <2>1. IsFiniteSet(Prefix(q, m)) /\ SumOver(f, Prefix(q, m)) = SumOver(g, 1..least(m)) /\ m <= L
      BY <1>0, <1>2
    <2> HIDE DEF N
    <2>2. PICK k \in 1..L : k = m + 1
      BY <1>0
    <2>3. \A i : i \in 1..k <=> (i \in 1..m \/ i = k)
      BY <2>2
    <2>4. Prefix(q, k) = Prefix(q, m) \cup {q[k]}
      BY <2>3 DEF Prefix
    <2>5. q[k] \notin Prefix(q, m) /\ Prefix(q, k) \subseteq U
      BY <1>0, <2>1, <2>2, <2>3 DEF Prefix
    <2>6. IsFiniteSet(Prefix(q, k))
      BY <2>1, <2>4, FS_AddElement
    <2>7. q[k] \in Prefix(q, k) /\ Prefix(q, k) \ {q[k]} = Prefix(q, m)
      BY <2>4, <2>5
    <2>8. SumOver(f, Prefix(q, k)) = f[q[k]] + SumOver(f, Prefix(q, m))
      <3>1. Summable(f, U, Prefix(q, k))
        BY <1>0, <2>5, <2>6 DEF Summable
      <3>2. SumOver(f, Prefix(q, k)) = f[q[k]] + SumOver(f, Prefix(q, k) \ {q[k]})
        BY <2>7, <3>1, SummableRemove
      <3> QED BY <2>7, <3>2
    <2>9. CASE k <= n
      <3>1. least(m) = m /\ least(m + 1) = k /\ f[q[k]] = g[k]
        BY <1>0, <2>2, <2>9
      <3>2. 1..k \subseteq 1..L /\ IsFiniteSet(1..k) /\ k \in 1..k /\ (1..k) \ {k} = 1..m
        <4>1. IsFiniteSet(1..k)
          BY FS_Interval
        <4> QED BY <1>0, <2>2, <4>1
      <3>3. SumOver(g, 1..k) = g[k] + SumOver(g, (1..k) \ {k})
        <4>1. Summable(g, 1..L, 1..k)
          BY <1>0, <3>2 DEF Summable
        <4>2. PICK T : T = 1..k
          OBVIOUS
        <4>3. Summable(g, 1..L, T) /\ k \in T
          BY <3>2, <4>1, <4>2, Zenon
        <4>4. SumOver(g, T) = g[k] + SumOver(g, T \ {k})
          <5>1. PICK V : Summable(g, V, T)
            BY <4>3, Zenon
          <5> QED BY <4>3, <5>1, SummableRemove
        <4> QED BY <4>2, <4>4, Zenon
      <3>4. SumOver(f, Prefix(q, k)) = SumOver(g, 1..k)
        BY <2>1, <2>8, <3>1, <3>2, <3>3
      <3> QED BY <2>2, <2>6, <3>1, <3>4
    <2>10. CASE k > n
      <3>1. least(m) = n /\ least(m + 1) = n /\ f[q[k]] = 0
        BY <1>0, <2>2, <2>10
      <3>2. SumOver(f, Prefix(q, m)) \in Int
        BY <1>0, <2>1, <2>4, <2>5, SumType
      <3>3. SumOver(f, Prefix(q, k)) = SumOver(g, 1..n)
        BY <2>1, <2>8, <3>1, <3>2
      <3> QED BY <2>2, <2>6, <3>1, <3>3
    <2> QED BY <1>0, <2>2, <2>9, <2>10
  <1> HIDE DEF N
  <1>3. L \in N
    BY <1>0, <1>1, <1>2, Induction
  <1>4. IsFiniteSet(Prefix(q, L)) /\ SumOver(f, Prefix(q, L)) = SumOver(g, 1..least(L))
    BY <1>0, <1>3 DEF N
  <1>5. least(L) = n
    BY <1>0
  <1> QED BY <1>4, <1>5

\* A partition without overlap and dead letters has each of its events in the tables once, up
\* to one that is its offset or the next.
LEMMA EnteredUpTo ==
    ASSUME ReadInv, NEW a \in Accounts, Range(Outbox[a]) \cap (overlapped \cup dropped) = {}
    PROVE  \E n \in offsets[a]..Len(Outbox[a]) : \A i \in 1..Len(Outbox[a]) :
               entries[Outbox[a][i]] = IF i <= n THEN 1 ELSE 0
  <1>1. /\ offsets[a] \in Nat /\ offsets[a] <= Len(Outbox[a]) /\ Len(Outbox[a]) \in Nat
        /\ DOMAIN Outbox[a] = 1..Len(Outbox[a])
    BY OutboxAssumption DEF ReadInv, ReadTypes, ReadTypeOK
  <1> DEFINE count(i) == entries[Outbox[a][i]]
  <1>2. ASSUME NEW i \in 1..Len(Outbox[a])
        PROVE  /\ count(i) \in {0, 1}
               /\ i <= offsets[a] => count(i) = 1
               /\ i > offsets[a] + 1 => count(i) = 0
    <2>1. PICK e \in OutboxEvents : e = Outbox[a][i]
      BY EventsInOutbox
    <2>2. e \notin overlapped /\ e \notin dropped
      BY <1>1, <2>1 DEF Range
    <2>3. entries[e] \in Nat
      BY DEF ReadInv, ReadTypes, ReadTypeOK
    <2>4. ~ (entries[e] > 1)
      BY <2>2 DEF ReadInv, EnteredOnce
    <2>5. i <= offsets[a] => entries[e] > 0
      <3>1. i <= offsets[a] => i \in 1..offsets[a]
        BY <1>1
      <3> QED BY <2>1, <2>2, <3>1 DEF ReadInv, NothingIsSkipped
    <2>6. entries[e] > 0 => i <= offsets[a] + 1
      BY <2>1 DEF ReadInv, AheadInv
    <2> QED BY <1>1, <2>1, <2>3, <2>4, <2>5, <2>6
  <1> HIDE DEF count
  <1>3. PICK p \in Nat : p = offsets[a]
    BY <1>1
  <1>4. CASE p + 1 <= Len(Outbox[a]) /\ count(p + 1) = 1
    <2>1. \A i \in 1..Len(Outbox[a]) : count(i) = IF i <= p + 1 THEN 1 ELSE 0
      BY <1>1, <1>2, <1>3, <1>4
    <2>2. p + 1 \in offsets[a]..Len(Outbox[a])
      BY <1>1, <1>3, <1>4
    <2> QED BY <2>1, <2>2 DEF count
  <1>5. CASE ~ (p + 1 <= Len(Outbox[a]) /\ count(p + 1) = 1)
    <2>1. \A i \in 1..Len(Outbox[a]) : count(i) = IF i <= p THEN 1 ELSE 0
      BY <1>1, <1>2, <1>3, <1>5
    <2>2. p \in offsets[a]..Len(Outbox[a])
      BY <1>1, <1>3
    <2> QED BY <2>1, <2>2 DEF count
  <1> QED BY <1>4, <1>5

LEMMA BalancesOld ==
    ASSUME ReadInv
    PROVE  BalancesAreOld
  <1> SUFFICES ASSUME NEW a \in Accounts, Range(Outbox[a]) \cap (overlapped \cup dropped) = {}
               PROVE  \E n \in offsets[a]..Len(Outbox[a]) :
                          GetBalance(a) = MapThenSumSet(LAMBDA i : Projection(Outbox[a][i]).amount, 1..n)
    BY DEF BalancesAreOld
  <1>1. /\ offsets[a] \in Nat /\ Len(Outbox[a]) \in Nat /\ ReadTypes
    BY OutboxAssumption DEF ReadInv, ReadTypes
  <1>2. PICK n \in offsets[a]..Len(Outbox[a]) : \A i \in 1..Len(Outbox[a]) :
            entries[Outbox[a][i]] = IF i <= n THEN 1 ELSE 0
    BY EnteredUpTo
  <1>3. PICK q, L : q = Outbox[a] /\ L = Len(Outbox[a])
    OBVIOUS
  <1>4. \A i \in 1..L : q[i] \in OutboxEvents /\ Weight[q[i]] = entries[q[i]] * Projection(q[i]).amount
                        /\ Amounts(a)[i] = Projection(q[i]).amount /\ Projection(q[i]).amount \in Int
    BY <1>3, AmountType, EventsInOutbox DEF Weight, Amounts
  <1>5. \A i \in 1..L : Weight[q[i]] = IF i <= n THEN Amounts(a)[i] ELSE 0
    BY <1>2, <1>3, <1>4
  <1>6. n \in 0..L /\ L \in Nat /\ n \in Nat
    BY <1>1, <1>2, <1>3
  <1>7. Along(q, Weight, OutboxEvents, Amounts(a), L, n)
    <2>1. Weight \in [OutboxEvents -> Int] /\ Amounts(a) \in [1..L -> Int]
      BY <1>1, <1>3, WeightType, AmountsType
    <2>2. \A i, j \in 1..L : q[i] = q[j] => i = j
      BY <1>3, EventsInOutbox
    <2>3. \A i \in 1..n : i \in 1..L /\ Weight[q[i]] = Amounts(a)[i]
      BY <1>5, <1>6
    <2>4. \A i \in 1..L : i > n => Weight[q[i]] = 0
      BY <1>5, <1>6
    <2> QED BY <1>4, <1>6, <2>1, <2>2, <2>3, <2>4 DEF Along
  <1>8. IsFiniteSet(Prefix(q, L)) /\ SumOver(Weight, Prefix(q, L)) = SumOver(Amounts(a), 1..n)
    BY <1>7, SumAlong
  <1>9. { e \in OutboxEvents : e.account = a } = Prefix(q, L)
    BY <1>3, <1>4, EventsInOutbox, OutboxAssumption DEF Prefix
  <1>10. Prefix(q, L) \subseteq OutboxEvents
    BY <1>9
  <1>11. Total(Prefix(q, L)) = SumOver(Weight, Prefix(q, L))
    BY <1>1, <1>8, <1>10, TotalIsSum
  <1>12. GetBalance(a) = SumOver(Weight, Prefix(q, L))
    BY <1>9, <1>11 DEF GetBalance
  <1>13. 1..n \subseteq 1..Len(Outbox[a]) /\ IsFiniteSet(1..n)
    BY <1>3, <1>6, FS_Interval
  <1>14. MapThenSumSet(LAMBDA i : Projection(Outbox[a][i]).amount, 1..n) = SumOver(Amounts(a), 1..n)
    BY <1>13, AmountsAreSummed
  <1> QED BY <1>2, <1>8, <1>12, <1>14

\* The legs of a transaction that both partitions have passed.
LEMMA PassedWhole ==
    ASSUME ReadInv
    PROVE  PassedTransactionsAreWhole
  <1> DEFINE past == UNION { { Outbox[a][i] : i \in 1..offsets[a] } : a \in Accounts }
             legsOf(t) == { e \in OutboxEvents : e.transaction = t }
  <1>0. ReadTypes
    BY DEF ReadInv
  <1>1. ASSUME NEW t \in { e.transaction : e \in OutboxEvents }, legsOf(t) \subseteq past \ (overlapped \cup dropped)
        PROVE  GetTransaction(t) = legsOf(t) /\ Total(legsOf(t)) = 0
    <2>1. PICK e \in OutboxEvents : e.transaction = t
      BY <1>1
    <2>2. PICK f \in OutboxEvents \ {e} :
            /\ { x \in OutboxEvents : x.transaction = e.transaction } = {e, f}
            /\ Projection(f).amount = -Projection(e).amount
      BY OutboxAssumption
    <2>3. legsOf(t) = {e, f}
      BY <2>1, <2>2
    <2>4. ASSUME NEW x \in {e, f} PROVE entries[x] = 1 /\ HeaderOf(x) \in headers /\ x \in OutboxEvents
      <3>1. x \in past /\ x \notin overlapped /\ x \notin dropped /\ x \in OutboxEvents
        BY <1>1, <2>2, <2>3
      <3>2. PICK a \in Accounts : \E i \in 1..offsets[a] : x = Outbox[a][i]
        BY <3>1
      <3>3. PICK i \in 1..offsets[a] : x = Outbox[a][i]
        BY <3>2
      <3>4. entries[x] > 0 /\ HeaderOf(x) \in headers
        BY <3>1, <3>3 DEF ReadInv, NothingIsSkipped
      <3>5. ~ (entries[x] > 1) /\ entries[x] \in Nat
        BY <1>0, <3>1 DEF ReadInv, EnteredOnce, ReadTypes, ReadTypeOK
      <3> QED BY <3>1, <3>4, <3>5
    <2>5. GetTransaction(t) = legsOf(t)
      <3>1. HeaderOf(e) \in Stored(t)
        BY <2>1, <2>4 DEF Stored, HeaderOf
      <3>2. EntriesOf(t) = legsOf(t)
        BY <2>3, <2>4 DEF EntriesOf
      <3> QED BY <3>1, <3>2 DEF GetTransaction
    <2>6. Weight \in [OutboxEvents -> Int]
      BY <1>0, WeightType
    <2>7. PICK m \in Int : m = Projection(e).amount
      BY AmountType
    <2>8. Weight[e] = m /\ Weight[f] = -m
      BY <2>2, <2>4, <2>7 DEF Weight
    <2>9. {e, f} \subseteq OutboxEvents /\ IsFiniteSet({e, f}) /\ IsFiniteSet({f}) /\ IsFiniteSet({})
      <3>1. IsFiniteSet({}) /\ IsFiniteSet({f})
        BY FS_EmptySet, FS_Singleton
      <3>2. IsFiniteSet({f} \cup {e})
        BY <3>1, FS_AddElement
      <3>3. {f} \cup {e} = {e, f}
        OBVIOUS
      <3> QED BY <3>1, <3>2, <3>3
    <2>10. SumOver(Weight, {e, f}) = Weight[e] + SumOver(Weight, {e, f} \ {e}) /\ {e, f} \ {e} = {f}
      <3>1. {e, f} \ {e} = {f} /\ e \in {e, f}
        BY <2>2
      <3> QED BY <2>6, <2>9, <3>1, SumRemove
    <2>11. SumOver(Weight, {f}) = Weight[f] + SumOver(Weight, {f} \ {f}) /\ {f} \ {f} = {}
      <3>1. {f} \ {f} = {} /\ f \in {f} /\ {f} \subseteq OutboxEvents
        OBVIOUS
      <3> QED BY <2>6, <2>9, <3>1, SumRemove
    <2>12. SumOver(Weight, {}) = 0
      BY <2>6, <2>9, SumType
    <2>13. SumOver(Weight, {e, f}) = 0
      BY <2>8, <2>10, <2>11, <2>12
    <2>14. Total({e, f}) = SumOver(Weight, {e, f})
      BY <1>0, <2>9, TotalIsSum
    <2> QED BY <2>3, <2>5, <2>13, <2>14
  <1> QED BY <1>1, Zenon DEF PassedTransactionsAreWhole

-----------------------------------------------------------------------------
(* The order of the headers *)

Headers == { HeaderOf(e) : e \in OutboxEvents }

LEMMA RankType ==
    \A e \in OutboxEvents : Rank(e.transaction) \in Nat /\ IdOrder[Rank(e.transaction)] = e.transaction
  <1> SUFFICES ASSUME NEW e \in OutboxEvents
               PROVE  Rank(e.transaction) \in Nat /\ IdOrder[Rank(e.transaction)] = e.transaction
    OBVIOUS
  <1>1. PICK t : t = e.transaction
    OBVIOUS
  <1>2. \E i \in DOMAIN IdOrder : IdOrder[i] = t
    BY <1>1, IdOrderAssumption DEF Range
  <1>3. Rank(t) \in DOMAIN IdOrder /\ IdOrder[Rank(t)] = t
    BY <1>2, Zenon DEF Rank
  <1>4. DOMAIN IdOrder \subseteq Nat
    BY IdOrderAssumption
  <1> QED BY <1>1, <1>3, <1>4

LEMMA HeaderType ==
    ASSUME NEW h \in Headers
    PROVE  /\ h = [transaction |-> h.transaction, createdAt |-> h.createdAt]
           /\ h.createdAt \in Nat /\ Rank(h.transaction) \in Nat
           /\ IdOrder[Rank(h.transaction)] = h.transaction
  <1>1. PICK e \in OutboxEvents : h = HeaderOf(e)
    BY DEF Headers
  <1>2. h = [transaction |-> e.transaction, createdAt |-> e.bookedAt] /\ e.bookedAt \in Nat
    BY <1>1, EventsInOutbox DEF HeaderOf, EventType
  <1> QED BY <1>2, RankType

\* Newest first is a strict total order.
LEMMA HeadersOrdered ==
    /\ \A g \in Headers : ~ ComesFirst(g, g)
    /\ \A f, g, h \in Headers : ComesFirst(f, g) /\ ComesFirst(g, h) => ComesFirst(f, h)
    /\ \A g, h \in Headers : g = h \/ ComesFirst(g, h) \/ ComesFirst(h, g)
    /\ \A g, h \in Headers : ~ (ComesFirst(g, h) /\ ComesFirst(h, g))
  <1> DEFINE T(h) == h.createdAt
             R(h) == Rank(h.transaction)
  <1>1. \A h \in Headers : T(h) \in Nat /\ R(h) \in Nat
    BY HeaderType
  <1>2. \A g, h : ComesFirst(g, h) <=> T(g) > T(h) \/ (T(g) = T(h) /\ R(g) > R(h))
    BY DEF ComesFirst
  <1>3. \A g, h \in Headers : T(g) = T(h) /\ R(g) = R(h) => g = h
    <2>1. ASSUME NEW g \in Headers, NEW h \in Headers, T(g) = T(h), R(g) = R(h) PROVE g = h
      <3>1. g.transaction = h.transaction
        BY <2>1, HeaderType
      <3> QED BY <2>1, <3>1, HeaderType
    <2> QED BY <2>1
  <1> HIDE DEF T, R
  <1>4. \A g \in Headers : ~ ComesFirst(g, g)
    BY <1>1, <1>2
  <1>5. \A f, g, h \in Headers : ComesFirst(f, g) /\ ComesFirst(g, h) => ComesFirst(f, h)
    BY <1>1, <1>2
  <1>6. \A g, h \in Headers : g = h \/ ComesFirst(g, h) \/ ComesFirst(h, g)
    BY <1>1, <1>2, <1>3
  <1>7. \A g, h \in Headers : ~ (ComesFirst(g, h) /\ ComesFirst(h, g))
    BY <1>1, <1>2
  <1> QED BY <1>4, <1>5, <1>6, <1>7

\* A table of headers, what comes before one of them, and its place in the order.
Table(hs) == hs \subseteq Headers /\ IsFiniteSet(hs)

Ahead(hs, h) == { g \in hs : ComesFirst(g, h) }

Place(hs, h) == Cardinality(Ahead(hs, h)) + 1

LEMMA AheadSize ==
    ASSUME NEW hs, Table(hs), NEW h
    PROVE  /\ IsFiniteSet(Ahead(hs, h)) /\ Cardinality(Ahead(hs, h)) \in Nat
           /\ Cardinality(hs) \in Nat /\ Place(hs, h) = Cardinality(Ahead(hs, h)) + 1
  <1>1. IsFiniteSet(hs) /\ Ahead(hs, h) \in SUBSET hs
    BY DEF Table, Ahead
  <1> QED BY <1>1, FS_Subset, FS_CardinalityType DEF Place

\* The places of the headers of a table are the numbers up to its size.
LEMMA Places ==
    ASSUME NEW hs, Table(hs)
    PROVE  /\ \A h \in hs : Place(hs, h) \in 1..Cardinality(hs)
           /\ \A g, h \in hs : Place(hs, g) = Place(hs, h) => g = h
           /\ \A i \in 1..Cardinality(hs) : \E h \in hs : Place(hs, h) = i
  <1>0. hs \subseteq Headers /\ IsFiniteSet(hs) /\ Cardinality(hs) \in Nat
    BY FS_CardinalityType DEF Table
  <1>1. ASSUME NEW h \in hs PROVE Place(hs, h) \in 1..Cardinality(hs)
    <2>1. Ahead(hs, h) \in SUBSET hs /\ Ahead(hs, h) # hs
      BY <1>0, HeadersOrdered DEF Ahead
    <2>2. Cardinality(Ahead(hs, h)) <= Cardinality(hs) /\ Cardinality(Ahead(hs, h)) # Cardinality(hs)
      BY <1>0, <2>1, FS_Subset
    <2> QED BY <2>2, AheadSize
  <1>2. ASSUME NEW g \in hs, NEW h \in hs, ComesFirst(g, h) PROVE Place(hs, g) < Place(hs, h)
    <2>1. Ahead(hs, g) \in SUBSET Ahead(hs, h) /\ g \in Ahead(hs, h) /\ g \notin Ahead(hs, g)
      BY <1>0, <1>2, HeadersOrdered DEF Ahead
    <2>2. IsFiniteSet(Ahead(hs, h)) /\ Ahead(hs, g) # Ahead(hs, h)
      BY <2>1, AheadSize
    <2>3. Cardinality(Ahead(hs, g)) <= Cardinality(Ahead(hs, h)) /\ Cardinality(Ahead(hs, g)) # Cardinality(Ahead(hs, h))
      BY <2>1, <2>2, FS_Subset
    <2>4. /\ Cardinality(Ahead(hs, g)) \in Nat /\ Place(hs, g) = Cardinality(Ahead(hs, g)) + 1
          /\ Cardinality(Ahead(hs, h)) \in Nat /\ Place(hs, h) = Cardinality(Ahead(hs, h)) + 1
      BY AheadSize
    <2> QED BY <2>3, <2>4
  <1>3. ASSUME NEW g \in hs, NEW h \in hs, Place(hs, g) = Place(hs, h) PROVE g = h
    <2>1. Place(hs, g) \in Nat
      BY <1>1
    <2>2. ~ ComesFirst(g, h) /\ ~ ComesFirst(h, g)
      BY <1>2, <1>3, <2>1
    <2> QED BY <1>0, <2>2, HeadersOrdered
  <1>4. \A i \in 1..Cardinality(hs) : \E h \in hs : Place(hs, h) = i
    <2> DEFINE f == [h \in hs |-> Place(hs, h)]
    <2>1. f \in Injection(hs, 1..Cardinality(hs))
      BY <1>1, <1>3 DEF Injection, IsInjective
    <2>2. PICK n \in Nat : n = Cardinality(hs)
      BY <1>0
    <2>3. PICK T : T = 1..n
      OBVIOUS
    <2>4. IsFiniteSet(T) /\ Cardinality(T) = n
      BY <2>3, FS_Interval
    <2> HIDE DEF f
    <2>5. f \in Surjection(hs, T)
      BY <1>0, <2>1, <2>2, <2>3, <2>4, FS_Injection
    <2>6. \A i \in T : \E h \in hs : f[h] = i
      BY <2>5 DEF Surjection
    <2> QED BY <2>2, <2>3, <2>6 DEF f
  <1> QED BY <1>1, <1>3, <1>4

\* The ordered table has every header at its place.
LEMMA OrderedPlaces ==
    ASSUME NEW hs, Table(hs)
    PROVE  /\ Cardinality(hs) \in Nat
           /\ Ordered(hs) \in [1..Cardinality(hs) -> hs]
           /\ \A i \in 1..Cardinality(hs) : Place(hs, Ordered(hs)[i]) = i
  <1>0. Cardinality(hs) \in Nat
    BY AheadSize
  <1>1. ASSUME NEW i \in 1..Cardinality(hs)
        PROVE  Ordered(hs)[i] \in hs /\ Place(hs, Ordered(hs)[i]) = i
    <2> DEFINE c == CHOOSE h \in hs : Cardinality({ g \in hs : ComesFirst(g, h) }) = i - 1
    <2>1. Ordered(hs)[i] = c
      BY DEF Ordered
    <2>2. PICK h \in hs : Place(hs, h) = i
      BY Places
    <2>3. Cardinality({ g \in hs : ComesFirst(g, h) }) = i - 1
      <3>1. Cardinality(Ahead(hs, h)) = i - 1
        BY <1>0, <2>2, AheadSize
      <3> QED BY <3>1, Zenon DEF Ahead
    <2>4. c \in hs /\ Cardinality({ g \in hs : ComesFirst(g, c) }) = i - 1
      BY <2>3, Zenon
    <2> HIDE DEF c
    <2>5. Cardinality(Ahead(hs, c)) = i - 1
      BY <2>4, Zenon DEF Ahead
    <2>6. Place(hs, c) = i
      BY <1>0, <2>5, AheadSize
    <2> QED BY <2>1, <2>4, <2>6
  <1>2. Ordered(hs) \in [1..Cardinality(hs) -> hs]
    BY <1>1 DEF Ordered
  <1> QED BY <1>0, <1>1, <1>2

\* The cardinality of two parts and an element between them.
LEMMA SizeAround ==
    ASSUME NEW A, NEW B, NEW c, IsFiniteSet(A), IsFiniteSet(B), A \cap B = {}, c \notin A, c \notin B
    PROVE  /\ Cardinality(A \cup {c} \cup B) = Cardinality(A) + 1 + Cardinality(B)
           /\ Cardinality(A) \in Nat /\ Cardinality(B) \in Nat
  <1>1. Cardinality(A) \in Nat /\ Cardinality(B) \in Nat
    BY FS_CardinalityType
  <1>2. IsFiniteSet(A \cup {c}) /\ Cardinality(A \cup {c}) = Cardinality(A) + 1
    BY FS_AddElement
  <1>3. (A \cup {c}) \cap B = {} /\ Cardinality({}) = 0
    BY FS_EmptySet
  <1>4. Cardinality((A \cup {c}) \cup B) = Cardinality(A \cup {c}) + Cardinality(B) - Cardinality((A \cup {c}) \cap B)
    BY <1>2, FS_Union
  <1>5. Cardinality((A \cup {c}) \cap B) = 0
    BY <1>3, Zenon
  <1> QED BY <1>1, <1>2, <1>4, <1>5

\* The headers after one of them are the rest of the ordered table.
After(hs, c) == { h \in hs : ComesFirst(c, h) }

LEMMA OrderedAfter ==
    ASSUME NEW hs, Table(hs), NEW c \in hs, NEW p, p = Place(hs, c)
    PROVE  /\ Table(After(hs, c))
           /\ Cardinality(After(hs, c)) = Cardinality(hs) - p
           /\ \A i \in 1..(Cardinality(hs) - p) : Ordered(After(hs, c))[i] = Ordered(hs)[p + i]
  <1> DEFINE A == Ahead(hs, c)
             B == After(hs, c)
  <1>0. hs \subseteq Headers /\ IsFiniteSet(hs) /\ Cardinality(hs) \in Nat
    BY AheadSize DEF Table
  <1>1. Table(B)
    <2>1. B \in SUBSET hs
      BY DEF After
    <2> QED BY <1>0, <2>1, FS_Subset DEF Table
  <1>2. IsFiniteSet(A) /\ IsFiniteSet(B) /\ A \cap B = {} /\ c \notin A /\ c \notin B /\ hs = A \cup {c} \cup B
    <2>1. A \cap B = {} /\ c \notin A /\ c \notin B
      BY <1>0, HeadersOrdered DEF Ahead, After
    <2>2. hs = A \cup {c} \cup B
      BY <1>0, HeadersOrdered DEF Ahead, After
    <2> QED BY <1>1, <2>1, <2>2, AheadSize DEF Table
  <1>3. /\ Cardinality(hs) = Cardinality(A) + 1 + Cardinality(B)
        /\ Cardinality(A) \in Nat /\ Cardinality(B) \in Nat /\ p = Cardinality(A) + 1
    <2>1. Cardinality(A \cup {c} \cup B) = Cardinality(A) + 1 + Cardinality(B)
      BY <1>2, SizeAround
    <2> QED BY <1>1, <1>2, <2>1, AheadSize
  <1>4. ASSUME NEW h \in B PROVE Place(hs, h) = Place(B, h) + p
    <2>1. Ahead(hs, h) = A \cup {c} \cup Ahead(B, h)
      <3>1. h \in hs /\ ComesFirst(c, h) /\ c \in Headers /\ h \in Headers
        BY <1>0 DEF After
      <3>2. \A g \in hs : ComesFirst(g, h) <=> (ComesFirst(g, c) \/ g = c \/ (ComesFirst(c, g) /\ ComesFirst(g, h)))
        BY <1>0, <3>1, HeadersOrdered
      <3> QED BY <1>0, <3>1, <3>2 DEF Ahead, After
    <2>2. /\ IsFiniteSet(Ahead(B, h)) /\ Cardinality(Ahead(B, h)) \in Nat
          /\ Place(B, h) = Cardinality(Ahead(B, h)) + 1
      BY <1>1, AheadSize
    <2>3. A \cap Ahead(B, h) = {} /\ c \notin Ahead(B, h)
      BY <1>2 DEF Ahead
    <2>4. Cardinality(A \cup {c} \cup Ahead(B, h)) = Cardinality(A) + 1 + Cardinality(Ahead(B, h))
      BY <1>2, <2>2, <2>3, SizeAround
    <2>5. Place(hs, h) = Cardinality(Ahead(hs, h)) + 1
      BY AheadSize
    <2> QED BY <1>3, <2>1, <2>2, <2>4, <2>5
  <1> HIDE DEF A, B
  <1>5. ASSUME NEW i \in 1..Cardinality(B) PROVE Ordered(B)[i] = Ordered(hs)[p + i]
    <2>1. Ordered(B)[i] \in B /\ Place(B, Ordered(B)[i]) = i
      BY <1>1, OrderedPlaces
    <2>2. Place(hs, Ordered(B)[i]) = i + p /\ Ordered(B)[i] \in hs
      BY <1>2, <1>4, <2>1
    <2>3. PICK j \in 1..Cardinality(hs) : j = p + i
      BY <1>3
    <2>4. Ordered(hs)[j] \in hs /\ Place(hs, Ordered(hs)[j]) = j
      BY OrderedPlaces
    <2>5. Ordered(hs)[j] = Ordered(B)[i]
      BY <1>3, <2>2, <2>3, <2>4, Places
    <2> QED BY <2>3, <2>5
  <1>6. Cardinality(hs) - p = Cardinality(B)
    BY <1>3
  <1> QED BY <1>1, <1>5, <1>6 DEF B

-----------------------------------------------------------------------------
(* Pages *)

Lesser(m, n) == IF m <= n THEN m ELSE n

LEMMA MinIsLesser == \A m, n \in Nat : Min({m, n}) = Lesser(m, n)
  <1> SUFFICES ASSUME NEW m \in Nat, NEW n \in Nat PROVE Min({m, n}) = Lesser(m, n)
    OBVIOUS
  <1> DEFINE x == CHOOSE v \in {m, n} : \A y \in {m, n} : v <= y
  <1>1. Min({m, n}) = x
    BY Zenon DEF Min
  <1>2. \E v \in {m, n} : \A y \in {m, n} : v <= y
    OBVIOUS
  <1>3. x \in {m, n} /\ \A y \in {m, n} : x <= y
    BY <1>2, Zenon
  <1> HIDE DEF x
  <1>4. x = Lesser(m, n)
    BY <1>3 DEF Lesser
  <1> QED BY <1>1, <1>4

\* The cursor that stands behind the first p headers.
CursorAt(hs, p) == IF p = 0 THEN NoCursor ELSE << Ordered(hs)[p] >>

\* s holds the n headers of the ordered table that follow the first p.
Shows(hs, s, p, n) ==
    /\ s \in Seq(hs) /\ Len(s) = n
    /\ \A i \in 1..n : s[i] = Ordered(hs)[p + i]

Remaining(hs, cursor) == { h \in hs : cursor = NoCursor \/ ComesFirst(cursor[1], h) }

LEMMA RemainingAt ==
    ASSUME NEW hs, Table(hs), NEW p \in 0..Cardinality(hs)
    PROVE  Shows(hs, Ordered(Remaining(hs, CursorAt(hs, p))), p, Cardinality(hs) - p)
  <1>0. Cardinality(hs) \in Nat /\ Ordered(hs) \in [1..Cardinality(hs) -> hs]
    BY OrderedPlaces
  <1>1. CASE p = 0
    <2>1. CursorAt(hs, p) = NoCursor
      BY <1>1 DEF CursorAt
    <2>2. Remaining(hs, CursorAt(hs, p)) = hs
      BY <2>1 DEF Remaining
    <2>3. Shows(hs, Ordered(hs), 0, Cardinality(hs))
      BY <1>0 DEF Shows
    <2> QED BY <1>0, <1>1, <2>2, <2>3
  <1>2. CASE p # 0
    <2>1. PICK c \in hs : c = Ordered(hs)[p]
      BY <1>0, <1>2
    <2>2. CursorAt(hs, p) = << c >> /\ << c >> # NoCursor /\ << c >>[1] = c
      BY <1>2, <2>1 DEF CursorAt, NoCursor
    <2>3. Remaining(hs, CursorAt(hs, p)) = After(hs, c)
      BY <2>2 DEF Remaining, After
    <2>4. p = Place(hs, c)
      BY <1>2, <2>1, OrderedPlaces
    <2>5. /\ Table(After(hs, c))
          /\ Cardinality(After(hs, c)) = Cardinality(hs) - p
          /\ \A i \in 1..(Cardinality(hs) - p) : Ordered(After(hs, c))[i] = Ordered(hs)[p + i]
      BY <2>4, OrderedAfter
    <2>6. PICK n \in Nat : n = Cardinality(hs) - p
      BY <1>0
    <2>7. Ordered(After(hs, c)) \in [1..n -> After(hs, c)]
      BY <2>5, <2>6, OrderedPlaces
    <2>8. Ordered(After(hs, c)) \in [1..n -> hs]
      BY <2>7 DEF After
    <2>9. Ordered(After(hs, c)) \in Seq(hs) /\ Len(Ordered(After(hs, c))) = n
      BY <2>8
    <2>10. Shows(hs, Ordered(After(hs, c)), p, n)
      BY <2>5, <2>6, <2>9 DEF Shows
    <2> QED BY <2>3, <2>6, <2>10
  <1> QED BY <1>1, <1>2

\* The beginning of what is shown.
LEMMA ShowsBeginning ==
    ASSUME NEW hs, NEW s, NEW p \in Nat, NEW n \in Nat, Shows(hs, s, p, n), NEW m \in Nat, m <= n
    PROVE  Shows(hs, SubSeq(s, 1, m), p, m)
  <1>1. s \in Seq(hs) /\ Len(s) = n
    BY DEF Shows
  <1>2. SubSeq(s, 1, m) \in Seq(hs) /\ Len(SubSeq(s, 1, m)) = m /\ \A i \in 1..m : SubSeq(s, 1, m)[i] = s[i]
    BY <1>1
  <1> QED BY <1>2 DEF Shows

LEMMA ListAt ==
    ASSUME NEW hs, Table(hs), NEW p \in 0..Cardinality(hs), NEW limit \in Nat
    PROVE  Shows(hs, ListTransactions(hs, CursorAt(hs, p), limit), p, Lesser(limit, Cardinality(hs) - p))
  <1>0. Cardinality(hs) \in Nat
    BY OrderedPlaces
  <1>1. PICK n \in Nat : n = Cardinality(hs) - p
    BY <1>0
  <1>2. PICK all : all = Ordered(Remaining(hs, CursorAt(hs, p)))
    OBVIOUS
  <1>3. Shows(hs, all, p, n) /\ Len(all) = n
    BY <1>1, <1>2, RemainingAt DEF Shows
  <1>4. ListTransactions(hs, CursorAt(hs, p), limit) = SubSeq(all, 1, Min({limit, Len(all)}))
    BY <1>2, Zenon DEF ListTransactions, Remaining
  <1>5. PICK m : m = Lesser(limit, n)
    OBVIOUS
  <1>6. m \in Nat /\ m <= n /\ Min({limit, n}) = m
    BY <1>5, MinIsLesser DEF Lesser
  <1>7. Shows(hs, SubSeq(all, 1, m), p, m)
    BY <1>0, <1>3, <1>6, ShowsBeginning
  <1> QED BY <1>1, <1>3, <1>4, <1>5, <1>6, <1>7

\* A page that begins behind the first p headers.
PageFrom(hs, page, p, limit) ==
    /\ page = [records |-> page.records, hasMore |-> page.hasMore, total |-> page.total, nextCursor |-> page.nextCursor]
    /\ Shows(hs, page.records, p, Lesser(limit, Cardinality(hs) - p))
    /\ page.hasMore <=> (Cardinality(hs) - p > limit)
    /\ page.total = Cardinality(hs)
    /\ page.hasMore => page.nextCursor = CursorAt(hs, p + limit)

LEMMA PageAt ==
    ASSUME NEW hs, Table(hs), NEW p \in 0..Cardinality(hs), NEW limit \in Nat \ {0}
    PROVE  PageFrom(hs, TransactionPage(hs, CursorAt(hs, p), limit), p, limit)
  <1>0. Cardinality(hs) \in Nat
    BY OrderedPlaces
  <1>1. PICK n \in Nat : n = Cardinality(hs) - p
    BY <1>0
  <1>2. PICK found : found = ListTransactions(hs, CursorAt(hs, p), limit + 1)
    OBVIOUS
  <1>3. PICK l \in Nat : l = limit + 1
    OBVIOUS
  <1>4. Shows(hs, found, p, Lesser(l, n))
    BY <1>1, <1>2, <1>3, ListAt
  <1>5. Len(found) = Lesser(l, n) /\ Len(found) \in Nat
    BY <1>3, <1>4 DEF Shows, Lesser
  <1>6. (Len(found) > limit) <=> (n > limit)
    BY <1>3, <1>5 DEF Lesser
  <1>7. Min({limit, Len(found)}) = Lesser(limit, n)
    BY <1>3, <1>5, MinIsLesser DEF Lesser
  <1>8. PICK records : records = SubSeq(found, 1, Lesser(limit, n))
    OBVIOUS
  <1>9. Lesser(limit, n) \in Nat /\ Lesser(limit, n) <= Lesser(l, n) /\ Lesser(l, n) \in Nat /\ p \in Nat
    BY <1>0, <1>3 DEF Lesser
  <1>10. Shows(hs, records, p, Lesser(limit, n))
    BY <1>4, <1>8, <1>9, ShowsBeginning
  <1>11. PICK page : page = TransactionPage(hs, CursorAt(hs, p), limit)
    OBVIOUS
  <1>12. page = [records |-> records, hasMore |-> Len(found) > limit, total |-> Cardinality(hs),
                 nextCursor |-> IF Len(found) > limit THEN << records[Len(records)] >> ELSE NoCursor]
    BY <1>2, <1>7, <1>8, <1>11, Zenon DEF TransactionPage, CountTransactions
  <1>13. /\ page.records = records /\ page.hasMore = (Len(found) > limit) /\ page.total = Cardinality(hs)
         /\ page.nextCursor = IF Len(found) > limit THEN << records[Len(records)] >> ELSE NoCursor
         /\ page = [records |-> page.records, hasMore |-> page.hasMore, total |-> page.total, nextCursor |-> page.nextCursor]
    BY <1>12
  <1>14. n > limit => << records[Len(records)] >> = CursorAt(hs, p + limit)
    <2> SUFFICES ASSUME n > limit PROVE << records[Len(records)] >> = CursorAt(hs, p + limit)
      OBVIOUS
    <2>1. Lesser(limit, n) = limit /\ limit \in 1..limit
      BY DEF Lesser
    <2>2. Len(records) = limit /\ records[limit] = Ordered(hs)[p + limit]
      BY <1>10, <2>1 DEF Shows
    <2>3. p + limit # 0
      BY <1>9
    <2> QED BY <2>2, <2>3 DEF CursorAt
  <1>15. PageFrom(hs, page, p, limit)
    BY <1>1, <1>6, <1>10, <1>13, <1>14 DEF PageFrom
  <1> QED BY <1>11, <1>15

\* What a client has seen that has followed n cursors: the first p headers, at least one more
\* with every page.
Seen(hs, page, n, p) ==
    /\ p \in 0..Cardinality(hs)
    /\ Shows(hs, page.records, 0, p)
    /\ page.hasMore <=> (p < Cardinality(hs))
    /\ page.total = Cardinality(hs)
    /\ page.hasMore => page.nextCursor = CursorAt(hs, p)
    /\ p = Cardinality(hs) \/ p > n

LEMMA SeenFirst ==
    ASSUME NEW hs, Table(hs), NEW limit \in Nat \ {0}
    PROVE  \E p : Seen(hs, TransactionPage(hs, NoCursor, limit), 0, p)
  <1>0. Cardinality(hs) \in Nat
    BY OrderedPlaces
  <1>1. PICK z : z = 0
    OBVIOUS
  <1>2. CursorAt(hs, z) = NoCursor /\ z \in 0..Cardinality(hs)
    BY <1>0, <1>1 DEF CursorAt
  <1>3. PICK page : page = TransactionPage(hs, NoCursor, limit)
    OBVIOUS
  <1>4. PageFrom(hs, page, z, limit)
    BY <1>2, <1>3, PageAt
  <1>5. PICK p : p = Lesser(limit, Cardinality(hs))
    OBVIOUS
  <1>6. /\ Shows(hs, page.records, 0, p) /\ (page.hasMore <=> (Cardinality(hs) > limit)) /\ page.total = Cardinality(hs)
        /\ page.hasMore => page.nextCursor = CursorAt(hs, limit)
    <2>1. Cardinality(hs) - z = Cardinality(hs) /\ z + limit = limit
      BY <1>0, <1>1
    <2> QED BY <1>1, <1>4, <1>5, <2>1 DEF PageFrom
  <1>7. /\ p \in 0..Cardinality(hs) /\ ((Cardinality(hs) > limit) <=> (p < Cardinality(hs)))
        /\ p = Cardinality(hs) \/ p > 0
        /\ Cardinality(hs) > limit => p = limit
    BY <1>0, <1>5 DEF Lesser
  <1>8. Seen(hs, page, 0, p)
    BY <1>6, <1>7 DEF Seen
  <1> QED BY <1>3, <1>8

LEMMA SeenMore ==
    ASSUME NEW hs, Table(hs), NEW limit \in Nat \ {0}, NEW n \in Nat, NEW page, \E p : Seen(hs, page, n, p)
    PROVE  \E p : Seen(hs, FollowCursor(hs, limit, page), n + 1, p)
  <1>0. Cardinality(hs) \in Nat
    BY OrderedPlaces
  <1>1. PICK p : Seen(hs, page, n, p)
    OBVIOUS
  <1>2. /\ p \in Nat /\ p \in 0..Cardinality(hs) /\ p <= Cardinality(hs) /\ Shows(hs, page.records, 0, p)
        /\ (page.hasMore <=> (p < Cardinality(hs))) /\ page.total = Cardinality(hs)
        /\ page.hasMore => page.nextCursor = CursorAt(hs, p)
        /\ p = Cardinality(hs) \/ p > n
    BY <1>0, <1>1 DEF Seen
  <1>3. CASE ~ page.hasMore
    <2>1. FollowCursor(hs, limit, page) = page
      BY <1>3 DEF FollowCursor
    <2>2. p = Cardinality(hs)
      BY <1>0, <1>2, <1>3
    <2>3. Seen(hs, page, n + 1, p)
      BY <1>2, <2>2 DEF Seen
    <2> QED BY <2>1, <2>3
  <1>4. CASE page.hasMore
    <2>1. PICK following : following = TransactionPage(hs, page.nextCursor, limit)
      OBVIOUS
    <2>2. PageFrom(hs, following, p, limit)
      BY <1>2, <1>4, <2>1, PageAt
    <2>3. PICK m : m = Lesser(limit, Cardinality(hs) - p)
      OBVIOUS
    <2>4. PICK after : after = [following EXCEPT !.records = page.records \o @]
      OBVIOUS
    <2>5. FollowCursor(hs, limit, page) = after
      BY <1>4, <2>1, <2>4 DEF FollowCursor
    <2>6. /\ following = [records |-> following.records, hasMore |-> following.hasMore,
                          total |-> following.total, nextCursor |-> following.nextCursor]
          /\ Shows(hs, following.records, p, m)
          /\ (following.hasMore <=> (Cardinality(hs) - p > limit)) /\ following.total = Cardinality(hs)
          /\ following.hasMore => following.nextCursor = CursorAt(hs, p + limit)
      BY <2>2, <2>3 DEF PageFrom
    <2>7. /\ after.records = page.records \o following.records /\ after.hasMore = following.hasMore
          /\ after.total = following.total /\ after.nextCursor = following.nextCursor
      BY <2>4, <2>6
    <2>8. /\ m \in Nat /\ m > 0 /\ p + m \in 0..Cardinality(hs)
          /\ (Cardinality(hs) - p > limit) <=> (p + m < Cardinality(hs))
          /\ Cardinality(hs) - p > limit => m = limit
      BY <1>0, <1>2, <1>4, <2>3 DEF Lesser
    <2>9. Shows(hs, page.records \o following.records, 0, p + m)
      <3>1. PICK s, t : s = page.records /\ t = following.records
        OBVIOUS
      <3>2. /\ s \in Seq(hs) /\ Len(s) = p /\ t \in Seq(hs) /\ Len(t) = m
            /\ \A i \in 1..p : s[i] = Ordered(hs)[0 + i]
            /\ \A i \in 1..m : t[i] = Ordered(hs)[p + i]
        BY <1>2, <2>6, <3>1 DEF Shows
      <3>3. PICK st : st = s \o t
        OBVIOUS
      <3>4. /\ st \in Seq(hs) /\ Len(st) = p + m
            /\ \A i \in 1..p : st[i] = s[i]
            /\ \A i \in 1..m : st[p + i] = t[i]
        <4>1. s \in Seq(hs) /\ t \in Seq(hs)
          BY <3>2
        <4>2. /\ s \o t \in Seq(hs) /\ Len(s \o t) = Len(s) + Len(t)
              /\ \A i \in 1..Len(s) : (s \o t)[i] = s[i]
              /\ \A i \in 1..Len(t) : (s \o t)[Len(s) + i] = t[i]
          BY <4>1
        <4> QED BY <3>2, <3>3, <4>2
      <3>5. ASSUME NEW i \in 1..(p + m) PROVE st[i] = Ordered(hs)[0 + i]
        <4>1. CASE i <= p
          <5>1. i \in 1..p
            BY <1>2, <4>1
          <5> QED BY <3>2, <3>4, <5>1
        <4>2. CASE i > p
          <5>1. PICK j \in 1..m : i = p + j /\ 0 + i = p + j
            <6>1. i - p \in 1..m /\ i = p + (i - p) /\ 0 + i = p + (i - p)
              BY <1>2, <2>8, <4>2
            <6> QED BY <6>1
          <5> QED BY <3>2, <3>4, <5>1
        <4> QED BY <1>2, <2>8, <4>1, <4>2
      <3> QED BY <3>1, <3>3, <3>4, <3>5 DEF Shows
    <2>10. p + m = Cardinality(hs) \/ p + m > n + 1
      BY <1>0, <1>2, <1>4, <2>8
    <2>11. after.hasMore => after.nextCursor = CursorAt(hs, p + m)
      BY <2>6, <2>7, <2>8
    <2>12. PICK q : q = p + m
      OBVIOUS
    <2>13. Seen(hs, after, n + 1, q)
      BY <2>6, <2>7, <2>8, <2>9, <2>10, <2>11, <2>12 DEF Seen
    <2> QED BY <2>5, <2>13
  <1> QED BY <1>3, <1>4

\* z is the walk over at most n pages more than the first.
Walks(z, hs, limit, n) ==
    z = [i \in 0..n |-> IF i = 0 THEN TransactionPage(hs, NoCursor, limit) ELSE FollowCursor(hs, limit, z[i - 1])]

LEMMA WalksExist ==
    ASSUME NEW hs, NEW limit, NEW n \in Nat
    PROVE  \E z : Walks(z, hs, limit, n)
  <1> DEFINE N == { m \in Nat : \E z : Walks(z, hs, limit, m) }
             F(x) == FollowCursor(hs, limit, x)
             S == TransactionPage(hs, NoCursor, limit)
  <1>0. \A z, m : Walks(z, hs, limit, m) <=> z = [i \in 0..m |-> IF i = 0 THEN S ELSE F(z[i - 1])]
    BY DEF Walks
  <1> HIDE DEF F, S
  <1>1. 0 \in N
    <2> DEFINE z == [i \in 0..0 |-> S]
    <2>1. z = [i \in 0..0 |-> IF i = 0 THEN S ELSE F(z[i - 1])]
      OBVIOUS
    <2> HIDE DEF z
    <2> QED BY <1>0, <2>1
  <1>2. ASSUME NEW m \in Nat, m \in N PROVE m + 1 \in N
    <2>1. PICK z : z = [i \in 0..m |-> IF i = 0 THEN S ELSE F(z[i - 1])]
      BY <1>0, <1>2
    <2> DEFINE y == [i \in 0..(m + 1) |-> IF i <= m THEN z[i] ELSE F(z[m])]
    <2>2. ASSUME NEW i \in 0..(m + 1) PROVE y[i] = IF i = 0 THEN S ELSE F(y[i - 1])
      <3>1. CASE i = 0
        BY <2>1, <3>1
      <3>2. CASE i # 0 /\ i <= m
        <4>1. y[i] = z[i] /\ i - 1 \in 0..m /\ y[i - 1] = z[i - 1] /\ i \in 0..m
          BY <3>2
        <4>2. z[i] = F(z[i - 1])
          BY <2>1, <3>2, <4>1
        <4> QED BY <3>2, <4>1, <4>2
      <3>3. CASE i = m + 1
        <4>1. y[i] = F(z[m]) /\ i - 1 = m /\ y[m] = z[m] /\ i # 0
          BY <3>3
        <4> QED BY <4>1
      <3> QED BY <3>1, <3>2, <3>3
    <2>3. y = [i \in 0..(m + 1) |-> y[i]]
      OBVIOUS
    <2> HIDE DEF y
    <2>4. y = [i \in 0..(m + 1) |-> IF i = 0 THEN S ELSE F(y[i - 1])]
      BY <2>2, <2>3
    <2>5. Walks(y, hs, limit, m + 1) /\ m + 1 \in Nat
      BY <1>0, <2>4
    <2> QED BY <2>5
  <1> HIDE DEF N
  <1>3. n \in N
    BY <1>1, <1>2, Induction
  <1> QED BY <1>3 DEF N

\* Following the cursors of a table shows it whole.
LEMMA WalkShowsAll ==
    ASSUME NEW hs, Table(hs), NEW limit \in Nat \ {0}
    PROVE  /\ Walk(hs, limit).records = Ordered(hs)
           /\ Walk(hs, limit).total = Len(Walk(hs, limit).records)
           /\ ~ Walk(hs, limit).hasMore
  <1>0. Cardinality(hs) \in Nat /\ Ordered(hs) \in [1..Cardinality(hs) -> hs]
    BY OrderedPlaces
  <1> DEFINE y == CHOOSE z : Walks(z, hs, limit, Cardinality(hs))
  <1>1. Walk(hs, limit) = y[Cardinality(hs)]
    BY Zenon DEF Walk, Walks
  <1>2. Walks(y, hs, limit, Cardinality(hs))
    BY <1>0, WalksExist, Zenon
  <1> HIDE DEF y
  <1> DEFINE N == { m \in Nat : m <= Cardinality(hs) => \E p : Seen(hs, y[m], m, p) }
  <1>3. \A i \in 0..Cardinality(hs) :
            y[i] = IF i = 0 THEN TransactionPage(hs, NoCursor, limit) ELSE FollowCursor(hs, limit, y[i - 1])
    BY <1>2 DEF Walks
  <1>4. 0 \in N
    BY <1>0, <1>3, SeenFirst
  <1>5. ASSUME NEW m \in Nat, m \in N PROVE m + 1 \in N
    <2> SUFFICES ASSUME m + 1 <= Cardinality(hs) PROVE \E p : Seen(hs, y[m + 1], m + 1, p)
      OBVIOUS
    <2>1. \E p : Seen(hs, y[m], m, p)
      BY <1>0, <1>5
    <2>2. y[m + 1] = FollowCursor(hs, limit, y[m])
      <3>1. m + 1 \in 0..Cardinality(hs) /\ m + 1 # 0 /\ (m + 1) - 1 = m
        BY <1>0
      <3> QED BY <1>3, <3>1
    <2> QED BY <2>1, <2>2, SeenMore
  <1> HIDE DEF N
  <1>6. Cardinality(hs) \in N
    BY <1>0, <1>4, <1>5, Induction
  <1>7. PICK page : page = y[Cardinality(hs)]
    OBVIOUS
  <1>8. PICK p : Seen(hs, page, Cardinality(hs), p)
    BY <1>0, <1>6, <1>7 DEF N
  <1>9. p = Cardinality(hs)
    BY <1>0, <1>8 DEF Seen
  <1>10. ~ page.hasMore /\ page.total = Cardinality(hs) /\ Shows(hs, page.records, 0, Cardinality(hs))
    BY <1>0, <1>8, <1>9 DEF Seen
  <1>11. PICK s : s = page.records
    OBVIOUS
  <1>12. s \in Seq(hs) /\ Len(s) = Cardinality(hs) /\ \A i \in 1..Cardinality(hs) : s[i] = Ordered(hs)[i]
    BY <1>10, <1>11 DEF Shows
  <1>13. s = Ordered(hs)
    <2>1. s = [i \in 1..Cardinality(hs) |-> s[i]]
      BY <1>12
    <2> QED BY <1>0, <1>12, <2>1
  <1> QED BY <1>1, <1>7, <1>10, <1>11, <1>12, <1>13

\* What an account is shown is a table.
LEMMA ListedIsTable ==
    ASSUME ReadTypes, NEW a \in Accounts
    PROVE  Table(listTransactionsBaseQuery(a))
  <1> DEFINE L == Len(Outbox[a])
             Other(e) == CHOOSE f \in OutboxEvents : { x \in OutboxEvents : x.transaction = e.transaction } = {e, f}
             first == [i \in 1..L |-> HeaderOf(Outbox[a][i])]
             second == [i \in 1..L |-> HeaderOf(Other(Outbox[a][i]))]
             H1 == { first[i] : i \in 1..L }
             H2 == { second[i] : i \in 1..L }
  <1>1. L \in Nat
    BY OutboxAssumption
  <1>2. IsFiniteSet(1..L)
    BY <1>1, FS_Interval
  <1>3. ASSUME NEW f, DOMAIN f = 1..L PROVE IsFiniteSet({ f[i] : i \in 1..L })
    <2>1. PICK I : I = 1..L
      OBVIOUS
    <2>2. PICK T : T = { f[i] : i \in I }
      OBVIOUS
    <2>3. f = [i \in I |-> f[i]] \/ f \notin [I -> T]
      OBVIOUS
    <2>4. [i \in I |-> f[i]] \in Surjection(I, T)
      BY <2>2 DEF Surjection
    <2>5. IsFiniteSet(T)
      BY <1>2, <2>1, <2>4, FS_Surjection
    <2> QED BY <2>1, <2>2, <2>5
  <1>4. IsFiniteSet(H1) /\ IsFiniteSet(H2)
    <2>1. DOMAIN first = 1..L /\ DOMAIN second = 1..L
      OBVIOUS
    <2> HIDE DEF first, second
    <2> QED BY <1>3, <2>1
  <1>5. IsFiniteSet(H1 \cup H2)
    BY <1>4, FS_Union
  <1>6. listTransactionsBaseQuery(a) \subseteq H1 \cup H2
    <2> SUFFICES ASSUME NEW h \in listTransactionsBaseQuery(a) PROVE h \in H1 \cup H2
      OBVIOUS
    <2>1. h \in headers /\ \E x \in OutboxEvents : x.account = a /\ h.transaction = x.transaction
      BY DEF listTransactionsBaseQuery
    <2>2. PICK e \in OutboxEvents : h = HeaderOf(e)
      BY <2>1 DEF ReadTypes, ReadTypeOK
    <2>3. PICK x \in OutboxEvents : x.account = a /\ e.transaction = x.transaction
      BY <2>1, <2>2 DEF HeaderOf
    <2>4. PICK i \in 1..L : x = Outbox[a][i]
      BY <2>3, EventsInOutbox
    <2>5. \E f \in OutboxEvents : { z \in OutboxEvents : z.transaction = x.transaction } = {x, f}
      BY OutboxAssumption
    <2>6. Other(x) \in OutboxEvents /\ { z \in OutboxEvents : z.transaction = x.transaction } = {x, Other(x)}
      BY <2>5, Zenon
    <2> HIDE DEF Other
    <2>7. e = x \/ e = Other(x)
      BY <2>3, <2>6
    <2>8. first[i] = HeaderOf(x) /\ second[i] = HeaderOf(Other(x))
      BY <2>4
    <2> HIDE DEF first, second
    <2> QED BY <2>2, <2>7, <2>8
  <1>7. IsFiniteSet(listTransactionsBaseQuery(a))
    <2> HIDE DEF H1, H2
    <2> QED BY <1>5, <1>6, FS_Subset
  <1>8. listTransactionsBaseQuery(a) \subseteq Headers
    BY DEF listTransactionsBaseQuery, Headers, ReadTypes, ReadTypeOK
  <1> QED BY <1>7, <1>8 DEF Table

LEMMA PagesShowAll ==
    ASSUME ReadTypes
    PROVE  PagesShowEverything
  <1>1. ASSUME NEW a \in Accounts, NEW limit \in 1..MaxPage
        PROVE  LET seen == Walk(listTransactionsBaseQuery(a), limit)
               IN /\ seen.records = Ordered(listTransactionsBaseQuery(a))
                  /\ seen.total = Len(seen.records)
                  /\ ~ seen.hasMore
    <2>1. limit \in Nat \ {0}
      BY ReadBoundsAssumption
    <2> QED BY <2>1, ListedIsTable, WalkShowsAll
  <1> QED BY <1>1, Zenon DEF PagesShowEverything

-----------------------------------------------------------------------------
(* What the ledger shows *)

\* The tables the projectors write follow the history of the ledger: the sign of a leg
\* survives its event, an event is entered twice only where two members worked on it at once,
\* nothing the offsets have passed is missing but what went to the dead-letter topic, and
\* without either a balance is one the account has had and a passed transaction is whole.
\* Whatever the tables hold, following the cursors shows it once and in order.
THEOREM LedgerReadsAreSound == ReadSpec => []ReadsAreSound
  <1>1. ReadInv => ReadsAreSound
    BY LegsSurvive, BalancesOld, PassedWhole, PagesShowAll DEF ReadsAreSound, ReadInv, ReadTypes
  <1> QED BY <1>1, InitRead, NextRead, PTL DEF ReadSpec

\* What is loaded and what is shown is what was booked, as the run checks it.
THEOREM ReadsReplayHistory == MCSpec => []ReadsAreReplays
  <1>1. MCInit => Init /\ ReadInit
    BY DEF MCInit
  <1>2. [MCNext]_<< vars, readVars, story >> => [Next]_vars /\ [ReadNext]_readVars
    BY DEF MCNext
  <1>3. MCSpec => Spec /\ ReadSpec
    BY <1>1, <1>2, PTL DEF MCSpec, Spec, ReadSpec
  <1>4. LoadsAreReplays /\ ReadsAreSound => ReadsAreReplays
    BY DEF ReadsAreReplays
  <1> QED BY <1>3, <1>4, LoadsReplayHistory, LedgerReadsAreSound, PTL
=============================================================================
