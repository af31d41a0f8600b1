---------------------------- MODULE PaymentIntent ----------------------------
(***************************************************************************)
(* The payment module: top-ups paid through a Stripe checkout session and   *)
(* withdrawals paid out by a scheduled job.                                 *)
(*                                                                          *)
(* Workers (HTTP requests, webhook calls, Kafka consumers, the job) load a  *)
(* payment intent, talk to Stripe and write the intent back.  Webhooks,     *)
(* refunds and payouts of one payment exclude each other with a Redis lock  *)
(* that expires after 30 s, even under a live holder; CreatePayment takes   *)
(* no lock.  A save is one PostgreSQL transaction over payment_intents,     *)
(* processed_payment_events and payment_outbox_events; its UPDATE does not  *)
(* compare versions.  Stripe calls back at least once, in any order.        *)
(***************************************************************************)
EXTENDS Integers, Sequences, FiniteSets

CONSTANTS TopUps, Withdrawals,  \* transaction ids of the two workflows
          Workers,              \* concurrent requests
          NoWorker,             \* holder of a free lock
          Dead,                 \* holder of the lock of a crashed worker
          Registered,           \* payments whose provider the registry knows
          BatchSize,            \* withdrawals the payout job takes at a time: 20 in the code
          MaxVersion,           \* bound: past it, no webhook that moves the reference only
          MaxFacts,             \* bound: facts at Stripe about one payment
          MaxPayouts            \* bound: Stripe transfers of one withdrawal

ASSUME WorkflowsAssumption == TopUps \cap Withdrawals = {}
ASSUME HoldersAssumption == NoWorker \notin Workers /\ Dead \notin Workers /\ Dead # NoWorker

Payments == TopUps \cup Withdrawals

ASSUME PaymentsAssumption == Payments # {}
ASSUME BatchAssumption == BatchSize \in Nat \ {0}

Statuses ==
    {"CREATING", "PENDING", "SUCCESS", "FAILED", "CANCELLED", "REFUNDED", "CHARGEBACK"}

\* ExternalRef: none yet, or the id of a Stripe checkout session, payment
\* intent, charge or transfer.
Refs == {"", "cs", "pi", "ch", "tr"}

EventNames ==
    {"PaymentCreated", "PaymentWithdrawalRequested", "PaymentProviderStateChanged",
     "PaymentCheckoutSessionCreated", "PaymentSucceeded", "PaymentFailed",
     "PaymentRefunded", "PaymentChargeback"}

\* Names under which a transition is entered in processed_payment_events.
ProcessedNames == {"PaymentSucceeded", "PaymentRefunded", "PaymentChargeback"}

\* A provider result: amount says whether it is the whole provider amount.
Results == [status : Statuses, ref : Refs, amount : {"whole", "part"}]

Intents == [status : Statuses \cup {"none"}, ref : Refs, version : Nat]

Envelopes == [name : EventNames, version : Nat]

\* What happened at Stripe.  offered: the caller has the session's URL.
Facts ==
    {"open", "offered", "declined", "unpaid", "paid", "asyncFailed", "expired",
     "refunded", "partRefunded", "disputed"}

Kinds == {"create", "webhook", "refund", "withdraw"}
Phases == {"idle", "read", "call", "apply", "fail"}

VARIABLES
    intents,      \* table payment_intents
    older,        \* its created_at: the payments whose rows are older
    processed,    \* table processed_payment_events
    outbox,       \* table payment_outbox_events, per payment
    lock,         \* Redis key payment:<transaction id>
    pc, kind, payment,  \* a worker's phase, request and payment
    mem,          \* the aggregate it holds
    result,       \* the provider result it applies
    stripe,       \* facts at Stripe about a payment
    payouts,      \* transfers made for a payment
    expired,      \* history: payments whose lock expired under a live holder
    interrupted   \* history: payments paid out by a worker that then failed

tables == << intents, older, processed, outbox >>
locals == << pc, kind, payment, mem, result >>
history == << expired, interrupted >>
vars == << tables, lock, locals, stripe, payouts, history >>

NoIntent == [status |-> "none", ref |-> "", version |-> 0]
NoResult == [status |-> "PENDING", ref |-> "", amount |-> "whole"]
AnyPayment == CHOOSE p \in Payments : TRUE

TypeOK ==
    /\ intents \in [Payments -> Intents]
    /\ older \in [Payments -> SUBSET Payments]
    /\ processed \subseteq (Payments \X ProcessedNames)
    /\ outbox \in [Payments -> Seq(Envelopes)]
    /\ lock \in [Payments -> Workers \cup {NoWorker, Dead}]
    /\ pc \in [Workers -> Phases]
    /\ kind \in [Workers -> Kinds]
    /\ payment \in [Workers -> Payments]
    /\ mem \in [Workers -> Intents]
    /\ result \in [Workers -> Results]
    /\ stripe \in [Payments -> SUBSET Facts]
    /\ payouts \in [Payments -> Nat]
    /\ expired \subseteq Payments
    /\ interrupted \subseteq Payments

Init ==
    /\ intents = [p \in Payments |-> NoIntent]
    /\ older = [p \in Payments |-> {}]
    /\ processed = {}
    /\ outbox = [p \in Payments |-> << >>]
    /\ lock = [p \in Payments |-> NoWorker]
    /\ pc = [w \in Workers |-> "idle"]
    /\ kind = [w \in Workers |-> "create"]
    /\ payment = [w \in Workers |-> AnyPayment]
    /\ mem = [w \in Workers |-> NoIntent]
    /\ result = [w \in Workers |-> NoResult]
    /\ stripe = [p \in Payments |-> {}]
    /\ payouts = [p \in Payments |-> 0]
    /\ expired = {}
    /\ interrupted = {}

-----------------------------------------------------------------------------
(* The aggregate *)

\* Mutant: a failed payment may still succeed.
ReopenFailed(status) ==
    CASE status = "CREATING" -> {"PENDING", "SUCCESS", "FAILED", "CANCELLED"}
      [] status \in {"PENDING", "FAILED"} -> {"SUCCESS", "FAILED", "CANCELLED"}
      [] status = "SUCCESS"  -> {"REFUNDED", "CHARGEBACK"}
      [] OTHER               -> {}

\* resolvePaymentTransition: where a status may go.  Any other different
\* status is ignored.
PaymentTransitions(status) ==
    CASE status = "CREATING" -> {"PENDING", "SUCCESS", "FAILED", "CANCELLED"}
      [] status = "PENDING"  -> {"SUCCESS", "FAILED", "CANCELLED"}
      [] status = "SUCCESS"  -> {"REFUNDED", "CHARGEBACK"}
      [] OTHER               -> {}

StateChanged(g, r) == r.status \in PaymentTransitions(g.status)
Ignored(g, r) == ~StateChanged(g, r) /\ r.status # g.status
ExternalRefChanged(g, r) == r.ref # "" /\ r.ref # g.ref

\* validateProviderResultForStatus: only a reversal may be partial.
Valid(r) == r.amount = "whole" \/ r.status \in {"REFUNDED", "CHARGEBACK"}

\* The names of the events that ApplyProviderOutcome records, by the status of the result; none
\* when it is a duplicate and nothing is saved.
Changed == << "PaymentProviderStateChanged" >>

applySuccessfulOutcome(g, r, session) ==
    CASE StateChanged(g, r)       -> << "PaymentSucceeded" >> \o session
      [] ExternalRefChanged(g, r) /\ ~StateChanged(g, r) -> Changed \o session
      [] OTHER                    -> << >>

applyReversedOutcome(g, r, session) ==
    CASE ~StateChanged(g, r) -> << >>
      [] StateChanged(g, r) /\ r.status = "REFUNDED"   -> << "PaymentRefunded" >> \o session
      [] StateChanged(g, r) /\ r.status = "CHARGEBACK" -> << "PaymentChargeback" >> \o session

applyNonFinalOutcome(g, r, session) ==
    IF Ignored(g, r) \/ ~(StateChanged(g, r) \/ ExternalRefChanged(g, r)) THEN << >>
    ELSE Changed \o session \o
         (IF StateChanged(g, r) /\ r.status = "FAILED" THEN << "PaymentFailed" >> ELSE << >>)

OutcomeEvents(g, r, checkout) ==
    LET session == IF checkout THEN << "PaymentCheckoutSessionCreated" >> ELSE << >>
    IN CASE r.status = "SUCCESS"                  -> applySuccessfulOutcome(g, r, session)
         [] r.status \in {"REFUNDED", "CHARGEBACK"} -> applyReversedOutcome(g, r, session)
         [] OTHER                                 -> applyNonFinalOutcome(g, r, session)

\* transitionProviderState, then one version per recorded event.
Outcome(g, r, names) ==
    [status  |-> IF StateChanged(g, r) THEN r.status ELSE g.status,
     ref     |-> IF ExternalRefChanged(g, r) THEN r.ref ELSE g.ref,
     version |-> g.version + Len(names)]

Numbered(g, names) ==
    [i \in 1..Len(names) |-> [name |-> names[i], version |-> g.version + i]]

\* The processed events queued with the outbox events.
ProcessedKeys(p, names) ==
    { << p, names[i] >> : i \in { j \in 1..Len(names) : names[j] \in ProcessedNames } }

-----------------------------------------------------------------------------
(* Saving and leaving *)

\* A row is as old as its insertion.
Inserted(p) ==
    older' = IF intents[p] = NoIntent
             THEN [older EXCEPT ![p] = { q \in Payments : intents[q] # NoIntent }]
             ELSE older

\* Mutant: processed events are not checked against the unique key.
SaveUnchecked(p, g, names, h) ==
    /\ processed' = processed \cup ProcessedKeys(p, names)
    /\ intents' = [intents EXCEPT ![p] = h] /\ Inserted(p)
    /\ outbox' = [outbox EXCEPT ![p] = @ \o Numbered(g, names)]

\* Save of aggregate g, now h, with the named events.  A processed event that
\* is already there fails the transaction.
Save(p, g, names, h) ==
    IF ProcessedKeys(p, names) \cap processed # {}
    THEN UNCHANGED tables
    ELSE /\ processed' = processed \cup ProcessedKeys(p, names)
         /\ intents' = [intents EXCEPT ![p] = h] /\ Inserted(p)
         /\ outbox' = [outbox EXCEPT ![p] = @ \o Numbered(g, names)]

\* The worker forgets its request.
Forget(w) ==
    /\ pc' = [pc EXCEPT ![w] = "idle"]
    /\ kind' = [kind EXCEPT ![w] = "create"]
    /\ payment' = [payment EXCEPT ![w] = AnyPayment]
    /\ mem' = [mem EXCEPT ![w] = NoIntent]
    /\ result' = [result EXCEPT ![w] = NoResult]

\* Mutant: the lock is never released.
KeepLock(w) == UNCHANGED lock

\* ReleaseLock deletes the key only while it still holds the worker's value.
ReleaseLock(w) ==
    lock' = [p \in Payments |-> IF lock[p] = w THEN NoWorker ELSE lock[p]]

Return(w) == Forget(w) /\ ReleaseLock(w)

Start(w, k, p, phase, g, r) ==
    /\ pc[w] = "idle"
    /\ pc' = [pc EXCEPT ![w] = phase]
    /\ kind' = [kind EXCEPT ![w] = k]
    /\ payment' = [payment EXCEPT ![w] = p]
    /\ mem' = [mem EXCEPT ![w] = g]
    /\ result' = [result EXCEPT ![w] = r]

\* Mutant: the key is set whether or not it is there.
TakeLock(w, p) == lock' = [lock EXCEPT ![p] = w]

\* AcquireLock: a request that finds the key taken fails and changes nothing.
AcquireLock(w, p) ==
    /\ lock[p] = NoWorker
    /\ lock' = [lock EXCEPT ![p] = w]

-----------------------------------------------------------------------------
(* Stripe *)

\* Mutant: a completed session is taken for a paid one.
CompletedIsPaid(f) ==
    LET Whole(status, ref) == [status |-> status, ref |-> ref, amount |-> "whole"]
    IN CASE f \in {"paid", "unpaid"} -> { Whole("SUCCESS", "cs") }
         [] f = "declined" -> { Whole("FAILED", "pi") }
         [] f = "expired"  -> { Whole("CANCELLED", "cs") }
         [] f = "refunded" -> { Whole("REFUNDED", "ch") }
         [] f = "disputed" -> { Whole("CHARGEBACK", "ch") }
         [] OTHER          -> {}

\* The results ParseEvent makes of the webhook events a fact gives rise to.
\* A payment is announced for its session, its payment intent and its charge,
\* a declined attempt for the last two; a partial refund leaves the charge
\* "succeeded" with the refunded amount.
ParseEvent(f) ==
    LET Whole(status, ref) == [status |-> status, ref |-> ref, amount |-> "whole"]
        Part(status, ref) == [status |-> status, ref |-> ref, amount |-> "part"]
    IN CASE f = "paid"         -> { Whole("SUCCESS", x) : x \in {"cs", "pi", "ch"} }
         [] f = "declined"     -> { Whole("FAILED", x) : x \in {"pi", "ch"} }
         [] f = "unpaid"       -> { Whole("PENDING", "cs") }
         [] f = "asyncFailed"  -> { Whole("FAILED", "cs") }
         [] f = "expired"      -> { Whole("CANCELLED", "cs") }
         [] f = "refunded"     -> { Whole("REFUNDED", "ch") }
         [] f = "partRefunded" -> { Part("SUCCESS", "ch") }
         [] f = "disputed"     -> { Whole("CHARGEBACK", "ch"), Part("CHARGEBACK", "ch") }
         [] OTHER              -> {}

Webhooks(p) == UNION { ParseEvent(f) : f \in stripe[p] }

\* What may happen at Stripe next.  Payers act on a session they were offered;
\* an abandoned one expires after a day, when nobody is still creating it.
Possible(p, f) ==
    LET Has(x) == x \in stripe[p]
        closed == Has("paid") \/ Has("expired") \/ Has("asyncFailed")
    IN CASE f = "declined" -> Has("offered") /\ ~closed /\ ~Has("unpaid")
         [] f = "unpaid"   -> Has("offered") /\ ~closed
         [] f = "paid"     -> Has("offered") /\ ~closed
         [] f = "asyncFailed" -> Has("unpaid") /\ ~closed
         [] f = "expired"  -> /\ Has("open") /\ ~closed /\ ~Has("unpaid")
                              /\ \A w \in Workers : ~(pc[w] # "idle" /\ kind[w] = "create")
         [] f \in {"refunded", "partRefunded", "disputed"} -> Has("paid")
         [] OTHER -> FALSE

StripeStep(p, f) ==
    /\ f \notin stripe[p] /\ Possible(p, f)
    /\ Cardinality(stripe[p]) < MaxFacts
    /\ stripe' = [stripe EXCEPT ![p] = @ \cup {f}]
    /\ UNCHANGED << tables, lock, locals, payouts, history >>

-----------------------------------------------------------------------------
(* Requests *)

\* CreatePayment up to its first save, which it reaches only with a provider of
\* the registry.  It holds the new aggregate from here on and never reads it again.
CreatePayment(w, p) ==
    /\ p \in TopUps \cap Registered /\ intents[p] = NoIntent
    /\ LET names == << "PaymentCreated" >>
           g == [status |-> "CREATING", ref |-> "", version |-> Len(names)]
       IN /\ Start(w, "create", p, "call", g, NoResult)
          /\ Save(p, NoIntent, names, g)
    /\ UNCHANGED << lock, stripe, payouts, history >>

\* CreateWithdrawal saves the intent, whatever its provider; the job pays it out.
CreateWithdrawal(p) ==
    /\ p \in Withdrawals /\ intents[p] = NoIntent
    /\ LET names == << "PaymentCreated", "PaymentWithdrawalRequested" >>
       IN Save(p, NoIntent, names, [status |-> "CREATING", ref |-> "", version |-> Len(names)])
    /\ UNCHANGED << lock, locals, stripe, payouts, history >>

\* ProcessWebhook up to its lock: any event, any number of times.
ProcessWebhook(w, p, r) ==
    /\ r \in Webhooks(p)
    /\ intents[p] # NoIntent
    /\ \/ intents[p].version < MaxVersion
       \/ StateChanged(intents[p], r)
       \/ r.status \in {"REFUNDED", "CHARGEBACK"}
    /\ Start(w, "webhook", p, "read", NoIntent, r)
    /\ AcquireLock(w, p)
    /\ UNCHANGED << tables, stripe, payouts, history >>

\* RefundPayment up to its lock: asked for by a caller or by the ledger.
RefundPayment(w, p) ==
    /\ intents[p] # NoIntent
    /\ Start(w, "refund", p, "read", NoIntent, NoResult)
    /\ AcquireLock(w, p)
    /\ UNCHANGED << tables, stripe, payouts, history >>

Pending(p) == intents[p].status = "CREATING"

\* Mutant: the newest rows first.
ListNewestWithdrawals ==
    { p \in Withdrawals : /\ Pending(p)
                          /\ Cardinality({ q \in Withdrawals : p \in older[q] /\ Pending(q) }) < BatchSize }

\* ListPendingWithdrawals: the oldest rows in CREATING, a batch of them.
ListPendingWithdrawals ==
    { p \in Withdrawals : /\ Pending(p)
                          /\ Cardinality({ q \in older[p] \cap Withdrawals : Pending(q) }) < BatchSize }

\* ProcessPendingWithdrawals takes the listed withdrawals one at a time, and goes on
\* to the next when one fails.  A listed row stays listed while it is in CREATING, but a
\* run may reach it after another has paid it.
processPendingWithdrawal(w, p) ==
    /\ p \in Withdrawals /\ intents[p] # NoIntent
    /\ Pending(p) => p \in ListPendingWithdrawals
    /\ Start(w, "withdraw", p, "read", NoIntent, NoResult)
    /\ AcquireLock(w, p)
    /\ UNCHANGED << tables, stripe, payouts, history >>

\* Mutant: the withdrawal is not checked again under the lock.
ReadUnchecked(w) ==
    /\ pc[w] = "read"
    /\ LET g == intents[payment[w]]
       IN /\ mem' = [mem EXCEPT ![w] = g]
          /\ pc' = [pc EXCEPT ![w] = IF kind[w] = "webhook" THEN "apply" ELSE "call"]
          /\ UNCHANGED << kind, payment, result, lock >>
    /\ UNCHANGED << tables, stripe, payouts, history >>

\* GetByTransactionID under the lock, and the checks that follow it.  A refund or a payout
\* then asks the registry for the payment's provider, and fails when it has none: the row
\* stays as it is.
GetByTransactionID(w) ==
    /\ pc[w] = "read"
    /\ LET g == intents[payment[w]]
           known == payment[w] \in Registered
           goOn == CASE kind[w] = "refund"   -> g.status = "SUCCESS" /\ known
                     [] kind[w] = "withdraw" -> g.status = "CREATING" /\ known
                     [] OTHER                -> TRUE
       IN IF goOn
          THEN /\ mem' = [mem EXCEPT ![w] = g]
               /\ pc' = [pc EXCEPT ![w] = IF kind[w] = "webhook" THEN "apply" ELSE "call"]
               /\ UNCHANGED << kind, payment, result, lock >>
          ELSE Return(w)
    /\ UNCHANGED << tables, stripe, payouts, history >>

\* The provider answers.
Answer(w, status, ref) ==
    /\ pc' = [pc EXCEPT ![w] = "apply"]
    /\ result' = [result EXCEPT ![w] = [status |-> status, ref |-> ref, amount |-> "whole"]]
    /\ UNCHANGED << kind, payment, mem, lock >>

\* The provider call fails, perhaps after it took effect.
Fail(w) ==
    /\ pc' = [pc EXCEPT ![w] = "fail"]
    /\ UNCHANGED << kind, payment, mem, result, lock >>

\* provider.CreatePayment opens a checkout session.
providerCreatePayment(w) ==
    /\ pc[w] = "call" /\ kind[w] = "create"
    /\ \/ /\ stripe' = [stripe EXCEPT ![payment[w]] = @ \cup {"open"}]
          /\ Answer(w, "PENDING", "cs") \/ Fail(w)
       \/ Fail(w) /\ UNCHANGED stripe
    /\ UNCHANGED << tables, payouts, history >>

\* provider.CreateWithdrawal transfers the money; it sends no idempotency key.
providerCreateWithdrawal(w) ==
    /\ pc[w] = "call" /\ kind[w] = "withdraw"
    /\ \/ /\ payouts[payment[w]] < MaxPayouts
          /\ payouts' = [payouts EXCEPT ![payment[w]] = @ + 1]
          /\ Answer(w, "SUCCESS", "tr") \/ Fail(w)
       \/ Fail(w) /\ UNCHANGED payouts
    /\ UNCHANGED << tables, stripe, history >>

\* provider.RefundPayment sends an idempotency key, so a repeated call returns
\* the same refund.  A payout or a disputed charge cannot be refunded.
providerRefundPayment(w) ==
    /\ pc[w] = "call" /\ kind[w] = "refund"
    /\ \/ /\ "paid" \in stripe[payment[w]]
          /\ stripe' = [stripe EXCEPT ![payment[w]] = @ \cup {"refunded"}]
          /\ Answer(w, "REFUNDED", "ch") \/ Return(w)
       \/ Return(w) /\ UNCHANGED stripe
    /\ UNCHANGED << tables, payouts, history >>

\* applyProviderOutcome: apply the result to the aggregate and save it, or
\* return at once on a duplicate or an invalid amount.  CreatePayment then
\* hands out the session's URL.
applyProviderOutcome(w) ==
    /\ pc[w] = "apply"
    /\ LET p == payment[w]
           g == mem[w]
           r == result[w]
           names == IF Valid(r) THEN OutcomeEvents(g, r, kind[w] = "create") ELSE << >>
       IN /\ IF names = << >> THEN UNCHANGED tables
                              ELSE Save(p, g, names, Outcome(g, r, names))
          /\ stripe' = IF kind[w] = "create"
                       THEN [stripe EXCEPT ![p] = @ \cup {"offered"}] ELSE stripe
    /\ Return(w)
    /\ UNCHANGED << payouts, history >>

\* markCreateFailed: the provider call failed, so the payment is FAILED.
markCreateFailed(w) ==
    /\ pc[w] = "fail"
    /\ LET g == mem[w]
           failed == [status |-> "FAILED", ref |-> "", amount |-> "whole"]
           names == << "PaymentFailed" >>
       IN IF StateChanged(g, failed)
          THEN Save(payment[w], g, names, Outcome(g, failed, names))
          ELSE UNCHANGED tables
    /\ Return(w)
    /\ UNCHANGED << stripe, payouts, history >>

\* A worker that has paid out and stops before it saves.
Interrupts(w) == kind[w] = "withdraw" /\ pc[w] \in {"apply", "fail"}

Interrupt(w) ==
    interrupted' = IF Interrupts(w) THEN interrupted \cup {payment[w]} ELSE interrupted

\* A database error: the request returns and releases its lock.
Abort(w) ==
    /\ pc[w] \notin {"idle", "call"}
    /\ Return(w) /\ Interrupt(w)
    /\ UNCHANGED << tables, stripe, payouts, expired >>

\* The process dies: the key stays until it expires.
Crash(w) ==
    /\ pc[w] # "idle"
    /\ Forget(w) /\ Interrupt(w)
    /\ lock' = [p \in Payments |-> IF lock[p] = w THEN Dead ELSE lock[p]]
    /\ UNCHANGED << tables, stripe, payouts, expired >>

\* The key's time to live is over, perhaps under a holder still at work.
ExpireLock(p) ==
    /\ lock[p] # NoWorker
    /\ lock' = [lock EXCEPT ![p] = NoWorker]
    /\ expired' = IF lock[p] = Dead THEN expired ELSE expired \cup {p}
    /\ UNCHANGED << tables, locals, stripe, payouts, interrupted >>

Step(w) ==
    \/ GetByTransactionID(w)
    \/ providerCreatePayment(w)
    \/ providerCreateWithdrawal(w)
    \/ providerRefundPayment(w)
    \/ applyProviderOutcome(w)
    \/ markCreateFailed(w)

Next ==
    \/ \E w \in Workers : Step(w) \/ Abort(w) \/ Crash(w)
    \/ \E w \in Workers, p \in Payments :
          \/ CreatePayment(w, p)
          \/ RefundPayment(w, p)
          \/ processPendingWithdrawal(w, p)
          \/ \E r \in Webhooks(p) : ProcessWebhook(w, p, r)
    \/ \E p \in Payments :
          \/ CreateWithdrawal(p)
          \/ ExpireLock(p)
          \/ \E f \in Facts : StripeStep(p, f)

Spec == Init /\ [][Next]_vars

-----------------------------------------------------------------------------
(* Fairness *)

\* Stripe repeats a webhook until it is accepted, the job runs for ever on the rows it
\* lists, and neither crashes, database errors nor failed transfers come every time.  An
\* error that does, a provider the registry does not know, is a step like any other: the
\* job's run on that row ends with nothing done, and nothing is assumed of it.
PaidResult == [status |-> "SUCCESS", ref |-> "cs", amount |-> "whole"]

\* What the webhook of a paid top-up, or the job's run on a withdrawal, does.
Chased(w, p) ==
    /\ payment[w] = p
    /\ \/ kind[w] = "webhook" /\ result[w] = PaidResult
       \/ kind[w] = "withdraw"

StartChase(p) ==
    \E w \in Workers : ProcessWebhook(w, p, PaidResult) \/ processPendingWithdrawal(w, p)
ReadChased(p) == \E w \in Workers : Chased(w, p) /\ GetByTransactionID(w)
PayChased(p) == \E w \in Workers : Chased(w, p) /\ providerCreateWithdrawal(w)
SaveChased(p) ==
    \E w \in Workers : Chased(w, p) /\ (applyProviderOutcome(w) \/ markCreateFailed(w))
ReleaseDead(p) == lock[p] = Dead /\ ExpireLock(p)

Fairness ==
    /\ \A w \in Workers : WF_vars(Step(w))
    /\ \A p \in Payments :
          /\ WF_vars(ReleaseDead(p))
          /\ SF_vars(StartChase(p)) /\ SF_vars(ReadChased(p))
          /\ SF_vars(PayChased(p)) /\ SF_vars(SaveChased(p))

FairSpec == Spec /\ Fairness

-----------------------------------------------------------------------------
(* Properties *)

Published(p, name) == { i \in DOMAIN outbox[p] : outbox[p][i].name = name }

\* The ledger is told of a payment's success, refund or chargeback at most once
\* each, whatever is redelivered, crashes or loses its lock: the processed
\* event's unique key is written in the same transaction.
FinalEventsOnce ==
    \A p \in Payments, name \in ProcessedNames : Cardinality(Published(p, name)) <= 1

\* A refund or chargeback is published only after the success it reverses, so
\* the ledger never takes back money it has not booked.
ReversalFollowsSuccess ==
    \A p \in Payments : \A i \in Published(p, "PaymentRefunded") \cup Published(p, "PaymentChargeback") :
        \E j \in Published(p, "PaymentSucceeded") : j < i

\* A published success is backed by money that moved at Stripe, and a refund
\* by one that Stripe made, even when webhooks come out of order.
EventsAreTrue ==
    \A p \in Payments :
        /\ Published(p, "PaymentSucceeded") # {} => "paid" \in stripe[p] \/ payouts[p] > 0
        /\ Published(p, "PaymentRefunded") # {} => "refunded" \in stripe[p]
        /\ Published(p, "PaymentChargeback") # {} => "disputed" \in stripe[p]

\* While no lock expires under its holder, the events of a payment are numbered
\* 1, 2, ... and its row carries the last number: no writer worked on a stale
\* aggregate, not even CreatePayment, which takes no lock.
SequentialVersions ==
    \A p \in Payments \ expired :
        /\ \A i \in DOMAIN outbox[p] : outbox[p][i].version = i
        /\ intents[p].version = Len(outbox[p])

\* The events of a payment are true and numbered, and reversals come after successes.
EventsAreSound == TypeOK /\ ReversalFollowsSuccess /\ EventsAreTrue /\ SequentialVersions

\* While no lock expires under its holder, a payment has one outcome: it does
\* not both fail and succeed, nor is it reversed twice.
OneOutcome ==
    \A p \in Payments \ expired :
        /\ Published(p, "PaymentFailed") = {} \/ Published(p, "PaymentSucceeded") = {}
        /\ Published(p, "PaymentRefunded") = {} \/ Published(p, "PaymentChargeback") = {}
        /\ Cardinality(Published(p, "PaymentFailed")) <= 1

\* A withdrawal is transferred twice only if a worker that had transferred it
\* failed before it saved that, or lost its lock.
SecondPayoutNeedsFault ==
    \A p \in Payments : payouts[p] > 1 => p \in expired \cup interrupted

\* A paid top-up leaves CREATING and PENDING: a worker or lock that is lost on
\* the way does not strand it.
PaidTopUpsSettle ==
    \A p \in TopUps :
        "paid" \in stripe[p] ~> intents[p].status \notin {"CREATING", "PENDING"}

\* Rows the job can never finish fill the batch ahead of p.
Starved(p) == Cardinality((older[p] \cap Withdrawals) \ Registered) >= BatchSize

\* A requested withdrawal with a known provider is paid out or failed in the end, whoever
\* crashes on the way, unless a whole batch of unpayable withdrawals was requested before
\* it: those stay in CREATING for ever and the job lists nothing else.
WithdrawalsSettle ==
    \A p \in Withdrawals \cap Registered :
        intents[p] # NoIntent ~> intents[p].status \in {"SUCCESS", "FAILED"} \/ Starved(p)

=============================================================================
