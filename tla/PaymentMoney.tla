---------------------------- MODULE PaymentMoney ----------------------------
(***************************************************************************)
(* The amounts of a payment, from its intent through the events it          *)
(* publishes to the double entries the ledger books for them.  PaymentIntent *)
(* says which events a payment publishes; here they get their amounts, and   *)
(* the ledger's entry point for payment events (called over gRPC, and the    *)
(* same for the topic) turns them into legs.  The ledger books a transaction *)
(* once (module Ledger), so the legs of an event given twice count once.     *)
(***************************************************************************)
EXTENDS PaymentIntent, Functions, FiniteSetsExt

CONSTANTS MaxAmount, MaxFee,  \* bounds: amounts and fees of payments
          Basis,              \* a fee's rate is in parts of this: 10000 in the code
          Width               \* bits of an integer: 64 in the code

ASSUME MoneyAssumption ==
    /\ MaxAmount \in Nat \ {0} /\ MaxFee \in Nat
    /\ Basis \in Nat \ {0} /\ Width \in Nat \ {0}

-----------------------------------------------------------------------------
(* The fee *)

\* A signed integer of Width bits.
Limit == 2^(Width - 1)
Wrap(n) == ((n + Limit) % (2 * Limit)) - Limit

FeeRefused == -1

\* StripeFeePolicy.Compute, for a rate and a flat amount that are not negative.
Compute(amount, rate, flat) ==
    LET rateFee == IF rate > 0 THEN Wrap(amount * rate + Basis - 1) \div Basis ELSE 0
        totalFee == Wrap(rateFee + flat)
    IN IF amount <= 0 \/ totalFee < 0 THEN FeeRefused ELSE totalFee

-----------------------------------------------------------------------------
(* Intents *)

Person == "person"
ClearingAccount == "clearing"
Fees == "fees"
Blank == ""

\* The refusals of newPaymentIntent that depend on amounts and accounts.
newPaymentIntent(t) ==
    /\ t.amount > 0 /\ t.fee >= 0 /\ t.providerAmount > 0
    /\ t.workflow = "TOP_UP" => t.credit # Blank
    /\ t.workflow = "WITHDRAWAL" => t.debit # Blank
    /\ t.debit # t.credit

NewProviderTopUpIntent(amount, fee) ==
    [workflow |-> "TOP_UP", amount |-> amount, fee |-> fee,
     providerAmount |-> amount + fee, debit |-> Blank, credit |-> Person]

NewProviderWithdrawalIntent(amount, fee) ==
    [workflow |-> "WITHDRAWAL", amount |-> amount, fee |-> fee,
     providerAmount |-> amount, debit |-> Person, credit |-> Blank]

\* The aggregates the two requests make; a refused intent makes none.
Intended(intents0) == { t \in intents0 : newPaymentIntent(t) }
NewProviderTopUpAggregate ==
    Intended({ NewProviderTopUpIntent(a, f) : a \in 0..MaxAmount, f \in 0..MaxFee })
NewProviderWithdrawalAggregate ==
    Intended({ NewProviderWithdrawalIntent(a, f) : a \in 0..MaxAmount, f \in 0..MaxFee })

Terms(p) == IF p \in TopUps THEN NewProviderTopUpAggregate ELSE NewProviderWithdrawalAggregate

\* A row without a provider amount gets one when it is loaded and at every transition.
normalizePaymentIntentSnapshot(t) ==
    IF t.providerAmount > 0 THEN t
    ELSE [t EXCEPT !.providerAmount = IF t.workflow = "WITHDRAWAL" THEN t.amount
                                                                  ELSE t.amount + t.fee]

\* The aggregate of a row, and the one that PaymentCreated makes.
RestorePaymentIntentAggregate(row) == normalizePaymentIntentSnapshot(row)
applyPaymentCreated(e) ==
    [workflow |-> e.workflow, amount |-> e.amount, fee |-> e.fee,
     providerAmount |-> e.providerAmount, debit |-> e.debit, credit |-> e.credit]

-----------------------------------------------------------------------------
(* Events *)

Reversals == {"PaymentRefunded", "PaymentChargeback"}

\* validateProviderResultForStatus: an amount of 0 is an amount that was not told.
AmountMatches(t, status, amount) ==
    \/ amount = 0
    \/ IF status \in {"REFUNDED", "CHARGEBACK"} THEN amount <= t.providerAmount
                                                ELSE amount = t.providerAmount

\* currentProviderResult
currentProviderResult(t, amount) == IF amount = 0 THEN t.providerAmount ELSE amount

\* The record* functions: every event has the amounts of the intent, but a reversal that of
\* the provider's result.
Recorded(t, name, reported) ==
    [name |-> name, workflow |-> t.workflow, fee |-> t.fee, providerAmount |-> t.providerAmount,
     debit |-> t.debit, credit |-> t.credit,
     amount |-> IF name \in Reversals THEN currentProviderResult(t, reported) ELSE t.amount]

-----------------------------------------------------------------------------
(* The ledger's entry point *)

Books == INSTANCE LedgerPostings WITH
    Users <- {Person}, Clearing <- ClearingAccount, FeeAccount <- Fees, Ids <- {"payment"},
    Requests <- [kind : {"succeeded"}, id : {"payment"}, user : {Person}, to : {ClearingAccount},
                 amount : {1}, fee : {0}]

BooksNothing == [ok |-> TRUE, legs |-> << >>, locked |-> {}]
Rejects == [BooksNothing EXCEPT !.ok = FALSE]

\* The keys of withdrawalRequestedLockKeys, succeededLockKeys, failedLockKeys and reversedLockKeys.
LockKeys(e, account, charges) ==
    {account, ClearingAccount} \cup (IF e.fee > 0 /\ charges THEN {Fees} ELSE {})

\* charges: there is a fee account; without one no fee is booked.
Charged(t, charges) == IF charges THEN t.fee ELSE 0

EventLegs(e, booking, account, charges) ==
    Books!Legs([kind |-> booking, id |-> "payment", user |-> account, to |-> ClearingAccount,
                amount |-> e.amount, fee |-> Charged(e, charges)])

Balance(legs, account) ==
    MapThenSumSet(LAMBDA leg : leg.delta, { leg \in legs : leg.account = account })

\* RecordLedgerEvents applies the legs one after the other, and the first that its account
\* refuses undoes them all.  funds: the person's balance before, which nobody looked at when
\* the payment was made; the other accounts start from 0.
Allowed(legs, funds) ==
    \A i \in DOMAIN legs :
        LET before == Balance({ legs[j] : j \in 1..(i - 1) }, legs[i].account)
        IN Books!ensurePostingAllowed(before + IF legs[i].account = Person THEN funds ELSE 0, legs[i])

\* Legs of one event under the locks of its accounts.
Booked(e, booking, account, charges, funds) ==
    LET legs == EventLegs(e, booking, account, charges)
    IN IF Allowed(legs, funds)
       THEN [ok |-> TRUE, locked |-> LockKeys(e, account, charges), legs |-> legs]
       ELSE Rejects

\* What NewPaymentSucceededBooking asks of its event, and NewPaymentReversalBooking of its.
NewPaymentSucceededBooking(e) == e.credit \notin {Blank, ClearingAccount} /\ e.amount > 0
NewPaymentReversalBooking(e) ==
    e.name \in Reversals /\ e.credit \notin {Blank, ClearingAccount} /\ e.amount > 0

HandleWithdrawalRequested(e, charges, funds) == Booked(e, "withdrawal", e.debit, charges, funds)

HandleSucceeded(e, charges, funds) ==
    IF e.workflow = "WITHDRAWAL" THEN BooksNothing
    ELSE IF NewPaymentSucceededBooking(e) THEN Booked(e, "succeeded", e.credit, charges, funds) ELSE Rejects

HandleFailed(e, charges, funds) ==
    IF e.workflow # "WITHDRAWAL" THEN BooksNothing ELSE Booked(e, "failed", e.debit, charges, funds)

paymentReversed(e, booking, charges, funds) ==
    IF NewPaymentReversalBooking(e) THEN Booked(e, booking, e.credit, charges, funds) ELSE Rejects

HandleRefunded(e, charges, funds) == paymentReversed(e, "refunded", charges, funds)
HandleChargeback(e, charges, funds) == paymentReversed(e, "chargeback", charges, funds)

applyPaymentEvent(e, charges, funds) ==
    CASE e.name = "PaymentWithdrawalRequested" -> HandleWithdrawalRequested(e, charges, funds)
      [] e.name = "PaymentSucceeded"           -> HandleSucceeded(e, charges, funds)
      [] e.name = "PaymentFailed"              -> HandleFailed(e, charges, funds)
      [] e.name = "PaymentRefunded"            -> HandleRefunded(e, charges, funds)
      [] e.name = "PaymentChargeback"          -> HandleChargeback(e, charges, funds)
      [] OTHER                                 -> BooksNothing

\* A success of which the handler of the topic can make no booking is announced as a failed
\* reconciliation, and the payment module refunds it.  Of another event that is refused
\* nobody hears: the consumer gives it up after its attempts.
emitPaymentReconciliationFailed(e) ==
    e.name = "PaymentSucceeded" /\ e.workflow # "WITHDRAWAL" /\ ~ NewPaymentSucceededBooking(e)

-----------------------------------------------------------------------------
(* Properties *)

Names(p) == { outbox[p][i].name : i \in DOMAIN outbox[p] }
Announced == { p \in Payments : Names(p) # {} }

\* The legs in the ledger once it has all events of p.
LegsOf(p, t, reported, charges, funds) ==
    UNION { Range(applyPaymentEvent(Recorded(t, name, reported), charges, funds).legs) : name \in Names(p) }

Balances(legs) == [a \in {Person, ClearingAccount, Fees} |-> Balance(legs, a)]
Holding(person, clearing, fees) ==
    [a \in {Person, ClearingAccount, Fees} |->
        CASE a = Person -> person [] a = ClearingAccount -> clearing [] a = Fees -> fees]

\* The person can pay for the withdrawal, its fee included.
Covered(t, charges, funds) == funds >= t.amount + Charged(t, charges)

\* What the accounts hold for a payment that was not interfered with by a lost lock.
\*   A paid top-up: the person has the amount, the fee account the fee, and the clearing account
\*   owes both, which is what the provider collected.
\*   A reversed one: the provider's amount is taken from the person and the fee from the fee
\*   account, both into clearing, so the fee is taken twice: after a reversal of the whole
\*   charge the person owes the fee and clearing has it.
\*   A withdrawal that is covered: amount and fee are held until it fails, and then given back
\*   to the last unit.
\*   One that is not: nothing is ever held, although the job pays it out, and when it fails
\*   the person is given amount and fee, which clearing and the fee account never had.
Expected(p, t, reported, charges, funds) ==
    LET fee == Charged(t, charges)
        reversed == currentProviderResult(t, reported)
        failed == "PaymentFailed" \in Names(p)
    IN IF Names(p) \cap Reversals # {} THEN Holding(t.amount - reversed, reversed - t.amount, 0)
       ELSE IF p \in TopUps /\ "PaymentSucceeded" \in Names(p)
            THEN Holding(t.amount, -(t.amount + fee), fee)
       ELSE IF p \in Withdrawals /\ Covered(t, charges, funds) /\ ~ failed
            THEN Holding(-(t.amount + fee), t.amount, fee)
       ELSE IF p \in Withdrawals /\ ~ Covered(t, charges, funds) /\ failed
            THEN Holding(t.amount + fee, -t.amount, -fee)
       ELSE Holding(0, 0, 0)

\* A payment in which nobody is at work; every outbox is reached in such a state.
Quiet == \A w \in Workers : pc[w] = "idle"

\* What a person may have: too little for any payment, just not enough, and enough.
Funds == (-1)..(MaxAmount + MaxFee)

\* The balances are the expected ones for every amount, fee and reported reversal, whatever
\* the person had, in a deployment with or without a fee account.
BalancesFollowEvents ==
    Quiet => \A p \in Announced \ expired : \A t \in Terms(p), charges \in BOOLEAN, funds \in Funds :
        \A reported \in 0..(IF Names(p) \cap Reversals = {} THEN 0 ELSE t.providerAmount) :
            Balances(LegsOf(p, t, reported, charges, funds)) = Expected(p, t, reported, charges, funds)

\* Of the events that a payment can publish, even where a lock was lost, the ledger refuses
\* exactly the request of a withdrawal that is not covered: that one is retried until it is
\* dropped, and no failed reconciliation ever tells the payment of it.  All accounts that an
\* event touches are locked.
OnlyUncoveredIsRefused ==
    Quiet => \A p \in Payments : \A name \in Names(p), t \in Terms(p), charges \in BOOLEAN, funds \in Funds :
        \A reported \in { n \in 0..t.providerAmount : AmountMatches(t, "REFUNDED", n) } :
            LET e == Recorded(t, name, reported)
                booked == applyPaymentEvent(e, charges, funds)
            IN /\ booked.ok <=> (name = "PaymentWithdrawalRequested" => Covered(t, charges, funds))
               /\ ~ emitPaymentReconciliationFailed(e)
               /\ { leg.account : leg \in Range(booked.legs) } \subseteq booked.locked

\* Loading an intent, also one stored before it had a provider amount, and replaying its first
\* event give the terms it was made with, so a result is compared with what was asked for.
TermsSurvive ==
    \A t \in NewProviderTopUpAggregate \cup NewProviderWithdrawalAggregate :
        /\ RestorePaymentIntentAggregate(t) = t
        /\ RestorePaymentIntentAggregate([t EXCEPT !.providerAmount = 0]) = t
        /\ applyPaymentCreated(Recorded(t, "PaymentCreated", 0)) = t

\* The fee is rounded up and never less for a larger amount, as long as amount times rate fits
\* an integer; beyond that only some of the wrong fees are refused.
FeeIsRoundedUp ==
    \A amount \in 1..MaxAmount * Basis, rate \in 0..Basis, flat \in 0..MaxFee :
        amount * rate + Basis + flat < Limit =>
            LET fee == Compute(amount, rate, flat)
            IN /\ (fee - flat) * Basis >= amount * rate
               /\ (fee - flat - 1) * Basis < amount * rate
               /\ amount > 1 => Compute(amount - 1, rate, flat) <= fee

MoneyIsRight == BalancesFollowEvents /\ OnlyUncoveredIsRefused /\ TermsSurvive /\ FeeIsRoundedUp

=============================================================================
