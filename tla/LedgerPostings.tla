--------------------------- MODULE LedgerPostings ---------------------------
(***************************************************************************)
(* The pure part of the ledger: the postings ("legs") that a request books, *)
(* and the rule that decides whether an account may take a posting.         *)
(*                                                                          *)
(* A request is a transfer between two accounts or one event of the payment *)
(* topic.  Each books one double entry for the principal and, when a fee is *)
(* charged, a second one for the fee.  Currencies are independent of one    *)
(* another (Balances is keyed by currency), so one currency is modelled.    *)
(* A deployment without a fee account books no fee legs, as fee = 0 does.   *)
(***************************************************************************)
EXTENDS Integers, Sequences

CONSTANTS Users,       \* ledger accounts of people
          Clearing,    \* the provider's clearing account, ledger:clearing:<key>
          FeeAccount,  \* the account that collects fees
          Ids,         \* payment ids and transfer transaction ids
          Requests     \* the requests the ledger may be given

Accounts == Users \cup {Clearing, FeeAccount}

\* The events that book something; PaymentCreated and a withdrawal's
\* PaymentSucceeded book nothing and never reach the ledger service.
Kinds == {"transfer", "succeeded", "refunded", "chargeback", "withdrawal", "failed"}

RequestType ==
    [kind : Kinds, id : Ids, user : Users, to : Accounts,
     amount : Nat \ {0}, fee : Nat]

Parts == {"principal", "fee"}

TransactionIds == [kind : Kinds, id : Ids, part : Parts]

\* Clearing and fee accounts are not people's accounts, and the transfer
\* booking rejects a transfer to oneself and a transfer of nothing.
ASSUME AccountsAssumption ==
    /\ Clearing \notin Users
    /\ FeeAccount \notin Users
    /\ Clearing # FeeAccount

ASSUME RequestsAssumption ==
    /\ Requests \subseteq RequestType
    /\ Requests # {}
    /\ \A r \in Requests : r.user # r.to

-----------------------------------------------------------------------------
(* Postings *)

ReferenceTypes ==
    {"TransferredToAccount", "ReceivedTransfer",
     "WithdrawFromIntent", "DepositFromIntent",
     "WithdrawFromRefund", "DepositFromRefund",
     "WithdrawFromChargeback", "DepositFromChargeback",
     "ReserveWithdrawal", "ReceiveWithdrawalHold",
     "ReleaseWithdrawal", "WithdrawReleasedHold"}

Postings ==
    [account : Accounts, transaction : TransactionIds, counterparty : Accounts,
     delta : Int, type : ReferenceTypes]

Posting(account, tx, counterparty, delta, type) ==
    [account |-> account, transaction |-> tx, counterparty |-> counterparty,
     delta |-> delta, type |-> type]

\* Mutant: the second leg keeps the sign of the first.
SameSignLegs(tx, first, second, delta, firstType, secondType) ==
    << Posting(first, tx, second, delta, firstType),
       Posting(second, tx, first, delta, secondType) >>

\* Two legs of one transaction: first moves by delta, second by -delta.
DoubleEntryLegs(tx, first, second, delta, firstType, secondType) ==
    << Posting(first, tx, second, delta, firstType),
       Posting(second, tx, first, -delta, secondType) >>

\* payment:<id>:<suffix>, and payment:<id>:<suffix>:fee for the fee.
TransactionId(r, part) == [kind |-> r.kind, id |-> r.id, part |-> part]

FeeLegs(r, legs) == IF r.fee > 0 THEN legs ELSE << >>

transferLegs(r) ==
    DoubleEntryLegs(TransactionId(r, "principal"), r.user, r.to, -r.amount,
                    "TransferredToAccount", "ReceivedTransfer")
    \o FeeLegs(r, DoubleEntryLegs(TransactionId(r, "fee"), r.user, FeeAccount,
                    -r.fee, "TransferredToAccount", "ReceivedTransfer"))

paymentSucceededLedgerEvents(r) ==
    DoubleEntryLegs(TransactionId(r, "principal"), Clearing, r.user, -r.amount,
                    "WithdrawFromIntent", "DepositFromIntent")
    \o FeeLegs(r, DoubleEntryLegs(TransactionId(r, "fee"), Clearing, FeeAccount,
                    -r.fee, "WithdrawFromIntent", "DepositFromIntent"))

paymentReversedLedgerEvents(r, debitType, creditType) ==
    DoubleEntryLegs(TransactionId(r, "principal"), r.user, Clearing, -r.amount,
                    debitType, creditType)
    \o FeeLegs(r, DoubleEntryLegs(TransactionId(r, "fee"), FeeAccount, Clearing,
                    -r.fee, debitType, creditType))

paymentWithdrawalRequestedLedgerEvents(r) ==
    DoubleEntryLegs(TransactionId(r, "principal"), r.user, Clearing, -r.amount,
                    "ReserveWithdrawal", "ReceiveWithdrawalHold")
    \o FeeLegs(r, DoubleEntryLegs(TransactionId(r, "fee"), r.user, FeeAccount,
                    -r.fee, "ReserveWithdrawal", "ReceiveWithdrawalHold"))

paymentFailedLedgerEvents(r) ==
    DoubleEntryLegs(TransactionId(r, "principal"), r.user, Clearing, r.amount,
                    "ReleaseWithdrawal", "WithdrawReleasedHold")
    \o FeeLegs(r, DoubleEntryLegs(TransactionId(r, "fee"), r.user, FeeAccount,
                    r.fee, "ReleaseWithdrawal", "WithdrawReleasedHold"))

\* handlePaymentOutboxEvent's switch, and the transfer command beside it.
Legs(r) ==
    CASE r.kind = "transfer"   -> transferLegs(r)
      [] r.kind = "succeeded"  -> paymentSucceededLedgerEvents(r)
      [] r.kind = "refunded"   -> paymentReversedLedgerEvents(r, "WithdrawFromRefund", "DepositFromRefund")
      [] r.kind = "chargeback" -> paymentReversedLedgerEvents(r, "WithdrawFromChargeback", "DepositFromChargeback")
      [] r.kind = "withdrawal" -> paymentWithdrawalRequestedLedgerEvents(r)
      [] r.kind = "failed"     -> paymentFailedLedgerEvents(r)

-----------------------------------------------------------------------------
(* The rule on balances *)

\* Legs that follow money which has already moved outside may overdraw.
requiresNonNegativeBalance(type) ==
    type \notin {"DepositFromIntent", "WithdrawFromIntent",
                 "DepositFromRefund", "WithdrawFromRefund",
                 "DepositFromChargeback", "WithdrawFromChargeback",
                 "ReceiveWithdrawalHold", "WithdrawReleasedHold"}

ensurePostingAllowed(balance, posting) ==
    \/ posting.delta >= 0
    \/ ~ requiresNonNegativeBalance(posting.type)
    \/ balance + posting.delta >= 0

=============================================================================
