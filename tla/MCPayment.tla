----------------------------- MODULE MCPayment -----------------------------
(***************************************************************************)
(* One payment at a time, a top-up or a withdrawal: a behaviour is about    *)
(* the payment it starts with, and the other is never requested.  Beside a  *)
(* withdrawal there are withdrawals whose provider nobody knows.            *)
(***************************************************************************)
EXTENDS PaymentMoney

VARIABLE subject

MCInit == Init /\ subject \in Registered

MCNext ==
    /\ Next /\ UNCHANGED subject
    /\ \A p \in Payments \ {subject} :
          intents'[p] # NoIntent => subject \in Withdrawals /\ p \notin Registered

MCSpec ==
    /\ MCInit /\ [][MCNext]_<< vars, subject >>
    /\ \A w \in Workers : WF_vars(Step(w))
    /\ WF_vars(ReleaseDead(subject))
    /\ SF_vars(StartChase(subject)) /\ SF_vars(ReadChased(subject))
    /\ SF_vars(PayChased(subject)) /\ SF_vars(SaveChased(subject))

\* The events of a payment are sound, and so is the money the ledger books for them.
PaymentsAreSound == EventsAreSound /\ MoneyIsRight
=============================================================================
