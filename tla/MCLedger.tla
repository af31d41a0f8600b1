------------------------------ MODULE MCLedger ------------------------------
(***************************************************************************)
(* Two workers, two people.  A behaviour is about one of three sets of      *)
(* requests, or about the projection of a history: every interleaving,      *)
(* redelivery and crash within it.                                          *)
(***************************************************************************)
EXTENDS Ledger, LedgerReadModel

CONSTANTS u1, u2, p1, p2, t1

VARIABLE story

Request(kind, id, user, to, amount, fee) ==
    [kind |-> kind, id |-> id, user |-> user, to |-> to, amount |-> amount, fee |-> fee]

\* One top-up, two ways to spend it, and the refund that takes it back.  The
\* top-up gives u1 enough for the transfer or the withdrawal but not for both,
\* so a stale balance would be spent twice.
Spending ==
    { Request("succeeded", p1, u1, Clearing, 2, 0),
      Request("transfer", t1, u1, u2, 1, 1),
      Request("withdrawal", p2, u1, Clearing, 2, 0),
      Request("refunded", p1, u1, Clearing, 2, 0) }

\* A chargeback and a second PaymentSucceeded that disagrees with the first.
Disputes ==
    { Request("succeeded", p1, u1, Clearing, 2, 0),
      Request("succeeded", p1, u1, Clearing, 1, 0),
      Request("chargeback", p1, u1, Clearing, 2, 0) }

\* The release of a hold beside a top-up, with a fee, of the same account.
Releases ==
    { Request("succeeded", p1, u1, Clearing, 2, 1),
      Request("failed", p2, u1, Clearing, 1, 0) }

MCRequests == Spending \cup Disputes \cup Releases

\* A history to project: a top-up with its fee and a withdrawal booked in the same instant,
\* then the refund.  The top-up is projected, and one of the two legs of the withdrawal.
TopUp == Request("succeeded", p1, u1, Clearing, 2, 1)
Withdrawal == Request("withdrawal", p2, u1, Clearing, 2, 0)
Refund == Request("refunded", p1, u1, Clearing, 2, 0)

MCOutbox ==
    LET all == EventsOfRequest(TopUp, 1) \o EventsOfRequest(Withdrawal, 1) \o EventsOfRequest(Refund, 2)
    IN [a \in Accounts |-> SelectSeq(all, LAMBDA e : e.account = a)]
MCBefore == [a \in Accounts |-> IF a \in {u1, Clearing} THEN 2 ELSE Len(MCOutbox[a])]
MCIdOrder ==
    << TransactionId(TopUp, "principal"), TransactionId(TopUp, "fee"),
       TransactionId(Withdrawal, "principal"), TransactionId(Refund, "principal") >>

\* The only way a projection may end.
EverythingIsProjected ==
    /\ \A a \in Accounts : offsets[a] = Len(Outbox[a])
    /\ \A w \in Projectors : phase[w] = "idle"

MCNext ==
    \/ /\ Next /\ UNCHANGED << readVars, story >>
       /\ \A w \in Workers : pc'[w] # "idle" => req'[w] \in story
    \/ story = {} /\ ReadNext /\ UNCHANGED << vars, story >>
    \/ story = {} /\ EverythingIsProjected /\ UNCHANGED << vars, readVars, story >>

MCInit == Init /\ ReadInit /\ story \in {Spending, Disputes, Releases, {}}

MCSpec == MCInit /\ [][MCNext]_<< vars, readVars, story >> /\ Fairness

\* What is loaded is what was booked, and what is shown is what was booked.  The tables stand
\* still in the stories of requests, and the workers in the story of the projection.
ReadsAreReplays == IF story = {} THEN ReadsAreSound ELSE LoadsAreReplays
=============================================================================
