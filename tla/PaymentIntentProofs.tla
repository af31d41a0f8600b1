------------------------ MODULE PaymentIntentProofs ------------------------
(***************************************************************************)
(* Proofs about PaymentIntent, for every set of payments and of concurrent  *)
(* requests, and about the money of PaymentMoney, for all amounts and fees. *)
(***************************************************************************)
EXTENDS MCPayment, FiniteSetTheorems, WellFoundedInduction, TLAPS

-----------------------------------------------------------------------------
(* What a save books *)

\* The event that announces a final status, and no event for the others.
FinalName(status) ==
    CASE status = "SUCCESS"    -> "PaymentSucceeded"
      [] status = "FAILED"     -> "PaymentFailed"
      [] status = "REFUNDED"   -> "PaymentRefunded"
      [] status = "CHARGEBACK" -> "PaymentChargeback"
      [] OTHER                 -> "none"

FinalNames == ProcessedNames \cup {"PaymentFailed"}

\* Saving g as h with the named events: a new final status is announced, and
\* nothing else that is final.
Booking(g, names, h) ==
    /\ g \in Intents /\ h \in Intents /\ names \in Seq(EventNames) /\ Len(names) >= 1
    /\ h.version = g.version + Len(names)
    /\ \/ h.status = g.status
       \/ h.status \in PaymentTransitions(g.status)
       \/ g = NoIntent /\ h.status = "CREATING"
    /\ \A i \in 1..Len(names) :
          names[i] \in FinalNames => h.status # g.status /\ names[i] = FinalName(h.status)
    /\ h.status # g.status /\ FinalName(h.status) \in FinalNames =>
          \E i \in 1..Len(names) : names[i] = FinalName(h.status)
    /\ \A i, j \in 1..Len(names) : names[i] = names[j] => i = j

\* A sequence of names as the aggregate records them: final is the final one
\* among them, or "none".
Announces(names, final) ==
    /\ names \in Seq(EventNames)
    /\ \A i \in 1..Len(names) : names[i] \in FinalNames => names[i] = final
    /\ final \in FinalNames => \E i \in 1..Len(names) : names[i] = final
    /\ \A i, j \in 1..Len(names) : names[i] = names[j] => i = j

LEMMA OneName ==
    ASSUME NEW a \in EventNames
    PROVE  /\ Announces(<< a >>, IF a \in FinalNames THEN a ELSE "none")
           /\ Len(<< a >>) = 1
  <1>1. << a >> \in Seq(EventNames) /\ Len(<< a >>) = 1 /\ << a >>[1] = a
    OBVIOUS
  <1>2. "none" \notin FinalNames
    BY DEF FinalNames, ProcessedNames
  <1> QED BY <1>1, <1>2 DEF Announces

LEMMA TwoNames ==
    ASSUME NEW a \in EventNames, NEW b \in EventNames, a # b, b \notin FinalNames
    PROVE  /\ Announces(<< a >> \o << b >>, IF a \in FinalNames THEN a ELSE "none")
           /\ Len(<< a >> \o << b >>) = 2
  <1> DEFINE s == << a >> \o << b >>
  <1>1. s \in Seq(EventNames) /\ Len(s) = 2 /\ s[1] = a /\ s[2] = b
    OBVIOUS
  <1>2. "none" \notin FinalNames
    BY DEF FinalNames, ProcessedNames
  <1>3. \A i \in 1..Len(s) : i = 1 \/ i = 2
    BY <1>1
  <1> HIDE DEF s
  <1>4. Announces(s, IF a \in FinalNames THEN a ELSE "none")
    <2>1. 1 \in 1..Len(s)
      BY <1>1
    <2> QED BY <1>1, <1>2, <1>3, <2>1 DEF Announces
  <1> QED BY <1>1, <1>4 DEF s

\* One more name at the end, when none before it was final.
LEMMA NameAppended ==
    ASSUME NEW s, Announces(s, "none"), NEW a \in FinalNames, a \in EventNames
    PROVE  Announces(s \o << a >>, a) /\ Len(s \o << a >>) = Len(s) + 1
  <1> DEFINE t == s \o << a >>
  <1>1. s \in Seq(EventNames) /\ "none" \notin FinalNames
    BY DEF Announces, FinalNames, ProcessedNames
  <1>2. /\ t \in Seq(EventNames) /\ Len(t) = Len(s) + 1 /\ t[Len(s) + 1] = a /\ Len(s) \in Nat
        /\ \A i \in 1..Len(s) : t[i] = s[i]
    BY <1>1
  <1>3. \A i \in 1..Len(s) : s[i] \notin FinalNames
    BY <1>1 DEF Announces
  <1>4. \A i \in 1..Len(t) : i \in 1..Len(s) \/ i = Len(s) + 1
    BY <1>2
  <1>5. Len(s) + 1 \in 1..Len(t)
    BY <1>2
  <1> HIDE DEF t
  <1>6. \A i \in 1..Len(t) : t[i] \in FinalNames => i = Len(s) + 1
    BY <1>2, <1>3, <1>4
  <1>7. \A i, j \in 1..Len(t) : t[i] = t[j] => i = j
    BY <1>2, <1>3, <1>4, <1>6 DEF Announces
  <1>8. Announces(t, a)
    BY <1>2, <1>5, <1>6, <1>7 DEF Announces
  <1> QED BY <1>2, <1>8 DEF t

\* What a session's event adds to one name.
LEMMA WithSession ==
    ASSUME NEW a \in EventNames, a # "PaymentCheckoutSessionCreated",
           NEW session \in {<< "PaymentCheckoutSessionCreated" >>, << >>}
    PROVE  /\ Announces(<< a >> \o session, IF a \in FinalNames THEN a ELSE "none")
           /\ Len(<< a >> \o session) >= 1
  <1>1. CASE session = << >>
    <2> DEFINE s == << a >> \o session
               t == << a >>
    <2>1. s = t
      BY <1>1
    <2>2. Announces(t, IF a \in FinalNames THEN a ELSE "none") /\ Len(t) = 1
      BY OneName
    <2> HIDE DEF s, t
    <2>3. Announces(s, IF a \in FinalNames THEN a ELSE "none") /\ Len(s) >= 1
      BY <2>1, <2>2
    <2> QED BY <2>3 DEF s
  <1>2. CASE session = << "PaymentCheckoutSessionCreated" >>
    <2>1. "PaymentCheckoutSessionCreated" \in EventNames \ FinalNames
      BY DEF EventNames, FinalNames, ProcessedNames
    <2> DEFINE b == "PaymentCheckoutSessionCreated"
    <2> HIDE DEF b
    <2>2. /\ Announces(<< a >> \o << b >>, IF a \in FinalNames THEN a ELSE "none")
          /\ Len(<< a >> \o << b >>) = 2
      BY <2>1, TwoNames DEF b
    <2>3. << a >> \o session = << a >> \o << b >>
      BY <1>2 DEF b
    <2> QED BY <2>2, <2>3
  <1> QED BY <1>1, <1>2

\* ApplyProviderOutcome records nothing, or announces the status it moves to.
LEMMA OutcomeAnnounces ==
    ASSUME NEW g, NEW r \in Results, NEW checkout \in BOOLEAN,
           OutcomeEvents(g, r, checkout) # << >>
    PROVE  /\ Announces(OutcomeEvents(g, r, checkout),
                        IF StateChanged(g, r) THEN FinalName(r.status) ELSE "none")
           /\ Len(OutcomeEvents(g, r, checkout)) >= 1
  <1> DEFINE session == IF checkout THEN << "PaymentCheckoutSessionCreated" >> ELSE << >>
             names == OutcomeEvents(g, r, checkout)
             final == IF StateChanged(g, r) THEN FinalName(r.status) ELSE "none"
  <1>1. session \in {<< "PaymentCheckoutSessionCreated" >>, << >>}
    OBVIOUS
  <1>2. {"PaymentSucceeded", "PaymentRefunded", "PaymentChargeback", "PaymentFailed"} = FinalNames
    BY DEF FinalNames, ProcessedNames
  <1>3. "PaymentProviderStateChanged" \in EventNames \ FinalNames /\ FinalNames \subseteq EventNames
        /\ "PaymentCheckoutSessionCreated" \notin FinalNames
    BY DEF EventNames, FinalNames, ProcessedNames
  <1>4. r.status \in Statuses
    BY DEF Results
  <1> HIDE DEF session
  <1>5. ASSUME NEW a \in FinalNames, names = << a >> \o session, final = a
        PROVE  Announces(names, final) /\ Len(names) >= 1
    BY <1>1, <1>3, <1>5, WithSession
  <1>6. Announces(Changed \o session, "none") /\ Len(Changed \o session) >= 1
    BY <1>1, <1>3, WithSession DEF Changed
  <1>7. CASE r.status = "SUCCESS"
    <2>1. names = applySuccessfulOutcome(g, r, session)
      BY <1>7 DEF OutcomeEvents, session
    <2>2. CASE StateChanged(g, r)
      BY <1>2, <1>5, <1>7, <2>1, <2>2 DEF applySuccessfulOutcome, FinalName
    <2>3. CASE ~StateChanged(g, r)
      <3>1. names = Changed \o session /\ final = "none"
        BY <2>1, <2>3 DEF applySuccessfulOutcome
      <3> QED BY <1>6, <3>1
    <2> QED BY <2>2, <2>3
  <1>8. CASE r.status \in {"REFUNDED", "CHARGEBACK"}
    <2>1. names = applyReversedOutcome(g, r, session)
      BY <1>8 DEF OutcomeEvents, session
    <2>2. StateChanged(g, r)
      BY <2>1 DEF applyReversedOutcome
    <2> QED BY <1>2, <1>5, <1>8, <2>1, <2>2 DEF applyReversedOutcome, FinalName
  <1>9. CASE r.status \notin {"SUCCESS", "REFUNDED", "CHARGEBACK"}
    <2>1. names = applyNonFinalOutcome(g, r, session)
      BY <1>9 DEF OutcomeEvents, session
    <2> DEFINE head == Changed \o session
    <2>2. CASE StateChanged(g, r) /\ r.status = "FAILED"
      <3>1. names = head \o << "PaymentFailed" >> /\ final = "PaymentFailed"
        BY <2>1, <2>2 DEF applyNonFinalOutcome, FinalName
      <3>a. Announces(head, "none") /\ Len(head) >= 1
        BY <1>6
      <3> HIDE DEF head, names, final
      <3>b. head \in Seq(EventNames)
        BY <3>a DEF Announces
      <3>2. Announces(head, "none") /\ Len(head) >= 1 /\ Len(head) \in Nat
        BY <3>a, <3>b
      <3>3. /\ Announces(head \o << "PaymentFailed" >>, "PaymentFailed")
            /\ Len(head \o << "PaymentFailed" >>) = Len(head) + 1
        BY <1>2, <1>3, <3>2, NameAppended
      <3>4. Announces(names, final) /\ Len(names) >= 1
        BY <3>1, <3>2, <3>3
      <3> QED BY <3>4 DEF names, final
    <2>3. CASE ~(StateChanged(g, r) /\ r.status = "FAILED")
      <3>1. names = head \o << >>
        BY <2>1, <2>3 DEF applyNonFinalOutcome
      <3>2. names = head
        BY <1>6, <3>1 DEF Announces, Changed
      <3>3. final = "none"
        BY <1>9, <2>3 DEF FinalName
      <3> QED BY <1>6, <3>2, <3>3
    <2> QED BY <2>2, <2>3
  <1> QED BY <1>7, <1>8, <1>9

LEMMA OutcomeBooks ==
    ASSUME NEW g \in Intents, NEW r \in Results, NEW names, Len(names) >= 1,
           Announces(names, IF StateChanged(g, r) THEN FinalName(r.status) ELSE "none")
    PROVE  Booking(g, names, Outcome(g, r, names))
  <1> DEFINE h == Outcome(g, r, names)
  <1>1. names \in Seq(EventNames) /\ Len(names) \in Nat
    BY DEF Announces
  <1>2. /\ h.version = g.version + Len(names)
        /\ h.status = IF StateChanged(g, r) THEN r.status ELSE g.status
        /\ h.ref = IF ExternalRefChanged(g, r) THEN r.ref ELSE g.ref
    BY DEF Outcome
  <1>3. h \in Intents
    BY <1>1 DEF Outcome, Intents, Results
  <1>4. StateChanged(g, r) => r.status # g.status /\ r.status \in PaymentTransitions(g.status)
    BY DEF StateChanged, PaymentTransitions
  <1>5. "none" \notin FinalNames
    BY DEF FinalNames, ProcessedNames
  <1> HIDE DEF h
  <1>6. Booking(g, names, h)
    BY <1>1, <1>2, <1>3, <1>4, <1>5 DEF Booking, Announces
  <1> QED BY <1>6 DEF h

LEMMA CreationBooks ==
    ASSUME NEW names \in {<< "PaymentCreated" >>,
                          << "PaymentCreated", "PaymentWithdrawalRequested" >>}
    PROVE  Booking(NoIntent, names, [status |-> "CREATING", ref |-> "", version |-> Len(names)])
  <1> DEFINE h == [status |-> "CREATING", ref |-> "", version |-> Len(names)]
  <1>1. /\ names \in Seq(EventNames) /\ Len(names) \in {1, 2}
        /\ \A i \in 1..Len(names) : names[i] \notin FinalNames
        /\ \A i, j \in 1..Len(names) : names[i] = names[j] => i = j
    <2>1. CASE names = << "PaymentCreated" >>
      <3>1. names \in Seq(EventNames) /\ Len(names) = 1 /\ names[1] = "PaymentCreated"
        BY <2>1 DEF EventNames
      <3> QED BY <3>1 DEF FinalNames, ProcessedNames
    <2>2. CASE names = << "PaymentCreated", "PaymentWithdrawalRequested" >>
      <3>1. /\ names \in Seq(EventNames) /\ Len(names) = 2
            /\ names[1] = "PaymentCreated" /\ names[2] = "PaymentWithdrawalRequested"
        BY <2>2 DEF EventNames
      <3>2. \A i \in 1..Len(names) : i = 1 \/ i = 2
        BY <3>1
      <3> QED BY <3>1, <3>2 DEF FinalNames, ProcessedNames
    <2> QED BY <2>1, <2>2
  <1>2. NoIntent \in Intents /\ h \in Intents
    BY <1>1 DEF NoIntent, Intents, Statuses, Refs
  <1>3. h.version = Len(names) /\ h.status = "CREATING"
    OBVIOUS
  <1>4. NoIntent.version = 0
    BY DEF NoIntent
  <1>5. FinalName("CREATING") \notin FinalNames
    BY DEF FinalName, FinalNames, ProcessedNames
  <1> HIDE DEF h
  <1>6. Booking(NoIntent, names, h)
    BY <1>1, <1>2, <1>3, <1>4, <1>5 DEF Booking
  <1> QED BY <1>6 DEF h

-----------------------------------------------------------------------------
(* What a save publishes *)

\* The transaction went through.
Saved(p, g, names, h) ==
    /\ Booking(g, names, h)
    /\ ProcessedKeys(p, names) \cap processed = {}
    /\ processed' = processed \cup ProcessedKeys(p, names)
    /\ intents' = [intents EXCEPT ![p] = h] /\ Inserted(p)
    /\ outbox' = [outbox EXCEPT ![p] = @ \o Numbered(g, names)]

LEMMA SaveAppends ==
    ASSUME TypeOK, NEW p \in Payments, NEW g, NEW names, NEW h, Saved(p, g, names, h)
    PROVE  /\ outbox' \in [Payments -> Seq(Envelopes)]
           /\ Len(outbox'[p]) = Len(outbox[p]) + Len(names)
           /\ \A i \in 1..Len(outbox[p]) : outbox'[p][i] = outbox[p][i]
           /\ \A i \in 1..Len(names) :
                 outbox'[p][Len(outbox[p]) + i] = [name |-> names[i], version |-> g.version + i]
           /\ \A q \in Payments \ {p} : outbox'[q] = outbox[q]
  <1> DEFINE new == Numbered(g, names)
  <1>1. g.version \in Nat /\ names \in Seq(EventNames) /\ Len(names) \in Nat
    BY DEF Saved, Booking, Intents
  <1>2. \A i \in 1..Len(names) : names[i] \in EventNames
    BY <1>1
  <1>3. \A i \in 1..Len(names) : [name |-> names[i], version |-> g.version + i] \in Envelopes
    BY <1>1, <1>2 DEF Envelopes
  <1>4. /\ new \in Seq(Envelopes) /\ Len(new) = Len(names)
        /\ \A i \in 1..Len(names) : new[i] = [name |-> names[i], version |-> g.version + i]
    BY <1>1, <1>3 DEF Numbered
  <1> HIDE DEF new
  <1>5. outbox[p] \in Seq(Envelopes)
    BY DEF TypeOK
  <1>6. /\ outbox[p] \o new \in Seq(Envelopes)
        /\ Len(outbox[p] \o new) = Len(outbox[p]) + Len(names)
        /\ \A i \in 1..Len(outbox[p]) : (outbox[p] \o new)[i] = outbox[p][i]
        /\ \A i \in 1..Len(names) : (outbox[p] \o new)[Len(outbox[p]) + i] = new[i]
    <2> DEFINE old == outbox[p]
    <2>1. old \in Seq(Envelopes)
      BY <1>5
    <2> HIDE DEF old
    <2>2. /\ old \o new \in Seq(Envelopes) /\ Len(old \o new) = Len(old) + Len(new)
          /\ \A i \in 1..Len(old) : (old \o new)[i] = old[i]
          /\ \A i \in 1..Len(new) : (old \o new)[Len(old) + i] = new[i]
      BY <1>4, <2>1
    <2> QED BY <1>4, <2>2 DEF old
  <1>7. /\ outbox'[p] = outbox[p] \o new
        /\ outbox' \in [Payments -> Seq(Envelopes)]
        /\ \A q \in Payments \ {p} : outbox'[q] = outbox[q]
    BY <1>6 DEF TypeOK, Saved, new
  <1> QED BY <1>4, <1>6, <1>7

\* The names a save publishes are the names it is given.
LEMMA SaveAdds ==
    ASSUME TypeOK, NEW p \in Payments, NEW g, NEW names, NEW h, Saved(p, g, names, h), NEW n
    PROVE  /\ Published(p, n)' = Published(p, n)
                \cup { Len(outbox[p]) + j : j \in { l \in 1..Len(names) : names[l] = n } }
           /\ \A q \in Payments \ {p} : Published(q, n)' = Published(q, n)
  <1> DEFINE len == Len(outbox[p])
  <1>1. /\ len \in Nat /\ Len(names) \in Nat /\ outbox[p] \in Seq(Envelopes)
        /\ \A i \in 1..Len(names) : [name |-> names[i], version |-> g.version + i].name = names[i]
    BY DEF TypeOK, Saved, Booking
  <1>2. /\ DOMAIN outbox[p] = 1..len
        /\ DOMAIN outbox'[p] = 1..(len + Len(names))
        /\ \A i \in 1..len : outbox'[p][i].name = outbox[p][i].name
        /\ \A i \in 1..Len(names) : outbox'[p][len + i].name = names[i]
    <2>1. outbox'[p] \in Seq(Envelopes)
      BY SaveAppends
    <2>2. DOMAIN outbox[p] = 1..len /\ DOMAIN outbox'[p] = 1..(len + Len(names))
      BY <1>1, <2>1, SaveAppends
    <2>3. \A i \in 1..len : outbox'[p][i] = outbox[p][i]
      BY SaveAppends
    <2>4. ASSUME NEW i \in 1..Len(names) PROVE outbox'[p][len + i].name = names[i]
      <3>1. outbox'[p][len + i] = [name |-> names[i], version |-> g.version + i]
        BY SaveAppends
      <3> QED BY <3>1
    <2> HIDE DEF len
    <2> QED BY <2>2, <2>3, <2>4
  <1> HIDE DEF len
  <1>3. \A i \in DOMAIN outbox'[p] : i \in 1..len \/ \E j \in 1..Len(names) : i = len + j
    <2> SUFFICES ASSUME NEW i \in 1..(len + Len(names)), i \notin 1..len
                 PROVE  \E j \in 1..Len(names) : i = len + j
      BY <1>2
    <2>1. i - len \in 1..Len(names) /\ i = len + (i - len)
      BY <1>1
    <2> QED BY <2>1
  <1>4. \A j \in 1..Len(names) : len + j \in DOMAIN outbox'[p] /\ len + j > len /\ len + j \in Nat
    BY <1>1, <1>2
  <1>5. 1..len \subseteq DOMAIN outbox'[p]
    BY <1>1, <1>2
  <1>6. Published(p, n)' = Published(p, n) \cup { len + j : j \in { l \in 1..Len(names) : names[l] = n } }
    BY <1>2, <1>3, <1>4, <1>5, SMTT(30) DEF Published
  <1>7. \A q \in Payments \ {p} : Published(q, n)' = Published(q, n)
    BY SaveAppends DEF Published
  <1> QED BY <1>6, <1>7 DEF len

\* A final name is published once more exactly when the status moves to it.
LEMMA SavePublishes ==
    ASSUME TypeOK, NEW p \in Payments, NEW g, NEW names, NEW h, Saved(p, g, names, h),
           NEW n \in FinalNames
    PROVE  /\ ~(h.status # g.status /\ n = FinalName(h.status)) =>
                 Published(p, n)' = Published(p, n)
           /\ h.status # g.status /\ n = FinalName(h.status) =>
                 \E k \in Nat : k > Len(outbox[p]) /\ Published(p, n)' = Published(p, n) \cup {k}
           /\ \A q \in Payments \ {p} : Published(q, n)' = Published(q, n)
  <1>1. Len(outbox[p]) \in Nat /\ Len(names) \in Nat
    BY DEF TypeOK, Saved, Booking
  <1>6. Published(p, n)' = Published(p, n)
          \cup { Len(outbox[p]) + j : j \in { l \in 1..Len(names) : names[l] = n } }
    BY SaveAdds
  <1>7. \A q \in Payments \ {p} : Published(q, n)' = Published(q, n)
    BY SaveAdds
  <1>8. CASE ~(h.status # g.status /\ n = FinalName(h.status))
    <2>1. { l \in 1..Len(names) : names[l] = n } = {}
      BY <1>8 DEF Saved, Booking
    <2> QED BY <1>6, <1>7, <1>8, <2>1
  <1>9. CASE h.status # g.status /\ n = FinalName(h.status)
    <2>1. PICK j \in 1..Len(names) : names[j] = n
      BY <1>9 DEF Saved, Booking
    <2>2. { l \in 1..Len(names) : names[l] = n } = {j}
      BY <2>1 DEF Saved, Booking
    <2>3. Published(p, n)' = Published(p, n) \cup {Len(outbox[p]) + j}
      BY <1>6, <2>2
    <2>4. Len(outbox[p]) + j \in Nat /\ Len(outbox[p]) + j > Len(outbox[p])
      BY <1>1
    <2> QED BY <1>7, <1>9, <2>3, <2>4
  <1> QED BY <1>8, <1>9

\* The processed events of a save are the final one, unless that is a failure.
LEMMA SaveProcesses ==
    ASSUME NEW p, NEW g, NEW names, NEW h, Booking(g, names, h)
    PROVE  ProcessedKeys(p, names) =
             { << p, n >> : n \in { x \in ProcessedNames : h.status # g.status /\ x = FinalName(h.status) } }
  <1>1. \A i \in 1..Len(names) : names[i] \in ProcessedNames =>
           h.status # g.status /\ names[i] = FinalName(h.status)
    BY DEF Booking, FinalNames
  <1>2. ASSUME NEW n \in ProcessedNames, h.status # g.status, n = FinalName(h.status)
        PROVE  \E i \in 1..Len(names) : names[i] = n
    BY <1>2 DEF Booking, FinalNames
  <1> QED BY <1>1, <1>2 DEF ProcessedKeys

-----------------------------------------------------------------------------
(* The inductive invariant *)

Paid == {"SUCCESS", "REFUNDED", "CHARGEBACK"}

\* The tables, whoever wrote them: a processed event is a published one, final
\* events are published once, and whoever holds a paid aggregate, or the row,
\* has the success published.
EventsInv ==
    /\ \A p \in Payments, n \in ProcessedNames :
          /\ << p, n >> \in processed <=> Published(p, n) # {}
          /\ \A i, j \in Published(p, n) : i = j
    /\ \A p \in Payments : intents[p].status \in Paid => Published(p, "PaymentSucceeded") # {}
    /\ ReversalFollowsSuccess
    /\ EventsAreTrue

\* Of a payment whose lock never expired under its holder: the status tells
\* what was published.
OutcomeInv ==
    \A p \in Payments \ expired :
        LET st == intents[p].status
        IN  /\ Published(p, "PaymentSucceeded") # {} => st \in Paid
            /\ Published(p, "PaymentFailed") # {} => st = "FAILED"
            /\ Published(p, "PaymentRefunded") # {} => st = "REFUNDED"
            /\ Published(p, "PaymentChargeback") # {} => st = "CHARGEBACK"
            /\ \A i, j \in Published(p, "PaymentFailed") : i = j

\* What a worker holds was true at some time: its aggregate, and the result
\* that the provider or a webhook gave it.
Backed(w) ==
    /\ mem[w].status \in Paid => Published(payment[w], "PaymentSucceeded") # {}
    /\ result[w].status = "SUCCESS" /\ result[w].amount = "whole" =>
          "paid" \in stripe[payment[w]] \/ payouts[payment[w]] > 0
    /\ result[w].status = "REFUNDED" => "refunded" \in stripe[payment[w]]
    /\ result[w].status = "CHARGEBACK" => "disputed" \in stripe[payment[w]]

\* Where a worker can be, by its request.
Shape(w) ==
    /\ intents[payment[w]] # NoIntent
    /\ kind[w] = "create" => pc[w] # "read" /\ payment[w] \in TopUps
    /\ kind[w] = "webhook" => pc[w] \in {"read", "apply"}
    /\ kind[w] = "refund" => pc[w] # "fail"
    /\ kind[w] = "withdraw" =>
          /\ payment[w] \in Withdrawals
          /\ pc[w] # "read" => mem[w].status = "CREATING"
          /\ pc[w] = "apply" => result[w].status = "SUCCESS" /\ result[w].amount = "whole"

\* CreatePayment takes no lock: until it is done, its caller has no session to
\* pay, so that nobody else gets past reading the payment.
Alone(w) ==
    /\ stripe[payment[w]] \subseteq {"open"}
    /\ mem[w] = intents[payment[w]] /\ mem[w].status = "CREATING"
    /\ \A v \in Workers \ {w} :
          pc[v] # "idle" /\ payment[v] = payment[w] => kind[v] = "refund" /\ pc[v] = "read"

\* Everyone else holds the lock and what the row says.
Exclusive(w) ==
    /\ lock[payment[w]] = w
    /\ pc[w] # "read" => mem[w] = intents[payment[w]]

WorkerInv(w) ==
    /\ Backed(w)
    /\ pc[w] # "idle" => Shape(w)
    /\ pc[w] # "idle" /\ kind[w] = "create" => Alone(w)
    /\ pc[w] # "idle" /\ kind[w] # "create" /\ payment[w] \notin expired => Exclusive(w)

WorkersInv == \A w \in Workers : WorkerInv(w)

FreshInv == \A p \in Payments : intents[p] = NoIntent => stripe[p] = {} /\ payouts[p] = 0

\* w has called the provider to pay out p and not saved it yet.
PayingOut(w, p) == payment[w] = p /\ kind[w] = "withdraw" /\ pc[w] \in {"apply", "fail"}

PayoutInv ==
    \A p \in Payments \ (expired \cup interrupted) :
        /\ payouts[p] <= 1
        /\ payouts[p] = 1 => \/ intents[p].status # "CREATING"
                             \/ \E w \in Workers : PayingOut(w, p)

Inv ==
    /\ TypeOK /\ EventsInv /\ SequentialVersions /\ OutcomeInv
    /\ WorkersInv /\ FreshInv /\ PayoutInv

LEMMA AnyPaymentIsOne == AnyPayment \in Payments
  BY PaymentsAssumption DEF AnyPayment

LEMMA InitInv == Init => Inv
  <1> SUFFICES ASSUME Init PROVE Inv
    OBVIOUS
  <1> USE DEF Init
  <1>1. NoIntent \in Intents /\ NoResult \in Results /\ NoIntent.status = "none" /\ NoIntent.version = 0
        /\ NoResult.status = "PENDING"
    BY DEF NoIntent, NoResult, Intents, Results, Statuses, Refs
  <1>2. TypeOK
    <2>1. /\ intents \in [Payments -> Intents] /\ older \in [Payments -> SUBSET Payments] /\ outbox \in [Payments -> Seq(Envelopes)]
          /\ lock \in [Payments -> Workers \cup {NoWorker, Dead}]
          /\ stripe \in [Payments -> SUBSET Facts] /\ payouts \in [Payments -> Nat]
      BY <1>1
    <2>2. /\ pc \in [Workers -> Phases] /\ kind \in [Workers -> Kinds]
          /\ payment \in [Workers -> Payments]
          /\ mem \in [Workers -> Intents] /\ result \in [Workers -> Results]
      BY <1>1, AnyPaymentIsOne DEF Phases, Kinds
    <2> QED BY <2>1, <2>2 DEF TypeOK
  <1>3. \A p \in Payments, n \in EventNames : Published(p, n) = {}
    BY DEF Published
  <1>4. ProcessedNames \subseteq EventNames /\ "PaymentFailed" \in EventNames
    BY DEF ProcessedNames, EventNames
  <1>5. \A p \in Payments : intents[p].status = "none" /\ intents[p].version = 0 /\ Len(outbox[p]) = 0
        /\ outbox[p] = << >>
    BY <1>1
  <1>6. EventsInv
    BY <1>3, <1>4, <1>5 DEF EventsInv, Paid, ReversalFollowsSuccess, EventsAreTrue, ProcessedNames
  <1>7. SequentialVersions
    BY <1>5 DEF SequentialVersions
  <1>8. OutcomeInv
    BY <1>3, <1>4 DEF OutcomeInv, ProcessedNames
  <1>9. WorkersInv /\ FreshInv /\ PayoutInv
    BY <1>1 DEF WorkersInv, WorkerInv, Backed, FreshInv, PayoutInv, Paid
  <1> QED BY <1>2, <1>6, <1>7, <1>8, <1>9 DEF Inv

-----------------------------------------------------------------------------
(* The tables *)

\* Nothing published, charged or paid out is taken back.
Grows ==
    /\ expired \subseteq expired'
    /\ \A q \in Payments :
          /\ Published(q, "PaymentSucceeded") \subseteq Published(q, "PaymentSucceeded")'
          /\ stripe[q] \subseteq stripe'[q]
          /\ payouts[q] \in Nat /\ payouts'[q] \in Nat /\ payouts[q] <= payouts'[q]
          /\ intents[q] # NoIntent => intents'[q] # NoIntent

TablesInv == EventsInv /\ SequentialVersions /\ OutcomeInv

\* The same tables.
LEMMA TablesUnchanged ==
    ASSUME Inv, UNCHANGED tables, expired \subseteq expired',
           payouts' \in [Payments -> Nat],
           \A q \in Payments : stripe[q] \subseteq stripe'[q] /\ payouts[q] <= payouts'[q]
    PROVE  TablesInv' /\ Grows
  <1>1. /\ UNCHANGED << intents, older, processed, outbox >>
        /\ \A q, n : Published(q, n)' = Published(q, n)
        /\ \A q \in Payments : payouts[q] \in Nat /\ payouts'[q] \in Nat
    BY DEF tables, Published, Inv, TypeOK
  <1>2. EventsInv'
    <2>1. EventsAreTrue'
      BY <1>1 DEF Inv, EventsInv, EventsAreTrue
    <2>2. ReversalFollowsSuccess'
      BY <1>1 DEF Inv, EventsInv, ReversalFollowsSuccess
    <2> QED BY <1>1, <2>1, <2>2 DEF Inv, EventsInv
  <1>3. SequentialVersions' /\ OutcomeInv'
    BY <1>1 DEF Inv, SequentialVersions, OutcomeInv
  <1> QED BY <1>1, <1>2, <1>3 DEF TablesInv, Grows

\* Where a new status comes from.
LEMMA NewStatus ==
    ASSUME NEW g, NEW names, NEW h, Booking(g, names, h)
    PROVE  /\ h # NoIntent
           /\ h.status # g.status =>
                 /\ h.status \in {"SUCCESS", "FAILED"} => g.status \in {"CREATING", "PENDING"}
                 /\ h.status \in {"REFUNDED", "CHARGEBACK"} => g.status = "SUCCESS"
                 /\ h.status = "CREATING" => g = NoIntent
                 /\ g.status \in {"CREATING", "PENDING", "SUCCESS", "none"}
                 /\ g.status = "SUCCESS" => h.status \in {"REFUNDED", "CHARGEBACK"}
           /\ \A st : /\ FinalName(st) = "PaymentSucceeded" <=> st = "SUCCESS"
                      /\ FinalName(st) = "PaymentFailed" <=> st = "FAILED"
                      /\ FinalName(st) = "PaymentRefunded" <=> st = "REFUNDED"
                      /\ FinalName(st) = "PaymentChargeback" <=> st = "CHARGEBACK"
  <1>1. h # NoIntent
    <2>1. h.version >= 1
      BY DEF Booking, Intents
    <2>2. NoIntent.version = 0
      BY DEF NoIntent
    <2> QED BY <2>1, <2>2
  <1>2. \A st : /\ FinalName(st) = "PaymentSucceeded" <=> st = "SUCCESS"
                /\ FinalName(st) = "PaymentFailed" <=> st = "FAILED"
                /\ FinalName(st) = "PaymentRefunded" <=> st = "REFUNDED"
                /\ FinalName(st) = "PaymentChargeback" <=> st = "CHARGEBACK"
    BY DEF FinalName
  <1>3. h.status # g.status => h.status \in PaymentTransitions(g.status) \/ (g = NoIntent /\ h.status = "CREATING")
    BY DEF Booking
  <1>4. NoIntent.status = "none"
    BY DEF NoIntent
  <1> QED BY <1>1, <1>2, <1>3, <1>4 DEF PaymentTransitions

\* A save that went through.
LEMMA TablesSaved ==
    ASSUME Inv, NEW p \in Payments, NEW g, NEW names, NEW h, Saved(p, g, names, h),
           expired' = expired, payouts' = payouts,
           \A q \in Payments : stripe[q] \subseteq stripe'[q],
           p \notin expired => g = intents[p],
           g.status \in Paid => Published(p, "PaymentSucceeded") # {},
           h.status # g.status =>
              /\ h.status = "SUCCESS" => "paid" \in stripe[p] \/ payouts[p] > 0
              /\ h.status = "REFUNDED" => "refunded" \in stripe[p]
              /\ h.status = "CHARGEBACK" => "disputed" \in stripe[p]
    PROVE  TablesInv' /\ Grows /\ intents'[p] = h
  <1> DEFINE new == h.status # g.status
             fn == FinalName(h.status)
  <1>1. TypeOK /\ EventsInv /\ SequentialVersions /\ OutcomeInv /\ Booking(g, names, h)
    BY DEF Inv, Saved
  <1>2. /\ intents'[p] = h
        /\ \A q \in Payments \ {p} : intents'[q] = intents[q]
    BY <1>1 DEF Saved, TypeOK
  <1>3. \A n \in FinalNames :
          /\ \A q \in Payments \ {p} : Published(q, n)' = Published(q, n)
          /\ ~(new /\ n = fn) => Published(p, n)' = Published(p, n)
          /\ new /\ n = fn =>
                \E k \in Nat : k > Len(outbox[p]) /\ Published(p, n)' = Published(p, n) \cup {k}
    BY <1>1, SavePublishes
  <1>4. FinalNames = {"PaymentSucceeded", "PaymentRefunded", "PaymentChargeback", "PaymentFailed"}
        /\ ProcessedNames = {"PaymentSucceeded", "PaymentRefunded", "PaymentChargeback"}
    BY DEF FinalNames, ProcessedNames
  <1>5. /\ h # NoIntent
        /\ new => /\ h.status \in {"SUCCESS", "FAILED"} => g.status \in {"CREATING", "PENDING"}
                  /\ h.status \in {"REFUNDED", "CHARGEBACK"} => g.status = "SUCCESS"
                  /\ g.status \in {"CREATING", "PENDING", "SUCCESS", "none"}
                  /\ g.status = "SUCCESS" => h.status \in {"REFUNDED", "CHARGEBACK"}
        /\ fn = "PaymentSucceeded" <=> h.status = "SUCCESS"
        /\ fn = "PaymentFailed" <=> h.status = "FAILED"
        /\ fn = "PaymentRefunded" <=> h.status = "REFUNDED"
        /\ fn = "PaymentChargeback" <=> h.status = "CHARGEBACK"
    BY <1>1, NewStatus
  <1>6. \A q \in Payments, n \in FinalNames : Published(q, n) \subseteq Published(q, n)'
    BY <1>3
  <1>7. Grows
    <2>1. \A q \in Payments : payouts[q] \in Nat
      BY <1>1 DEF TypeOK
    <2> QED BY <1>2, <1>4, <1>5, <1>6, <2>1 DEF Grows
  <1>8. /\ \A q \in Payments \ {p} : \A n : << q, n >> \in processed' <=> << q, n >> \in processed
        /\ \A n \in ProcessedNames : << p, n >> \in processed' <=>
              << p, n >> \in processed \/ (new /\ n = fn)
        /\ \A n \in ProcessedNames : new /\ n = fn => << p, n >> \notin processed
    <2>1. ProcessedKeys(p, names) = { << p, n >> : n \in { x \in ProcessedNames : new /\ x = fn } }
      BY <1>1, SaveProcesses
    <2> HIDE DEF new, fn
    <2>2. processed' = processed \cup ProcessedKeys(p, names) /\ ProcessedKeys(p, names) \cap processed = {}
      BY DEF Saved
    <2> QED BY <2>1, <2>2
  <1> HIDE DEF new, fn
  <1>9. \A q \in Payments, n \in ProcessedNames :
          /\ << q, n >> \in processed' <=> Published(q, n)' # {}
          /\ \A i, j \in Published(q, n)' : i = j
    <2> SUFFICES ASSUME NEW q \in Payments, NEW n \in ProcessedNames
                 PROVE  /\ << q, n >> \in processed' <=> Published(q, n)' # {}
                        /\ \A i, j \in Published(q, n)' : i = j
      OBVIOUS
    <2>1. /\ << q, n >> \in processed <=> Published(q, n) # {}
          /\ \A i, j \in Published(q, n) : i = j
          /\ n \in FinalNames
      BY <1>1, <1>4 DEF EventsInv
    <2>2. CASE q = p /\ new /\ n = fn
      <3>1. PICK k \in Nat : Published(p, n)' = Published(p, n) \cup {k}
        BY <1>3, <2>1, <2>2
      <3> QED BY <1>8, <2>1, <2>2, <3>1
    <2>3. CASE ~(q = p /\ new /\ n = fn)
      BY <1>3, <1>8, <2>1, <2>3
    <2> QED BY <2>2, <2>3
  <1>10. \A q \in Payments : intents'[q].status \in Paid => Published(q, "PaymentSucceeded")' # {}
    <2>1. h.status \in Paid => Published(p, "PaymentSucceeded")' # {}
      <3>1. CASE new /\ h.status = "SUCCESS"
        BY <1>3, <1>4, <1>5, <3>1
      <3>2. CASE ~new \/ h.status # "SUCCESS"
        BY <1>4, <1>5, <1>6, <3>2 DEF Paid, new
      <3> QED BY <3>1, <3>2
    <2> QED BY <1>1, <1>2, <1>4, <1>6, <2>1 DEF EventsInv
  <1>11. ReversalFollowsSuccess'
    <2> SUFFICES ASSUME NEW q \in Payments, NEW n \in {"PaymentRefunded", "PaymentChargeback"},
                        NEW i \in Published(q, n)'
                 PROVE  \E j \in Published(q, "PaymentSucceeded")' : j < i
      BY DEF ReversalFollowsSuccess
    <2>1. CASE i \in Published(q, n)
      BY <1>1, <1>4, <1>6, <2>1 DEF EventsInv, ReversalFollowsSuccess
    <2>2. CASE i \notin Published(q, n)
      <3>1. q = p /\ new /\ n = fn
        BY <1>3, <1>4, <2>2
      <3>2. i \in Nat /\ i > Len(outbox[p])
        BY <1>3, <1>4, <2>2, <3>1
      <3>3. Published(p, "PaymentSucceeded") # {}
        BY <1>5, <3>1 DEF Paid
      <3>4. PICK j \in Published(p, "PaymentSucceeded") : TRUE
        BY <3>3
      <3>5. j \in 1..Len(outbox[p]) /\ Len(outbox[p]) \in Nat
        BY <1>1 DEF Published, TypeOK
      <3> QED BY <1>4, <1>6, <3>1, <3>2, <3>5
    <2> QED BY <2>1, <2>2
  <1>12. EventsAreTrue'
    <2> SUFFICES ASSUME NEW q \in Payments
                 PROVE  /\ Published(q, "PaymentSucceeded")' # {} => "paid" \in stripe'[q] \/ payouts'[q] > 0
                        /\ Published(q, "PaymentRefunded")' # {} => "refunded" \in stripe'[q]
                        /\ Published(q, "PaymentChargeback")' # {} => "disputed" \in stripe'[q]
      BY DEF EventsAreTrue
    <2>1. /\ Published(q, "PaymentSucceeded") # {} => "paid" \in stripe[q] \/ payouts[q] > 0
          /\ Published(q, "PaymentRefunded") # {} => "refunded" \in stripe[q]
          /\ Published(q, "PaymentChargeback") # {} => "disputed" \in stripe[q]
      BY <1>1 DEF EventsInv, EventsAreTrue
    <2>2. \A n \in FinalNames : Published(q, n)' # Published(q, n) => q = p /\ new /\ n = fn
      BY <1>3
    <2>3. stripe[q] \subseteq stripe'[q] /\ payouts'[q] = payouts[q]
      OBVIOUS
    <2> QED BY <1>4, <1>5, <2>1, <2>2, <2>3 DEF new
  <1>13. EventsInv'
    BY <1>9, <1>10, <1>11, <1>12 DEF EventsInv
  <1>14. SequentialVersions'
    <2> SUFFICES ASSUME NEW q \in Payments \ expired
                 PROVE  /\ \A i \in DOMAIN outbox'[q] : outbox'[q][i].version = i
                        /\ intents'[q].version = Len(outbox'[q])
      BY DEF SequentialVersions
    <2>1. CASE q # p
      <3>1. outbox'[q] = outbox[q] /\ intents'[q] = intents[q]
        BY <1>1, <1>2, <2>1, SaveAppends
      <3> QED BY <1>1, <3>1 DEF SequentialVersions
    <2>2. CASE q = p
      <3> DEFINE len == Len(outbox[p])
      <3>1. /\ g.version = len /\ len \in Nat /\ Len(names) \in Nat
            /\ \A i \in 1..len : outbox[p][i].version = i
        BY <1>1, <2>2 DEF SequentialVersions, TypeOK, Booking
      <3>2. h.version = len + Len(names)
        BY <1>1, <3>1 DEF Booking
      <3>3. /\ outbox'[p] \in Seq(Envelopes) /\ Len(outbox'[p]) = len + Len(names)
            /\ \A i \in 1..len : outbox'[p][i] = outbox[p][i]
            /\ \A i \in 1..Len(names) :
                  outbox'[p][len + i] = [name |-> names[i], version |-> g.version + i]
        BY <1>1, SaveAppends
      <3> HIDE DEF len
      <3>4. ASSUME NEW i \in 1..(len + Len(names)) PROVE outbox'[p][i].version = i
        <4>1. CASE i <= len
          BY <3>1, <3>3, <4>1
        <4>2. CASE i > len
          <5>1. i - len \in 1..Len(names) /\ i = len + (i - len)
            BY <3>1, <4>2
          <5>2. outbox'[p][i] = [name |-> names[i - len], version |-> g.version + (i - len)]
            BY <3>3, <5>1
          <5> QED BY <3>1, <5>1, <5>2
        <4> QED BY <3>1, <4>1, <4>2
      <3>5. DOMAIN outbox'[p] = 1..(len + Len(names))
        BY <3>3
      <3> QED BY <1>2, <2>2, <3>2, <3>3, <3>4, <3>5
    <2> QED BY <2>1, <2>2
  <1>15. OutcomeInv'
    <2> SUFFICES ASSUME NEW q \in Payments \ expired
                 PROVE  /\ Published(q, "PaymentSucceeded")' # {} => intents'[q].status \in Paid
                        /\ Published(q, "PaymentFailed")' # {} => intents'[q].status = "FAILED"
                        /\ Published(q, "PaymentRefunded")' # {} => intents'[q].status = "REFUNDED"
                        /\ Published(q, "PaymentChargeback")' # {} => intents'[q].status = "CHARGEBACK"
                        /\ \A i, j \in Published(q, "PaymentFailed")' : i = j
      BY DEF OutcomeInv
    <2>1. LET st == intents[q].status
          IN  /\ Published(q, "PaymentSucceeded") # {} => st \in Paid
              /\ Published(q, "PaymentFailed") # {} => st = "FAILED"
              /\ Published(q, "PaymentRefunded") # {} => st = "REFUNDED"
              /\ Published(q, "PaymentChargeback") # {} => st = "CHARGEBACK"
              /\ \A i, j \in Published(q, "PaymentFailed") : i = j
      BY <1>1 DEF OutcomeInv
    <2>2. CASE q # p
      BY <1>2, <1>3, <1>4, <2>1, <2>2
    <2>3. CASE q = p /\ ~new
      BY <1>2, <1>3, <1>4, <2>1, <2>3 DEF new
    <2>4. CASE q = p /\ new
      <3>1. g = intents[q] /\ intents'[q] = h
        BY <1>2, <2>4
      <3>2. /\ fn # "PaymentSucceeded" => Published(q, "PaymentSucceeded")' = Published(q, "PaymentSucceeded")
            /\ fn # "PaymentFailed" => Published(q, "PaymentFailed")' = Published(q, "PaymentFailed")
            /\ fn # "PaymentRefunded" => Published(q, "PaymentRefunded")' = Published(q, "PaymentRefunded")
            /\ fn # "PaymentChargeback" => Published(q, "PaymentChargeback")' = Published(q, "PaymentChargeback")
        BY <1>3, <1>4, <2>4
      <3>3. fn = "PaymentFailed" => \E k : Published(q, "PaymentFailed")' = {k}
        <4> SUFFICES ASSUME fn = "PaymentFailed" PROVE \E k : Published(q, "PaymentFailed")' = {k}
          OBVIOUS
        <4>1. Published(q, "PaymentFailed") = {}
          BY <1>5, <2>1, <2>4, <3>1
        <4> QED BY <1>3, <1>4, <2>4, <4>1
      <3>4. /\ Published(q, "PaymentFailed")' # {} => h.status = "FAILED"
            /\ \A i, j \in Published(q, "PaymentFailed")' : i = j
        BY <1>5, <2>1, <2>4, <3>1, <3>2, <3>3
      <3>5. Published(q, "PaymentSucceeded")' # {} => h.status \in Paid
        BY <1>5, <2>1, <2>4, <3>1, <3>2 DEF Paid
      <3>6. /\ Published(q, "PaymentRefunded")' # {} => h.status = "REFUNDED"
            /\ Published(q, "PaymentChargeback")' # {} => h.status = "CHARGEBACK"
        BY <1>5, <2>1, <2>4, <3>1, <3>2
      <3> QED BY <3>1, <3>4, <3>5, <3>6
    <2> QED BY <2>2, <2>3, <2>4
  <1> QED BY <1>2, <1>7, <1>13, <1>14, <1>15 DEF TablesInv

-----------------------------------------------------------------------------
(* The workers *)

\* The step does not touch what v holds.
Still(v) ==
    /\ pc'[v] = pc[v] /\ kind'[v] = kind[v] /\ payment'[v] = payment[v]
    /\ mem'[v] = mem[v] /\ result'[v] = result[v]

\* What a step must leave alone for v: the payment v has just created, or the
\* lock it holds and the row it has read.
Spared(v) ==
    pc[v] # "idle" =>
      /\ kind[v] = "create" =>
            /\ stripe'[payment[v]] \subseteq {"open"}
            /\ intents'[payment[v]] = intents[payment[v]]
            /\ \A u \in Workers \ {v} :
                  pc'[u] # "idle" /\ payment'[u] = payment[v] => kind'[u] = "refund" /\ pc'[u] = "read"
      /\ kind[v] # "create" /\ payment[v] \notin expired' =>
            /\ lock[payment[v]] = v => lock'[payment[v]] = v
            /\ pc[v] # "read" => intents'[payment[v]] = intents[payment[v]]

LEMMA StillWorker ==
    ASSUME Inv, NEW v \in Workers, Still(v), Spared(v), Grows
    PROVE  WorkerInv(v)'
  <1>1. WorkerInv(v) /\ payment[v] \in Payments
    BY DEF Inv, WorkersInv, TypeOK
  <1>2. Backed(v)'
    <2>1. payouts[payment[v]] > 0 => payouts'[payment[v]] > 0
      BY <1>1 DEF Grows
    <2>2. PICK q \in Payments : q = payment[v] /\ q = payment'[v]
      BY <1>1 DEF Still
    <2>3. /\ Published(q, "PaymentSucceeded") \subseteq Published(q, "PaymentSucceeded")'
          /\ stripe[q] \subseteq stripe'[q]
      BY DEF Grows
    <2> QED BY <1>1, <2>1, <2>2, <2>3 DEF WorkerInv, Backed, Still, Published
  <1>3. pc'[v] # "idle" => Shape(v)'
    BY <1>1 DEF WorkerInv, Shape, Still, Grows
  <1>4. pc'[v] # "idle" /\ kind'[v] = "create" => Alone(v)'
    BY <1>1 DEF WorkerInv, Alone, Still, Spared
  <1>5. pc'[v] # "idle" /\ kind'[v] # "create" /\ payment'[v] \notin expired' => Exclusive(v)'
    BY <1>1 DEF WorkerInv, Exclusive, Still, Spared, Grows
  <1> QED BY <1>2, <1>3, <1>4, <1>5 DEF WorkerInv

\* Forgetting a request.
LEMMA ForgetFrame ==
    ASSUME TypeOK, NEW w \in Workers, Forget(w)
    PROVE  /\ pc' \in [Workers -> Phases] /\ kind' \in [Workers -> Kinds]
           /\ payment' \in [Workers -> Payments]
           /\ mem' \in [Workers -> Intents] /\ result' \in [Workers -> Results]
           /\ pc'[w] = "idle" /\ mem'[w] = NoIntent /\ result'[w] = NoResult
           /\ \A v \in Workers \ {w} : Still(v)
  <1>1. NoIntent \in Intents /\ NoResult \in Results
    BY DEF NoIntent, NoResult, Intents, Results, Statuses, Refs
  <1>2. pc' \in [Workers -> Phases] /\ kind' \in [Workers -> Kinds]
    BY DEF TypeOK, Forget, Phases, Kinds
  <1>3. payment' \in [Workers -> Payments]
    BY AnyPaymentIsOne DEF TypeOK, Forget
  <1>4. mem' \in [Workers -> Intents] /\ result' \in [Workers -> Results]
    BY <1>1 DEF TypeOK, Forget
  <1>5. pc'[w] = "idle" /\ mem'[w] = NoIntent /\ result'[w] = NoResult
    BY DEF TypeOK, Forget
  <1>6. \A v \in Workers \ {w} : Still(v)
    BY DEF TypeOK, Forget, Still
  <1> QED BY <1>2, <1>3, <1>4, <1>5, <1>6

LEMMA IdleWorker ==
    ASSUME TypeOK, NEW w \in Workers, Forget(w)
    PROVE  WorkerInv(w)'
  <1>1. pc'[w] = "idle" /\ mem'[w] = NoIntent /\ result'[w] = NoResult
    BY ForgetFrame
  <1>2. NoIntent.status = "none" /\ NoResult.status = "PENDING"
    BY DEF NoIntent, NoResult
  <1> QED BY <1>1, <1>2 DEF WorkerInv, Backed, Paid

\* Beginning a request.
LEMMA StartFrame ==
    ASSUME TypeOK, NEW w \in Workers, NEW k \in Kinds, NEW p \in Payments, NEW phase \in Phases,
           NEW g \in Intents, NEW r \in Results, Start(w, k, p, phase, g, r)
    PROVE  /\ pc' \in [Workers -> Phases] /\ kind' \in [Workers -> Kinds]
           /\ payment' \in [Workers -> Payments]
           /\ mem' \in [Workers -> Intents] /\ result' \in [Workers -> Results]
           /\ pc[w] = "idle" /\ pc'[w] = phase /\ kind'[w] = k /\ payment'[w] = p
           /\ mem'[w] = g /\ result'[w] = r
           /\ \A v \in Workers \ {w} : Still(v)
  <1>1. pc' \in [Workers -> Phases] /\ kind' \in [Workers -> Kinds]
    BY DEF TypeOK, Start
  <1>2. payment' \in [Workers -> Payments]
    BY DEF TypeOK, Start
  <1>3. mem' \in [Workers -> Intents] /\ result' \in [Workers -> Results]
    BY DEF TypeOK, Start
  <1>4. /\ pc[w] = "idle" /\ pc'[w] = phase /\ kind'[w] = k /\ payment'[w] = p
        /\ mem'[w] = g /\ result'[w] = r
    BY DEF TypeOK, Start
  <1>5. \A v \in Workers \ {w} : Still(v)
    BY DEF TypeOK, Start, Still
  <1> QED BY <1>1, <1>2, <1>3, <1>4, <1>5

\* A worker past its read keeps the others from the row, and is kept from
\* it by them: whoever else is at the same payment has not read it yet.
LEMMA AtMostOneInside ==
    ASSUME Inv, NEW w \in Workers, NEW v \in Workers \ {w},
           pc[w] # "idle", pc[v] # "idle", payment[v] = payment[w], pc[w] # "read",
           payment[w] \notin expired \/ kind[v] = "create" \/ kind[w] = "create"
    PROVE  /\ kind[v] # "create"
           /\ pc[v] # "read" => kind[w] # "create" /\ payment[w] \in expired
           /\ kind[w] # "create" => payment[w] \in expired
  <1>1. WorkerInv(w) /\ WorkerInv(v)
    BY DEF Inv, WorkersInv
  <1>2. kind[v] # "create"
    BY <1>1 DEF WorkerInv, Alone
  <1>3. CASE kind[w] = "create"
    BY <1>1, <1>2, <1>3 DEF WorkerInv, Alone
  <1>4. CASE kind[w] # "create"
    BY <1>1, <1>2, <1>4 DEF WorkerInv, Exclusive
  <1> QED BY <1>2, <1>3, <1>4

\* The row of w's payment may be written by w once w is past its read.
LEMMA WriterSpares ==
    ASSUME Inv, NEW w \in Workers, pc[w] \notin {"idle", "read"},
           \A u \in Workers \ {w} : Still(u), pc'[w] = "idle" \/ payment'[w] = payment[w],
           \A q \in Payments \ {payment[w]} :
              intents'[q] = intents[q] /\ stripe'[q] = stripe[q],
           \A q \in Payments : lock[q] \in Workers \ {w} => lock'[q] = lock[q],
           expired' = expired,
           NEW v \in Workers \ {w}
    PROVE  Spared(v)
  <1>1. TypeOK /\ WorkerInv(v) /\ WorkerInv(w) /\ payment[v] \in Payments /\ payment[w] \in Payments
    BY DEF Inv, TypeOK, WorkersInv
  <1>2. CASE pc[v] # "idle" /\ kind[v] = "create"
    <2>1. payment[v] # payment[w]
      BY <1>1, <1>2, AtMostOneInside
    <2>2. \A u \in Workers \ {v} :
             pc'[u] # "idle" /\ payment'[u] = payment[v] => kind'[u] = "refund" /\ pc'[u] = "read"
      BY <1>1, <1>2, <2>1 DEF WorkerInv, Alone, Still
    <2> QED BY <1>1, <1>2, <2>1, <2>2 DEF Spared, WorkerInv, Alone
  <1>3. CASE pc[v] # "idle" /\ kind[v] # "create"
    <2>1. payment[v] \notin expired /\ pc[v] # "read" => payment[v] # payment[w]
      BY <1>1, <1>3, AtMostOneInside
    <2> QED BY <1>1, <1>3, <2>1 DEF Spared
  <1>4. CASE pc[v] = "idle"
    BY <1>4 DEF Spared
  <1> QED BY <1>2, <1>3, <1>4

\* Steps that leave the rows, the locks of others and Stripe alone.
LEMMA QuietSpares ==
    ASSUME Inv, NEW w \in Workers, NEW v \in Workers \ {w}, UNCHANGED << intents, stripe, expired >>,
           \A q \in Payments : lock[q] \in Workers \ {w} => lock'[q] = lock[q],
           \A u \in Workers \ {w} : Still(u),
           pc[v] # "idle" /\ kind[v] = "create" /\ pc'[w] # "idle" /\ payment'[w] = payment[v] =>
              kind'[w] = "refund" /\ pc'[w] = "read"
    PROVE  Spared(v)
  <1>1. WorkerInv(v) /\ payment[v] \in Payments
    BY DEF Inv, TypeOK, WorkersInv
  <1>2. CASE pc[v] # "idle" /\ kind[v] = "create"
    <2>1. \A u \in Workers \ {v} :
             pc'[u] # "idle" /\ payment'[u] = payment[v] => kind'[u] = "refund" /\ pc'[u] = "read"
      BY <1>1, <1>2 DEF WorkerInv, Alone, Still
    <2> QED BY <1>1, <1>2, <2>1 DEF Spared, WorkerInv, Alone
  <1>3. CASE pc[v] # "idle" /\ kind[v] # "create"
    BY <1>1, <1>3 DEF Spared
  <1>4. CASE pc[v] = "idle"
    BY <1>4 DEF Spared
  <1> QED BY <1>2, <1>3, <1>4

\* Everyone is still or is w.
LEMMA WorkersStep ==
    ASSUME Inv, Grows, NEW w \in Workers, WorkerInv(w)',
           \A v \in Workers \ {w} : Still(v) /\ Spared(v)
    PROVE  WorkersInv'
  BY StillWorker DEF WorkersInv

\* Payouts of the payments without a fault.
LEMMA PayoutsStep ==
    ASSUME Inv, expired \subseteq expired', interrupted \subseteq interrupted',
           \A q \in Payments \ (expired' \cup interrupted') :
              /\ payouts'[q] = payouts[q]
              /\ intents'[q].status = "CREATING" => intents[q].status = "CREATING" \/ payouts[q] = 0
              /\ \A v \in Workers : PayingOut(v, q) => PayingOut(v, q)' \/ intents'[q].status # "CREATING"
    PROVE  PayoutInv'
  <1> SUFFICES ASSUME NEW q \in Payments \ (expired' \cup interrupted')
               PROVE  /\ payouts'[q] <= 1
                      /\ payouts'[q] = 1 => \/ intents'[q].status # "CREATING"
                                            \/ \E w \in Workers : PayingOut(w, q)'
    BY DEF PayoutInv
  <1>1. /\ payouts[q] <= 1
        /\ payouts[q] = 1 => intents[q].status # "CREATING" \/ \E w \in Workers : PayingOut(w, q)
    BY DEF Inv, PayoutInv
  <1> QED BY <1>1

-----------------------------------------------------------------------------
(* Saving *)

LEMMA SaveCases ==
    ASSUME NEW p, NEW g, NEW names, NEW h, Booking(g, names, h), Save(p, g, names, h)
    PROVE  \/ Saved(p, g, names, h)
           \/ UNCHANGED tables /\ ProcessedKeys(p, names) \cap processed # {}
  BY DEF Save, Saved

LEMMA SavedType ==
    ASSUME TypeOK, NEW p \in Payments, NEW g, NEW names, NEW h, Saved(p, g, names, h)
    PROVE  /\ intents' \in [Payments -> Intents]
           /\ older' \in [Payments -> SUBSET Payments]
           /\ processed' \subseteq (Payments \X ProcessedNames)
           /\ outbox' \in [Payments -> Seq(Envelopes)]
           /\ \A q \in Payments \ {p} : intents'[q] = intents[q]
  <1>1. /\ intents' \in [Payments -> Intents]
        /\ \A q \in Payments \ {p} : intents'[q] = intents[q]
    BY DEF TypeOK, Saved, Booking
  <1>2. ProcessedKeys(p, names) \subseteq (Payments \X ProcessedNames)
    BY DEF ProcessedKeys
  <1>3. processed' \subseteq (Payments \X ProcessedNames)
    BY <1>2 DEF TypeOK, Saved
  <1>4. older' \in [Payments -> SUBSET Payments]
    BY DEF TypeOK, Saved, Inserted
  <1> QED BY <1>1, <1>3, <1>4, SaveAppends

\* A new payment: its row and its first events.
LEMMA CreatedTables ==
    ASSUME Inv, NEW p \in Payments, intents[p] = NoIntent,
           NEW names, NEW h, Booking(NoIntent, names, h), h.status = "CREATING",
           Save(p, NoIntent, names, h), UNCHANGED << stripe, payouts, history >>
    PROVE  /\ Saved(p, NoIntent, names, h) /\ h \in Intents
           /\ TablesInv' /\ Grows /\ FreshInv' /\ intents'[p] = h
  <1>1. NoIntent.status = "none"
    BY DEF NoIntent
  <1>2. ProcessedKeys(p, names) = {}
    <2>1. FinalName("CREATING") \notin ProcessedNames
      BY DEF FinalName, ProcessedNames
    <2>2. { x \in ProcessedNames : h.status # NoIntent.status /\ x = FinalName(h.status) } = {}
      BY <1>1, <2>1
    <2>3. ProcessedKeys(p, names) =
            { << p, n >> : n \in { x \in ProcessedNames : h.status # NoIntent.status /\ x = FinalName(h.status) } }
      BY <1>1, SaveProcesses
    <2> QED BY <2>2, <2>3
  <1>3. Saved(p, NoIntent, names, h)
    BY <1>1, <1>2, SaveCases
  <1>4. TablesInv' /\ Grows /\ intents'[p] = h
    <2>1. expired' = expired /\ payouts' = payouts /\ stripe' = stripe
      BY DEF history
    <2>2. NoIntent.status \notin Paid
      BY <1>1 DEF Paid
    <2> QED BY <1>1, <1>3, <2>1, <2>2, TablesSaved
  <1>5. FreshInv'
    <2>1. h # NoIntent
      BY <1>1
    <2>2. \A q \in Payments \ {p} : intents'[q] = intents[q]
      BY <1>3, SavedType DEF Inv
    <2> QED BY <1>4, <2>1, <2>2 DEF Inv, FreshInv
  <1>6. h \in Intents
    BY DEF Booking
  <1> QED BY <1>3, <1>4, <1>5, <1>6

-----------------------------------------------------------------------------
(* The actions *)

\* A worker stops with the tables as they are.
LEMMA LeaveInv ==
    ASSUME Inv, NEW w \in Workers, pc[w] # "idle", Forget(w),
           lock' \in [Payments -> Workers \cup {NoWorker, Dead}],
           \A q \in Payments : lock[q] \in Workers \ {w} => lock'[q] = lock[q],
           UNCHANGED << tables, payouts, expired >>,
           stripe' \in [Payments -> SUBSET Facts],
           \/ stripe' = stripe
           \/ /\ pc[w] # "read"
              /\ \A q \in Payments : stripe[q] \subseteq stripe'[q]
              /\ \A q \in Payments \ {payment[w]} : stripe'[q] = stripe[q],
           interrupted \subseteq interrupted', interrupted' \subseteq Payments,
           \A q \in Payments : PayingOut(w, q) => q \in expired \cup interrupted'
    PROVE  Inv'
  <1>1. TypeOK /\ WorkerInv(w) /\ payment[w] \in Payments /\ FreshInv
    BY DEF Inv, WorkersInv, TypeOK
  <1>2. /\ pc' \in [Workers -> Phases] /\ kind' \in [Workers -> Kinds]
        /\ payment' \in [Workers -> Payments]
        /\ mem' \in [Workers -> Intents] /\ result' \in [Workers -> Results]
        /\ pc'[w] = "idle" /\ \A v \in Workers \ {w} : Still(v)
    BY <1>1, ForgetFrame
  <1>3. TypeOK'
    BY <1>1, <1>2 DEF TypeOK, tables
  <1>4. \A q \in Payments : stripe[q] \subseteq stripe'[q]
    OBVIOUS
  <1>5. TablesInv' /\ Grows
    <2>1. \A q \in Payments : payouts[q] <= payouts'[q]
      BY <1>1 DEF TypeOK
    <2>2. payouts' \in [Payments -> Nat]
      BY <1>1 DEF TypeOK
    <2> QED BY <1>4, <2>1, <2>2, TablesUnchanged
  <1>6. ASSUME NEW v \in Workers \ {w} PROVE Spared(v)
    <2>1. intents' = intents
      BY DEF tables
    <2>2. CASE stripe' = stripe
      BY <1>2, <2>1, <2>2, QuietSpares
    <2>3. CASE /\ pc[w] # "read"
               /\ \A q \in Payments \ {payment[w]} : stripe'[q] = stripe[q]
      BY <1>2, <2>1, <2>3, WriterSpares
    <2> QED BY <2>2, <2>3
  <1>7. WorkersInv'
    <2>1. WorkerInv(w)'
      BY <1>1, IdleWorker
    <2> QED BY <1>2, <1>5, <1>6, <2>1, WorkersStep
  <1>8. FreshInv'
    <2>1. intents[payment[w]] # NoIntent
      BY <1>1 DEF WorkerInv, Shape
    <2>2. intents' = intents /\ payouts' = payouts
      BY DEF tables
    <2> QED BY <1>1, <2>1, <2>2 DEF FreshInv
  <1>9. PayoutInv'
    <2>1. \A q \in Payments \ (expired' \cup interrupted') : ~PayingOut(w, q)
      OBVIOUS
    <2>2. \A q, v : v \in Workers \ {w} /\ PayingOut(v, q) => PayingOut(v, q)'
      BY <1>2 DEF PayingOut, Still
    <2>3. intents' = intents /\ payouts' = payouts /\ expired' = expired
      BY DEF tables
    <2> QED BY <2>1, <2>2, <2>3, PayoutsStep
  <1> QED BY <1>3, <1>5, <1>7, <1>8, <1>9 DEF Inv, TablesInv

\* A worker saves what it made of its aggregate and returns.
LEMMA SaveAndReturn ==
    ASSUME Inv, NEW w \in Workers, pc[w] \in {"apply", "fail"}, Return(w),
           UNCHANGED << payouts, history >>,
           stripe' \in [Payments -> SUBSET Facts],
           \A q \in Payments : stripe[q] \subseteq stripe'[q],
           \A q \in Payments \ {payment[w]} : stripe'[q] = stripe[q],
           NEW names, NEW h, Saved(payment[w], mem[w], names, h),
           h.status # mem[w].status =>
              /\ h.status = "SUCCESS" => "paid" \in stripe[payment[w]] \/ payouts[payment[w]] > 0
              /\ h.status = "REFUNDED" => "refunded" \in stripe[payment[w]]
              /\ h.status = "CHARGEBACK" => "disputed" \in stripe[payment[w]],
           kind[w] = "withdraw" => h.status # "CREATING"
    PROVE  Inv'
  <1> DEFINE p == payment[w]
             g == mem[w]
  <1>1. TypeOK /\ WorkerInv(w) /\ p \in Payments /\ FreshInv /\ Forget(w) /\ ReleaseLock(w)
    BY DEF Inv, WorkersInv, TypeOK, Return
  <1>2. /\ pc' \in [Workers -> Phases] /\ kind' \in [Workers -> Kinds]
        /\ payment' \in [Workers -> Payments]
        /\ mem' \in [Workers -> Intents] /\ result' \in [Workers -> Results]
        /\ pc'[w] = "idle" /\ \A v \in Workers \ {w} : Still(v)
    BY <1>1, ForgetFrame
  <1>3. /\ lock' \in [Payments -> Workers \cup {NoWorker, Dead}]
        /\ \A q \in Payments : lock[q] \in Workers \ {w} => lock'[q] = lock[q]
    BY <1>1 DEF TypeOK, ReleaseLock
  <1>4. /\ intents' \in [Payments -> Intents]
        /\ older' \in [Payments -> SUBSET Payments]
        /\ processed' \subseteq (Payments \X ProcessedNames)
        /\ outbox' \in [Payments -> Seq(Envelopes)]
        /\ \A q \in Payments \ {p} : intents'[q] = intents[q]
    BY <1>1, SavedType
  <1>5. expired' = expired /\ interrupted' = interrupted /\ payouts' = payouts
    BY DEF history
  <1>6. TypeOK'
    BY <1>1, <1>2, <1>3, <1>4, <1>5 DEF TypeOK
  <1>7. /\ p \notin expired => g = intents[p]
        /\ g.status \in Paid => Published(p, "PaymentSucceeded") # {}
        /\ intents[p] # NoIntent
    BY <1>1 DEF WorkerInv, Alone, Exclusive, Shape, Backed
  <1>8. TablesInv' /\ Grows /\ intents'[p] = h
    BY <1>1, <1>5, <1>7, TablesSaved
  <1>9. WorkersInv'
    <2>1. \A v \in Workers \ {w} : Spared(v)
      BY <1>2, <1>3, <1>4, <1>5, WriterSpares
    <2>2. WorkerInv(w)'
      BY <1>1, IdleWorker
    <2> QED BY <1>2, <1>8, <2>1, <2>2, WorkersStep
  <1>10. Booking(g, names, h) /\ h # NoIntent
    BY NewStatus DEF Saved
  <1>11. FreshInv'
    BY <1>1, <1>4, <1>5, <1>8, <1>10 DEF FreshInv
  <1>12. PayoutInv'
    <2>1. h.status = "CREATING" /\ p \notin expired => intents[p].status = "CREATING"
      BY <1>7, <1>10, NewStatus
    <2>2. \A q, v : v \in Workers \ {w} /\ PayingOut(v, q) => PayingOut(v, q)'
      BY <1>2 DEF PayingOut, Still
    <2>3. \A q : PayingOut(w, q) => q = p /\ kind[w] = "withdraw"
      BY DEF PayingOut
    <2>4. ASSUME NEW q \in Payments \ (expired' \cup interrupted')
          PROVE  /\ payouts'[q] = payouts[q]
                 /\ intents'[q].status = "CREATING" => intents[q].status = "CREATING" \/ payouts[q] = 0
                 /\ \A v \in Workers : PayingOut(v, q) => PayingOut(v, q)' \/ intents'[q].status # "CREATING"
      BY <1>4, <1>5, <1>8, <2>1, <2>2, <2>3
    <2> QED BY <1>5, <2>4, PayoutsStep
  <1> QED BY <1>6, <1>8, <1>9, <1>11, <1>12 DEF Inv, TablesInv

\* A request takes the lock of its payment.
LEMMA AcquireInv ==
    ASSUME Inv, NEW w \in Workers, NEW k \in {"webhook", "refund", "withdraw"}, NEW p \in Payments,
           NEW r \in Results, Start(w, k, p, "read", NoIntent, r), AcquireLock(w, p),
           UNCHANGED << tables, stripe, payouts, history >>,
           intents[p] # NoIntent, k = "withdraw" => p \in Withdrawals,
           k = "webhook" => ~(stripe[p] \subseteq {"open"}),
           r.status = "SUCCESS" /\ r.amount = "whole" => "paid" \in stripe[p],
           r.status = "REFUNDED" => "refunded" \in stripe[p],
           r.status = "CHARGEBACK" => "disputed" \in stripe[p]
    PROVE  Inv'
  <1>1. TypeOK /\ FreshInv /\ WorkersInv
    BY DEF Inv
  <1>2. NoIntent \in Intents /\ NoIntent.status = "none" /\ k \in Kinds /\ "read" \in Phases
    BY DEF NoIntent, Intents, Statuses, Refs, Kinds, Phases
  <1>3. /\ pc' \in [Workers -> Phases] /\ kind' \in [Workers -> Kinds]
        /\ payment' \in [Workers -> Payments]
        /\ mem' \in [Workers -> Intents] /\ result' \in [Workers -> Results]
        /\ pc[w] = "idle" /\ pc'[w] = "read" /\ kind'[w] = k /\ payment'[w] = p
        /\ mem'[w] = NoIntent /\ result'[w] = r
        /\ \A v \in Workers \ {w} : Still(v)
    BY <1>1, <1>2, StartFrame
  <1>4. /\ lock' \in [Payments -> Workers \cup {NoWorker, Dead}] /\ lock'[p] = w
        /\ \A q \in Payments : lock[q] \in Workers \ {w} => lock'[q] = lock[q]
    BY <1>1, HoldersAssumption DEF TypeOK, AcquireLock
  <1>5. /\ UNCHANGED << intents, older, processed, outbox, stripe, payouts, expired, interrupted >>
    BY DEF tables, history
  <1>6. TypeOK'
    BY <1>1, <1>3, <1>4, <1>5 DEF TypeOK
  <1>7. TablesInv' /\ Grows
    <2>1. \A q \in Payments : payouts[q] <= payouts'[q]
      BY <1>1, <1>5 DEF TypeOK
    <2> QED BY <1>5, <1>6, <2>1, TablesUnchanged DEF TypeOK, tables
  <1>8. WorkersInv'
    <2>1. ASSUME NEW v \in Workers \ {w} PROVE Spared(v)
      <3>1. ASSUME pc[v] # "idle", kind[v] = "create", payment[v] = p PROVE k = "refund"
        <4>1. stripe[p] \subseteq {"open"} /\ p \in TopUps
          BY <1>1, <3>1 DEF WorkersInv, WorkerInv, Alone, Shape
        <4> QED BY <4>1, WorkflowsAssumption
      <3> QED BY <1>3, <1>4, <1>5, <3>1, QuietSpares
    <2>2. WorkerInv(w)'
      <3>1. Backed(w)'
        BY <1>2, <1>3, <1>5 DEF Backed, Paid
      <3>2. Shape(w)'
        BY <1>3, <1>5 DEF Shape
      <3>3. Exclusive(w)'
        BY <1>3, <1>4 DEF Exclusive
      <3> QED BY <1>3, <3>1, <3>2, <3>3 DEF WorkerInv
    <2> QED BY <1>3, <1>7, <2>1, <2>2, WorkersStep
  <1>9. FreshInv'
    BY <1>1, <1>5 DEF FreshInv
  <1>10. PayoutInv'
    <2>1. \A q, v : v \in Workers /\ PayingOut(v, q) => PayingOut(v, q)'
      BY <1>3 DEF PayingOut, Still
    <2> QED BY <1>5, <2>1, PayoutsStep
  <1> QED BY <1>6, <1>7, <1>8, <1>9, <1>10 DEF Inv, TablesInv

\* A payment begins.
LEMMA CreateWithdrawalInv ==
    ASSUME Inv, NEW p \in Payments, CreateWithdrawal(p)
    PROVE  Inv'
  <1> DEFINE names == << "PaymentCreated", "PaymentWithdrawalRequested" >>
             h == [status |-> "CREATING", ref |-> "", version |-> Len(names)]
  <1>1. /\ intents[p] = NoIntent /\ Save(p, NoIntent, names, h)
        /\ UNCHANGED << stripe, payouts, history >> /\ UNCHANGED << lock, locals >>
    BY DEF CreateWithdrawal
  <1>2. names \in {<< "PaymentCreated" >>, << "PaymentCreated", "PaymentWithdrawalRequested" >>}
    OBVIOUS
  <1> HIDE DEF names
  <1>3. Booking(NoIntent, names, h) /\ h.status = "CREATING"
    BY <1>2, CreationBooks
  <1> HIDE DEF h
  <1>4. /\ Saved(p, NoIntent, names, h) /\ TablesInv' /\ Grows /\ FreshInv' /\ intents'[p] = h
    BY <1>1, <1>3, CreatedTables
  <1>5. TypeOK /\ WorkersInv /\ FreshInv
    BY DEF Inv
  <1>6. /\ intents' \in [Payments -> Intents]
        /\ older' \in [Payments -> SUBSET Payments]
        /\ processed' \subseteq (Payments \X ProcessedNames)
        /\ outbox' \in [Payments -> Seq(Envelopes)]
        /\ \A q \in Payments \ {p} : intents'[q] = intents[q]
    BY <1>4, <1>5, SavedType
  <1>7. UNCHANGED << lock, pc, kind, payment, mem, result, stripe, payouts, expired, interrupted >>
    BY <1>1 DEF history, locals
  <1>8. TypeOK'
    BY <1>5, <1>6, <1>7 DEF TypeOK
  <1>9. ASSUME NEW v \in Workers PROVE WorkerInv(v)'
    <2>1. Still(v)
      BY <1>7 DEF Still
    <2>2. pc[v] # "idle" => payment[v] # p /\ payment[v] \in Payments
      BY <1>1, <1>5 DEF WorkersInv, WorkerInv, Shape, TypeOK
    <2>3. Spared(v)
      BY <1>5, <1>6, <1>7, <2>2 DEF Spared, WorkersInv, WorkerInv, Alone
    <2> QED BY <1>4, <2>1, <2>3, StillWorker
  <1>10. PayoutInv'
    <2>1. \A q, v : PayingOut(v, q)' <=> PayingOut(v, q)
      BY <1>7 DEF PayingOut
    <2>2. payouts[p] = 0
      BY <1>1, <1>5 DEF FreshInv
    <2> QED BY <1>6, <1>7, <2>1, <2>2, PayoutsStep
  <1> QED BY <1>4, <1>8, <1>9, <1>10 DEF Inv, TablesInv, WorkersInv

LEMMA CreatePaymentInv ==
    ASSUME Inv, NEW w \in Workers, NEW p \in Payments, CreatePayment(w, p)
    PROVE  Inv'
  <1> DEFINE names == << "PaymentCreated" >>
             h == [status |-> "CREATING", ref |-> "", version |-> Len(names)]
  <1>1. /\ intents[p] = NoIntent /\ p \in TopUps /\ Save(p, NoIntent, names, h)
        /\ Start(w, "create", p, "call", h, NoResult)
        /\ UNCHANGED << stripe, payouts, history >> /\ lock' = lock
    BY DEF CreatePayment
  <1>2. names \in {<< "PaymentCreated" >>, << "PaymentCreated", "PaymentWithdrawalRequested" >>}
    OBVIOUS
  <1> HIDE DEF names
  <1>3. Booking(NoIntent, names, h) /\ h.status = "CREATING"
    BY <1>2, CreationBooks
  <1> HIDE DEF h
  <1>4. /\ Saved(p, NoIntent, names, h) /\ h \in Intents
        /\ TablesInv' /\ Grows /\ FreshInv' /\ intents'[p] = h
    BY <1>1, <1>3, CreatedTables
  <1>5. TypeOK /\ WorkersInv /\ FreshInv
    BY DEF Inv
  <1>6. /\ intents' \in [Payments -> Intents]
        /\ older' \in [Payments -> SUBSET Payments]
        /\ processed' \subseteq (Payments \X ProcessedNames)
        /\ outbox' \in [Payments -> Seq(Envelopes)]
        /\ \A q \in Payments \ {p} : intents'[q] = intents[q]
    BY <1>4, <1>5, SavedType
  <1>7. UNCHANGED << lock, stripe, payouts, expired, interrupted >>
    BY <1>1 DEF history
  <1>8. NoResult \in Results /\ NoResult.status = "PENDING" /\ "create" \in Kinds /\ "call" \in Phases
    BY DEF NoResult, Results, Statuses, Refs, Kinds, Phases
  <1>9. /\ pc' \in [Workers -> Phases] /\ kind' \in [Workers -> Kinds]
        /\ payment' \in [Workers -> Payments]
        /\ mem' \in [Workers -> Intents] /\ result' \in [Workers -> Results]
        /\ pc[w] = "idle" /\ pc'[w] = "call" /\ kind'[w] = "create" /\ payment'[w] = p
        /\ mem'[w] = h /\ result'[w] = NoResult
        /\ \A v \in Workers \ {w} : Still(v)
    BY <1>1, <1>4, <1>5, <1>8, StartFrame
  <1>10. TypeOK'
    BY <1>5, <1>6, <1>7, <1>9 DEF TypeOK
  <1>11. \A v \in Workers : pc[v] # "idle" => payment[v] # p /\ payment[v] \in Payments
    BY <1>1, <1>5 DEF WorkersInv, WorkerInv, Shape, TypeOK
  <1>12. WorkersInv'
    <2>1. ASSUME NEW v \in Workers \ {w} PROVE Spared(v)
      <3>1. pc[v] # "idle" /\ kind[v] = "create" => Alone(v)
        BY <1>5 DEF WorkersInv, WorkerInv
      <3>2. pc[v] # "idle" => payment[v] # p /\ intents'[payment[v]] = intents[payment[v]]
        BY <1>6, <1>11
      <3>3. pc[v] # "idle" /\ kind[v] = "create" =>
              \A u \in Workers \ {v} :
                 pc'[u] # "idle" /\ payment'[u] = payment[v] => kind'[u] = "refund" /\ pc'[u] = "read"
        BY <1>9, <3>1, <3>2 DEF Alone, Still
      <3> QED BY <1>7, <3>1, <3>2, <3>3 DEF Spared, Alone
    <2>2. WorkerInv(w)'
      <3>1. Backed(w)'
        BY <1>3, <1>8, <1>9 DEF Backed, Paid
      <3>2. Shape(w)'
        <4>1. h # NoIntent
          BY <1>3, NewStatus
        <4> QED BY <1>1, <1>4, <1>9, <4>1 DEF Shape
      <3>3. Alone(w)'
        <4>1. stripe'[p] = {}
          BY <1>1, <1>5, <1>7 DEF FreshInv
        <4>2. \A v \in Workers \ {w} : pc'[v] # "idle" => payment'[v] # p
          BY <1>9, <1>11 DEF Still
        <4> QED BY <1>3, <1>4, <1>9, <4>1, <4>2 DEF Alone
      <3> QED BY <1>9, <3>1, <3>2, <3>3 DEF WorkerInv
    <2> QED BY <1>4, <1>9, <2>1, <2>2, WorkersStep
  <1>13. PayoutInv'
    <2>1. \A q, v : v \in Workers /\ PayingOut(v, q) => PayingOut(v, q)'
      BY <1>9 DEF PayingOut, Still
    <2>2. payouts[p] = 0
      BY <1>1, <1>5 DEF FreshInv
    <2> QED BY <1>6, <1>7, <2>1, <2>2, PayoutsStep
  <1> QED BY <1>4, <1>10, <1>12, <1>13 DEF Inv, TablesInv

\* What a webhook says happened at Stripe.
LEMMA WebhookBacked ==
    ASSUME NEW p, NEW r \in Webhooks(p)
    PROVE  /\ r \in Results /\ ~(stripe[p] \subseteq {"open"})
           /\ r.status = "SUCCESS" /\ r.amount = "whole" => "paid" \in stripe[p]
           /\ r.status = "REFUNDED" => "refunded" \in stripe[p]
           /\ r.status = "CHARGEBACK" => "disputed" \in stripe[p]
  <1>1. PICK f \in stripe[p] : r \in ParseEvent(f)
    BY DEF Webhooks
  <1>2. /\ f # "open" /\ r \in Results
        /\ r.status = "SUCCESS" /\ r.amount = "whole" => f = "paid"
        /\ r.status = "REFUNDED" => f = "refunded"
        /\ r.status = "CHARGEBACK" => f = "disputed"
    <2>1. ASSUME NEW st \in Statuses, NEW ref \in Refs, NEW a \in {"whole", "part"},
                 r = [status |-> st, ref |-> ref, amount |-> a]
          PROVE  r \in Results /\ r.status = st /\ r.amount = a
      BY <2>1 DEF Results
    <2>2. {"SUCCESS", "FAILED", "PENDING", "CANCELLED", "REFUNDED", "CHARGEBACK"} \subseteq Statuses
          /\ {"cs", "pi", "ch"} \subseteq Refs
      BY DEF Statuses, Refs
    <2>3. CASE f = "paid"
      <3>1. \E x \in {"cs", "pi", "ch"} : r = [status |-> "SUCCESS", ref |-> x, amount |-> "whole"]
        BY <1>1, <2>3 DEF ParseEvent
      <3> QED BY <2>1, <2>2, <2>3, <3>1
    <2>4. CASE f = "declined"
      <3>1. \E x \in {"pi", "ch"} : r = [status |-> "FAILED", ref |-> x, amount |-> "whole"]
        BY <1>1, <2>4 DEF ParseEvent
      <3> QED BY <2>1, <2>2, <2>4, <3>1
    <2>5. CASE f \in {"unpaid", "asyncFailed", "expired", "refunded"}
      <3>1. \E st \in {"PENDING", "FAILED", "CANCELLED", "REFUNDED"}, x \in {"cs", "ch"} :
              r = [status |-> st, ref |-> x, amount |-> "whole"] /\ (st = "REFUNDED" => f = "refunded")
        BY <1>1, <2>5 DEF ParseEvent
      <3> QED BY <2>1, <2>2, <2>5, <3>1
    <2>6. CASE f = "partRefunded"
      <3>1. r = [status |-> "SUCCESS", ref |-> "ch", amount |-> "part"]
        BY <1>1, <2>6 DEF ParseEvent
      <3> QED BY <2>1, <2>2, <2>6, <3>1
    <2>7. CASE f = "disputed"
      <3>1. \E a \in {"whole", "part"} : r = [status |-> "CHARGEBACK", ref |-> "ch", amount |-> a]
        BY <1>1, <2>7 DEF ParseEvent
      <3> QED BY <2>1, <2>2, <2>7, <3>1
    <2>8. f \in {"paid", "declined", "unpaid", "asyncFailed", "expired", "refunded", "partRefunded", "disputed"}
      BY <1>1 DEF ParseEvent
    <2> QED BY <2>3, <2>4, <2>5, <2>6, <2>7, <2>8
  <1> QED BY <1>1, <1>2

LEMMA StartInv ==
    ASSUME Inv, NEW w \in Workers, NEW p \in Payments,
           \/ RefundPayment(w, p)
           \/ processPendingWithdrawal(w, p)
           \/ \E r \in Webhooks(p) : ProcessWebhook(w, p, r)
    PROVE  Inv'
  <1>1. NoResult \in Results /\ NoResult.status = "PENDING"
    BY DEF NoResult, Results, Statuses, Refs
  <1>2. CASE RefundPayment(w, p)
    BY <1>1, <1>2, AcquireInv DEF RefundPayment
  <1>3. CASE processPendingWithdrawal(w, p)
    BY <1>1, <1>3, AcquireInv DEF processPendingWithdrawal
  <1>4. CASE \E r \in Webhooks(p) : ProcessWebhook(w, p, r)
    <2>1. PICK r \in Webhooks(p) : ProcessWebhook(w, p, r)
      BY <1>4
    <2>2. /\ r \in Results /\ ~(stripe[p] \subseteq {"open"})
          /\ r.status = "SUCCESS" /\ r.amount = "whole" => "paid" \in stripe[p]
          /\ r.status = "REFUNDED" => "refunded" \in stripe[p]
          /\ r.status = "CHARGEBACK" => "disputed" \in stripe[p]
      BY <2>1, WebhookBacked DEF ProcessWebhook
    <2> QED BY <2>1, <2>2, AcquireInv DEF ProcessWebhook
  <1> QED BY <1>2, <1>3, <1>4

\* A worker stays at its payment and goes on to its next phase: the tables stay.
LEMMA GoOnInv ==
    ASSUME Inv, NEW w \in Workers, pc[w] # "idle", UNCHANGED << tables, kind, payment, lock, history >>,
           NEW phase \in Phases \ {"idle", "read"}, pc' = [pc EXCEPT ![w] = phase],
           NEW g \in Intents, mem' = [mem EXCEPT ![w] = g],
           NEW r \in Results, result' = [result EXCEPT ![w] = r],
           stripe' \in [Payments -> SUBSET Facts],
           \A q \in Payments : stripe[q] \subseteq stripe'[q],
           \A q \in Payments \ {payment[w]} : stripe'[q] = stripe[q],
           payouts' \in [Payments -> Nat],
           \A q \in Payments : payouts[q] <= payouts'[q],
           \A q \in Payments \ {payment[w]} : payouts'[q] = payouts[q],
           \/ pc[w] # "read"
           \/ /\ stripe' = stripe
              /\ \A v \in Workers \ {w} :
                    pc[v] # "idle" /\ kind[v] = "create" => payment[v] # payment[w],
           (Backed(w) /\ Shape(w))',
           kind[w] = "create" => Alone(w)',
           kind[w] # "create" /\ payment[w] \notin expired => g = intents[payment[w]],
           PayoutInv'
    PROVE  Inv'
  <1>1. TypeOK /\ FreshInv /\ WorkersInv /\ payment[w] \in Payments
    BY DEF Inv, TypeOK
  <1>2. UNCHANGED << intents, older, processed, outbox, kind, payment, lock, expired, interrupted >>
    BY DEF tables, history
  <1>3. TypeOK'
    BY <1>1, <1>2 DEF TypeOK
  <1>4. TablesInv' /\ Grows
    BY <1>2, TablesUnchanged DEF tables
  <1>5. \A v \in Workers \ {w} : Still(v)
    BY <1>1, <1>2 DEF Still, TypeOK
  <1>6. pc'[w] = phase /\ mem'[w] = g /\ kind'[w] = kind[w] /\ payment'[w] = payment[w]
    BY <1>1, <1>2 DEF TypeOK
  <1>7. WorkersInv'
    <2>1. ASSUME NEW v \in Workers \ {w} PROVE Spared(v)
      <3>1. CASE pc[w] # "read"
        BY <1>2, <1>5, <1>6, <3>1, WriterSpares
      <3>2. CASE /\ stripe' = stripe
                 /\ pc[v] # "idle" /\ kind[v] = "create" => payment[v] # payment[w]
        BY <1>2, <1>5, <1>6, <3>2, QuietSpares
      <3> QED BY <3>1, <3>2
    <2>2. WorkerInv(w)'
      <3>1. kind[w] # "create" /\ payment[w] \notin expired => Exclusive(w)'
        BY <1>1, <1>2, <1>6 DEF Exclusive, WorkersInv, WorkerInv
      <3> QED BY <1>2, <1>6, <3>1 DEF WorkerInv
    <2> QED BY <1>4, <1>5, <2>1, <2>2, WorkersStep
  <1>8. FreshInv'
    <2>1. intents[payment[w]] # NoIntent
      BY <1>1 DEF WorkersInv, WorkerInv, Shape
    <2> QED BY <1>1, <1>2, <2>1 DEF FreshInv
  <1> QED BY <1>3, <1>4, <1>7, <1>8 DEF Inv, TablesInv

\* GetByTransactionID: a worker whose payment is still being created is a
\* refund, which that payment's status sends away.
LEMMA ReadInv ==
    ASSUME Inv, NEW w \in Workers, GetByTransactionID(w)
    PROVE  Inv'
  <1> DEFINE p == payment[w]
             g == intents[p]
             known == p \in Registered
             goOn == CASE kind[w] = "refund"   -> g.status = "SUCCESS" /\ known
                       [] kind[w] = "withdraw" -> g.status = "CREATING" /\ known
                       [] OTHER                -> TRUE
  <1>1. /\ TypeOK /\ WorkersInv /\ WorkerInv(w) /\ EventsInv /\ PayoutInv
        /\ p \in Payments /\ g \in Intents /\ pc[w] = "read"
    BY DEF Inv, WorkersInv, TypeOK, GetByTransactionID
  <1>2. UNCHANGED << tables, stripe, payouts, history >>
    BY DEF GetByTransactionID
  <1>3. UNCHANGED << intents, older, processed, outbox, stripe, payouts, expired, interrupted >>
    BY <1>2 DEF tables, history
  <1>4. stripe' \in [Payments -> SUBSET Facts] /\ payouts' \in [Payments -> Nat]
        /\ \A q \in Payments : payouts[q] <= payouts'[q]
    BY <1>1, <1>3 DEF TypeOK
  <1>5. CASE ~goOn
    <2>1. Forget(w) /\ ReleaseLock(w)
      BY <1>5 DEF GetByTransactionID, Return
    <2>2. /\ lock' \in [Payments -> Workers \cup {NoWorker, Dead}]
          /\ \A q \in Payments : lock[q] \in Workers \ {w} => lock'[q] = lock[q]
      BY <1>1, <2>1 DEF TypeOK, ReleaseLock
    <2>3. \A q \in Payments : ~PayingOut(w, q)
      BY <1>1 DEF PayingOut
    <2>4. interrupted' \subseteq Payments
      BY <1>1, <1>3 DEF TypeOK
    <2> QED BY <1>1, <1>2, <1>3, <1>4, <2>1, <2>2, <2>3, <2>4, LeaveInv
  <1>6. CASE goOn
    <2> DEFINE phase == IF kind[w] = "webhook" THEN "apply" ELSE "call"
    <2>1. /\ mem' = [mem EXCEPT ![w] = g] /\ pc' = [pc EXCEPT ![w] = phase]
          /\ UNCHANGED << kind, payment, result, lock >>
      BY <1>6 DEF GetByTransactionID
    <2>2. phase \in Phases \ {"idle", "read"} /\ kind[w] \in Kinds /\ kind[w] # "create"
      BY <1>1 DEF Phases, WorkerInv, Shape, TypeOK
    <2>3. result[w] \in Results /\ result' = [result EXCEPT ![w] = result[w]]
      BY <1>1, <2>1 DEF TypeOK
    <2>4. ASSUME NEW v \in Workers \ {w}, pc[v] # "idle", kind[v] = "create" PROVE payment[v] # p
      <3> SUFFICES ASSUME payment[v] = p PROVE FALSE
        OBVIOUS
      <3>1. kind[w] = "refund" /\ g.status = "CREATING"
        BY <1>1, <2>4 DEF WorkersInv, WorkerInv, Alone
      <3> QED BY <1>6, <3>1
    <2>5. pc'[w] = phase /\ mem'[w] = g /\ kind'[w] = kind[w] /\ payment'[w] = p /\ result'[w] = result[w]
      BY <1>1, <2>1 DEF TypeOK
    <2>6. Backed(w)'
      <3>1. g.status \in Paid => Published(p, "PaymentSucceeded") # {}
        BY <1>1 DEF EventsInv
      <3> QED BY <1>1, <1>3, <2>1, <2>5, <3>1 DEF Backed, WorkerInv, Published
    <2>7. Shape(w)'
      BY <1>1, <1>3, <1>6, <2>2, <2>5 DEF Shape, WorkerInv
    <2>8. PayoutInv'
      <3>1. \A q, v : v \in Workers /\ PayingOut(v, q) => PayingOut(v, q)'
        BY <1>1, <2>1 DEF PayingOut, TypeOK
      <3> QED BY <1>3, <3>1, PayoutsStep
    <2> HIDE DEF phase, g, goOn
    <2>9. g = intents[p]
      BY DEF g
    <2> QED BY <1>1, <1>2, <1>3, <1>4, <2>1, <2>2, <2>3, <2>4, <2>6, <2>7, <2>8, <2>9, GoOnInv
  <1> QED BY <1>5, <1>6

\* provider.CreatePayment: the session is open, and not offered yet.
LEMMA CallCreateInv ==
    ASSUME Inv, NEW w \in Workers, providerCreatePayment(w)
    PROVE  Inv'
  <1> DEFINE p == payment[w]
  <1>1. /\ TypeOK /\ WorkersInv /\ WorkerInv(w) /\ p \in Payments
        /\ pc[w] = "call" /\ kind[w] = "create" /\ mem[w] \in Intents /\ result[w] \in Results
    BY DEF Inv, WorkersInv, TypeOK, providerCreatePayment
  <1>2. UNCHANGED << tables, payouts, history, kind, payment, mem, lock >>
    BY DEF providerCreatePayment, Answer, Fail
  <1>3. UNCHANGED << intents, older, processed, outbox, payouts, expired, interrupted, kind, payment, mem, lock >>
    BY <1>2 DEF tables, history
  <1>4. /\ stripe' \in [Payments -> SUBSET Facts]
        /\ \A q \in Payments : stripe[q] \subseteq stripe'[q]
        /\ \A q \in Payments \ {p} : stripe'[q] = stripe[q]
        /\ stripe'[p] \subseteq stripe[p] \cup {"open"}
    <2>1. CASE stripe' = [stripe EXCEPT ![p] = @ \cup {"open"}]
      BY <1>1, <2>1 DEF TypeOK, Facts
    <2>2. CASE stripe' = stripe
      BY <1>1, <2>2 DEF TypeOK
    <2> QED BY <2>1, <2>2 DEF providerCreatePayment
  <1>5. PICK phase \in {"apply", "fail"}, r \in Results :
          /\ pc' = [pc EXCEPT ![w] = phase] /\ result' = [result EXCEPT ![w] = r]
          /\ r = result[w] \/ r.status = "PENDING"
    <2>1. CASE Answer(w, "PENDING", "cs")
      <3> DEFINE r == [status |-> "PENDING", ref |-> "cs", amount |-> "whole"]
      <3>1. r \in Results /\ r.status = "PENDING"
        BY DEF Results, Statuses, Refs
      <3>2. pc' = [pc EXCEPT ![w] = "apply"] /\ result' = [result EXCEPT ![w] = r]
        BY <2>1 DEF Answer
      <3> HIDE DEF r
      <3> QED BY <3>1, <3>2
    <2>2. CASE Fail(w)
      <3>1. pc' = [pc EXCEPT ![w] = "fail"] /\ result' = [result EXCEPT ![w] = result[w]]
        BY <1>1, <2>2 DEF Fail, TypeOK
      <3> QED BY <1>1, <3>1
    <2> QED BY <2>1, <2>2 DEF providerCreatePayment
  <1>6. pc'[w] = phase /\ result'[w] = r
    BY <1>1, <1>5 DEF TypeOK
  <1>7. Backed(w)'
    BY <1>1, <1>3, <1>4, <1>5, <1>6 DEF Backed, WorkerInv, Published
  <1>8. Shape(w)'
    BY <1>1, <1>3, <1>5, <1>6 DEF Shape, WorkerInv
  <1>9. Alone(w)'
    <2>1. \A v \in Workers \ {w} : pc'[v] = pc[v]
      BY <1>1, <1>5 DEF TypeOK
    <2> QED BY <1>1, <1>3, <1>4, <2>1 DEF Alone, WorkerInv
  <1>10. PayoutInv'
    <2>1. \A q, v : v \in Workers /\ PayingOut(v, q) => PayingOut(v, q)'
      BY <1>1, <1>3, <1>5 DEF PayingOut, TypeOK
    <2> QED BY <1>3, <2>1, PayoutsStep
  <1>11. mem' = [mem EXCEPT ![w] = mem[w]]
    BY <1>1, <1>3 DEF TypeOK
  <1>12. payouts' \in [Payments -> Nat] /\ \A q \in Payments : payouts[q] <= payouts'[q]
    BY <1>1, <1>3 DEF TypeOK
  <1>13. phase \in Phases \ {"idle", "read"}
    BY <1>5 DEF Phases
  <1> QED BY <1>1, <1>2, <1>3, <1>4, <1>5, <1>7, <1>8, <1>9, <1>10, <1>11, <1>12, <1>13, GoOnInv

\* provider.CreateWithdrawal: the first transfer, unless there was a fault.
LEMMA CallWithdrawInv ==
    ASSUME Inv, NEW w \in Workers, providerCreateWithdrawal(w)
    PROVE  Inv'
  <1> DEFINE p == payment[w]
  <1>1. /\ TypeOK /\ WorkersInv /\ WorkerInv(w) /\ p \in Payments /\ PayoutInv
        /\ pc[w] = "call" /\ kind[w] = "withdraw" /\ mem[w] \in Intents /\ result[w] \in Results
    BY DEF Inv, WorkersInv, TypeOK, providerCreateWithdrawal
  <1>2. UNCHANGED << tables, stripe, history, kind, payment, mem, lock >>
    BY DEF providerCreateWithdrawal, Answer, Fail
  <1>3. UNCHANGED << intents, older, processed, outbox, stripe, expired, interrupted, kind, payment, mem, lock >>
    BY <1>2 DEF tables, history
  <1>4. /\ payouts' \in [Payments -> Nat]
        /\ \A q \in Payments \ {p} : payouts'[q] = payouts[q]
        /\ payouts[p] \in Nat
        /\ payouts'[p] = payouts[p] \/ payouts'[p] = payouts[p] + 1
    <2>1. CASE payouts' = [payouts EXCEPT ![p] = @ + 1]
      BY <1>1, <2>1 DEF TypeOK
    <2>2. CASE payouts' = payouts
      BY <1>1, <2>2 DEF TypeOK
    <2> QED BY <2>1, <2>2 DEF providerCreateWithdrawal
  <1>5. \A q \in Payments : payouts[q] <= payouts'[q]
    <2>1. \A q \in Payments : payouts[q] \in Nat
      BY <1>1 DEF TypeOK
    <2> QED BY <1>4, <2>1
  <1>6. PICK phase \in {"apply", "fail"}, r \in Results :
          /\ pc' = [pc EXCEPT ![w] = phase] /\ result' = [result EXCEPT ![w] = r]
          /\ \/ phase = "fail" /\ r = result[w]
             \/ r.status = "SUCCESS" /\ r.amount = "whole" /\ payouts'[p] > 0
    <2>1. CASE Answer(w, "SUCCESS", "tr") /\ payouts' = [payouts EXCEPT ![p] = @ + 1]
      <3> DEFINE r == [status |-> "SUCCESS", ref |-> "tr", amount |-> "whole"]
      <3>1. r \in Results /\ r.status = "SUCCESS" /\ r.amount = "whole"
        BY DEF Results, Statuses, Refs
      <3>2. pc' = [pc EXCEPT ![w] = "apply"] /\ result' = [result EXCEPT ![w] = r]
        BY <2>1 DEF Answer
      <3>3. payouts'[p] > 0
        BY <1>1, <2>1 DEF TypeOK
      <3> HIDE DEF r
      <3> QED BY <3>1, <3>2, <3>3
    <2>2. CASE Fail(w)
      <3>1. pc' = [pc EXCEPT ![w] = "fail"] /\ result' = [result EXCEPT ![w] = result[w]]
        BY <1>1, <2>2 DEF Fail, TypeOK
      <3> QED BY <1>1, <3>1
    <2> QED BY <2>1, <2>2 DEF providerCreateWithdrawal
  <1>7. pc'[w] = phase /\ result'[w] = r
    BY <1>1, <1>6 DEF TypeOK
  <1>8. Backed(w)'
    BY <1>1, <1>3, <1>4, <1>6, <1>7 DEF Backed, WorkerInv, Published
  <1>9. Shape(w)'
    BY <1>1, <1>3, <1>6, <1>7 DEF Shape, WorkerInv
  <1>10. PayoutInv'
    <2> SUFFICES ASSUME NEW q \in Payments \ (expired \cup interrupted)
                 PROVE  /\ payouts'[q] <= 1
                        /\ payouts'[q] = 1 => \/ intents[q].status # "CREATING"
                                              \/ \E v \in Workers : PayingOut(v, q)'
      BY <1>3 DEF PayoutInv
    <2>1. /\ payouts[q] <= 1
          /\ payouts[q] = 1 => intents[q].status # "CREATING" \/ \E v \in Workers : PayingOut(v, q)
      BY <1>1 DEF PayoutInv
    <2>2. \A v \in Workers : PayingOut(v, q) => PayingOut(v, q)'
      BY <1>1, <1>3, <1>6 DEF PayingOut, TypeOK
    <2>3. CASE q # p
      BY <1>4, <2>1, <2>2, <2>3
    <2>4. CASE q = p
      <3>1. intents[p].status = "CREATING" /\ lock[p] = w
        BY <1>1, <2>4 DEF WorkerInv, Exclusive, Shape
      <3>2. \A v \in Workers : ~PayingOut(v, p)
        BY <1>1, <2>4, <3>1 DEF WorkersInv, WorkerInv, Exclusive, PayingOut
      <3>3. payouts[p] = 0
        BY <1>4, <2>1, <2>4, <3>1, <3>2
      <3>4. PayingOut(w, q)'
        BY <1>1, <1>3, <1>6, <1>7, <2>4 DEF PayingOut
      <3> QED BY <1>4, <2>4, <3>3, <3>4
    <2> QED BY <2>3, <2>4
  <1>11. mem' = [mem EXCEPT ![w] = mem[w]]
    BY <1>1, <1>3 DEF TypeOK
  <1>12. phase \in Phases \ {"idle", "read"}
    BY <1>6 DEF Phases
  <1>13. p \notin expired => mem[w] = intents[p]
    BY <1>1 DEF WorkerInv, Exclusive
  <1>14. stripe' \in [Payments -> SUBSET Facts]
    BY <1>1, <1>3 DEF TypeOK
  <1> QED BY <1>1, <1>2, <1>3, <1>4, <1>5, <1>6, <1>8, <1>9, <1>10, <1>11, <1>12, <1>13, <1>14, GoOnInv

\* provider.RefundPayment.
LEMMA CallRefundInv ==
    ASSUME Inv, NEW w \in Workers, providerRefundPayment(w)
    PROVE  Inv'
  <1> DEFINE p == payment[w]
  <1>1. /\ TypeOK /\ WorkersInv /\ WorkerInv(w) /\ p \in Payments
        /\ pc[w] = "call" /\ kind[w] = "refund" /\ mem[w] \in Intents
    BY DEF Inv, WorkersInv, TypeOK, providerRefundPayment
  <1>2. UNCHANGED << tables, payouts, history >>
    BY DEF providerRefundPayment
  <1>3. UNCHANGED << intents, older, processed, outbox, payouts, expired, interrupted >>
    BY <1>2 DEF tables, history
  <1>4. /\ stripe' \in [Payments -> SUBSET Facts]
        /\ \A q \in Payments : stripe[q] \subseteq stripe'[q]
        /\ \A q \in Payments \ {p} : stripe'[q] = stripe[q]
    <2>1. CASE stripe' = [stripe EXCEPT ![p] = @ \cup {"refunded"}]
      BY <1>1, <2>1 DEF TypeOK, Facts
    <2>2. CASE stripe' = stripe
      BY <1>1, <2>2 DEF TypeOK
    <2> QED BY <2>1, <2>2 DEF providerRefundPayment
  <1>5. CASE Return(w)
    <2>1. Forget(w) /\ ReleaseLock(w)
      BY <1>5 DEF Return
    <2>2. /\ lock' \in [Payments -> Workers \cup {NoWorker, Dead}]
          /\ \A q \in Payments : lock[q] \in Workers \ {w} => lock'[q] = lock[q]
      BY <1>1, <2>1 DEF TypeOK, ReleaseLock
    <2>3. \A q \in Payments : ~PayingOut(w, q)
      BY <1>1 DEF PayingOut
    <2>4. interrupted' \subseteq Payments
      BY <1>1, <1>3 DEF TypeOK
    <2> QED BY <1>1, <1>2, <1>3, <1>4, <2>1, <2>2, <2>3, <2>4, LeaveInv
  <1>6. CASE Answer(w, "REFUNDED", "ch") /\ stripe' = [stripe EXCEPT ![p] = @ \cup {"refunded"}]
    <2> DEFINE r == [status |-> "REFUNDED", ref |-> "ch", amount |-> "whole"]
    <2>1. /\ pc' = [pc EXCEPT ![w] = "apply"] /\ result' = [result EXCEPT ![w] = r]
          /\ UNCHANGED << kind, payment, mem, lock >>
      BY <1>6 DEF Answer
    <2>2. r \in Results /\ r.status = "REFUNDED"
      BY DEF Results, Statuses, Refs
    <2> HIDE DEF r
    <2>3. pc'[w] = "apply" /\ result'[w] = r
      BY <1>1, <2>1 DEF TypeOK
    <2>4. "refunded" \in stripe'[p]
      BY <1>1, <1>6 DEF TypeOK
    <2>5. Backed(w)'
      BY <1>1, <1>3, <2>1, <2>2, <2>3, <2>4 DEF Backed, WorkerInv, Published
    <2>6. Shape(w)'
      BY <1>1, <1>3, <2>1, <2>3 DEF Shape, WorkerInv
    <2>7. PayoutInv'
      <3>1. \A q, v : v \in Workers /\ PayingOut(v, q) => PayingOut(v, q)'
        BY <1>1, <2>1 DEF PayingOut, TypeOK
      <3> QED BY <1>3, <3>1, PayoutsStep
    <2>8. mem' = [mem EXCEPT ![w] = mem[w]]
      BY <1>1, <2>1 DEF TypeOK
    <2>9. payouts' \in [Payments -> Nat] /\ \A q \in Payments : payouts[q] <= payouts'[q]
      BY <1>1, <1>3 DEF TypeOK
    <2>10. "apply" \in Phases \ {"idle", "read"}
      BY DEF Phases
    <2>11. p \notin expired => mem[w] = intents[p]
      BY <1>1 DEF WorkerInv, Exclusive
    <2> QED BY <1>1, <1>2, <1>3, <1>4, <2>1, <2>2, <2>5, <2>6, <2>7, <2>8, <2>9, <2>10, <2>11, GoOnInv
  <1> QED BY <1>5, <1>6 DEF providerRefundPayment

\* A withdrawal's payout is always saved while it has its lock: the row is in
\* CREATING, so that its success was not published before.
LEMMA PayoutIsSaved ==
    ASSUME Inv, NEW w \in Workers, pc[w] = "apply", kind[w] = "withdraw",
           payment[w] \notin expired
    PROVE  /\ StateChanged(mem[w], result[w]) /\ Valid(result[w])
           /\ result[w].status = "SUCCESS"
           /\ << payment[w], "PaymentSucceeded" >> \notin processed
  <1>1. WorkerInv(w) /\ payment[w] \in Payments /\ EventsInv /\ OutcomeInv
    BY DEF Inv, WorkersInv, TypeOK
  <1>2. /\ mem[w].status = "CREATING" /\ result[w].status = "SUCCESS" /\ result[w].amount = "whole"
        /\ intents[payment[w]] = mem[w]
    BY <1>1 DEF WorkerInv, Shape, Exclusive
  <1>3. Published(payment[w], "PaymentSucceeded") = {}
    BY <1>1, <1>2 DEF OutcomeInv, Paid
  <1>4. << payment[w], "PaymentSucceeded" >> \notin processed
    BY <1>1, <1>3 DEF EventsInv, ProcessedNames
  <1>5. StateChanged(mem[w], result[w]) /\ Valid(result[w])
    BY <1>2 DEF StateChanged, PaymentTransitions, Valid
  <1> QED BY <1>2, <1>4, <1>5

\* applyProviderOutcome.
LEMMA ApplyInv ==
    ASSUME Inv, NEW w \in Workers, applyProviderOutcome(w)
    PROVE  Inv'
  <1> DEFINE p == payment[w]
             g == mem[w]
             r == result[w]
             events == OutcomeEvents(g, r, kind[w] = "create")
             names == IF Valid(r) THEN events ELSE << >>
             h == Outcome(g, r, names)
  <1>1. /\ TypeOK /\ WorkersInv /\ WorkerInv(w) /\ p \in Payments
        /\ g \in Intents /\ r \in Results /\ pc[w] = "apply"
    BY DEF Inv, WorkersInv, TypeOK, applyProviderOutcome
  <1>2. /\ Return(w) /\ UNCHANGED << payouts, history >>
        /\ IF names = << >> THEN UNCHANGED tables ELSE Save(p, g, names, h)
        /\ stripe' = IF kind[w] = "create" THEN [stripe EXCEPT ![p] = @ \cup {"offered"}] ELSE stripe
    BY DEF applyProviderOutcome
  <1>3. /\ stripe' \in [Payments -> SUBSET Facts]
        /\ \A q \in Payments : stripe[q] \subseteq stripe'[q]
        /\ \A q \in Payments \ {p} : stripe'[q] = stripe[q]
    BY <1>1, <1>2 DEF TypeOK, Facts
  <1>4. ASSUME UNCHANGED tables, \A q \in Payments : PayingOut(w, q) => q \in expired
        PROVE  Inv'
    <2>1. Forget(w) /\ ReleaseLock(w)
      BY <1>2 DEF Return
    <2>2. /\ lock' \in [Payments -> Workers \cup {NoWorker, Dead}]
          /\ \A q \in Payments : lock[q] \in Workers \ {w} => lock'[q] = lock[q]
      BY <1>1, <2>1 DEF TypeOK, ReleaseLock
    <2>3. interrupted' = interrupted /\ expired' = expired /\ interrupted' \subseteq Payments
      BY <1>1, <1>2 DEF TypeOK, history
    <2> QED BY <1>1, <1>2, <1>3, <1>4, <2>1, <2>2, <2>3, LeaveInv
  <1>5. CASE names = << >>
    <2>1. ASSUME NEW q \in Payments, PayingOut(w, q), q \notin expired PROVE FALSE
      <3>1. q = p /\ kind[w] = "withdraw"
        BY <2>1 DEF PayingOut
      <3>2. StateChanged(g, r) /\ Valid(r) /\ r.status = "SUCCESS"
        BY <1>1, <2>1, <3>1, PayoutIsSaved
      <3>3. names = << "PaymentSucceeded" >> \o << >>
        BY <3>1, <3>2 DEF OutcomeEvents, applySuccessfulOutcome
      <3> HIDE DEF names
      <3>4. Len(names) = 1
        BY <3>3
      <3> QED BY <1>5, <3>4
    <2> QED BY <1>2, <1>4, <1>5, <2>1
  <1>6. CASE names # << >>
    <2>1. names = events /\ Valid(r)
      BY <1>6
    <2>2. /\ Announces(names, IF StateChanged(g, r) THEN FinalName(r.status) ELSE "none")
          /\ Len(names) >= 1
      BY <1>1, <1>6, <2>1, OutcomeAnnounces
    <2>3. h.status = IF StateChanged(g, r) THEN r.status ELSE g.status
      BY DEF Outcome
    <2> HIDE DEF names, events
    <2>4. Booking(g, names, h)
      BY <1>1, <2>2, OutcomeBooks
    <2> HIDE DEF h
    <2>5. Save(p, g, names, h)
      BY <1>2, <1>6 DEF h
    <2>6. CASE Saved(p, g, names, h)
      <3>1. h.status # g.status =>
              /\ h.status = "SUCCESS" => "paid" \in stripe[p] \/ payouts[p] > 0
              /\ h.status = "REFUNDED" => "refunded" \in stripe[p]
              /\ h.status = "CHARGEBACK" => "disputed" \in stripe[p]
        <4>1. h.status # g.status => h.status = r.status
          BY <2>3
        <4>2. r.status = "SUCCESS" => r.amount = "whole"
          BY <2>1 DEF Valid
        <4> QED BY <1>1, <4>1, <4>2 DEF WorkerInv, Backed
      <3>2. kind[w] = "withdraw" => h.status # "CREATING"
        <4>1. kind[w] = "withdraw" => g.status = "CREATING" /\ r.status = "SUCCESS"
          BY <1>1 DEF WorkerInv, Shape
        <4> QED BY <2>3, <4>1 DEF StateChanged, PaymentTransitions
      <3> QED BY <1>1, <1>2, <1>3, <2>6, <3>1, <3>2, SaveAndReturn
    <2>7. CASE UNCHANGED tables /\ ProcessedKeys(p, names) \cap processed # {}
      <3>1. ASSUME NEW q \in Payments, PayingOut(w, q), q \notin expired PROVE FALSE
        <4>1. q = p /\ kind[w] = "withdraw"
          BY <3>1 DEF PayingOut
        <4>2. StateChanged(g, r) /\ r.status = "SUCCESS" /\ << p, "PaymentSucceeded" >> \notin processed
          BY <1>1, <3>1, <4>1, PayoutIsSaved
        <4>3. FinalName(h.status) = "PaymentSucceeded"
          BY <2>3, <4>2 DEF FinalName
        <4>4. ProcessedKeys(p, names) \subseteq {<< p, "PaymentSucceeded" >>}
          BY <2>4, <4>3, SaveProcesses
        <4> QED BY <2>7, <4>2, <4>4
      <3> QED BY <1>4, <2>7, <3>1
    <2> QED BY <2>4, <2>5, <2>6, <2>7, SaveCases
  <1> QED BY <1>5, <1>6

\* markCreateFailed: both of its callers hold an aggregate in CREATING.
LEMMA MarkFailedInv ==
    ASSUME Inv, NEW w \in Workers, markCreateFailed(w)
    PROVE  Inv'
  <1> DEFINE p == payment[w]
             g == mem[w]
             failed == [status |-> "FAILED", ref |-> "", amount |-> "whole"]
             names == << "PaymentFailed" >>
             h == Outcome(g, failed, names)
  <1>1. /\ TypeOK /\ WorkersInv /\ WorkerInv(w) /\ p \in Payments
        /\ g \in Intents /\ pc[w] = "fail" /\ kind[w] \in Kinds
    BY DEF Inv, WorkersInv, TypeOK, markCreateFailed
  <1>2. g.status = "CREATING"
    BY <1>1 DEF WorkerInv, Shape, Alone, Kinds
  <1>3. failed \in Results /\ failed.status = "FAILED"
    BY DEF Results, Statuses, Refs
  <1>4. /\ Return(w) /\ UNCHANGED << stripe, payouts, history >>
        /\ StateChanged(g, failed) => Save(p, g, names, h)
    BY DEF markCreateFailed
  <1> HIDE DEF failed
  <1>5. StateChanged(g, failed)
    BY <1>2, <1>3 DEF StateChanged, PaymentTransitions
  <1>6. h.status = "FAILED"
    BY <1>3, <1>5 DEF Outcome
  <1>7. Booking(g, names, h) /\ Len(names) = 1
    <2>1. "PaymentFailed" \in EventNames /\ "PaymentFailed" \in FinalNames
      BY DEF EventNames, FinalNames
    <2>2. Announces(names, "PaymentFailed") /\ Len(names) = 1
      BY <2>1, OneName
    <2>3. FinalName(failed.status) = "PaymentFailed"
      BY <1>3 DEF FinalName
    <2> HIDE DEF names
    <2> QED BY <1>1, <1>3, <1>5, <2>2, <2>3, OutcomeBooks
  <1> HIDE DEF h, names
  <1>8. Saved(p, g, names, h)
    <2>1. FinalName(h.status) \notin ProcessedNames
      BY <1>6 DEF FinalName, ProcessedNames
    <2>2. ProcessedKeys(p, names) = {}
      BY <1>7, <2>1, SaveProcesses
    <2> QED BY <1>4, <1>5, <1>7, <2>2, SaveCases
  <1>9. /\ stripe' \in [Payments -> SUBSET Facts]
        /\ \A q \in Payments : stripe[q] \subseteq stripe'[q]
        /\ \A q \in Payments \ {p} : stripe'[q] = stripe[q]
    BY <1>1, <1>4 DEF TypeOK
  <1> QED BY <1>1, <1>4, <1>6, <1>8, <1>9, SaveAndReturn

\* Abort and Crash.
LEMMA StopInv ==
    ASSUME Inv, NEW w \in Workers, Abort(w) \/ Crash(w)
    PROVE  Inv'
  <1>1. /\ TypeOK /\ payment[w] \in Payments /\ pc[w] # "idle" /\ Forget(w) /\ Interrupt(w)
        /\ UNCHANGED << tables, stripe, payouts, expired >>
    BY DEF Inv, TypeOK, Abort, Crash, Return
  <1>2. /\ lock' \in [Payments -> Workers \cup {NoWorker, Dead}]
        /\ \A q \in Payments : lock[q] \in Workers \ {w} => lock'[q] = lock[q]
    <2>1. CASE Abort(w)
      BY <1>1, <2>1 DEF TypeOK, Abort, Return, ReleaseLock
    <2>2. CASE Crash(w)
      BY <1>1, <2>2 DEF TypeOK, Crash
    <2> QED BY <2>1, <2>2
  <1>3. interrupted \subseteq interrupted' /\ interrupted' \subseteq Payments
    BY <1>1 DEF Interrupt, TypeOK
  <1>4. \A q \in Payments : PayingOut(w, q) => q \in interrupted'
    BY <1>1 DEF Interrupt, Interrupts, PayingOut
  <1>5. stripe' \in [Payments -> SUBSET Facts] /\ stripe' = stripe
    BY <1>1 DEF TypeOK
  <1> QED BY <1>1, <1>2, <1>3, <1>4, <1>5, LeaveInv

\* No worker moves and no row changes.
LEMMA OutsideInv ==
    ASSUME Inv, UNCHANGED << tables, locals, payouts, interrupted >>,
           lock' \in [Payments -> Workers \cup {NoWorker, Dead}],
           stripe' \in [Payments -> SUBSET Facts],
           \A q \in Payments : stripe[q] \subseteq stripe'[q],
           expired \subseteq expired', expired' \subseteq Payments,
           \A v \in Workers, q \in Payments : lock[q] = v => lock'[q] = v \/ q \in expired',
           \A v \in Workers : pc[v] # "idle" /\ kind[v] = "create" => stripe'[payment[v]] = stripe[payment[v]],
           \A q \in Payments : intents[q] = NoIntent => stripe'[q] = stripe[q]
    PROVE  Inv'
  <1>1. TypeOK /\ WorkersInv /\ FreshInv
    BY DEF Inv
  <1>2. UNCHANGED << intents, older, processed, outbox, pc, kind, payment, mem, result, payouts, interrupted >>
    BY DEF tables, locals
  <1>3. TypeOK'
    BY <1>1, <1>2 DEF TypeOK
  <1>4. TablesInv' /\ Grows
    <2>1. \A q \in Payments : payouts[q] <= payouts'[q]
      BY <1>1, <1>2 DEF TypeOK
    <2> QED BY <1>2, <1>3, <2>1, TablesUnchanged DEF TypeOK, tables
  <1>5. ASSUME NEW v \in Workers PROVE WorkerInv(v)'
    <2>1. Still(v)
      BY <1>2 DEF Still
    <2>2. payment[v] \in Payments
      BY <1>1 DEF TypeOK
    <2>3. Spared(v)
      BY <1>1, <1>2, <2>2 DEF Spared, WorkersInv, WorkerInv, Alone
    <2> QED BY <1>4, <2>1, <2>3, StillWorker
  <1>6. FreshInv'
    BY <1>1, <1>2 DEF FreshInv
  <1>7. PayoutInv'
    <2>1. \A q, v : PayingOut(v, q)' <=> PayingOut(v, q)
      BY <1>2 DEF PayingOut
    <2> QED BY <1>2, <2>1, PayoutsStep
  <1> QED BY <1>3, <1>4, <1>5, <1>6, <1>7 DEF Inv, TablesInv, WorkersInv

LEMMA ExpireInv ==
    ASSUME Inv, NEW p \in Payments, ExpireLock(p)
    PROVE  Inv'
  <1>1. TypeOK
    BY DEF Inv
  <1>2. /\ lock' = [lock EXCEPT ![p] = NoWorker] /\ stripe' = stripe
        /\ expired' = IF lock[p] = Dead THEN expired ELSE expired \cup {p}
        /\ UNCHANGED << tables, locals, payouts, interrupted >>
    BY DEF ExpireLock
  <1>3. lock' \in [Payments -> Workers \cup {NoWorker, Dead}]
    BY <1>1, <1>2 DEF TypeOK
  <1>4. \A v \in Workers, q \in Payments : lock[q] = v => lock'[q] = v \/ q \in expired'
    BY <1>1, <1>2, HoldersAssumption DEF TypeOK
  <1>5. expired \subseteq expired' /\ expired' \subseteq Payments /\ stripe' \in [Payments -> SUBSET Facts]
    BY <1>1, <1>2 DEF TypeOK
  <1> QED BY <1>2, <1>3, <1>4, <1>5, OutsideInv

\* Stripe: nobody can pay, and nothing lapses, while the payment is created.
LEMMA StripeInv ==
    ASSUME Inv, NEW p \in Payments, NEW f \in Facts, StripeStep(p, f)
    PROVE  Inv'
  <1>1. TypeOK /\ WorkersInv /\ FreshInv
    BY DEF Inv
  <1>2. /\ Possible(p, f) /\ stripe' = [stripe EXCEPT ![p] = @ \cup {f}] /\ lock' = lock
        /\ UNCHANGED << tables, locals, payouts, expired, interrupted >>
    BY DEF StripeStep, history
  <1>3. /\ ~(stripe[p] \subseteq {"open"}) \/ f = "expired"
        /\ stripe[p] # {}
        /\ f = "expired" => \A w \in Workers : ~(pc[w] # "idle" /\ kind[w] = "create")
    BY <1>2 DEF Possible
  <1>4. /\ stripe' \in [Payments -> SUBSET Facts]
        /\ \A q \in Payments : stripe[q] \subseteq stripe'[q]
        /\ \A q \in Payments \ {p} : stripe'[q] = stripe[q]
    BY <1>1, <1>2 DEF TypeOK
  <1>5. ASSUME NEW v \in Workers, pc[v] # "idle", kind[v] = "create"
        PROVE  stripe'[payment[v]] = stripe[payment[v]]
    <2>1. stripe[payment[v]] \subseteq {"open"} /\ payment[v] \in Payments
      BY <1>1, <1>5 DEF WorkersInv, WorkerInv, Alone, TypeOK
    <2> QED BY <1>3, <1>4, <1>5, <2>1
  <1>6. \A q \in Payments : intents[q] = NoIntent => stripe'[q] = stripe[q]
    BY <1>1, <1>3, <1>4 DEF FreshInv
  <1>7. lock' \in [Payments -> Workers \cup {NoWorker, Dead}] /\ expired' \subseteq Payments
    BY <1>1, <1>2 DEF TypeOK
  <1> QED BY <1>2, <1>4, <1>5, <1>6, <1>7, OutsideInv

LEMMA NextInv == Inv /\ [Next]_vars => Inv'
  <1> SUFFICES ASSUME Inv, [Next]_vars PROVE Inv'
    OBVIOUS
  <1>1. CASE UNCHANGED vars
    <2>1. UNCHANGED << tables, locals, payouts, interrupted >> /\ UNCHANGED << lock, stripe, expired >>
      BY <1>1 DEF vars, history
    <2>2. TypeOK
      BY DEF Inv
    <2> QED BY <2>1, <2>2, OutsideInv DEF TypeOK
  <1>2. CASE Next
    <2>1. ASSUME NEW w \in Workers, Step(w) PROVE Inv'
      BY <2>1, ReadInv, CallCreateInv, CallWithdrawInv, CallRefundInv, ApplyInv, MarkFailedInv DEF Step
    <2>2. ASSUME NEW w \in Workers, NEW p \in Payments,
                 \/ CreatePayment(w, p) \/ RefundPayment(w, p) \/ processPendingWithdrawal(w, p)
                 \/ \E r \in Webhooks(p) : ProcessWebhook(w, p, r)
          PROVE  Inv'
      BY <2>2, CreatePaymentInv, StartInv
    <2>3. ASSUME NEW p \in Payments,
                 CreateWithdrawal(p) \/ ExpireLock(p) \/ \E f \in Facts : StripeStep(p, f)
          PROVE  Inv'
      BY <2>3, CreateWithdrawalInv, ExpireInv, StripeInv
    <2> QED BY <1>2, <2>1, <2>2, <2>3, StopInv DEF Next
  <1> QED BY <1>1, <1>2

LEMMA Invariance == Spec => []Inv
  BY InitInv, NextInv, PTL DEF Spec

-----------------------------------------------------------------------------
(* The theorems *)

LEMMA AtMostOne ==
    ASSUME NEW S, \A i, j \in S : i = j
    PROVE  Cardinality(S) <= 1
  <1>1. CASE S = {}
    BY <1>1, FS_EmptySet
  <1>2. CASE S # {}
    <2>1. PICK x \in S : TRUE
      BY <1>2
    <2>2. S = {x}
      BY <2>1
    <2> QED BY <2>2, FS_Singleton
  <1> QED BY <1>1, <1>2

\* A success, a refund and a chargeback are each announced at most once, for
\* any number of requests, redeliveries, crashes and lost locks: the key in
\* processed_payment_events is written in the transaction of the event.
THEOREM FinalEventsAreOnce == Spec => []FinalEventsOnce
  <1>1. Inv => FinalEventsOnce
    BY AtMostOne DEF Inv, EventsInv, FinalEventsOnce
  <1> QED BY <1>1, Invariance, PTL

\* While no lock expires under its holder, a payment does not both fail and
\* succeed and is not reversed twice, although CreatePayment takes no lock.
THEOREM PaymentsHaveOneOutcome == Spec => []OneOutcome
  <1>1. Inv => OneOutcome
    <2> SUFFICES ASSUME Inv, NEW p \in Payments \ expired
                 PROVE  /\ Published(p, "PaymentFailed") = {} \/ Published(p, "PaymentSucceeded") = {}
                        /\ Published(p, "PaymentRefunded") = {} \/ Published(p, "PaymentChargeback") = {}
                        /\ Cardinality(Published(p, "PaymentFailed")) <= 1
      BY DEF OneOutcome
    <2>1. Cardinality(Published(p, "PaymentFailed")) <= 1
      BY AtMostOne DEF Inv, OutcomeInv
    <2> QED BY <2>1 DEF Inv, OutcomeInv, Paid
  <1> QED BY <1>1, Invariance, PTL

\* A second transfer of a withdrawal needs a worker that failed between the
\* transfer and its save, or lost its lock.
THEOREM SecondPayoutsNeedFaults == Spec => []SecondPayoutNeedsFault
  <1>1. Inv => SecondPayoutNeedsFault
    <2> SUFFICES ASSUME Inv, NEW p \in Payments, payouts[p] > 1, p \notin expired \cup interrupted
                 PROVE  FALSE
      BY DEF SecondPayoutNeedsFault
    <2>1. payouts[p] <= 1 /\ payouts[p] \in Nat
      BY DEF Inv, PayoutInv, TypeOK
    <2> QED BY <2>1
  <1> QED BY <1>1, Invariance, PTL

\* The events of a payment are backed by what happened at Stripe, a reversal
\* follows the success it reverses, and while no lock expires under its holder
\* the events carry the versions 1, 2, ... of the row.
THEOREM PaymentEventsAreSound == Spec => []EventsAreSound
  <1>1. Inv => EventsAreSound
    BY DEF Inv, EventsInv, EventsAreSound
  <1> QED BY <1>1, Invariance, PTL

-----------------------------------------------------------------------------
(* What the events say of the workflow *)

Requested == "PaymentWithdrawalRequested"

\* A payment without a row has no events, the withdrawals on record and no other payments
\* were requested as such, and Stripe's checkout knows nothing of a withdrawal.
FlowInv ==
    \A p \in Payments :
        /\ intents[p] = NoIntent => outbox[p] = << >>
        /\ Published(p, Requested) # {} => p \in Withdrawals
        /\ p \in Withdrawals =>
              stripe[p] = {} /\ (intents[p] # NoIntent => Published(p, Requested) # {})

\* The names of outcomes.
OutcomeNames == EventNames \ {Requested}

\* No outcome is a request.
LEMMA NotRequested ==
    ASSUME NEW g, NEW r \in Results, NEW checkout \in BOOLEAN
    PROVE  OutcomeEvents(g, r, checkout) \in Seq(OutcomeNames)
  <1> DEFINE session == IF checkout THEN << "PaymentCheckoutSessionCreated" >> ELSE << >>
  <1>0. {"PaymentSucceeded", "PaymentRefunded", "PaymentChargeback", "PaymentFailed",
         "PaymentProviderStateChanged", "PaymentCheckoutSessionCreated"} \subseteq OutcomeNames
    BY DEF OutcomeNames, EventNames, Requested
  <1>2. \A n \in OutcomeNames : << n >> \in Seq(OutcomeNames)
    OBVIOUS
  <1>3. \A s, u \in Seq(OutcomeNames) : s \o u \in Seq(OutcomeNames)
    OBVIOUS
  <1>4. << >> \in Seq(OutcomeNames)
    OBVIOUS
  <1>1. session \in Seq(OutcomeNames)
    BY <1>0, <1>2, <1>4
  <1> HIDE DEF session
  <1>6. /\ << "PaymentSucceeded" >> \o session \in Seq(OutcomeNames)
        /\ << "PaymentRefunded" >> \o session \in Seq(OutcomeNames)
        /\ << "PaymentChargeback" >> \o session \in Seq(OutcomeNames)
        /\ << "PaymentProviderStateChanged" >> \o session \in Seq(OutcomeNames)
    <2>1. \A n \in OutcomeNames : << n >> \o session \in Seq(OutcomeNames)
      BY <1>1, <1>2, <1>3
    <2> QED BY <1>0, <2>1
  <1> DEFINE head == Changed \o session
             long == head \o << "PaymentFailed" >>
             same == head \o << >>
  <1>7. head \in Seq(OutcomeNames)
    BY <1>6 DEF Changed
  <1> HIDE DEF head
  <1>8. long \in Seq(OutcomeNames) /\ same \in Seq(OutcomeNames)
    <2>1. << "PaymentFailed" >> \in Seq(OutcomeNames)
      BY <1>0, <1>2
    <2> QED BY <1>3, <1>4, <1>7, <2>1
  <1>9. applySuccessfulOutcome(g, r, session) \in Seq(OutcomeNames)
    BY <1>4, <1>6, <1>7 DEF applySuccessfulOutcome, head
  <1>10. r.status \in {"REFUNDED", "CHARGEBACK"} => applyReversedOutcome(g, r, session) \in Seq(OutcomeNames)
    BY <1>4, <1>6 DEF applyReversedOutcome
  <1>11. applyNonFinalOutcome(g, r, session) \in Seq(OutcomeNames)
    BY <1>4, <1>8 DEF applyNonFinalOutcome, head
  <1> QED BY <1>9, <1>10, <1>11 DEF OutcomeEvents, session

LEMMA FlowKept ==
    ASSUME FlowInv, UNCHANGED tables, \A p \in Withdrawals : stripe'[p] = stripe[p]
    PROVE  FlowInv'
  <1>1. UNCHANGED << intents, outbox >> /\ \A q, n : Published(q, n)' = Published(q, n)
    BY DEF tables, Published
  <1> QED BY <1>1 DEF FlowInv

\* A save of a payment on record, or of a new one.
LEMMA FlowSaved ==
    ASSUME FlowInv, TypeOK, NEW p \in Payments, NEW g, NEW names, NEW h, Saved(p, g, names, h),
           \A q \in Withdrawals : stripe'[q] = stripe[q],
           \/ intents[p] # NoIntent /\ names \in Seq(OutcomeNames)
           \/ p \in TopUps /\ names \in Seq(OutcomeNames)
           \/ p \in Withdrawals /\ \E i \in 1..Len(names) : names[i] = Requested
    PROVE  FlowInv'
  <1>1. h # NoIntent /\ Len(names) \in Nat
    <2>1. /\ Len(names) \in Nat /\ Len(names) >= 1 /\ g.version \in Nat
          /\ h.version = g.version + Len(names)
      BY DEF Saved, Booking, Intents
    <2>2. NoIntent.version = 0
      BY DEF NoIntent
    <2> QED BY <2>1, <2>2
  <1>2. /\ intents'[p] = h
        /\ \A q \in Payments \ {p} : intents'[q] = intents[q] /\ outbox'[q] = outbox[q]
    BY SavedType, SaveAppends DEF Saved, TypeOK
  <1>3. /\ Published(p, Requested)' = Published(p, Requested)
              \cup { Len(outbox[p]) + j : j \in { l \in 1..Len(names) : names[l] = Requested } }
        /\ \A q \in Payments \ {p} : Published(q, Requested)' = Published(q, Requested)
    BY SaveAdds
  <1>4. names \in Seq(OutcomeNames) => Published(p, Requested)' = Published(p, Requested)
    <2> SUFFICES ASSUME names \in Seq(OutcomeNames)
                 PROVE  { l \in 1..Len(names) : names[l] = Requested } = {}
      BY <1>3
    <2> QED BY DEF OutcomeNames
  <1>5. (\E i \in 1..Len(names) : names[i] = Requested) => Published(p, Requested)' # {}
    BY <1>3
  <1>6. p \in TopUps <=> p \notin Withdrawals
    BY WorkflowsAssumption DEF Payments
  <1>7. ASSUME NEW q \in Payments
        PROVE  /\ intents'[q] = NoIntent => outbox'[q] = << >>
               /\ Published(q, Requested)' # {} => q \in Withdrawals
               /\ q \in Withdrawals =>
                     stripe'[q] = {} /\ (intents'[q] # NoIntent => Published(q, Requested)' # {})
    <2>1. CASE q # p
      BY <1>2, <1>3, <2>1 DEF FlowInv
    <2>2. CASE q = p
      BY <1>1, <1>2, <1>4, <1>5, <1>6, <2>2 DEF FlowInv
    <2> QED BY <2>1, <2>2
  <1> QED BY <1>7 DEF FlowInv

\* A save by a worker, or none.
LEMMA FlowWorks ==
    ASSUME Inv, FlowInv, NEW w \in Workers, pc[w] # "idle", NEW g, NEW names, NEW h,
           Booking(g, names, h), names \in Seq(OutcomeNames), Save(payment[w], g, names, h),
           \A p \in Withdrawals : stripe'[p] = stripe[p]
    PROVE  FlowInv'
  <1>1. payment[w] \in Payments /\ intents[payment[w]] # NoIntent /\ TypeOK
    BY DEF Inv, TypeOK, WorkersInv, WorkerInv, Shape
  <1>2. CASE UNCHANGED tables
    BY <1>2, FlowKept
  <1>3. CASE Saved(payment[w], g, names, h)
    BY <1>1, <1>3, FlowSaved
  <1> QED BY <1>2, <1>3, SaveCases

LEMMA FlowInit == Init => FlowInv
  <1> SUFFICES ASSUME Init, NEW p \in Payments
               PROVE  intents[p] = NoIntent /\ outbox[p] = << >> /\ stripe[p] = {} /\ Published(p, Requested) = {}
    BY DEF FlowInv
  <1> QED BY DEF Init, Published, Payments

\* Only top-ups have a checkout session.
LEMMA OnlyCheckouts ==
    ASSUME Inv, FlowInv, NEW p \in Payments, p \in TopUps \/ stripe[p] # {}, NEW S,
           stripe' = [stripe EXCEPT ![p] = S]
    PROVE  \A q \in Withdrawals : stripe'[q] = stripe[q]
  <1>1. p \notin Withdrawals
    BY WorkflowsAssumption DEF FlowInv
  <1> QED BY <1>1 DEF Inv, TypeOK, Payments

LEMMA FlowApplies ==
    ASSUME Inv, FlowInv, NEW w \in Workers, applyProviderOutcome(w)
    PROVE  FlowInv'
  <1> DEFINE p == payment[w]
             g == mem[w]
             r == result[w]
             names == IF Valid(r) THEN OutcomeEvents(g, r, kind[w] = "create") ELSE << >>
  <1>1. pc[w] = "apply" /\ p \in Payments /\ g \in Intents /\ r \in Results /\ (kind[w] = "create") \in BOOLEAN
    BY DEF applyProviderOutcome, Inv, TypeOK
  <1>2. \A q \in Withdrawals : stripe'[q] = stripe[q]
    <2>1. CASE kind[w] = "create"
      <3>1. p \in TopUps
        BY <1>1, <2>1 DEF Inv, WorkersInv, WorkerInv, Shape
      <3> QED BY <1>1, <2>1, <3>1, OnlyCheckouts DEF applyProviderOutcome
    <2>2. CASE kind[w] # "create"
      BY <2>2 DEF applyProviderOutcome
    <2> QED BY <2>1, <2>2
  <1>3. CASE names = << >>
    <2>1. UNCHANGED tables
      BY <1>3 DEF applyProviderOutcome
    <2> QED BY <1>2, <2>1, FlowKept
  <1>4. CASE names # << >>
    <2>1. names = OutcomeEvents(g, r, kind[w] = "create") /\ names \in Seq(OutcomeNames)
      BY <1>1, <1>4, NotRequested
    <2>2. Announces(names, IF StateChanged(g, r) THEN FinalName(r.status) ELSE "none") /\ Len(names) >= 1
      BY <1>1, <1>4, <2>1, OutcomeAnnounces
    <2>3. Save(p, g, names, Outcome(g, r, names))
      BY <1>4 DEF applyProviderOutcome
    <2> HIDE DEF names
    <2>4. Booking(g, names, Outcome(g, r, names))
      BY <1>1, <2>2, OutcomeBooks
    <2>5. pc[w] # "idle"
      BY <1>1
    <2> QED BY <1>2, <2>1, <2>3, <2>4, <2>5, FlowWorks
  <1> QED BY <1>3, <1>4

LEMMA FlowFails ==
    ASSUME Inv, FlowInv, NEW w \in Workers, markCreateFailed(w)
    PROVE  FlowInv'
  <1> DEFINE g == mem[w]
             failed == [status |-> "FAILED", ref |-> "", amount |-> "whole"]
             names == << "PaymentFailed" >>
  <1>1. /\ pc[w] = "fail" /\ pc[w] # "idle" /\ g \in Intents /\ failed \in Results
        /\ \A p \in Withdrawals : stripe'[p] = stripe[p]
    BY DEF markCreateFailed, Inv, TypeOK, Results, Statuses, Refs
  <1>2. CASE ~StateChanged(g, failed)
    <2>1. UNCHANGED tables
      BY <1>2 DEF markCreateFailed
    <2> QED BY <1>1, <2>1, FlowKept
  <1>3. CASE StateChanged(g, failed)
    <2>1. Save(payment[w], g, names, Outcome(g, failed, names))
      BY <1>3 DEF markCreateFailed
    <2>2. "PaymentFailed" \in FinalNames /\ "PaymentFailed" \in OutcomeNames /\ "PaymentFailed" \in EventNames
          /\ FinalName(failed.status) = "PaymentFailed"
      BY DEF FinalNames, OutcomeNames, EventNames, Requested, FinalName
    <2>3. names \in Seq(OutcomeNames) /\ Len(names) >= 1
      BY <2>2
    <2>4. Announces(names, IF StateChanged(g, failed) THEN FinalName(failed.status) ELSE "none")
      BY <1>3, <2>2, OneName
    <2> HIDE DEF names, failed
    <2>5. Booking(g, names, Outcome(g, failed, names))
      BY <1>1, <2>3, <2>4, OutcomeBooks
    <2> QED BY <1>1, <2>1, <2>3, <2>5, FlowWorks
  <1> QED BY <1>2, <1>3

LEMMA FlowCreates ==
    ASSUME Inv, FlowInv, NEW p \in Payments,
           CreateWithdrawal(p) \/ \E w \in Workers : CreatePayment(w, p)
    PROVE  FlowInv'
  <1>1. intents[p] = NoIntent /\ UNCHANGED << stripe, payouts, history >>
    BY DEF CreateWithdrawal, CreatePayment
  <1> DEFINE Row(names) == [status |-> "CREATING", ref |-> "", version |-> Len(names)]
  <1>2. ASSUME NEW names \in {<< "PaymentCreated" >>, << "PaymentCreated", "PaymentWithdrawalRequested" >>},
               Save(p, NoIntent, names, Row(names))
        PROVE  Saved(p, NoIntent, names, Row(names))
    <2>1. Booking(NoIntent, names, Row(names)) /\ Row(names).status = "CREATING"
      BY CreationBooks
    <2> HIDE DEF Row
    <2> QED BY <1>1, <1>2, <2>1, CreatedTables
  <1>3. TypeOK /\ \A q \in Withdrawals : stripe'[q] = stripe[q]
    BY <1>1 DEF Inv
  <1>4. CASE CreateWithdrawal(p)
    <2> DEFINE names == << "PaymentCreated", "PaymentWithdrawalRequested" >>
    <2>1. p \in Withdrawals /\ Save(p, NoIntent, names, Row(names))
      BY <1>4 DEF CreateWithdrawal
    <2>2. Saved(p, NoIntent, names, Row(names))
      BY <1>2, <2>1
    <2>3. 2 \in 1..Len(names) /\ names[2] = Requested
      BY DEF Requested
    <2> HIDE DEF names, Row
    <2> QED BY <1>3, <2>1, <2>2, <2>3, FlowSaved
  <1>5. CASE \E w \in Workers : CreatePayment(w, p)
    <2> DEFINE names == << "PaymentCreated" >>
    <2>1. p \in TopUps /\ Save(p, NoIntent, names, Row(names))
      BY <1>5 DEF CreatePayment
    <2>2. Saved(p, NoIntent, names, Row(names))
      BY <1>2, <2>1
    <2>3. names \in Seq(OutcomeNames)
      BY DEF OutcomeNames, EventNames, Requested
    <2> HIDE DEF names, Row
    <2> QED BY <1>3, <2>1, <2>2, <2>3, FlowSaved
  <1> QED BY <1>4, <1>5

LEMMA FlowNext == ASSUME Inv, FlowInv, [Next]_vars PROVE FlowInv'
  <1>1. ASSUME UNCHANGED tables, UNCHANGED stripe PROVE FlowInv'
    BY <1>1, FlowKept
  <1>2. CASE UNCHANGED vars
    BY <1>1, <1>2 DEF vars
  <1>3. ASSUME NEW w \in Workers, Step(w) \/ Abort(w) \/ Crash(w) PROVE FlowInv'
    <2>1. CASE GetByTransactionID(w) \/ providerCreateWithdrawal(w) \/ Abort(w) \/ Crash(w)
      BY <1>1, <2>1 DEF GetByTransactionID, providerCreateWithdrawal, Abort, Crash
    <2>2. CASE providerCreatePayment(w)
      <3>1. UNCHANGED tables /\ payment[w] \in Payments /\ payment[w] \in TopUps
        BY <2>2 DEF providerCreatePayment, Inv, TypeOK, WorkersInv, WorkerInv, Shape
      <3>2. \/ UNCHANGED stripe
            \/ stripe' = [stripe EXCEPT ![payment[w]] = stripe[payment[w]] \cup {"open"}]
        BY <2>2 DEF providerCreatePayment
      <3> QED BY <1>1, <3>1, <3>2, OnlyCheckouts, FlowKept
    <2>3. CASE providerRefundPayment(w)
      <3>1. UNCHANGED tables /\ payment[w] \in Payments
        BY <2>3 DEF providerRefundPayment, Inv, TypeOK
      <3>2. \/ UNCHANGED stripe
            \/ /\ stripe[payment[w]] # {}
               /\ stripe' = [stripe EXCEPT ![payment[w]] = stripe[payment[w]] \cup {"refunded"}]
        BY <2>3 DEF providerRefundPayment
      <3> QED BY <1>1, <3>1, <3>2, OnlyCheckouts, FlowKept
    <2> QED BY <1>3, <2>1, <2>2, <2>3, FlowApplies, FlowFails DEF Step
  <1>4. ASSUME NEW w \in Workers, NEW p \in Payments,
               RefundPayment(w, p) \/ processPendingWithdrawal(w, p) \/ \E r \in Webhooks(p) : ProcessWebhook(w, p, r)
        PROVE  FlowInv'
    BY <1>1, <1>4 DEF RefundPayment, processPendingWithdrawal, ProcessWebhook
  <1>5. ASSUME NEW p \in Payments, ExpireLock(p) PROVE FlowInv'
    BY <1>1, <1>5 DEF ExpireLock
  <1>6. ASSUME NEW p \in Payments, NEW f \in Facts, StripeStep(p, f) PROVE FlowInv'
    <2>1. UNCHANGED tables /\ stripe' = [stripe EXCEPT ![p] = stripe[p] \cup {f}] /\ Possible(p, f)
      BY <1>6 DEF StripeStep
    <2>2. stripe[p] # {}
      BY <2>1 DEF Possible
    <2> QED BY <2>1, <2>2, OnlyCheckouts, FlowKept
  <1> QED BY <1>2, <1>3, <1>4, <1>5, <1>6, FlowCreates DEF Next

LEMMA FlowInvariance == Spec => [](Inv /\ FlowInv)
  <1>1. Inv /\ FlowInv /\ [Next]_vars => (Inv /\ FlowInv)'
    BY NextInv, FlowNext
  <1> QED BY <1>1, InitInv, FlowInit, PTL DEF Spec

-----------------------------------------------------------------------------
(* The fee *)

LEMMA WrapFits == ASSUME NEW n \in Nat, n < Limit PROVE Wrap(n) = n
  <1>1. PICK m \in Int : m = Limit
    BY MoneyAssumption DEF Limit
  <1>2. \A x \in Int, b \in Nat \ {0} : x >= 0 /\ x < b => x % b = x
    OBVIOUS
  <1>3. n + m \in Int /\ n + m >= 0 /\ n + m < 2 * m /\ 2 * m \in Nat \ {0}
    BY <1>1
  <1>4. (n + m) % (2 * m) = n + m
    BY <1>2, <1>3
  <1> QED BY <1>1, <1>4 DEF Wrap

\* Products of numbers are ordered as their factors.
LEMMA Products ==
    ASSUME NEW b \in Nat \ {0}, NEW q \in Int, NEW s \in Int, q * b < s * b
    PROVE  q < s
  <1> SUFFICES ASSUME q >= s PROVE FALSE
    OBVIOUS
  <1>1. PICK d \in Nat : q = s + d
    <2>1. q - s \in Nat /\ q = s + (q - s)
      OBVIOUS
    <2> QED BY <2>1
  <1>2. (s + d) * b = s * b + d * b /\ d * b >= 0
    OBVIOUS
  <1> QED BY <1>1, <1>2

\* What Compute answers while nothing overflows.
LEMMA FeeComputed ==
    ASSUME NEW amount \in Nat \ {0}, NEW rate \in Nat, NEW flat \in Nat,
           amount * rate + Basis + flat < Limit
    PROVE  \E q \in Nat : /\ Compute(amount, rate, flat) = q + flat
                          /\ q * Basis >= amount * rate
                          /\ q * Basis < amount * rate + Basis
  <1>0. Basis \in Nat \ {0}
    BY MoneyAssumption
  <1>1. PICK x \in Nat : x = amount * rate
    OBVIOUS
  <1>2. PICK m \in Int : m = Limit
    BY MoneyAssumption DEF Limit
  <1>3. x + Basis + flat < m
    BY <1>1, <1>2
  <1>4. CASE rate > 0
    <2>1. PICK n \in Nat : n = x + Basis - 1
      BY <1>0
    <2>2. n < Limit
      BY <1>0, <1>2, <1>3, <2>1
    <2>3. Wrap(n) = n
      BY <2>2, WrapFits
    <2>4. PICK q \in Nat : q = n \div Basis /\ q * Basis <= n /\ n < (q + 1) * Basis
      <3>1. n \div Basis \in Nat /\ (n \div Basis) * Basis <= n /\ n < (n \div Basis + 1) * Basis
        BY <1>0
      <3> QED BY <3>1
    <2>5. q <= n
      <3>1. PICK b \in Nat \ {0} : b = Basis
        BY <1>0
      <3>2. q * b >= q
        OBVIOUS
      <3> QED BY <2>4, <3>1, <3>2
    <2>6. PICK y \in Nat : y = q * Basis
      BY <1>0
    <2>7. (q + 1) * Basis = y + Basis
      BY <1>0, <2>6
    <2>8. x <= y /\ y < x + Basis
      BY <1>0, <2>1, <2>4, <2>6, <2>7
    <2>9. q + flat \in Nat /\ q + flat < Limit
      BY <1>0, <1>2, <1>3, <2>1, <2>5
    <2>10. Wrap(q + flat) = q + flat
      BY <2>9, WrapFits
    <2>11. Compute(amount, rate, flat) = q + flat
      BY <1>1, <1>4, <2>1, <2>3, <2>4, <2>9, <2>10 DEF Compute
    <2> QED BY <1>1, <2>6, <2>8, <2>11
  <1>5. CASE rate = 0
    <2>1. x = 0
      BY <1>1, <1>5
    <2>2. flat < Limit
      BY <1>0, <1>2, <1>3, <2>1
    <2>3. Wrap(0 + flat) = flat
      BY <2>2, WrapFits
    <2>4. Compute(amount, rate, flat) = 0 + flat
      BY <1>5, <2>3 DEF Compute
    <2>5. 0 * Basis = 0
      BY <1>0
    <2> QED BY <1>0, <1>1, <2>1, <2>4, <2>5
  <1> QED BY <1>4, <1>5

LEMMA FeesRoundUp == FeeIsRoundedUp
  <1> SUFFICES ASSUME NEW amount \in 1..MaxAmount * Basis, NEW rate \in 0..Basis, NEW flat \in 0..MaxFee,
                      amount * rate + Basis + flat < Limit
               PROVE  LET fee == Compute(amount, rate, flat)
                      IN /\ (fee - flat) * Basis >= amount * rate
                         /\ (fee - flat - 1) * Basis < amount * rate
                         /\ amount > 1 => Compute(amount - 1, rate, flat) <= fee
    BY DEF FeeIsRoundedUp
  <1>0. Basis \in Nat \ {0} /\ amount \in Nat \ {0} /\ rate \in Nat /\ flat \in Nat
    BY MoneyAssumption
  <1>1. PICK q \in Nat : /\ Compute(amount, rate, flat) = q + flat
                         /\ q * Basis >= amount * rate
                         /\ q * Basis < amount * rate + Basis
    BY <1>0, FeeComputed
  <1>2. PICK x \in Nat : x = amount * rate
    BY <1>0
  <1>3. PICK y \in Nat : y = q * Basis
    BY <1>0
  <1>4. q + flat - flat = q /\ (q - 1) * Basis = y - Basis
    BY <1>0, <1>3
  <1>5. ASSUME amount > 1 PROVE Compute(amount - 1, rate, flat) <= q + flat
    <2>1. amount - 1 \in Nat \ {0}
      BY <1>0, <1>5
    <2>2. PICK z \in Nat : z = (amount - 1) * rate
      BY <1>0, <2>1
    <2>3. z + rate = x
      BY <1>0, <1>2, <2>2
    <2>4. PICK m \in Int : m = Limit
      BY MoneyAssumption DEF Limit
    <2>5. (amount - 1) * rate + Basis + flat < Limit
      BY <1>0, <1>2, <2>2, <2>3, <2>4
    <2>6. PICK s \in Nat : /\ Compute(amount - 1, rate, flat) = s + flat
                           /\ s * Basis < (amount - 1) * rate + Basis
      BY <1>0, <2>1, <2>5, FeeComputed
    <2>7. PICK v \in Nat : v = s * Basis
      BY <1>0
    <2>8. (q + 1) * Basis = y + Basis /\ v < y + Basis
      BY <1>0, <1>1, <1>2, <1>3, <2>2, <2>3, <2>6, <2>7
    <2>9. s < q + 1
      BY <1>0, <2>7, <2>8, Products
    <2> QED BY <1>0, <2>6, <2>9
  <1>6. (q - 1) * Basis < x
    BY <1>0, <1>1, <1>2, <1>3, <1>4
  <1>7. q + flat - flat - 1 = q - 1
    BY <1>0
  <1> QED BY <1>1, <1>2, <1>4, <1>5, <1>6, <1>7

-----------------------------------------------------------------------------
(* Terms *)

LEMMA TermsType ==
    /\ \A t \in NewProviderTopUpAggregate :
          /\ t.workflow = "TOP_UP" /\ t.amount \in Nat \ {0} /\ t.fee \in Nat
          /\ t.providerAmount = t.amount + t.fee /\ t.debit = Blank /\ t.credit = Person
          /\ t = NewProviderTopUpIntent(t.amount, t.fee)
    /\ \A t \in NewProviderWithdrawalAggregate :
          /\ t.workflow = "WITHDRAWAL" /\ t.amount \in Nat \ {0} /\ t.fee \in Nat
          /\ t.providerAmount = t.amount /\ t.debit = Person /\ t.credit = Blank
          /\ t = NewProviderWithdrawalIntent(t.amount, t.fee)
  <1>1. ASSUME NEW t \in NewProviderTopUpAggregate
        PROVE  /\ t.workflow = "TOP_UP" /\ t.amount \in Nat \ {0} /\ t.fee \in Nat
               /\ t.providerAmount = t.amount + t.fee /\ t.debit = Blank /\ t.credit = Person
               /\ t = NewProviderTopUpIntent(t.amount, t.fee)
    <2>1. PICK a \in 0..MaxAmount, f \in 0..MaxFee : t = NewProviderTopUpIntent(a, f) /\ newPaymentIntent(t)
      BY DEF NewProviderTopUpAggregate, Intended
    <2>2. t.amount = a /\ t.fee = f
      BY <2>1 DEF NewProviderTopUpIntent
    <2> QED BY <2>1, <2>2, MoneyAssumption DEF NewProviderTopUpIntent, newPaymentIntent
  <1>2. ASSUME NEW t \in NewProviderWithdrawalAggregate
        PROVE  /\ t.workflow = "WITHDRAWAL" /\ t.amount \in Nat \ {0} /\ t.fee \in Nat
               /\ t.providerAmount = t.amount /\ t.debit = Person /\ t.credit = Blank
               /\ t = NewProviderWithdrawalIntent(t.amount, t.fee)
    <2>1. PICK a \in 0..MaxAmount, f \in 0..MaxFee : t = NewProviderWithdrawalIntent(a, f) /\ newPaymentIntent(t)
      BY DEF NewProviderWithdrawalAggregate, Intended
    <2>2. t.amount = a /\ t.fee = f
      BY <2>1 DEF NewProviderWithdrawalIntent
    <2> QED BY <2>1, <2>2, MoneyAssumption DEF NewProviderWithdrawalIntent, newPaymentIntent
  <1> QED BY <1>1, <1>2

LEMMA TermsDoSurvive == TermsSurvive
  <1>1. ASSUME NEW t, NEW a \in Nat \ {0}, NEW f \in Nat,
               t = NewProviderTopUpIntent(a, f) \/ t = NewProviderWithdrawalIntent(a, f)
        PROVE  /\ RestorePaymentIntentAggregate(t) = t
               /\ RestorePaymentIntentAggregate([t EXCEPT !.providerAmount = 0]) = t
               /\ applyPaymentCreated(Recorded(t, "PaymentCreated", 0)) = t
    <2>0. "PaymentCreated" \notin Reversals
      BY DEF Reversals
    <2>1. CASE t = NewProviderTopUpIntent(a, f)
      <3>1. /\ t = [workflow |-> "TOP_UP", amount |-> a, fee |-> f,
                     providerAmount |-> a + f, debit |-> Blank, credit |-> Person]
            /\ t.providerAmount > 0
        BY <2>1 DEF NewProviderTopUpIntent
      <3>2. RestorePaymentIntentAggregate(t) = t
        BY <3>1 DEF RestorePaymentIntentAggregate, normalizePaymentIntentSnapshot
      <3>3. PICK z : z = [t EXCEPT !.providerAmount = 0]
        OBVIOUS
      <3>4. z.providerAmount = 0 /\ z.workflow = "TOP_UP" /\ z.amount = a /\ z.fee = f
        BY <3>1, <3>3
      <3>8. z = [workflow |-> "TOP_UP", amount |-> a, fee |-> f,
                 providerAmount |-> 0, debit |-> Blank, credit |-> Person]
        BY <3>1, <3>3
      <3>5. [z EXCEPT !.providerAmount = a + f] = t
        BY <3>1, <3>8
      <3>6. RestorePaymentIntentAggregate(z) = t
        BY <3>4, <3>5 DEF RestorePaymentIntentAggregate, normalizePaymentIntentSnapshot
      <3>7. applyPaymentCreated(Recorded(t, "PaymentCreated", 0)) = t
        BY <2>0, <3>1 DEF applyPaymentCreated, Recorded
      <3> QED BY <3>2, <3>3, <3>6, <3>7
    <2>2. CASE t = NewProviderWithdrawalIntent(a, f)
      <3>1. /\ t = [workflow |-> "WITHDRAWAL", amount |-> a, fee |-> f,
                     providerAmount |-> a, debit |-> Person, credit |-> Blank]
            /\ t.providerAmount > 0
        BY <2>2 DEF NewProviderWithdrawalIntent
      <3>2. RestorePaymentIntentAggregate(t) = t
        BY <3>1 DEF RestorePaymentIntentAggregate, normalizePaymentIntentSnapshot
      <3>3. PICK z : z = [t EXCEPT !.providerAmount = 0]
        OBVIOUS
      <3>4. z.providerAmount = 0 /\ z.workflow = "WITHDRAWAL" /\ z.amount = a
        BY <3>1, <3>3
      <3>8. z = [workflow |-> "WITHDRAWAL", amount |-> a, fee |-> f,
                 providerAmount |-> 0, debit |-> Person, credit |-> Blank]
        BY <3>1, <3>3
      <3>5. [z EXCEPT !.providerAmount = a] = t
        BY <3>1, <3>8
      <3>6. RestorePaymentIntentAggregate(z) = t
        BY <3>4, <3>5 DEF RestorePaymentIntentAggregate, normalizePaymentIntentSnapshot
      <3>7. applyPaymentCreated(Recorded(t, "PaymentCreated", 0)) = t
        BY <2>0, <3>1 DEF applyPaymentCreated, Recorded
      <3> QED BY <3>2, <3>3, <3>6, <3>7
    <2> QED BY <1>1, <2>1, <2>2
  <1>2. ASSUME NEW t \in NewProviderTopUpAggregate \cup NewProviderWithdrawalAggregate
        PROVE  \E a \in Nat \ {0}, f \in Nat :
                  t = NewProviderTopUpIntent(a, f) \/ t = NewProviderWithdrawalIntent(a, f)
    BY TermsType
  <1> QED BY <1>1, <1>2 DEF TermsSurvive

-----------------------------------------------------------------------------
(* Sums *)

LEMMA LeastNumber ==
    ASSUME NEW T, T \subseteq Nat, T # {}
    PROVE  \E n \in T : \A m \in T : n <= m
  <1>1. IsWellFoundedOn(OpToRel(<, Nat), Nat)
    BY NatLessThanWellFounded
  <1>2. PICK n \in T : \A m \in T : ~ (<< m, n >> \in OpToRel(<, Nat))
    BY <1>1, WFMin
  <1>3. \A m \in T : ~ (m < n)
    BY <1>2 DEF OpToRel
  <1> QED BY <1>3

Chosen(s) == CHOOSE x \in s : TRUE

\* z adds up f over every subset of S, one chosen element after the other.
Sums(z, f, S) ==
    z = [s \in SUBSET S |-> IF s = {} THEN 0 ELSE f[Chosen(s)] + z[s \ {Chosen(s)}]]

\* There is one way to add up over a finite set: otherwise there were a smallest subset
\* on which two differ, and they would differ without its chosen element.
LEMMA SumsAgree ==
    ASSUME NEW S, IsFiniteSet(S), NEW f, NEW y, NEW z, Sums(y, f, S), Sums(z, f, S)
    PROVE  y[S] = z[S]
  <1> DEFINE D == { s \in SUBSET S : y[s] # z[s] }
  <1> SUFFICES ASSUME D # {} PROVE FALSE
    OBVIOUS
  <1>1. \A s \in SUBSET S : IsFiniteSet(s) /\ Cardinality(s) \in Nat
    BY FS_Subset, FS_CardinalityType
  <1>2. PICK s \in D : \A u \in D : Cardinality(s) <= Cardinality(u)
    <2> DEFINE T == { Cardinality(u) : u \in D }
    <2>1. PICK n \in T : \A m \in T : n <= m
      <3>1. T \subseteq Nat /\ T # {}
        BY <1>1
      <3> HIDE DEF T
      <3> QED BY <3>1, LeastNumber
    <2> QED BY <2>1
  <1>3. /\ y[s] = IF s = {} THEN 0 ELSE f[Chosen(s)] + y[s \ {Chosen(s)}]
        /\ z[s] = IF s = {} THEN 0 ELSE f[Chosen(s)] + z[s \ {Chosen(s)}]
    BY DEF Sums
  <1>4. s # {}
    BY <1>3
  <1>5. Chosen(s) \in s
    BY <1>4, Zenon DEF Chosen
  <1>6. Cardinality(s \ {Chosen(s)}) = Cardinality(s) - 1
    BY <1>1, <1>5, FS_RemoveElement
  <1>7. s \ {Chosen(s)} \notin D
    BY <1>1, <1>2, <1>6
  <1>8. y[s \ {Chosen(s)}] = z[s \ {Chosen(s)}]
    BY <1>7
  <1> QED BY <1>3, <1>4, <1>8

\* Eight legs, of which some are in S.
Part(leg, S) == IF leg \in S THEN leg.delta ELSE 0
SumOfLegs(l, S) == Part(l[1], S) + Part(l[2], S) + Part(l[3], S) + Part(l[4], S)
                 + Part(l[5], S) + Part(l[6], S) + Part(l[7], S) + Part(l[8], S)
AreEight(l) ==
    /\ \A i, j \in 1..8 : l[i] = l[j] => i = j
    /\ \A i \in 1..8 : l[i].delta \in Int

\* The sum the properties write, over some of eight legs.
LEMMA LegsAreSummed ==
    ASSUME NEW l, AreEight(l), NEW S, S \subseteq { l[i] : i \in 1..8 }
    PROVE  MapThenSumSet(LAMBDA leg : leg.delta, S) = SumOfLegs(l, S)
  <1> DEFINE D == [x \in S |-> x.delta]
             Eq(z) == z = [s \in SUBSET S |->
                 IF s = {} THEN 0
                 ELSE (CHOOSE x \in s : TRUE).delta + z[s \ {CHOOSE x \in s : TRUE}]]
             y == CHOOSE z : Eq(z)
             v == [s \in SUBSET S |-> SumOfLegs(l, s)]
  <1>1. IsFiniteSet(S)
    <2>1. IsFiniteSet({ l[i] : i \in 1..8 })
      <3> DEFINE F == [i \in 1..8 |-> l[i]]
      <3>1. IsFiniteSet(1..8)
        <4>1. \A n \in Int : IsFiniteSet(1..n)
          BY FS_Interval
        <4>2. 8 \in Int
          OBVIOUS
        <4> QED BY <4>1, <4>2, Zenon
      <3>2. F \in Surjection(1..8, { l[i] : i \in 1..8 })
        BY DEF Surjection
      <3> QED BY <3>1, <3>2, FS_Surjection
    <2> QED BY <2>1, FS_Subset
  <1>2. ASSUME NEW s \in SUBSET S, s # {}
        PROVE  SumOfLegs(l, s) = Chosen(s).delta + SumOfLegs(l, s \ {Chosen(s)})
    <2>1. Chosen(s) \in s
      BY <1>2, Zenon DEF Chosen
    <2>2. PICK k \in 1..8 : Chosen(s) = l[k]
      BY <2>1
    <2> DEFINE u == s \ {l[k]}
    <2>3. \A i \in 1..8 : Part(l[i], s) \in Int /\ Part(l[i], u) \in Int
      BY DEF Part, AreEight
    <2>4. \A i \in 1..8 : i # k => Part(l[i], u) = Part(l[i], s)
      BY DEF Part, AreEight
    <2>5. Part(l[k], u) = 0 /\ Part(l[k], s) = l[k].delta /\ l[k].delta \in Int
      BY <2>1, <2>2 DEF Part, AreEight
    <2> HIDE DEF u
    <2>6. k = 1 \/ k = 2 \/ k = 3 \/ k = 4 \/ k = 5 \/ k = 6 \/ k = 7 \/ k = 8
      OBVIOUS
    <2>7. PICK a \in [1..8 -> Int] : \A i \in 1..8 : a[i] = Part(l[i], s)
      <3> DEFINE c == [i \in 1..8 |-> Part(l[i], s)]
      <3>1. c \in [1..8 -> Int] /\ \A i \in 1..8 : c[i] = Part(l[i], s)
        BY <2>3
      <3> QED BY <3>1
    <2>8. PICK b \in [1..8 -> Int] : \A i \in 1..8 : b[i] = Part(l[i], u)
      <3> DEFINE c == [i \in 1..8 |-> Part(l[i], u)]
      <3>1. c \in [1..8 -> Int] /\ \A i \in 1..8 : c[i] = Part(l[i], u)
        BY <2>3
      <3> QED BY <3>1
    <2>9. /\ SumOfLegs(l, s) = a[1] + a[2] + a[3] + a[4] + a[5] + a[6] + a[7] + a[8]
          /\ SumOfLegs(l, u) = b[1] + b[2] + b[3] + b[4] + b[5] + b[6] + b[7] + b[8]
      BY <2>7, <2>8 DEF SumOfLegs
    <2>10. a[k] = l[k].delta /\ b[k] = 0 /\ \A i \in 1..8 : i # k => b[i] = a[i]
      BY <2>4, <2>5, <2>7, <2>8
    <2>11. a[1] + a[2] + a[3] + a[4] + a[5] + a[6] + a[7] + a[8]
            = a[k] + (b[1] + b[2] + b[3] + b[4] + b[5] + b[6] + b[7] + b[8])
      BY <2>6, <2>10
    <2> QED BY <2>2, <2>9, <2>10, <2>11 DEF u
  <1>3. SumOfLegs(l, {}) = 0
    BY DEF SumOfLegs, Part
  <1>4. Eq(v)
    <2>1. \A s \in SUBSET S : s # {} => s \ {Chosen(s)} \in SUBSET S
      OBVIOUS
    <2>2. v = [s \in SUBSET S |-> IF s = {} THEN 0 ELSE Chosen(s).delta + v[s \ {Chosen(s)}]]
      BY <1>2, <1>3, <2>1
    <2> HIDE DEF v
    <2> QED BY <2>2, Zenon DEF Chosen
  <1>5. Eq(y)
    <2> HIDE DEF v, Eq
    <2> QED BY <1>4, Zenon
  <1>6. MapThenSumSet(LAMBDA leg : leg.delta, S) = y[S]
    BY Zenon DEF MapThenSumSet, MapThenFoldSet
  <1> HIDE DEF y
  <1>7. \A s \in SUBSET S : s # {} => Chosen(s) \in S
    BY Zenon DEF Chosen
  <1>8. Sums(y, D, S)
    <2>1. y = [s \in SUBSET S |-> IF s = {} THEN 0 ELSE Chosen(s).delta + y[s \ {Chosen(s)}]]
      BY <1>5, Zenon DEF Chosen
    <2> QED BY <1>7, <2>1 DEF Sums
  <1>9. Sums(v, D, S)
    <2> HIDE DEF v
    <2>1. v = [s \in SUBSET S |-> IF s = {} THEN 0 ELSE Chosen(s).delta + v[s \ {Chosen(s)}]]
      BY <1>4, Zenon DEF Chosen
    <2> QED BY <1>7, <2>1 DEF Sums
  <1>10. y[S] = v[S]
    <2> HIDE DEF v, D
    <2> QED BY <1>1, <1>8, <1>9, SumsAgree
  <1> QED BY <1>6, <1>10, Zenon

-----------------------------------------------------------------------------
(* What an event moves *)

\* Four legs of a booking k: account x moves by d and y by as much the other way, and for
\* the fee account u by f and v the other way.
FourLegs(l, k, x, y, d, u, v, f) ==
    /\ l[1].account = x /\ l[1].delta = d /\ l[1].transaction.part = "principal"
    /\ l[2].account = y /\ l[2].delta = -d /\ l[2].transaction.part = "principal"
    /\ l[3].account = u /\ l[3].delta = f /\ l[3].transaction.part = "fee"
    /\ l[4].account = v /\ l[4].delta = -f /\ l[4].transaction.part = "fee"
    /\ \A i \in 1..4 : l[i].transaction.kind = k

\* Those that are booked: no fee, no legs for it.
LegSet(l, f) == {l[1], l[2]} \cup (IF f # 0 THEN {l[3], l[4]} ELSE {})

BookedLegs(L, k, x, y, d, u, v, f) ==
    \E l : FourLegs(l, k, x, y, d, u, v, f) /\ L = LegSet(l, f)

Moved(a, x, y, d, u, v, f) ==
    (IF a = x THEN d ELSE 0) + (IF a = y THEN -d ELSE 0)
    + (IF a = u THEN f ELSE 0) + (IF a = v THEN -f ELSE 0)

LEMMA FourAreDistinct ==
    ASSUME NEW l, NEW k, NEW x, NEW y, NEW d \in Int, NEW u, NEW v, NEW f \in Int,
           FourLegs(l, k, x, y, d, u, v, f), x # y, u # v
    PROVE  /\ \A i, j \in 1..4 : l[i] = l[j] => i = j
           /\ \A i \in 1..4 : l[i].delta \in Int
  <1>1. l[1] # l[2] /\ l[1] # l[3] /\ l[1] # l[4] /\ l[2] # l[3] /\ l[2] # l[4] /\ l[3] # l[4]
    BY DEF FourLegs
  <1>2. \A i \in 1..4 : i = 1 \/ i = 2 \/ i = 3 \/ i = 4
    OBVIOUS
  <1>3. \A i \in 1..4 : l[i].delta \in Int
    <2>1. l[1].delta \in Int /\ l[2].delta \in Int /\ l[3].delta \in Int /\ l[4].delta \in Int
      BY DEF FourLegs
    <2> QED BY <1>2, <2>1
  <1> QED BY <1>1, <1>2, <1>3

\* The balance of an account after one booking or two.
LEMMA BookedBalance ==
    ASSUME NEW l, NEW k, NEW x, NEW y, NEW d \in Int, NEW u, NEW v, NEW f \in Int,
           FourLegs(l, k, x, y, d, u, v, f), x # y, u # v,
           NEW n, NEW j, NEW x2, NEW y2, NEW d2 \in Int, NEW u2, NEW v2, NEW f2 \in Int,
           FourLegs(n, j, x2, y2, d2, u2, v2, f2), x2 # y2, u2 # v2,
           k # j, NEW a
    PROVE  /\ Balance(LegSet(l, f), a) = Moved(a, x, y, d, u, v, f)
           /\ Balance(LegSet(l, f) \cup LegSet(n, f2), a)
                = Moved(a, x, y, d, u, v, f) + Moved(a, x2, y2, d2, u2, v2, f2)
  <1>1. /\ \A i, h \in 1..4 : l[i] = l[h] => i = h
        /\ \A i \in 1..4 : l[i].delta \in Int
    BY FourAreDistinct
  <1>2. /\ \A i, h \in 1..4 : n[i] = n[h] => i = h
        /\ \A i \in 1..4 : n[i].delta \in Int
    BY FourAreDistinct
  <1>3. \A i, h \in 1..4 : l[i] # n[h]
    BY DEF FourLegs
  <1>4. PICK m : m = [i \in 1..8 |-> IF i <= 4 THEN l[i] ELSE n[i - 4]]
    OBVIOUS
  <1>5. /\ m[1] = l[1] /\ m[2] = l[2] /\ m[3] = l[3] /\ m[4] = l[4]
        /\ m[5] = n[1] /\ m[6] = n[2] /\ m[7] = n[3] /\ m[8] = n[4]
    BY <1>4
  <1>6. AreEight(m)
    <2>1. ASSUME NEW i \in 1..8, NEW h \in 1..8, m[i] = m[h] PROVE i = h
      <3>1. CASE i <= 4 /\ h <= 4
        <4>1. i \in 1..4 /\ h \in 1..4 /\ m[i] = l[i] /\ m[h] = l[h]
          BY <1>4, <3>1
        <4> QED BY <1>1, <2>1, <4>1
      <3>2. CASE i > 4 /\ h > 4
        <4>1. i - 4 \in 1..4 /\ h - 4 \in 1..4 /\ m[i] = n[i - 4] /\ m[h] = n[h - 4]
          BY <1>4, <3>2
        <4>2. i - 4 = h - 4
          BY <1>2, <2>1, <4>1
        <4> QED BY <4>2
      <3>3. CASE i <= 4 /\ h > 4
        <4>1. i \in 1..4 /\ h - 4 \in 1..4 /\ m[i] = l[i] /\ m[h] = n[h - 4]
          BY <1>4, <3>3
        <4> QED BY <1>3, <2>1, <4>1
      <3>4. CASE i > 4 /\ h <= 4
        <4>1. i - 4 \in 1..4 /\ h \in 1..4 /\ m[i] = n[i - 4] /\ m[h] = l[h]
          BY <1>4, <3>4
        <4> QED BY <1>3, <2>1, <4>1
      <3> QED BY <3>1, <3>2, <3>3, <3>4
    <2>2. ASSUME NEW i \in 1..8 PROVE m[i].delta \in Int
      <3>1. CASE i <= 4
        <4>1. i \in 1..4 /\ m[i] = l[i]
          BY <1>4, <3>1
        <4> QED BY <1>1, <4>1
      <3>2. CASE i > 4
        <4>1. i - 4 \in 1..4 /\ m[i] = n[i - 4]
          BY <1>4, <3>2
        <4> QED BY <1>2, <4>1
      <3> QED BY <3>1, <3>2
    <2> QED BY <2>1, <2>2 DEF AreEight
  <1>7. l[1] # l[2] /\ l[1] # l[3] /\ l[1] # l[4] /\ l[2] # l[3] /\ l[2] # l[4] /\ l[3] # l[4]
        /\ n[1] # n[2] /\ n[1] # n[3] /\ n[1] # n[4] /\ n[2] # n[3] /\ n[2] # n[4] /\ n[3] # n[4]
    BY <1>1, <1>2
  <1>8. LegSet(l, f) \cup LegSet(n, f2) \subseteq { m[i] : i \in 1..8 }
    <2>1. {m[1], m[2], m[3], m[4], m[5], m[6], m[7], m[8]} \subseteq { m[i] : i \in 1..8 }
      OBVIOUS
    <2> QED BY <1>5, <2>1 DEF LegSet
  <1>9. ASSUME NEW L, L = LegSet(l, f) \/ L = LegSet(l, f) \cup LegSet(n, f2)
        PROVE  /\ Balance(L, a) = SumOfLegs(m, { leg \in L : leg.account = a })
               /\ LET S == { leg \in L : leg.account = a }
                  IN /\ Part(l[1], S) = IF a = x THEN d ELSE 0
                     /\ Part(l[2], S) = IF a = y THEN -d ELSE 0
                     /\ Part(l[3], S) = IF a = u THEN f ELSE 0
                     /\ Part(l[4], S) = IF a = v THEN -f ELSE 0
    <2> DEFINE S == { leg \in L : leg.account = a }
    <2>1. S \subseteq { m[i] : i \in 1..8 }
      BY <1>8, <1>9
    <2>2. Balance(L, a) = SumOfLegs(m, S)
      BY <1>6, <2>1, LegsAreSummed DEF Balance
    <2>3. l[1] \in L /\ l[2] \in L
      BY <1>9 DEF LegSet
    <2>4. f # 0 => l[3] \in L /\ l[4] \in L
      BY <1>9 DEF LegSet
    <2>5. Part(l[1], S) = IF a = x THEN d ELSE 0
      BY <2>3 DEF Part, FourLegs
    <2>6. Part(l[2], S) = IF a = y THEN -d ELSE 0
      BY <2>3 DEF Part, FourLegs
    <2>7. Part(l[3], S) = IF a = u THEN f ELSE 0
      BY <2>4 DEF Part, FourLegs
    <2>8. Part(l[4], S) = IF a = v THEN -f ELSE 0
      BY <2>4 DEF Part, FourLegs
    <2> QED BY <2>2, <2>5, <2>6, <2>7, <2>8
  <1>10. Balance(LegSet(l, f), a) = Moved(a, x, y, d, u, v, f)
    <2> DEFINE S == { leg \in LegSet(l, f) : leg.account = a }
    <2>1. n[1] \notin S /\ n[2] \notin S /\ n[3] \notin S /\ n[4] \notin S
      BY <1>3 DEF LegSet
    <2>2. Part(n[1], S) = 0 /\ Part(n[2], S) = 0 /\ Part(n[3], S) = 0 /\ Part(n[4], S) = 0
      BY <2>1 DEF Part
    <2>3. /\ Balance(LegSet(l, f), a) = SumOfLegs(m, S)
          /\ Part(l[1], S) = IF a = x THEN d ELSE 0
          /\ Part(l[2], S) = IF a = y THEN -d ELSE 0
          /\ Part(l[3], S) = IF a = u THEN f ELSE 0
          /\ Part(l[4], S) = IF a = v THEN -f ELSE 0
      BY <1>9
    <2> HIDE DEF S
    <2> QED BY <1>5, <2>2, <2>3 DEF SumOfLegs, Moved
  <1>11. Balance(LegSet(l, f) \cup LegSet(n, f2), a)
           = Moved(a, x, y, d, u, v, f) + Moved(a, x2, y2, d2, u2, v2, f2)
    <2> DEFINE L == LegSet(l, f) \cup LegSet(n, f2)
               S == { leg \in L : leg.account = a }
    <2>1. n[1] \in L /\ n[2] \in L /\ (f2 # 0 => n[3] \in L /\ n[4] \in L)
      BY DEF LegSet
    <2>2. /\ Part(n[1], S) = IF a = x2 THEN d2 ELSE 0
          /\ Part(n[2], S) = IF a = y2 THEN -d2 ELSE 0
          /\ Part(n[3], S) = IF a = u2 THEN f2 ELSE 0
          /\ Part(n[4], S) = IF a = v2 THEN -f2 ELSE 0
      <3> HIDE DEF L
      <3>1. /\ n[1] \in S <=> a = x2
            /\ n[2] \in S <=> a = y2
            /\ n[3] \in S <=> n[3] \in L /\ a = u2
            /\ n[4] \in S <=> n[4] \in L /\ a = v2
        BY <2>1 DEF FourLegs
      <3> HIDE DEF S
      <3> QED BY <2>1, <3>1 DEF Part, FourLegs
    <2>3. /\ Balance(L, a) = SumOfLegs(m, S)
          /\ Part(l[1], S) = IF a = x THEN d ELSE 0
          /\ Part(l[2], S) = IF a = y THEN -d ELSE 0
          /\ Part(l[3], S) = IF a = u THEN f ELSE 0
          /\ Part(l[4], S) = IF a = v THEN -f ELSE 0
      BY <1>9
    <2> HIDE DEF S, L
    <2>4. Balance(L, a) = Moved(a, x, y, d, u, v, f) + Moved(a, x2, y2, d2, u2, v2, f2)
      BY <1>5, <2>2, <2>3 DEF SumOfLegs, Moved
    <2> QED BY <2>4 DEF L
  <1> QED BY <1>10, <1>11

\* One booking alone, and with another.
LEMMA OneBooked ==
    ASSUME NEW L, NEW k, NEW x, NEW y, NEW d \in Int, NEW u, NEW v, NEW f \in Int,
           BookedLegs(L, k, x, y, d, u, v, f), x # y, u # v, k # "unbooked", NEW a
    PROVE  Balance(L, a) = Moved(a, x, y, d, u, v, f)
  <1>1. PICK l : FourLegs(l, k, x, y, d, u, v, f) /\ L = LegSet(l, f)
    BY DEF BookedLegs
  <1>2. PICK n, j, x2, y2, d2, u2, v2, f2 :
           d2 \in Int /\ f2 \in Int /\ FourLegs(n, j, x2, y2, d2, u2, v2, f2) /\ x2 # y2 /\ u2 # v2 /\ k # j
    <2> DEFINE Other(part, account, delta) ==
                 [account |-> account, delta |-> delta, transaction |-> [kind |-> "unbooked", part |-> part]]
               n == << Other("principal", 1, 1), Other("principal", 2, -1), Other("fee", 1, 1), Other("fee", 2, -1) >>
    <2>1. /\ n[1] = Other("principal", 1, 1) /\ n[2] = Other("principal", 2, -1)
          /\ n[3] = Other("fee", 1, 1) /\ n[4] = Other("fee", 2, -1)
      OBVIOUS
    <2>2. \A i \in 1..4 : i = 1 \/ i = 2 \/ i = 3 \/ i = 4
      OBVIOUS
    <2>3. \A part, account, delta :
             LET o == Other(part, account, delta)
             IN o.account = account /\ o.delta = delta /\ o.transaction.kind = "unbooked" /\ o.transaction.part = part
      OBVIOUS
    <2> HIDE DEF n, Other
    <2>4. FourLegs(n, "unbooked", 1, 2, 1, 1, 2, 1)
      BY <2>1, <2>2, <2>3 DEF FourLegs
    <2>5. 1 \in Int /\ 1 # 2
      OBVIOUS
    <2> QED BY <2>4, <2>5
  <1>3. /\ Balance(LegSet(l, f), a) = Moved(a, x, y, d, u, v, f)
        /\ Balance(LegSet(l, f) \cup LegSet(n, f2), a)
             = Moved(a, x, y, d, u, v, f) + Moved(a, x2, y2, d2, u2, v2, f2)
    BY <1>1, <1>2, BookedBalance
  <1> QED BY <1>1, <1>3

LEMMA TwoBooked ==
    ASSUME NEW L, NEW k, NEW x, NEW y, NEW d \in Int, NEW u, NEW v, NEW f \in Int,
           BookedLegs(L, k, x, y, d, u, v, f), x # y, u # v,
           NEW M, NEW j, NEW x2, NEW y2, NEW d2 \in Int, NEW u2, NEW v2, NEW f2 \in Int,
           BookedLegs(M, j, x2, y2, d2, u2, v2, f2), x2 # y2, u2 # v2,
           k # j, NEW a
    PROVE  Balance(L \cup M, a) = Moved(a, x, y, d, u, v, f) + Moved(a, x2, y2, d2, u2, v2, f2)
  <1>1. PICK l : FourLegs(l, k, x, y, d, u, v, f) /\ L = LegSet(l, f)
    BY DEF BookedLegs
  <1>2. PICK n : FourLegs(n, j, x2, y2, d2, u2, v2, f2) /\ M = LegSet(n, f2)
    BY DEF BookedLegs
  <1> QED BY <1>1, <1>2, BookedBalance

LEMMA FourInARow == ASSUME NEW p, NEW q, NEW g, NEW h PROVE << p, q >> \o << g, h >> = << p, q, g, h >>
  <1> DEFINE s == << p, q >>
             t == << g, h >>
             u == << p, q, g, h >>
  <1>0. PICK S : p \in S /\ q \in S /\ g \in S /\ h \in S
    <2>1. p \in {p, q, g, h} /\ q \in {p, q, g, h} /\ g \in {p, q, g, h} /\ h \in {p, q, g, h}
      OBVIOUS
    <2> QED BY <2>1
  <1>1. s \in Seq(S) /\ t \in Seq(S) /\ u \in Seq(S)
    BY <1>0
  <1>2. Len(s) = 2 /\ Len(t) = 2 /\ Len(u) = 4
    OBVIOUS
  <1>3. s[1] = p /\ s[2] = q /\ t[1] = g /\ t[2] = h /\ u[1] = p /\ u[2] = q /\ u[3] = g /\ u[4] = h
    OBVIOUS
  <1> HIDE DEF s, t, u
  <1>4. /\ s \o t \in Seq(S) /\ Len(s \o t) = Len(s) + Len(t)
        /\ \A i \in 1..Len(s) : (s \o t)[i] = s[i]
        /\ \A i \in 1..Len(t) : (s \o t)[Len(s) + i] = t[i]
    BY <1>1
  <1>5. (s \o t)[1] = p /\ (s \o t)[2] = q /\ (s \o t)[3] = g /\ (s \o t)[4] = h
    <2>1. 1 \in 1..Len(s) /\ 2 \in 1..Len(s) /\ 1 \in 1..Len(t) /\ 2 \in 1..Len(t)
          /\ Len(s) + 1 = 3 /\ Len(s) + 2 = 4
      BY <1>2
    <2>2. (s \o t)[1] = s[1] /\ (s \o t)[2] = s[2]
      BY <1>4, <2>1
    <2>3. (s \o t)[Len(s) + 1] = t[1] /\ (s \o t)[Len(s) + 2] = t[2]
      BY <1>4, <2>1
    <2> QED BY <1>3, <2>1, <2>2, <2>3
  <1>6. PICK c : c = s \o t
    OBVIOUS
  <1>8. c \in Seq(S) /\ Len(c) = 4 /\ c[1] = u[1] /\ c[2] = u[2] /\ c[3] = u[3] /\ c[4] = u[4]
    BY <1>2, <1>3, <1>4, <1>5, <1>6
  <1>9. \A i \in 1..4 : i = 1 \/ i = 2 \/ i = 3 \/ i = 4
    OBVIOUS
  <1>10. \A i \in 1..4 : c[i] = u[i]
    BY <1>8, <1>9
  <1>7. s \o t = u
    BY <1>1, <1>2, <1>6, <1>8, <1>10
  <1> QED BY <1>7 DEF s, t, u

\* The legs of an entry for the principal and of one for the fee.
LEMMA EntriesAreLegs ==
    ASSUME NEW r, r.fee \in Nat, NEW x, NEW y, NEW d \in Int, NEW u, NEW v, NEW f \in {r.fee, -r.fee},
           NEW t1, NEW t2, NEW t3, NEW t4
    PROVE  BookedLegs(Range(Books!DoubleEntryLegs(Books!TransactionId(r, "principal"), x, y, d, t1, t2)
                            \o Books!FeeLegs(r, Books!DoubleEntryLegs(Books!TransactionId(r, "fee"), u, v, f, t3, t4))),
                      r.kind, x, y, d, u, v, f)
  <1> DEFINE p == Books!Posting(x, Books!TransactionId(r, "principal"), y, d, t1)
             q == Books!Posting(y, Books!TransactionId(r, "principal"), x, -d, t2)
             g == Books!Posting(u, Books!TransactionId(r, "fee"), v, f, t3)
             h == Books!Posting(v, Books!TransactionId(r, "fee"), u, -f, t4)
  <1>1. /\ << p, q >> = Books!DoubleEntryLegs(Books!TransactionId(r, "principal"), x, y, d, t1, t2)
        /\ << g, h >> = Books!DoubleEntryLegs(Books!TransactionId(r, "fee"), u, v, f, t3, t4)
    BY Zenon DEF Books!DoubleEntryLegs
  <1>2. /\ p.account = x /\ p.delta = d /\ p.transaction.part = "principal" /\ p.transaction.kind = r.kind
        /\ q.account = y /\ q.delta = -d /\ q.transaction.part = "principal" /\ q.transaction.kind = r.kind
        /\ g.account = u /\ g.delta = f /\ g.transaction.part = "fee" /\ g.transaction.kind = r.kind
        /\ h.account = v /\ h.delta = -f /\ h.transaction.part = "fee" /\ h.transaction.kind = r.kind
    BY DEF Books!Posting, Books!TransactionId
  <1> HIDE DEF p, q, g, h
  <1> DEFINE l == << p, q, g, h >>
             legs == << p, q >> \o Books!FeeLegs(r, << g, h >>)
  <1>3. l[1] = p /\ l[2] = q /\ l[3] = g /\ l[4] = h
    OBVIOUS
  <1>4. \A i \in 1..4 : l[i] = p \/ l[i] = q \/ l[i] = g \/ l[i] = h
    OBVIOUS
  <1> HIDE DEF l
  <1>5. FourLegs(l, r.kind, x, y, d, u, v, f)
    BY <1>1, <1>2, <1>3, <1>4 DEF FourLegs
  <1>6. Range(legs) = LegSet(l, f)
    <2>1. CASE f = 0
      <3>1. Books!FeeLegs(r, << g, h >>) = << >>
        BY <2>1 DEF Books!FeeLegs
      <3>2. legs = << p, q >>
        BY <3>1
      <3>3. Range(<< p, q >>) = {p, q}
        BY DEF Range
      <3> HIDE DEF legs
      <3> QED BY <1>3, <2>1, <3>2, <3>3 DEF LegSet
    <2>2. CASE f # 0
      <3>1. Books!FeeLegs(r, << g, h >>) = << g, h >>
        BY <2>2 DEF Books!FeeLegs
      <3>4. << p, q >> \o << g, h >> = << p, q, g, h >>
        BY FourInARow
      <3>2. legs = << p, q, g, h >>
        BY <3>1, <3>4
      <3>3. Range(<< p, q, g, h >>) = {p, q, g, h}
        BY DEF Range
      <3> HIDE DEF legs
      <3> QED BY <1>3, <2>2, <3>2, <3>3 DEF LegSet
    <2> QED BY <2>1, <2>2
  <1> HIDE DEF legs
  <1>7. BookedLegs(Range(legs), r.kind, x, y, d, u, v, f)
    BY <1>5, <1>6 DEF BookedLegs
  <1> QED BY <1>1, <1>2, <1>7 DEF legs

-----------------------------------------------------------------------------
(* What an event books *)

\* The request that EventLegs makes of an event.
RequestOf(e, booking, account, charges) ==
    [kind |-> booking, id |-> "payment", user |-> account, to |-> ClearingAccount,
     amount |-> e.amount, fee |-> Charged(e, charges)]

LEMMA RequestsAreOf ==
    ASSUME NEW e, e.amount \in Nat, e.fee \in Nat, NEW booking, NEW account, NEW charges \in BOOLEAN,
           NEW r, r = RequestOf(e, booking, account, charges)
    PROVE  /\ r.kind = booking /\ r.user = account /\ r.amount = e.amount /\ r.fee = Charged(e, charges)
           /\ r.fee \in Nat /\ -r.amount \in Int /\ r.amount \in Int
           /\ r.fee \in {r.fee, -r.fee} /\ -r.fee \in {r.fee, -r.fee}
           /\ EventLegs(e, booking, account, charges) = Books!Legs(r)
  <1>1. /\ r.kind = booking /\ r.user = account /\ r.amount = e.amount /\ r.fee = Charged(e, charges)
        /\ EventLegs(e, booking, account, charges) = Books!Legs(r)
    BY DEF RequestOf, EventLegs
  <1>2. Charged(e, charges) \in Nat
    BY DEF Charged
  <1> QED BY <1>1, <1>2

LEMMA SuccessBooks ==
    ASSUME NEW e, e.amount \in Nat, e.fee \in Nat, NEW account, NEW charges \in BOOLEAN
    PROVE  BookedLegs(Range(EventLegs(e, "succeeded", account, charges)), "succeeded",
                      ClearingAccount, account, -e.amount, ClearingAccount, Fees, -Charged(e, charges))
  <1>1. PICK r : r = RequestOf(e, "succeeded", account, charges)
    OBVIOUS
  <1>2. /\ r.kind = "succeeded" /\ r.user = account /\ r.amount = e.amount /\ r.fee = Charged(e, charges)
        /\ r.fee \in Nat /\ -r.amount \in Int /\ -r.fee \in {r.fee, -r.fee}
        /\ EventLegs(e, "succeeded", account, charges) = Books!Legs(r)
    BY <1>1, RequestsAreOf
  <1>3. Books!Legs(r) = Books!paymentSucceededLedgerEvents(r)
    BY <1>2 DEF Books!Legs
  <1>4. BookedLegs(Range(Books!paymentSucceededLedgerEvents(r)), r.kind,
                   ClearingAccount, r.user, -r.amount, ClearingAccount, Fees, -r.fee)
    BY <1>2, EntriesAreLegs DEF Books!paymentSucceededLedgerEvents
  <1> QED BY <1>2, <1>3, <1>4

LEMMA ReversalBooks ==
    ASSUME NEW e, e.amount \in Nat, e.fee \in Nat, NEW account, NEW charges \in BOOLEAN,
           NEW booking \in {"refunded", "chargeback"}
    PROVE  BookedLegs(Range(EventLegs(e, booking, account, charges)), booking,
                      account, ClearingAccount, -e.amount, Fees, ClearingAccount, -Charged(e, charges))
  <1>1. PICK r : r = RequestOf(e, booking, account, charges)
    OBVIOUS
  <1>2. /\ r.kind = booking /\ r.user = account /\ r.amount = e.amount /\ r.fee = Charged(e, charges)
        /\ r.fee \in Nat /\ -r.amount \in Int /\ -r.fee \in {r.fee, -r.fee}
        /\ EventLegs(e, booking, account, charges) = Books!Legs(r)
    BY <1>1, RequestsAreOf
  <1>3. PICK d, c : Books!Legs(r) = Books!paymentReversedLedgerEvents(r, d, c)
    BY <1>2 DEF Books!Legs
  <1>4. BookedLegs(Range(Books!paymentReversedLedgerEvents(r, d, c)), r.kind,
                   r.user, ClearingAccount, -r.amount, Fees, ClearingAccount, -r.fee)
    BY <1>2, EntriesAreLegs DEF Books!paymentReversedLedgerEvents
  <1> QED BY <1>2, <1>3, <1>4

LEMMA WithdrawalBooks ==
    ASSUME NEW e, e.amount \in Nat, e.fee \in Nat, NEW account, NEW charges \in BOOLEAN
    PROVE  BookedLegs(Range(EventLegs(e, "withdrawal", account, charges)), "withdrawal",
                      account, ClearingAccount, -e.amount, account, Fees, -Charged(e, charges))
  <1>1. PICK r : r = RequestOf(e, "withdrawal", account, charges)
    OBVIOUS
  <1>2. /\ r.kind = "withdrawal" /\ r.user = account /\ r.amount = e.amount /\ r.fee = Charged(e, charges)
        /\ r.fee \in Nat /\ -r.amount \in Int /\ -r.fee \in {r.fee, -r.fee}
        /\ EventLegs(e, "withdrawal", account, charges) = Books!Legs(r)
    BY <1>1, RequestsAreOf
  <1>3. Books!Legs(r) = Books!paymentWithdrawalRequestedLedgerEvents(r)
    BY <1>2 DEF Books!Legs
  <1>4. BookedLegs(Range(Books!paymentWithdrawalRequestedLedgerEvents(r)), r.kind,
                   r.user, ClearingAccount, -r.amount, r.user, Fees, -r.fee)
    BY <1>2, EntriesAreLegs DEF Books!paymentWithdrawalRequestedLedgerEvents
  <1> QED BY <1>2, <1>3, <1>4

LEMMA FailureBooks ==
    ASSUME NEW e, e.amount \in Nat, e.fee \in Nat, NEW account, NEW charges \in BOOLEAN
    PROVE  BookedLegs(Range(EventLegs(e, "failed", account, charges)), "failed",
                      account, ClearingAccount, e.amount, account, Fees, Charged(e, charges))
  <1>1. PICK r : r = RequestOf(e, "failed", account, charges)
    OBVIOUS
  <1>2. /\ r.kind = "failed" /\ r.user = account /\ r.amount = e.amount /\ r.fee = Charged(e, charges)
        /\ r.fee \in Nat /\ r.amount \in Int /\ r.fee \in {r.fee, -r.fee}
        /\ EventLegs(e, "failed", account, charges) = Books!Legs(r)
    BY <1>1, RequestsAreOf
  <1>3. Books!Legs(r) = Books!paymentFailedLedgerEvents(r)
    BY <1>2 DEF Books!Legs
  <1>4. BookedLegs(Range(Books!paymentFailedLedgerEvents(r)), r.kind,
                   r.user, ClearingAccount, r.amount, r.user, Fees, r.fee)
    BY <1>2, EntriesAreLegs DEF Books!paymentFailedLedgerEvents
  <1> QED BY <1>2, <1>3, <1>4

-----------------------------------------------------------------------------
(* What the ledger allows *)

\* A leg that no balance can stop.
Free(type, delta) == delta >= 0 \/ ~ Books!requiresNonNegativeBalance(type)

IsLeg(leg, account, delta, type) == leg.account = account /\ leg.delta = delta /\ leg.type = type

\* The legs of an entry for the principal and of one for the fee, and what they are in their order.
Entries(legs, r, x, y, d, t1, t2, u, v, f, t3, t4) ==
    legs = Books!DoubleEntryLegs(Books!TransactionId(r, "principal"), x, y, d, t1, t2)
           \o Books!FeeLegs(r, Books!DoubleEntryLegs(Books!TransactionId(r, "fee"), u, v, f, t3, t4))

InARow(legs, fee, x, y, d, t1, t2, u, v, f, t3, t4) ==
    /\ DOMAIN legs = IF fee > 0 THEN 1..4 ELSE 1..2
    /\ IsLeg(legs[1], x, d, t1) /\ IsLeg(legs[2], y, -d, t2)
    /\ fee > 0 => IsLeg(legs[3], u, f, t3) /\ IsLeg(legs[4], v, -f, t4)

LEMMA TwoAre ==
    ASSUME NEW p, NEW q, NEW l, l = << p, q >>
    PROVE  DOMAIN l = 1..2 /\ l[1] = p /\ l[2] = q
  OBVIOUS

LEMMA FourAre ==
    ASSUME NEW p, NEW q, NEW g, NEW h, NEW l, l = << p, q, g, h >>
    PROVE  DOMAIN l = 1..4 /\ l[1] = p /\ l[2] = q /\ l[3] = g /\ l[4] = h
  OBVIOUS

LEMMA EntriesInARow ==
    ASSUME NEW r, r.fee \in Nat, NEW x, NEW y, NEW d \in Int, NEW u, NEW v, NEW f \in Int,
           NEW t1, NEW t2, NEW t3, NEW t4, NEW legs,
           Entries(legs, r, x, y, d, t1, t2, u, v, f, t3, t4)
    PROVE  InARow(legs, r.fee, x, y, d, t1, t2, u, v, f, t3, t4)
  <1> DEFINE p == Books!Posting(x, Books!TransactionId(r, "principal"), y, d, t1)
             q == Books!Posting(y, Books!TransactionId(r, "principal"), x, -d, t2)
             g == Books!Posting(u, Books!TransactionId(r, "fee"), v, f, t3)
             h == Books!Posting(v, Books!TransactionId(r, "fee"), u, -f, t4)
  <1>1. /\ << p, q >> = Books!DoubleEntryLegs(Books!TransactionId(r, "principal"), x, y, d, t1, t2)
        /\ << g, h >> = Books!DoubleEntryLegs(Books!TransactionId(r, "fee"), u, v, f, t3, t4)
    BY Zenon DEF Books!DoubleEntryLegs
  <1>2. IsLeg(p, x, d, t1) /\ IsLeg(q, y, -d, t2) /\ IsLeg(g, u, f, t3) /\ IsLeg(h, v, -f, t4)
    BY DEF Books!Posting, IsLeg
  <1> HIDE DEF p, q, g, h
  <1>3. legs = << p, q >> \o Books!FeeLegs(r, << g, h >>)
    BY <1>1, Zenon DEF Entries
  <1>4. CASE r.fee > 0
    <2>1. Books!FeeLegs(r, << g, h >>) = << g, h >>
      BY <1>4 DEF Books!FeeLegs
    <2>2. << p, q >> \o << g, h >> = << p, q, g, h >>
      BY FourInARow
    <2>3. legs = << p, q, g, h >>
      BY <1>3, <2>1, <2>2, Zenon
    <2>4. DOMAIN legs = 1..4 /\ legs[1] = p /\ legs[2] = q /\ legs[3] = g /\ legs[4] = h
      BY <2>3, FourAre
    <2> QED BY <1>2, <1>4, <2>4 DEF InARow
  <1>5. CASE ~ (r.fee > 0)
    <2>1. Books!FeeLegs(r, << g, h >>) = << >>
      BY <1>5 DEF Books!FeeLegs
    <2>2. << p, q >> \o << >> = << p, q >>
      OBVIOUS
    <2>3. legs = << p, q >>
      BY <1>3, <2>1, <2>2, Zenon
    <2>4. DOMAIN legs = 1..2 /\ legs[1] = p /\ legs[2] = q
      BY <2>3, TwoAre
    <2> QED BY <1>2, <1>5, <2>4 DEF InARow
  <1> QED BY <1>4, <1>5

\* Legs that no balance can stop are booked whatever anybody has.
LEMMA FreeIsAllowed ==
    ASSUME NEW legs, NEW funds, NEW fee \in Nat, NEW x, NEW y, NEW d \in Int, NEW u, NEW v, NEW f \in Int,
           NEW t1, NEW t2, NEW t3, NEW t4,
           InARow(legs, fee, x, y, d, t1, t2, u, v, f, t3, t4),
           Free(t1, d), Free(t2, -d), Free(t3, f), Free(t4, -f)
    PROVE  Allowed(legs, funds)
  <1>1. ASSUME NEW i \in DOMAIN legs PROVE Free(legs[i].type, legs[i].delta)
    <2>1. i = 1 \/ i = 2 \/ (fee > 0 /\ (i = 3 \/ i = 4))
      <3>1. CASE fee > 0
        BY <3>1 DEF InARow
      <3>2. CASE ~ (fee > 0)
        BY <3>2 DEF InARow
      <3> QED BY <3>1, <3>2
    <2> QED BY <2>1 DEF InARow, IsLeg
  <1>2. \A n : \A i \in DOMAIN legs : Books!ensurePostingAllowed(n, legs[i])
    BY <1>1 DEF Books!ensurePostingAllowed, Free
  <1> QED BY <1>2, Zenon DEF Allowed

LEMMA SuccessAllowed ==
    ASSUME NEW e, e.amount \in Nat, e.fee \in Nat, NEW account, NEW charges \in BOOLEAN, NEW funds
    PROVE  Allowed(EventLegs(e, "succeeded", account, charges), funds)
  <1>1. PICK r : r = RequestOf(e, "succeeded", account, charges)
    OBVIOUS
  <1>2. /\ r.kind = "succeeded" /\ r.fee \in Nat /\ r.amount \in Int
        /\ EventLegs(e, "succeeded", account, charges) = Books!Legs(r)
    BY <1>1, RequestsAreOf
  <1>3. PICK legs : legs = Books!Legs(r)
    OBVIOUS
  <1>a. PICK d \in Int, f \in Int : d = -r.amount /\ f = -r.fee
    BY <1>2
  <1>4. Entries(legs, r, ClearingAccount, r.user, d, "WithdrawFromIntent", "DepositFromIntent",
                ClearingAccount, Fees, f, "WithdrawFromIntent", "DepositFromIntent")
    <2>1. legs = Books!paymentSucceededLedgerEvents(r)
      BY <1>2, <1>3 DEF Books!Legs
    <2> QED BY <1>a, <2>1, Zenon DEF Books!paymentSucceededLedgerEvents, Entries
  <1>5. InARow(legs, r.fee, ClearingAccount, r.user, d, "WithdrawFromIntent", "DepositFromIntent",
               ClearingAccount, Fees, f, "WithdrawFromIntent", "DepositFromIntent")
    BY <1>2, <1>4, EntriesInARow
  <1>6. \A n : Free("WithdrawFromIntent", n) /\ Free("DepositFromIntent", n)
    BY DEF Free, Books!requiresNonNegativeBalance
  <1>7. Allowed(legs, funds)
    BY <1>2, <1>5, <1>6, FreeIsAllowed
  <1> QED BY <1>2, <1>3, <1>7

LEMMA ReversalAllowed ==
    ASSUME NEW e, e.amount \in Nat, e.fee \in Nat, NEW account, NEW charges \in BOOLEAN, NEW funds,
           NEW booking \in {"refunded", "chargeback"}
    PROVE  Allowed(EventLegs(e, booking, account, charges), funds)
  <1>1. PICK r : r = RequestOf(e, booking, account, charges)
    OBVIOUS
  <1>2. /\ r.kind = booking /\ r.fee \in Nat /\ r.amount \in Int
        /\ EventLegs(e, booking, account, charges) = Books!Legs(r)
    BY <1>1, RequestsAreOf
  <1>3. PICK legs : legs = Books!Legs(r)
    OBVIOUS
  <1>a. PICK d \in Int, f \in Int : d = -r.amount /\ f = -r.fee
    BY <1>2
  <1>b. PICK t1, t2 : /\ t1 \in {"WithdrawFromRefund", "WithdrawFromChargeback"}
                      /\ t2 \in {"DepositFromRefund", "DepositFromChargeback"}
                      /\ legs = Books!paymentReversedLedgerEvents(r, t1, t2)
    BY <1>2, <1>3 DEF Books!Legs
  <1>4. Entries(legs, r, r.user, ClearingAccount, d, t1, t2, Fees, ClearingAccount, f, t1, t2)
    BY <1>a, <1>b, Zenon DEF Books!paymentReversedLedgerEvents, Entries
  <1>5. InARow(legs, r.fee, r.user, ClearingAccount, d, t1, t2, Fees, ClearingAccount, f, t1, t2)
    BY <1>2, <1>4, EntriesInARow
  <1>6. \A n : Free(t1, n) /\ Free(t2, n)
    BY <1>b DEF Free, Books!requiresNonNegativeBalance
  <1>7. Allowed(legs, funds)
    BY <1>2, <1>5, <1>6, FreeIsAllowed
  <1> QED BY <1>2, <1>3, <1>7

LEMMA FailureAllowed ==
    ASSUME NEW e, e.amount \in Nat, e.fee \in Nat, NEW account, NEW charges \in BOOLEAN, NEW funds
    PROVE  Allowed(EventLegs(e, "failed", account, charges), funds)
  <1>1. PICK r : r = RequestOf(e, "failed", account, charges)
    OBVIOUS
  <1>2. /\ r.kind = "failed" /\ r.fee \in Nat /\ r.amount = e.amount
        /\ EventLegs(e, "failed", account, charges) = Books!Legs(r)
    BY <1>1, RequestsAreOf
  <1>3. PICK legs : legs = Books!Legs(r)
    OBVIOUS
  <1>a. PICK d \in Nat, f \in Nat : d = r.amount /\ f = r.fee
    BY <1>2
  <1>4. Entries(legs, r, r.user, ClearingAccount, d, "ReleaseWithdrawal", "WithdrawReleasedHold",
                r.user, Fees, f, "ReleaseWithdrawal", "WithdrawReleasedHold")
    <2>1. legs = Books!paymentFailedLedgerEvents(r)
      BY <1>2, <1>3 DEF Books!Legs
    <2> QED BY <1>a, <2>1, Zenon DEF Books!paymentFailedLedgerEvents, Entries
  <1>5. InARow(legs, r.fee, r.user, ClearingAccount, d, "ReleaseWithdrawal", "WithdrawReleasedHold",
               r.user, Fees, f, "ReleaseWithdrawal", "WithdrawReleasedHold")
    BY <1>2, <1>4, EntriesInARow
  <1>6. /\ \A n : Free("WithdrawReleasedHold", n)
        /\ Free("ReleaseWithdrawal", d) /\ Free("ReleaseWithdrawal", f)
    BY DEF Free, Books!requiresNonNegativeBalance
  <1>7. Allowed(legs, funds)
    BY <1>2, <1>5, <1>6, FreeIsAllowed
  <1> QED BY <1>2, <1>3, <1>7

LEMMA NothingHeld == ASSUME NEW a PROVE Balance({}, a) = 0
  <1>1. PICK l : l = [i \in 1..8 |-> [delta |-> i]]
    OBVIOUS
  <1>2. \A i \in 1..8 : l[i].delta = i
    BY <1>1
  <1>3. AreEight(l)
    BY <1>2 DEF AreEight
  <1>4. PICK S : S = { leg \in {} : leg.account = a }
    OBVIOUS
  <1>5. S = {}
    BY <1>4
  <1>6. MapThenSumSet(LAMBDA leg : leg.delta, S) = SumOfLegs(l, S)
    BY <1>3, <1>5, LegsAreSummed
  <1>7. SumOfLegs(l, S) = 0
    BY <1>5 DEF SumOfLegs, Part
  <1> QED BY <1>4, <1>6, <1>7 DEF Balance

\* The sum over one leg.
LEMMA OneLeg ==
    ASSUME NEW leg, leg.delta \in Int, NEW S, S = {leg}
    PROVE  MapThenSumSet(LAMBDA x : x.delta, S) = leg.delta
  <1>1. PICK l : l = [i \in 1..8 |-> IF i = 1 THEN leg ELSE [delta |-> leg.delta + i]]
    OBVIOUS
  <1>2. l[1] = leg /\ \A i \in 2..8 : l[i].delta = leg.delta + i
    BY <1>1
  <1>3. AreEight(l)
    <2>1. \A i \in 1..8 : l[i].delta = IF i = 1 THEN leg.delta ELSE leg.delta + i
      BY <1>2
    <2>2. \A i \in 1..8 : l[i].delta \in Int
      BY <2>1
    <2>3. \A i, j \in 1..8 : l[i].delta = l[j].delta => i = j
      BY <2>1
    <2> QED BY <2>2, <2>3 DEF AreEight
  <1>4. S \subseteq { l[i] : i \in 1..8 }
    BY <1>2
  <1>5. MapThenSumSet(LAMBDA x : x.delta, S) = SumOfLegs(l, S)
    BY <1>3, <1>4, LegsAreSummed
  <1>6. l[2] # leg /\ l[3] # leg /\ l[4] # leg
    BY <1>2
  <1>7. SumOfLegs(l, S) = leg.delta
    BY <1>2, <1>6 DEF SumOfLegs, Part
  <1> QED BY <1>5, <1>7

\* A hold is allowed to one who has the amount and the fee.
LEMMA HoldAllowed ==
    ASSUME NEW e, e.amount \in Nat \ {0}, e.fee \in Nat, NEW charges \in BOOLEAN, NEW funds \in Int
    PROVE  Allowed(EventLegs(e, "withdrawal", Person, charges), funds) <=> Covered(e, charges, funds)
  <1>1. PICK r : r = RequestOf(e, "withdrawal", Person, charges)
    OBVIOUS
  <1>2. /\ r.kind = "withdrawal" /\ r.user = Person /\ r.fee \in Nat /\ r.amount \in Nat
        /\ r.amount = e.amount /\ r.fee = Charged(e, charges)
        /\ EventLegs(e, "withdrawal", Person, charges) = Books!Legs(r)
    BY <1>1, RequestsAreOf
  <1>3. PICK legs : legs = Books!Legs(r)
    OBVIOUS
  <1>a. PICK amount \in Nat, fee \in Nat : amount = r.amount /\ fee = r.fee /\ amount > 0
    BY <1>2
  <1>4. Entries(legs, r, Person, ClearingAccount, -amount, "ReserveWithdrawal", "ReceiveWithdrawalHold",
                Person, Fees, -fee, "ReserveWithdrawal", "ReceiveWithdrawalHold")
    <2>1. legs = Books!paymentWithdrawalRequestedLedgerEvents(r)
      BY <1>2, <1>3 DEF Books!Legs
    <2> QED BY <1>2, <1>a, <2>1, Zenon DEF Books!paymentWithdrawalRequestedLedgerEvents, Entries
  <1>5. /\ DOMAIN legs = IF fee > 0 THEN 1..4 ELSE 1..2
        /\ IsLeg(legs[1], Person, -amount, "ReserveWithdrawal")
        /\ IsLeg(legs[2], ClearingAccount, -(-amount), "ReceiveWithdrawalHold")
        /\ fee > 0 => /\ IsLeg(legs[3], Person, -fee, "ReserveWithdrawal")
                      /\ IsLeg(legs[4], Fees, -(-fee), "ReceiveWithdrawalHold")
    <2>1. -amount \in Int /\ -fee \in Int /\ r.fee \in Nat
      BY <1>2
    <2>2. InARow(legs, r.fee, Person, ClearingAccount, -amount, "ReserveWithdrawal", "ReceiveWithdrawalHold",
                 Person, Fees, -fee, "ReserveWithdrawal", "ReceiveWithdrawalHold")
      BY <1>4, <2>1, EntriesInARow
    <2> QED BY <1>a, <2>2 DEF InARow
  <1>6. Person # ClearingAccount /\ Person # Fees
    BY DEF Person, ClearingAccount, Fees
  <1> DEFINE Sum(i) == Balance({ legs[j] : j \in 1..(i - 1) }, legs[i].account)
             Before(i) == Sum(i) + IF legs[i].account = Person THEN funds ELSE 0
             Ok(i) == Books!ensurePostingAllowed(Before(i), legs[i])
  <1>7. Allowed(legs, funds) <=> \A i \in DOMAIN legs : Ok(i)
    BY Zenon DEF Allowed
  <1>8. Sum(1) = 0
    <2>1. { legs[j] : j \in 1..(1 - 1) } = {}
      OBVIOUS
    <2> QED BY <2>1, NothingHeld, Zenon
  <1>9. Ok(1) <=> funds >= amount
    <2>1. /\ legs[1].account = Person /\ legs[1].delta = -amount
          /\ Books!requiresNonNegativeBalance(legs[1].type)
      BY <1>5 DEF IsLeg, Books!requiresNonNegativeBalance
    <2>2. Before(1) = funds
      BY <1>8, <2>1
    <2> HIDE DEF Before
    <2>3. Ok(1) <=> -amount >= 0 \/ funds + (-amount) >= 0
      BY <2>1, <2>2 DEF Books!ensurePostingAllowed
    <2> HIDE DEF Ok
    <2> QED BY <1>a, <2>3
  <1>10. Ok(2) /\ (fee > 0 => Ok(4))
    <2>1. legs[2].delta >= 0 /\ (fee > 0 => legs[4].delta >= 0)
      BY <1>5 DEF IsLeg
    <2> HIDE DEF Before
    <2> QED BY <2>1 DEF Books!ensurePostingAllowed
  <1>11. ASSUME fee > 0 PROVE Ok(3) <=> funds >= amount + fee
    <2>1. /\ legs[3].account = Person /\ legs[3].delta = -fee
          /\ Books!requiresNonNegativeBalance(legs[3].type)
          /\ legs[1].account = Person /\ legs[1].delta = -amount /\ legs[2].account # Person
      BY <1>5, <1>6, <1>11 DEF IsLeg, Books!requiresNonNegativeBalance
    <2>2. PICK L : L = { leg \in { legs[j] : j \in 1..(3 - 1) } : leg.account = legs[3].account }
      OBVIOUS
    <2>3. L = {legs[1]}
      <3>1. { legs[j] : j \in 1..(3 - 1) } = {legs[1], legs[2]}
        OBVIOUS
      <3> QED BY <2>1, <2>2, <3>1
    <2>4. MapThenSumSet(LAMBDA leg : leg.delta, L) = -amount
      BY <2>1, <2>3, OneLeg
    <2>5. Sum(3) = -amount
      BY <2>2, <2>4, Zenon DEF Balance
    <2> HIDE DEF Sum
    <2>6. Before(3) = funds - amount
      BY <2>1, <2>5
    <2> HIDE DEF Before
    <2>7. Ok(3) <=> -fee >= 0 \/ (funds - amount) + (-fee) >= 0
      BY <2>1, <2>6 DEF Books!ensurePostingAllowed
    <2> HIDE DEF Ok
    <2> QED BY <1>11, <2>7
  <1> HIDE DEF Ok
  <1>12. (\A i \in DOMAIN legs : Ok(i)) <=> funds >= amount + fee
    <2>1. CASE fee > 0
      <3>1. DOMAIN legs = 1..4
        BY <1>5, <2>1
      <3>2. (\A i \in DOMAIN legs : Ok(i)) <=> Ok(1) /\ Ok(2) /\ Ok(3) /\ Ok(4)
        <4>1. \A i \in 1..4 : i = 1 \/ i = 2 \/ i = 3 \/ i = 4
          OBVIOUS
        <4> QED BY <3>1, <4>1
      <3> QED BY <1>9, <1>10, <1>11, <2>1, <3>2
    <2>2. CASE ~ (fee > 0)
      <3>1. DOMAIN legs = 1..2 /\ fee = 0
        BY <1>5, <2>2
      <3>2. (\A i \in DOMAIN legs : Ok(i)) <=> Ok(1) /\ Ok(2)
        <4>1. \A i \in 1..2 : i = 1 \/ i = 2
          OBVIOUS
        <4> QED BY <3>1, <4>1
      <3> QED BY <1>9, <1>10, <3>1, <3>2
    <2> QED BY <2>1, <2>2
  <1>13. Allowed(legs, funds) <=> Covered(e, charges, funds)
    BY <1>2, <1>7, <1>12, <1>a DEF Covered
  <1> QED BY <1>2, <1>3, <1>13

-----------------------------------------------------------------------------
(* What becomes of an event *)

\* Nobody is touched by a booking but the accounts of its entries.
LEMMA AccountsTouched ==
    ASSUME NEW L, NEW k, NEW x, NEW y, NEW d, NEW u, NEW v, NEW f, BookedLegs(L, k, x, y, d, u, v, f)
    PROVE  { leg.account : leg \in L } \subseteq {x, y} \cup (IF f # 0 THEN {u, v} ELSE {})
  <1>1. PICK l : FourLegs(l, k, x, y, d, u, v, f) /\ L = LegSet(l, f)
    BY DEF BookedLegs
  <1>2. l[1].account = x /\ l[2].account = y /\ l[3].account = u /\ l[4].account = v
    BY <1>1 DEF FourLegs
  <1> QED BY <1>1, <1>2 DEF LegSet

\* The events of a top-up and of a withdrawal, and what the ledger makes of them.
TopUpNames == EventNames \ {Requested}
WithdrawalNames == EventNames \ Reversals

LEMMA RecordedFields ==
    ASSUME NEW t, NEW name, NEW reported, NEW e, e = Recorded(t, name, reported)
    PROVE  /\ e.name = name /\ e.workflow = t.workflow /\ e.fee = t.fee
           /\ e.debit = t.debit /\ e.credit = t.credit
           /\ name \in Reversals => e.amount = currentProviderResult(t, reported)
           /\ name \notin Reversals => e.amount = t.amount
  BY DEF Recorded

\* Nothing is booked by the other events.
LEMMA OthersBookNothing ==
    ASSUME NEW e, NEW charges, NEW funds,
           \/ e.name \notin {Requested, "PaymentSucceeded", "PaymentFailed"} \cup Reversals
           \/ e.name = "PaymentSucceeded" /\ e.workflow = "WITHDRAWAL"
           \/ e.name = "PaymentFailed" /\ e.workflow # "WITHDRAWAL"
    PROVE  /\ applyPaymentEvent(e, charges, funds).ok = TRUE
           /\ Range(applyPaymentEvent(e, charges, funds).legs) = {}
  <1>1. applyPaymentEvent(e, charges, funds) = BooksNothing
    <2>1. CASE e.name \notin {Requested, "PaymentSucceeded", "PaymentFailed"} \cup Reversals
      BY <2>1 DEF applyPaymentEvent, Requested, Reversals
    <2>2. CASE e.name = "PaymentSucceeded" /\ e.workflow = "WITHDRAWAL"
      BY <2>2 DEF applyPaymentEvent, HandleSucceeded
    <2>3. CASE e.name = "PaymentFailed" /\ e.workflow # "WITHDRAWAL"
      BY <2>3 DEF applyPaymentEvent, HandleFailed
    <2> QED BY <2>1, <2>2, <2>3
  <1>2. BooksNothing.ok = TRUE /\ BooksNothing.legs = << >>
    BY DEF BooksNothing
  <1>3. Range(<< >>) = {}
    BY DEF Range
  <1> QED BY <1>1, <1>2, <1>3

\* The ledger takes an event: it books it, and holds the locks of all accounts it touches.
Takes(b) == b.ok = TRUE /\ { leg.account : leg \in Range(b.legs) } \subseteq b.locked

\* It refuses one: nothing is booked.
Refuses(b) == b.ok = FALSE /\ Range(b.legs) = {}

LEMMA NothingIsTaken ==
    ASSUME NEW b, b.ok = TRUE, Range(b.legs) = {}
    PROVE  Takes(b)
  BY DEF Takes

\* The accounts of the entries that are booked for an event and of the locks taken for it.
Within(e, charges, account, x, y, u, v, f) ==
    /\ e.amount \in Nat /\ e.fee \in Nat /\ f \in {Charged(e, charges), -Charged(e, charges)}
    /\ {x, y} \subseteq {account, ClearingAccount} /\ {u, v} \subseteq {account, ClearingAccount, Fees}

LEMMA BookingIsTaken ==
    ASSUME NEW e, NEW booking, NEW account, NEW charges \in BOOLEAN, NEW funds,
           NEW b, b = Booked(e, booking, account, charges, funds),
           Allowed(EventLegs(e, booking, account, charges), funds),
           NEW x, NEW y, NEW d, NEW u, NEW v, NEW f,
           BookedLegs(Range(EventLegs(e, booking, account, charges)), booking, x, y, d, u, v, f),
           Within(e, charges, account, x, y, u, v, f)
    PROVE  Takes(b) /\ b.legs = EventLegs(e, booking, account, charges)
  <1> USE DEF Within
  <1>1. /\ b.ok = TRUE /\ b.locked = LockKeys(e, account, charges)
        /\ b.legs = EventLegs(e, booking, account, charges)
    BY DEF Booked
  <1>2. { leg.account : leg \in Range(b.legs) } \subseteq {x, y} \cup (IF f # 0 THEN {u, v} ELSE {})
    BY <1>1, AccountsTouched
  <1>3. f # 0 => e.fee > 0 /\ charges
    BY DEF Charged
  <1>4. {account, ClearingAccount} \subseteq b.locked /\ (f # 0 => Fees \in b.locked)
    BY <1>1, <1>3 DEF LockKeys
  <1>5. {x, y} \subseteq b.locked
    BY <1>4
  <1>6. f # 0 => {u, v} \subseteq b.locked
    BY <1>4
  <1> QED BY <1>1, <1>2, <1>5, <1>6 DEF Takes

LEMMA TopUpBooks ==
    ASSUME NEW t \in NewProviderTopUpAggregate, NEW name \in TopUpNames,
           NEW reported \in Nat, NEW charges \in BOOLEAN, NEW funds,
           NEW e, e = Recorded(t, name, reported), NEW b, b = applyPaymentEvent(e, charges, funds)
    PROVE  /\ Takes(b)
           /\ name = "PaymentSucceeded" =>
                 BookedLegs(Range(b.legs), "succeeded", ClearingAccount, Person, -t.amount,
                            ClearingAccount, Fees, -Charged(t, charges))
           /\ name \in Reversals => \E booking \in {"refunded", "chargeback"} :
                 BookedLegs(Range(b.legs), booking, Person, ClearingAccount, -currentProviderResult(t, reported),
                            Fees, ClearingAccount, -Charged(t, charges))
           /\ name \notin Reversals \cup {"PaymentSucceeded"} => Range(b.legs) = {}
  <1>1. /\ t.workflow = "TOP_UP" /\ t.amount \in Nat \ {0} /\ t.fee \in Nat
        /\ t.providerAmount = t.amount + t.fee /\ t.credit = Person
    BY TermsType
  <1>2. /\ e.name = name /\ e.workflow = t.workflow /\ e.fee = t.fee /\ e.credit = t.credit
        /\ name \in Reversals => e.amount = currentProviderResult(t, reported)
        /\ name \notin Reversals => e.amount = t.amount
    BY RecordedFields
  <1>3. Charged(e, charges) = Charged(t, charges) /\ Charged(e, charges) \in Nat
    BY <1>1, <1>2 DEF Charged
  <1>4. currentProviderResult(t, reported) \in Nat \ {0}
    BY <1>1 DEF currentProviderResult
  <1>5. Person # Blank /\ Person # ClearingAccount /\ Person # Fees /\ Fees # ClearingAccount
    BY DEF Person, Blank, ClearingAccount, Fees
  <1>6. CASE name = "PaymentSucceeded"
    <2>1. name \notin Reversals /\ e.amount = t.amount
      BY <1>2, <1>6 DEF Reversals
    <2>2. NewPaymentSucceededBooking(e)
      BY <1>1, <1>2, <1>5, <2>1 DEF NewPaymentSucceededBooking
    <2> DEFINE legs == EventLegs(e, "succeeded", Person, charges)
    <2>3. b = Booked(e, "succeeded", Person, charges, funds)
      BY <1>1, <1>2, <1>6, <2>2 DEF applyPaymentEvent, HandleSucceeded
    <2>4. BookedLegs(Range(legs), "succeeded", ClearingAccount, Person, -e.amount,
                     ClearingAccount, Fees, -Charged(e, charges))
      BY <1>1, <1>2, <2>1, SuccessBooks
    <2>7. Allowed(legs, funds)
      BY <1>1, <1>2, <2>1, SuccessAllowed
    <2>6. Within(e, charges, Person, ClearingAccount, Person, ClearingAccount, Fees, -Charged(e, charges))
      BY <1>1, <1>2, <1>5, <2>1 DEF Within
    <2>5. Takes(b) /\ b.legs = legs
      BY <2>3, <2>4, <2>6, <2>7, BookingIsTaken
    <2> QED BY <1>3, <1>6, <2>1, <2>4, <2>5
  <1>7. CASE name \in Reversals
    <2>1. e.amount = currentProviderResult(t, reported) /\ name # "PaymentSucceeded"
      BY <1>2, <1>7 DEF Reversals
    <2>2. NewPaymentReversalBooking(e)
      BY <1>1, <1>2, <1>4, <1>5, <1>7, <2>1 DEF NewPaymentReversalBooking
    <2>3. PICK booking \in {"refunded", "chargeback"} : b = Booked(e, booking, Person, charges, funds)
      BY <1>1, <1>2, <1>7, <2>2 DEF applyPaymentEvent, HandleRefunded, HandleChargeback, paymentReversed, Reversals
    <2> DEFINE legs == EventLegs(e, booking, Person, charges)
    <2>4. BookedLegs(Range(legs), booking, Person, ClearingAccount, -e.amount,
                     Fees, ClearingAccount, -Charged(e, charges))
      BY <1>1, <1>2, <1>4, <2>1, ReversalBooks
    <2>7. Allowed(legs, funds)
      BY <1>1, <1>2, <1>4, <2>1, ReversalAllowed
    <2>6. Within(e, charges, Person, Person, ClearingAccount, Fees, ClearingAccount, -Charged(e, charges))
      BY <1>1, <1>2, <1>4, <1>5, <2>1 DEF Within
    <2>5. Takes(b) /\ b.legs = legs
      BY <2>3, <2>4, <2>6, <2>7, BookingIsTaken
    <2> QED BY <1>3, <1>7, <2>1, <2>4, <2>5
  <1>8. CASE name \notin Reversals \cup {"PaymentSucceeded"}
    <2>1. b.ok = TRUE /\ Range(b.legs) = {}
      BY <1>1, <1>2, <1>8, OthersBookNothing DEF TopUpNames
    <2> QED BY <1>8, <2>1, NothingIsTaken
  <1> QED BY <1>6, <1>7, <1>8

\* Of a withdrawal the ledger takes everything but a hold that is not covered.
LEMMA WithdrawalEventBooks ==
    ASSUME NEW t \in NewProviderWithdrawalAggregate, NEW name \in WithdrawalNames,
           NEW reported \in Nat, NEW charges \in BOOLEAN, NEW funds \in Int,
           NEW e, e = Recorded(t, name, reported), NEW b, b = applyPaymentEvent(e, charges, funds)
    PROVE  /\ name = Requested /\ Covered(t, charges, funds) =>
                 /\ Takes(b)
                 /\ BookedLegs(Range(b.legs), "withdrawal", Person, ClearingAccount, -t.amount,
                               Person, Fees, -Charged(t, charges))
           /\ name = Requested /\ ~ Covered(t, charges, funds) => Refuses(b)
           /\ name = "PaymentFailed" =>
                 /\ Takes(b)
                 /\ BookedLegs(Range(b.legs), "failed", Person, ClearingAccount, t.amount,
                               Person, Fees, Charged(t, charges))
           /\ name \notin {Requested, "PaymentFailed"} => Takes(b) /\ Range(b.legs) = {}
  <1>1. /\ t.workflow = "WITHDRAWAL" /\ t.amount \in Nat \ {0} /\ t.fee \in Nat /\ t.debit = Person
    BY TermsType
  <1>2. /\ e.name = name /\ e.workflow = t.workflow /\ e.fee = t.fee /\ e.debit = t.debit
        /\ e.amount = t.amount /\ name \notin Reversals
    BY RecordedFields DEF WithdrawalNames
  <1>3. /\ Charged(e, charges) = Charged(t, charges) /\ Charged(e, charges) \in Nat
        /\ Covered(e, charges, funds) <=> Covered(t, charges, funds)
    BY <1>1, <1>2 DEF Charged, Covered
  <1>5. Person # Blank /\ Person # ClearingAccount /\ Person # Fees /\ Fees # ClearingAccount
    BY DEF Person, Blank, ClearingAccount, Fees
  <1>6. CASE name = Requested
    <2>1. name # "PaymentFailed"
      BY <1>6 DEF Requested
    <2> DEFINE legs == EventLegs(e, "withdrawal", Person, charges)
    <2>3. b = Booked(e, "withdrawal", Person, charges, funds)
      BY <1>1, <1>2, <1>6 DEF applyPaymentEvent, HandleWithdrawalRequested, Requested
    <2>7. Allowed(legs, funds) <=> Covered(t, charges, funds)
      BY <1>1, <1>2, <1>3, HoldAllowed
    <2>4. BookedLegs(Range(legs), "withdrawal", Person, ClearingAccount, -e.amount,
                     Person, Fees, -Charged(e, charges))
      BY <1>1, <1>2, WithdrawalBooks
    <2>6. Within(e, charges, Person, Person, ClearingAccount, Person, Fees, -Charged(e, charges))
      BY <1>1, <1>2, <1>5 DEF Within
    <2>5. CASE Covered(t, charges, funds)
      <3>1. Takes(b) /\ b.legs = legs
        BY <2>3, <2>4, <2>5, <2>6, <2>7, BookingIsTaken
      <3> QED BY <1>2, <1>3, <1>6, <2>1, <2>4, <2>5, <3>1
    <2>8. CASE ~ Covered(t, charges, funds)
      <3>1. b = Rejects
        BY <2>3, <2>7, <2>8 DEF Booked
      <3>2. Rejects.ok = FALSE /\ Rejects.legs = << >>
        BY DEF Rejects, BooksNothing
      <3>3. Range(<< >>) = {}
        BY DEF Range
      <3>4. Refuses(b)
        BY <3>1, <3>2, <3>3 DEF Refuses
      <3> QED BY <1>6, <2>1, <2>8, <3>4
    <2> QED BY <2>5, <2>8
  <1>7. CASE name = "PaymentFailed"
    <2>1. name # Requested
      BY <1>7 DEF Requested
    <2> DEFINE legs == EventLegs(e, "failed", Person, charges)
    <2>3. b = Booked(e, "failed", Person, charges, funds)
      BY <1>1, <1>2, <1>7 DEF applyPaymentEvent, HandleFailed
    <2>4. BookedLegs(Range(legs), "failed", Person, ClearingAccount, e.amount,
                     Person, Fees, Charged(e, charges))
      BY <1>1, <1>2, FailureBooks
    <2>7. Allowed(legs, funds)
      BY <1>1, <1>2, FailureAllowed
    <2>6. Within(e, charges, Person, Person, ClearingAccount, Person, Fees, Charged(e, charges))
      BY <1>1, <1>2, <1>5 DEF Within
    <2>5. Takes(b) /\ b.legs = legs
      BY <2>3, <2>4, <2>6, <2>7, BookingIsTaken
    <2> QED BY <1>2, <1>3, <1>7, <2>1, <2>4, <2>5
  <1>8. CASE name \notin {Requested, "PaymentFailed"}
    <2>1. b.ok = TRUE /\ Range(b.legs) = {}
      BY <1>1, <1>2, <1>8, OthersBookNothing
    <2> QED BY <1>8, <2>1, NothingIsTaken
  <1> QED BY <1>6, <1>7, <1>8

-----------------------------------------------------------------------------
(* What the accounts hold *)

\* The names in an outbox are those that are published.
LEMMA NamesPublished ==
    ASSUME TypeOK, NEW p \in Payments
    PROVE  /\ Names(p) \subseteq EventNames
           /\ \A n : n \in Names(p) <=> Published(p, n) # {}
           /\ outbox[p] = << >> => Names(p) = {}
  <1>1. outbox[p] \in Seq(Envelopes)
    BY DEF TypeOK
  <1>2. \A i \in DOMAIN outbox[p] : outbox[p][i] \in Envelopes
    BY <1>1
  <1>3. Names(p) \subseteq EventNames
    BY <1>2 DEF Names, Envelopes
  <1>4. \A n : n \in Names(p) <=> Published(p, n) # {}
    BY DEF Names, Published
  <1>5. outbox[p] = << >> => Names(p) = {}
    BY DEF Names
  <1> QED BY <1>3, <1>4, <1>5

\* A top-up has no request of a withdrawal, a withdrawal no reversal and always a request.
LEMMA NamesFit ==
    ASSUME Inv, FlowInv, NEW p \in Payments
    PROVE  /\ p \in TopUps => Names(p) \subseteq TopUpNames
           /\ p \in Withdrawals => Names(p) \subseteq WithdrawalNames
           /\ p \in Withdrawals /\ Names(p) # {} => Requested \in Names(p)
  <1>1. /\ Names(p) \subseteq EventNames
        /\ \A n : n \in Names(p) <=> Published(p, n) # {}
        /\ outbox[p] = << >> => Names(p) = {}
    BY NamesPublished DEF Inv
  <1>2. EventsAreTrue
    BY DEF Inv, EventsInv
  <1>3. ASSUME p \in TopUps PROVE Requested \notin Names(p)
    BY <1>1, <1>3, WorkflowsAssumption DEF FlowInv
  <1>4. ASSUME p \in Withdrawals PROVE Names(p) \cap Reversals = {}
    <2>1. stripe[p] = {}
      BY <1>4 DEF FlowInv
    <2>2. Published(p, "PaymentRefunded") = {} /\ Published(p, "PaymentChargeback") = {}
      BY <1>2, <2>1 DEF EventsAreTrue
    <2> QED BY <1>1, <2>2 DEF Reversals
  <1>5. ASSUME p \in Withdrawals, Names(p) # {} PROVE Requested \in Names(p)
    BY <1>1, <1>5 DEF FlowInv
  <1> QED BY <1>1, <1>3, <1>4, <1>5 DEF TopUpNames, WithdrawalNames

\* A reversed payment has succeeded and, while no lock is lost, was reversed once.
LEMMA ReversedOnce ==
    ASSUME Inv, NEW p \in Payments \ expired
    PROVE  /\ Names(p) \cap Reversals # {} => "PaymentSucceeded" \in Names(p)
           /\ \A m, n \in Names(p) \cap Reversals : m = n
  <1>1. \A n : n \in Names(p) <=> Published(p, n) # {}
    BY NamesPublished DEF Inv
  <1>2. ReversalFollowsSuccess
    BY DEF Inv, EventsInv
  <1>3. Published(p, "PaymentRefunded") = {} \/ Published(p, "PaymentChargeback") = {}
    BY DEF Inv, OutcomeInv
  <1>4. Published(p, "PaymentRefunded") \cup Published(p, "PaymentChargeback") # {}
          => Published(p, "PaymentSucceeded") # {}
    BY <1>2 DEF ReversalFollowsSuccess
  <1> QED BY <1>1, <1>3, <1>4 DEF Reversals

LEMMA HoldingIs ==
    ASSUME NEW L, NEW x, NEW y, NEW z,
           Balance(L, Person) = x, Balance(L, ClearingAccount) = y, Balance(L, Fees) = z
    PROVE  Balances(L) = Holding(x, y, z)
  <1>1. Person # ClearingAccount /\ Person # Fees /\ ClearingAccount # Fees
    BY DEF Person, ClearingAccount, Fees
  <1> QED BY <1>1 DEF Balances, Holding

LegsFrom(name, t, reported, charges, funds) ==
    Range(applyPaymentEvent(Recorded(t, name, reported), charges, funds).legs)

LEMMA TopUpBalances ==
    ASSUME NEW p \in TopUps, p \notin Withdrawals, Names(p) \subseteq TopUpNames,
           Names(p) \cap Reversals # {} => "PaymentSucceeded" \in Names(p),
           \A m, n \in Names(p) \cap Reversals : m = n,
           NEW t \in NewProviderTopUpAggregate, NEW reported \in Nat, NEW charges \in BOOLEAN, NEW funds \in Int
    PROVE  Balances(LegsOf(p, t, reported, charges, funds)) = Expected(p, t, reported, charges, funds)
  <1> DEFINE L == LegsOf(p, t, reported, charges, funds)
             M(n) == LegsFrom(n, t, reported, charges, funds)
  <1>1. L = UNION { M(n) : n \in Names(p) }
    BY DEF LegsOf, LegsFrom
  <1>2. \A n \in Names(p) :
          /\ n = "PaymentSucceeded" =>
                BookedLegs(M(n), "succeeded", ClearingAccount, Person, -t.amount,
                           ClearingAccount, Fees, -Charged(t, charges))
          /\ n \in Reversals => \E booking \in {"refunded", "chargeback"} :
                BookedLegs(M(n), booking, Person, ClearingAccount, -currentProviderResult(t, reported),
                           Fees, ClearingAccount, -Charged(t, charges))
          /\ n \notin Reversals \cup {"PaymentSucceeded"} => M(n) = {}
    BY TopUpBooks DEF LegsFrom
  <1>3. t.amount \in Nat /\ t.fee \in Nat /\ t.providerAmount \in Nat
    BY TermsType
  <1>4. PICK amount \in Nat, fee \in Nat, reversed \in Nat :
          amount = t.amount /\ fee = Charged(t, charges) /\ reversed = currentProviderResult(t, reported)
    BY <1>3 DEF Charged, currentProviderResult
  <1>5. Person # ClearingAccount /\ Person # Fees /\ ClearingAccount # Fees /\ "PaymentSucceeded" \notin Reversals
    BY DEF Person, ClearingAccount, Fees, Reversals
  <1>6. Expected(p, t, reported, charges, funds) =
          IF Names(p) \cap Reversals # {} THEN Holding(amount - reversed, reversed - amount, 0)
          ELSE IF "PaymentSucceeded" \in Names(p) THEN Holding(amount, -(amount + fee), fee)
          ELSE Holding(0, 0, 0)
    BY <1>4 DEF Expected, Charged
  <1> HIDE DEF L, M
  <1>7. CASE "PaymentSucceeded" \notin Names(p)
    <2>1. L = {}
      BY <1>1, <1>2, <1>7
    <2>2. Balances(L) = Holding(0, 0, 0)
      BY <2>1, NothingHeld, HoldingIs
    <2> QED BY <1>6, <1>7, <2>2 DEF L
  <1>8. CASE "PaymentSucceeded" \in Names(p) /\ Names(p) \cap Reversals = {}
    <2>1. L = M("PaymentSucceeded")
      BY <1>1, <1>2, <1>8
    <2>2. BookedLegs(L, "succeeded", ClearingAccount, Person, -amount, ClearingAccount, Fees, -fee)
      BY <1>2, <1>4, <1>8, <2>1
    <2>3. \A a : Balance(L, a) = Moved(a, ClearingAccount, Person, -amount, ClearingAccount, Fees, -fee)
      BY <1>5, <2>2, OneBooked
    <2>4. /\ Moved(Person, ClearingAccount, Person, -amount, ClearingAccount, Fees, -fee) = amount
          /\ Moved(ClearingAccount, ClearingAccount, Person, -amount, ClearingAccount, Fees, -fee) = -(amount + fee)
          /\ Moved(Fees, ClearingAccount, Person, -amount, ClearingAccount, Fees, -fee) = fee
      BY <1>5 DEF Moved
    <2>5. Balances(L) = Holding(amount, -(amount + fee), fee)
      BY <2>3, <2>4, HoldingIs
    <2> QED BY <1>6, <1>8, <2>5 DEF L
  <1>9. CASE "PaymentSucceeded" \in Names(p) /\ Names(p) \cap Reversals # {}
    <2>1. PICK n \in Names(p) \cap Reversals : TRUE
      BY <1>9
    <2>2. L = M("PaymentSucceeded") \cup M(n)
      BY <1>1, <1>2, <1>9
    <2>3. BookedLegs(M("PaymentSucceeded"), "succeeded", ClearingAccount, Person, -amount,
                     ClearingAccount, Fees, -fee)
      BY <1>2, <1>4, <1>9
    <2>4. PICK booking \in {"refunded", "chargeback"} :
            BookedLegs(M(n), booking, Person, ClearingAccount, -reversed, Fees, ClearingAccount, -fee)
      BY <1>2, <1>4
    <2>5. booking # "succeeded"
      OBVIOUS
    <2>6. \A a : Balance(L, a) = Moved(a, ClearingAccount, Person, -amount, ClearingAccount, Fees, -fee)
                                 + Moved(a, Person, ClearingAccount, -reversed, Fees, ClearingAccount, -fee)
      BY <1>5, <2>2, <2>3, <2>4, <2>5, TwoBooked
    <2>7. /\ Moved(Person, ClearingAccount, Person, -amount, ClearingAccount, Fees, -fee)
               + Moved(Person, Person, ClearingAccount, -reversed, Fees, ClearingAccount, -fee) = amount - reversed
          /\ Moved(ClearingAccount, ClearingAccount, Person, -amount, ClearingAccount, Fees, -fee)
               + Moved(ClearingAccount, Person, ClearingAccount, -reversed, Fees, ClearingAccount, -fee)
               = reversed - amount
          /\ Moved(Fees, ClearingAccount, Person, -amount, ClearingAccount, Fees, -fee)
               + Moved(Fees, Person, ClearingAccount, -reversed, Fees, ClearingAccount, -fee) = 0
      BY <1>5 DEF Moved
    <2>8. Balances(L) = Holding(amount - reversed, reversed - amount, 0)
      BY <2>6, <2>7, HoldingIs
    <2> QED BY <1>6, <1>9, <2>8 DEF L
  <1> QED BY <1>7, <1>8, <1>9

LEMMA WithdrawalBalances ==
    ASSUME NEW p \in Withdrawals, p \notin TopUps, Names(p) \subseteq WithdrawalNames, Requested \in Names(p),
           NEW t \in NewProviderWithdrawalAggregate, NEW reported \in Nat, NEW charges \in BOOLEAN, NEW funds \in Int
    PROVE  Balances(LegsOf(p, t, reported, charges, funds)) = Expected(p, t, reported, charges, funds)
  <1> DEFINE L == LegsOf(p, t, reported, charges, funds)
             M(n) == LegsFrom(n, t, reported, charges, funds)
             covered == Covered(t, charges, funds)
             failed == "PaymentFailed" \in Names(p)
  <1>1. L = UNION { M(n) : n \in Names(p) }
    BY DEF LegsOf, LegsFrom
  <1>2. \A n \in Names(p) :
          /\ n = Requested /\ covered =>
                BookedLegs(M(n), "withdrawal", Person, ClearingAccount, -t.amount,
                           Person, Fees, -Charged(t, charges))
          /\ n = Requested /\ ~ covered => M(n) = {}
          /\ n = "PaymentFailed" =>
                BookedLegs(M(n), "failed", Person, ClearingAccount, t.amount,
                           Person, Fees, Charged(t, charges))
          /\ n \notin {Requested, "PaymentFailed"} => M(n) = {}
    BY WithdrawalEventBooks DEF LegsFrom, Refuses
  <1>3. t.amount \in Nat /\ t.fee \in Nat
    BY TermsType
  <1>4. PICK amount \in Nat, fee \in Nat : amount = t.amount /\ fee = Charged(t, charges)
    BY <1>3 DEF Charged
  <1>5. Person # ClearingAccount /\ Person # Fees /\ ClearingAccount # Fees
    BY DEF Person, ClearingAccount, Fees
  <1>6. Expected(p, t, reported, charges, funds) =
          IF covered /\ ~ failed THEN Holding(-(amount + fee), amount, fee)
          ELSE IF ~ covered /\ failed THEN Holding(amount + fee, -amount, -fee)
          ELSE Holding(0, 0, 0)
    <2>1. Names(p) \cap Reversals = {}
      BY DEF WithdrawalNames
    <2> QED BY <1>4, <2>1 DEF Expected
  <1> HIDE DEF L, M, covered
  <1>7. CASE ~ covered /\ ~ failed
    <2>1. L = {}
      BY <1>1, <1>2, <1>7
    <2>2. Balances(L) = Holding(0, 0, 0)
      BY <2>1, NothingHeld, HoldingIs
    <2> QED BY <1>6, <1>7, <2>2 DEF L
  <1>8. CASE covered /\ ~ failed
    <2>1. L = M(Requested)
      BY <1>1, <1>2, <1>8
    <2>2. BookedLegs(L, "withdrawal", Person, ClearingAccount, -amount, Person, Fees, -fee)
      BY <1>2, <1>4, <1>8, <2>1
    <2>3. \A a : Balance(L, a) = Moved(a, Person, ClearingAccount, -amount, Person, Fees, -fee)
      BY <1>5, <2>2, OneBooked
    <2>4. /\ Moved(Person, Person, ClearingAccount, -amount, Person, Fees, -fee) = -(amount + fee)
          /\ Moved(ClearingAccount, Person, ClearingAccount, -amount, Person, Fees, -fee) = amount
          /\ Moved(Fees, Person, ClearingAccount, -amount, Person, Fees, -fee) = fee
      BY <1>5 DEF Moved
    <2>5. Balances(L) = Holding(-(amount + fee), amount, fee)
      BY <2>3, <2>4, HoldingIs
    <2> QED BY <1>6, <1>8, <2>5 DEF L
  <1>9. CASE covered /\ failed
    <2>2. L = M(Requested) \cup M("PaymentFailed")
      BY <1>1, <1>2, <1>9
    <2>3. BookedLegs(M(Requested), "withdrawal", Person, ClearingAccount, -amount, Person, Fees, -fee)
      BY <1>2, <1>4, <1>9
    <2>4. BookedLegs(M("PaymentFailed"), "failed", Person, ClearingAccount, amount, Person, Fees, fee)
      BY <1>2, <1>4, <1>9
    <2>6. \A a : Balance(L, a) = Moved(a, Person, ClearingAccount, -amount, Person, Fees, -fee)
                                 + Moved(a, Person, ClearingAccount, amount, Person, Fees, fee)
      BY <1>5, <2>2, <2>3, <2>4, TwoBooked
    <2>7. \A a : Moved(a, Person, ClearingAccount, -amount, Person, Fees, -fee)
                   + Moved(a, Person, ClearingAccount, amount, Person, Fees, fee) = 0
      BY <1>5 DEF Moved
    <2>8. Balances(L) = Holding(0, 0, 0)
      BY <2>6, <2>7, HoldingIs
    <2> QED BY <1>6, <1>9, <2>8 DEF L
  <1>10. CASE ~ covered /\ failed
    <2>1. L = M("PaymentFailed")
      BY <1>1, <1>2, <1>10
    <2>2. BookedLegs(L, "failed", Person, ClearingAccount, amount, Person, Fees, fee)
      BY <1>2, <1>4, <1>10, <2>1
    <2>3. \A a : Balance(L, a) = Moved(a, Person, ClearingAccount, amount, Person, Fees, fee)
      BY <1>5, <2>2, OneBooked
    <2>4. /\ Moved(Person, Person, ClearingAccount, amount, Person, Fees, fee) = amount + fee
          /\ Moved(ClearingAccount, Person, ClearingAccount, amount, Person, Fees, fee) = -amount
          /\ Moved(Fees, Person, ClearingAccount, amount, Person, Fees, fee) = -fee
      BY <1>5 DEF Moved
    <2>5. Balances(L) = Holding(amount + fee, -amount, -fee)
      BY <2>3, <2>4, HoldingIs
    <2> QED BY <1>6, <1>10, <2>5 DEF L
  <1> QED BY <1>7, <1>8, <1>9, <1>10

\* What the ledger books for the payments of a state is right.
LEMMA MoneyFollowsEvents == ASSUME Inv, FlowInv PROVE BalancesFollowEvents
  <1> SUFFICES ASSUME NEW p \in Announced \ expired, NEW t \in Terms(p), NEW charges \in BOOLEAN,
                      NEW funds \in Funds, NEW reported \in 0..(IF Names(p) \cap Reversals = {} THEN 0 ELSE t.providerAmount)
               PROVE  Balances(LegsOf(p, t, reported, charges, funds)) = Expected(p, t, reported, charges, funds)
    BY DEF BalancesFollowEvents
  <1>1. reported \in Nat /\ funds \in Int
    BY MoneyAssumption DEF Funds
  <1>0. p \in Payments \ expired /\ Names(p) # {}
    BY DEF Announced
  <1>2. /\ p \in TopUps => Names(p) \subseteq TopUpNames
        /\ p \in Withdrawals => Names(p) \subseteq WithdrawalNames
        /\ p \in Withdrawals /\ Names(p) # {} => Requested \in Names(p)
    BY <1>0, NamesFit
  <1>3. /\ Names(p) \cap Reversals # {} => "PaymentSucceeded" \in Names(p)
        /\ \A m, n \in Names(p) \cap Reversals : m = n
    BY <1>0, ReversedOnce
  <1>4. CASE p \in TopUps
    <2>1. p \notin Withdrawals /\ t \in NewProviderTopUpAggregate
      BY <1>4, WorkflowsAssumption DEF Terms
    <2> QED BY <1>1, <1>2, <1>3, <1>4, <2>1, TopUpBalances
  <1>5. CASE p \in Withdrawals
    <2>1. p \notin TopUps /\ t \in NewProviderWithdrawalAggregate
      BY <1>5, WorkflowsAssumption DEF Terms
    <2> QED BY <1>0, <1>1, <1>2, <1>5, <2>1, WithdrawalBalances
  <1> QED BY <1>0, <1>4, <1>5 DEF Payments

LEMMA EventsAreBooked == ASSUME Inv, FlowInv PROVE OnlyUncoveredIsRefused
  <1> SUFFICES ASSUME NEW p \in Payments, NEW name \in Names(p), NEW t \in Terms(p), NEW charges \in BOOLEAN,
                      NEW funds \in Funds, NEW reported \in Nat
               PROVE  LET e == Recorded(t, name, reported)
                          booked == applyPaymentEvent(e, charges, funds)
                      IN /\ booked.ok <=> (name = "PaymentWithdrawalRequested" => Covered(t, charges, funds))
                         /\ ~ emitPaymentReconciliationFailed(e)
                         /\ { leg.account : leg \in Range(booked.legs) } \subseteq booked.locked
    BY DEF OnlyUncoveredIsRefused
  <1>1. PICK e : e = Recorded(t, name, reported)
    OBVIOUS
  <1>2. PICK b : b = applyPaymentEvent(e, charges, funds)
    OBVIOUS
  <1>3. /\ p \in TopUps => Names(p) \subseteq TopUpNames
        /\ p \in Withdrawals => Names(p) \subseteq WithdrawalNames
    BY NamesFit
  <1>4. funds \in Int
    BY MoneyAssumption DEF Funds
  <1>5. CASE p \in TopUps
    <2>1. t \in NewProviderTopUpAggregate /\ name \in TopUpNames /\ name # Requested
      BY <1>3, <1>5 DEF Terms, TopUpNames
    <2>2. Takes(b)
      BY <1>1, <1>2, <2>1, TopUpBooks
    <2>3. e.name = name /\ e.credit = Person /\ (name \notin Reversals => e.amount = t.amount) /\ t.amount > 0
      BY <1>1, <2>1, RecordedFields, TermsType
    <2>4. ~ emitPaymentReconciliationFailed(e)
      BY <2>3 DEF emitPaymentReconciliationFailed, NewPaymentSucceededBooking, Reversals,
                  Person, Blank, ClearingAccount
    <2> QED BY <1>1, <1>2, <2>1, <2>2, <2>4 DEF Takes, Requested
  <1>6. CASE p \in Withdrawals
    <2>1. t \in NewProviderWithdrawalAggregate /\ name \in WithdrawalNames
      BY <1>3, <1>6, WorkflowsAssumption DEF Terms
    <2>2. IF name = Requested /\ ~ Covered(t, charges, funds) THEN Refuses(b) ELSE Takes(b)
      <3>1. CASE name = Requested /\ ~ Covered(t, charges, funds)
        BY <1>1, <1>2, <1>4, <2>1, <3>1, WithdrawalEventBooks
      <3>2. CASE name = Requested /\ Covered(t, charges, funds)
        BY <1>1, <1>2, <1>4, <2>1, <3>2, WithdrawalEventBooks
      <3>3. CASE name # Requested
        BY <1>1, <1>2, <1>4, <2>1, <3>3, WithdrawalEventBooks
      <3> QED BY <3>1, <3>2, <3>3
    <2>3. e.workflow = "WITHDRAWAL"
      BY <1>1, <2>1, RecordedFields, TermsType
    <2>4. ~ emitPaymentReconciliationFailed(e)
      BY <2>3 DEF emitPaymentReconciliationFailed
    <2>5. { leg.account : leg \in Range(b.legs) } \subseteq b.locked
      BY <2>2 DEF Takes, Refuses
    <2>6. b.ok <=> (name = "PaymentWithdrawalRequested" => Covered(t, charges, funds))
      BY <2>2 DEF Takes, Refuses, Requested
    <2> QED BY <1>1, <1>2, <2>4, <2>5, <2>6
  <1> QED BY <1>5, <1>6 DEF Payments

\* The events of a payment are sound, and so is the money the ledger books for them: whatever
\* the person had, what the accounts hold follows from the published events, and the ledger
\* refuses exactly the holds that are not covered (so a withdrawal that was never held and then
\* fails is given back what was never taken, as Expected says).  Terms survive the database and
\* fees are rounded up, for all amounts, fees and rates and every interleaving of requests,
\* webhooks and the payout job.
THEOREM PaymentsStaySound == Spec => []PaymentsAreSound
  <1>1. Inv => EventsAreSound
    BY DEF Inv, EventsInv, EventsAreSound
  <1>2. Inv /\ FlowInv => MoneyIsRight
    BY MoneyFollowsEvents, EventsAreBooked, TermsDoSurvive, FeesRoundUp DEF MoneyIsRight
  <1>3. Inv /\ FlowInv => PaymentsAreSound
    BY <1>1, <1>2 DEF PaymentsAreSound
  <1> QED BY <1>3, FlowInvariance, PTL

=============================================================================
