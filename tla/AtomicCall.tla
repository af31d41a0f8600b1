----------------------------- MODULE AtomicCall -----------------------------
(***************************************************************************)
(* What a room promises about its video call: every change is made to the   *)
(* call as it is at that moment, and a session that ended never comes back. *)
(* Once the room is no longer safe, an outdated session may overwrite it.   *)
(***************************************************************************)
CONSTANTS Members, NoCall

VARIABLES call,    \* the call of the room: its session, starter, participants
          used,    \* the sessions there have been
          safe     \* every change so far was exclusive

vars == << call, used, safe >>

Init == call = NoCall /\ used = {} /\ safe = TRUE

Start(m) ==
    /\ call = NoCall
    /\ \E s \in used' \ used :
          /\ used' = used \cup {s}
          /\ call' = [id |-> s, starter |-> m, participants |-> {m}]

Join(m) ==
    /\ call # NoCall
    /\ call' = [call EXCEPT !.participants = @ \cup {m}]
    /\ UNCHANGED used

\* The last one to leave ends the call.
Leave(m) ==
    /\ call # NoCall /\ m \in call.participants
    /\ call' = IF call.participants = {m} THEN NoCall
               ELSE [call EXCEPT !.participants = @ \ {m}]
    /\ UNCHANGED used

End(m) ==
    /\ call # NoCall /\ m \in call.participants \cup {call.starter}
    /\ call' = NoCall
    /\ UNCHANGED used

Expire == call # NoCall /\ call' = NoCall /\ UNCHANGED used

\* An overwritten call is still one of the sessions there have been.
Overwrite == ~safe /\ used \subseteq used' /\ (call' # NoCall => call'.id \in used')

Next ==
    /\ safe' => safe
    /\ \/ \E m \in Members : Start(m) \/ Join(m) \/ Leave(m) \/ End(m)
       \/ Expire \/ Overwrite
       \/ UNCHANGED << call, used >>

Spec == Init /\ [][Next]_vars
=============================================================================
