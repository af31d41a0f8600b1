----------------------------- MODULE VideoCall -----------------------------
(***************************************************************************)
(* The video call of one room.  The session is a JSON value under a Redis   *)
(* key with a TTL of four hours; a request reads it, changes it in memory   *)
(* and writes it back under a Redis lock that expires after 30 s, even      *)
(* under its holder.  The lock is released first and the change announced   *)
(* to the room afterwards, so announcements may overtake each other.        *)
(*                                                                          *)
(* A request that does not get the lock, and one refused because the actor  *)
(* is not a member of the room, changes nothing: the first never begins     *)
(* here, the second is a Refuse.  The times of a session are left out.      *)
(***************************************************************************)
EXTENDS Integers, FiniteSets

CONSTANTS Members,       \* accounts of the room
          Workers,       \* concurrent requests
          None,          \* no worker, no member
          Dead,          \* holder of a lock that nobody will release
          NoCall,        \* no session under the key
          MaxSessions    \* bound: calls started

ASSUME HoldersAssumption == None \notin Workers \cup Members /\ Dead \notin Workers \cup {None}
ASSUME MaxSessionsAssumption == MaxSessions \in Nat

VARIABLES
    store,       \* key room:video_call:<room id>
    lock,        \* key of the room's lock
    pc, op, actor, target,  \* a worker's phase and command; target 0: no session id given
    session,     \* the session it holds: as read, then as written
    made,        \* sessions started
    seen,        \* what a member was last told of the call, if that was not
                 \* outdated on its way and nothing was lost since
    lapsed,      \* history: a key ran out under the holder of the lock
    overtaken    \* history: workers whose news was outdated by a later write

command == << op, actor, target >>
history == << lapsed, overtaken >>
vars == << store, lock, pc, command, session, made, seen, history >>

Ops == {"start", "join", "leave", "end", "state"}
Phases == {"idle", "read", "write", "release", "announce"}

Sessions == [id : 1 .. MaxSessions, starter : Members, participants : SUBSET Members]
Calls == Sessions \cup {NoCall}

TypeOK ==
    /\ store \in Calls
    /\ lock \in Workers \cup {None, Dead}
    /\ pc \in [Workers -> Phases]
    /\ op \in [Workers -> Ops]
    /\ actor \in [Workers -> Members \cup {None}]
    /\ target \in [Workers -> 0 .. MaxSessions]
    /\ session \in [Workers -> Calls]
    /\ made \in 0 .. MaxSessions
    /\ DOMAIN seen \subseteq Members /\ \A m \in DOMAIN seen : seen[m] \in Calls
    /\ lapsed \in BOOLEAN
    /\ overtaken \subseteq Workers

Nothing == [m \in {} |-> NoCall]

Init ==
    /\ store = NoCall
    /\ lock = None
    /\ pc = [w \in Workers |-> "idle"]
    /\ op = [w \in Workers |-> "state"]
    /\ actor = [w \in Workers |-> None]
    /\ target = [w \in Workers |-> 0]
    /\ session = [w \in Workers |-> NoCall]
    /\ made = 0
    /\ seen = [m \in Members |-> NoCall]
    /\ lapsed = FALSE
    /\ overtaken = {}

-----------------------------------------------------------------------------
(* The session entity. *)

NewVideoCallSession(id, m) == [id |-> id, starter |-> m, participants |-> {m}]

HasParticipant(s, m) == m \in s.participants

\* Join of somebody who is in the call changes nothing but a time.
Join(s, m) == [s EXCEPT !.participants = @ \cup {m}]

\* The last participant to leave ends the session.
Leave(s, m) ==
    IF s.participants = {m} THEN NoCall ELSE [s EXCEPT !.participants = @ \ {m}]

-----------------------------------------------------------------------------
(* Requests. *)

\* A worker that is done, or gone: its command is forgotten.
Forget(w) ==
    /\ pc' = [pc EXCEPT ![w] = "idle"]
    /\ op' = [op EXCEPT ![w] = "state"]
    /\ actor' = [actor EXCEPT ![w] = None]
    /\ target' = [target EXCEPT ![w] = 0]
    /\ session' = [session EXCEPT ![w] = NoCall]
    /\ overtaken' = overtaken \ {w}

Goto(w, phase) ==
    /\ pc' = [pc EXCEPT ![w] = phase]
    /\ UNCHANGED << command, overtaken >>

\* Mutant: the lock is taken from whoever holds it.
TakeLock(w) == lock' = w

\* WithLocks up to the lock: a key that is set makes the request fail.
AcquireLock(w) == lock = None /\ lock' = w

\* ReleaseLock compares the value, so a holder whose key ran out releases nothing.
\* The call uses the context of the connection: it fails if the client has gone.
ReleaseLock(w) == lock' \in IF lock = w THEN {None, Dead} ELSE {lock}

\* A command arrives; GetActiveCall takes no lock.
Begin(w, o, m, id) ==
    /\ pc[w] = "idle"
    /\ o \in {"start", "state"} => id = 0
    /\ IF o = "state" THEN UNCHANGED lock ELSE AcquireLock(w)
    /\ pc' = [pc EXCEPT ![w] = "read"]
    /\ op' = [op EXCEPT ![w] = o]
    /\ actor' = [actor EXCEPT ![w] = m]
    /\ target' = [target EXCEPT ![w] = id]
    /\ UNCHANGED << store, session, made, seen, history >>

\* requireActiveSession.
requireActiveSession(w) == store # NoCall /\ target[w] \in {0, store.id}

Permitted(w) ==
    CASE op[w] = "start" -> store = NoCall /\ made < MaxSessions
      [] op[w] = "join"  -> requireActiveSession(w)
      [] op[w] = "leave" -> requireActiveSession(w) /\ HasParticipant(store, actor[w])
      [] op[w] = "end"   -> /\ requireActiveSession(w)
                            /\ HasParticipant(store, actor[w]) \/ store.starter = actor[w]
      [] OTHER           -> store # NoCall

\* store.Get and the checks that follow it.
Get(w) ==
    /\ pc[w] = "read" /\ Permitted(w)
    /\ session' = [session EXCEPT ![w] = store]
    /\ Goto(w, IF op[w] = "state" THEN "announce" ELSE "write")
    /\ UNCHANGED << store, lock, made, seen, lapsed >>

\* An error before the write: not a member, no such session, Redis.  The lock
\* is released and nothing is announced.
Refuse(w) ==
    /\ pc[w] \in {"read", "write"}
    /\ Forget(w)
    /\ IF op[w] = "state" THEN UNCHANGED lock ELSE ReleaseLock(w)
    /\ UNCHANGED << store, made, seen, lapsed >>

\* What the command makes of the session it read.
Changed(w) ==
    CASE op[w] = "start" -> NewVideoCallSession(made + 1, actor[w])
      [] op[w] = "join"  -> Join(session[w], actor[w])
      [] op[w] = "leave" -> Leave(session[w], actor[w])
      [] OTHER           -> NoCall

\* Workers that have something to announce.
Bearers == { w \in Workers : pc[w] = "announce" \/ (pc[w] = "release" /\ op[w] # "state") }

\* store.Save or store.Delete.
Write(w) ==
    /\ pc[w] = "write"
    /\ op[w] = "start" => made < MaxSessions
    /\ store' = Changed(w)
    /\ made' = IF op[w] = "start" THEN made + 1 ELSE made
    /\ session' = [session EXCEPT ![w] = Changed(w)]
    /\ pc' = [pc EXCEPT ![w] = "release"]
    /\ overtaken' = overtaken \cup Bearers
    /\ UNCHANGED << lock, command, seen, lapsed >>

\* The deferred release at the end of WithLocks.
Release(w) ==
    /\ pc[w] = "release"
    /\ ReleaseLock(w)
    /\ Goto(w, "announce")
    /\ UNCHANGED << store, session, made, seen, lapsed >>

\* Mutant: the change is not announced.
AnnounceNothing(w) ==
    /\ pc[w] = "announce"
    /\ Forget(w)
    /\ UNCHANGED << store, lock, made, seen, lapsed >>

\* The handlers publish the result to the room; pushActiveVideoCallState tells
\* the one client that has just joined the room.
Announce(w) ==
    /\ pc[w] = "announce"
    /\ LET told == IF op[w] = "state" THEN {actor[w]} ELSE Members
       IN  seen' = IF w \in overtaken
                   THEN [m \in DOMAIN seen \ told |-> seen[m]]
                   ELSE [m \in DOMAIN seen \cup told |->
                           IF m \in told THEN session[w] ELSE seen[m]]
    /\ Forget(w)
    /\ UNCHANGED << store, lock, made, lapsed >>

\* The write took effect and was answered with an error, the publish failed, or
\* the process died: what was written is not announced.
LoseNews(w) ==
    /\ pc[w] \in {"release", "announce"}
    /\ seen' = IF op[w] = "state" THEN seen ELSE Nothing
    /\ lock' = IF lock = w THEN Dead ELSE lock
    /\ Forget(w)
    /\ UNCHANGED << store, made, lapsed >>

-----------------------------------------------------------------------------
(* Time. *)

\* Some live request is between its read and its write.
Writing == \E w \in Workers : pc[w] = "write"

\* The lock's 30 s are over.
LockExpires ==
    /\ lock # None
    /\ lock' = None
    /\ lapsed' = (lapsed \/ (lock # Dead /\ pc[lock] \in {"read", "write"}))
    /\ UNCHANGED << store, pc, command, session, made, seen, overtaken >>

\* The four hours of a session that nobody changed are over.
SessionExpires ==
    /\ store # NoCall
    /\ store' = NoCall
    /\ lapsed' = (lapsed \/ Writing)
    /\ overtaken' = overtaken \cup Bearers
    /\ seen' = Nothing
    /\ UNCHANGED << lock, pc, command, session, made >>

Next ==
    \/ \E w \in Workers :
        \/ \E o \in Ops, m \in Members, id \in 0 .. made : Begin(w, o, m, id)
        \/ Get(w) \/ Refuse(w) \/ Write(w) \/ Release(w) \/ Announce(w) \/ LoseNews(w)
    \/ LockExpires
    \/ SessionExpires

Spec == Init /\ [][Next]_vars

-----------------------------------------------------------------------------
(* Properties. *)

Abstract == INSTANCE AtomicCall
    WITH call <- store, used <- 1 .. made, safe <- ~lapsed

\* While no key runs out under a holder of the lock, the requests on a call
\* are as good as atomic: each changes the call as it is at that moment, and
\* an ended session stays ended.  WithLocks is what makes read, change and
\* write of video_call_service.go one step.
CallsAreAtomic == Abstract!Spec

\* What members believe about the call is what is stored, once nobody has news
\* for them, unless their last news was overtaken on the way from the lock to
\* the room, was lost, or the session simply ran out.
NewsIsExplained ==
    /\ TypeOK
    /\ Bearers = {} => \A m \in DOMAIN seen : seen[m] = store

=============================================================================
