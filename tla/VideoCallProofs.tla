-------------------------- MODULE VideoCallProofs --------------------------
(***************************************************************************)
(* Proofs about VideoCall, for every room, every number of requests and of  *)
(* sessions: what members believe about the call, and that requests on a    *)
(* call are as good as atomic.                                              *)
(***************************************************************************)
EXTENDS VideoCall, TLAPS

\* A session that is stored or held was started, and a request has an actor,
\* and has read a call if it is to change one.
SessionInv ==
    /\ store # NoCall => store.id \in 1 .. made
    /\ \A w \in Workers :
        /\ session[w] # NoCall => session[w].id \in 1 .. made
        /\ pc[w] # "idle" => actor[w] \in Members
        /\ pc[w] \in {"write", "release"} => op[w] # "state"
        /\ pc[w] = "write" /\ op[w] # "start" => session[w] # NoCall

\* What the request may do to the call it has read.
Allowed(w) ==
    /\ session[w] = store
    /\ op[w] = "start" => store = NoCall
    /\ op[w] \in {"join", "leave", "end"} => store # NoCall
    /\ op[w] = "leave" => actor[w] \in store.participants
    /\ op[w] = "end" => actor[w] \in store.participants \cup {store.starter}

\* As long as no key ran out under its holder, a request that reads or writes
\* the call holds the lock, and the call is as it has read it.
ExclusiveInv ==
    ~lapsed => \A w \in Workers :
        /\ pc[w] \in {"read", "write"} /\ op[w] # "state" => lock = w
        /\ pc[w] = "write" => Allowed(w)

Fresh == Bearers \ overtaken

\* News that was not overtaken is the truth, and there is some as long as a
\* member believes something else.
NewsInv ==
    /\ overtaken \subseteq Bearers
    /\ \A w \in Fresh : session[w] = store
    /\ (\E m \in DOMAIN seen : seen[m] # store) => \E w \in Fresh : op[w] # "state"

Inv == TypeOK /\ SessionInv /\ ExclusiveInv /\ NewsInv

LEMMA InitInv == Init => Inv
  <1> SUFFICES ASSUME Init PROVE Inv
    OBVIOUS
  <1> USE HoldersAssumption, MaxSessionsAssumption DEF Init
  <1>1. TypeOK
    <2>1. /\ pc \in [Workers -> Phases] /\ op \in [Workers -> Ops]
          /\ actor \in [Workers -> Members \cup {None}] /\ session \in [Workers -> Calls]
      BY DEF Phases, Ops, Calls
    <2>2. target \in [Workers -> 0 .. MaxSessions] /\ made \in 0 .. MaxSessions
      OBVIOUS
    <2>3. DOMAIN seen \subseteq Members /\ \A m \in DOMAIN seen : seen[m] \in Calls
      BY DEF Calls
    <2> QED BY <2>1, <2>2, <2>3 DEF TypeOK, Calls
  <1>2. SessionInv /\ ExclusiveInv
    BY DEF SessionInv, ExclusiveInv, Allowed
  <1>3. NewsInv
    BY DEF NewsInv, Bearers, Fresh
  <1> QED BY <1>1, <1>2, <1>3 DEF Inv

-----------------------------------------------------------------------------
(* The session entity *)

LEMMA ChangedType ==
    ASSUME Inv, NEW w \in Workers, pc[w] = "write", op[w] = "start" => made < MaxSessions
    PROVE  /\ Changed(w) \in Calls
           /\ Changed(w) # NoCall =>
                 Changed(w).id \in 1 .. IF op[w] = "start" THEN made + 1 ELSE made
  <1>1. /\ actor[w] \in Members /\ made \in 0 .. MaxSessions /\ session[w] \in Calls
        /\ op[w] # "start" => session[w] \in Sessions /\ session[w].id \in 1 .. made
        /\ op[w] \in Ops
    BY DEF Inv, SessionInv, TypeOK, Calls
  <1>2. CASE op[w] = "start"
    <2>1. Changed(w) = [id |-> made + 1, starter |-> actor[w], participants |-> {actor[w]}]
      BY <1>2 DEF Changed, NewVideoCallSession
    <2>2. made + 1 \in 1 .. MaxSessions
      BY <1>1, <1>2, MaxSessionsAssumption
    <2>3. Changed(w) \in Sessions
      BY <1>1, <2>1, <2>2 DEF Sessions
    <2> QED BY <1>1, <1>2, <2>1, <2>3, MaxSessionsAssumption DEF Calls
  <1>3. CASE op[w] = "join"
    <2>1. Changed(w) = [session[w] EXCEPT !.participants = @ \cup {actor[w]}]
      BY <1>3 DEF Changed, Join
    <2> QED BY <1>1, <1>3, <2>1 DEF Sessions, Calls
  <1>4. CASE op[w] = "leave"
    <2>1. Changed(w) = IF session[w].participants = {actor[w]} THEN NoCall
                       ELSE [session[w] EXCEPT !.participants = @ \ {actor[w]}]
      BY <1>4 DEF Changed, Leave
    <2> QED BY <1>1, <1>4, <2>1 DEF Sessions, Calls
  <1>5. CASE op[w] \notin {"start", "join", "leave"}
    BY <1>5 DEF Changed, Calls
  <1> QED BY <1>2, <1>3, <1>4, <1>5

-----------------------------------------------------------------------------
(* The workers other than the one that moves *)

\* What Begin, Get, Write and Release leave alone, and Forget.
LEMMA ForgetFrame ==
    ASSUME TypeOK, NEW w \in Workers, Forget(w)
    PROVE  /\ pc' \in [Workers -> Phases] /\ op' \in [Workers -> Ops]
           /\ actor' \in [Workers -> Members \cup {None}]
           /\ target' \in [Workers -> 0 .. MaxSessions]
           /\ session' \in [Workers -> Calls]
           /\ overtaken' \subseteq Workers
           /\ pc'[w] = "idle" /\ session'[w] = NoCall /\ w \notin overtaken'
           /\ \A v \in Workers \ {w} :
                 /\ pc'[v] = pc[v] /\ op'[v] = op[v] /\ actor'[v] = actor[v]
                 /\ session'[v] = session[v] /\ (v \in overtaken' <=> v \in overtaken)
  <1>1. /\ pc' \in [Workers -> Phases] /\ op' \in [Workers -> Ops]
        /\ actor' \in [Workers -> Members \cup {None}]
    BY DEF TypeOK, Forget, Phases, Ops
  <1>2. /\ target' \in [Workers -> 0 .. MaxSessions]
        /\ session' \in [Workers -> Calls]
        /\ overtaken' \subseteq Workers
    BY MaxSessionsAssumption DEF TypeOK, Forget, Calls
  <1>3. /\ pc'[w] = "idle" /\ session'[w] = NoCall /\ w \notin overtaken'
        /\ \A v \in Workers \ {w} :
              /\ pc'[v] = pc[v] /\ op'[v] = op[v] /\ actor'[v] = actor[v]
              /\ session'[v] = session[v] /\ (v \in overtaken' <=> v \in overtaken)
    BY DEF TypeOK, Forget
  <1> QED BY <1>1, <1>2, <1>3

\* A worker that forgets its command has no news any more.
LEMMA ForgetBearers ==
    ASSUME TypeOK, NEW w \in Workers, Forget(w)
    PROVE  Bearers' = Bearers \ {w} /\ Fresh' = Fresh \ {w}
  <1>1. Bearers' = Bearers \ {w}
    BY ForgetFrame DEF Bearers
  <1> QED BY <1>1, ForgetFrame DEF Fresh, Bearers, Forget

\* The lock after a release by somebody who is not inside, or leaves.
LEMMA ForgetExclusive ==
    ASSUME TypeOK, ExclusiveInv, NEW w \in Workers, Forget(w), lapsed' = lapsed, store' = store,
           \A v \in Workers \ {w} : lock = v => lock' = v
    PROVE  ExclusiveInv'
  BY ForgetFrame DEF ExclusiveInv, Allowed

LEMMA ForgetSessions ==
    ASSUME TypeOK, SessionInv, NEW w \in Workers, Forget(w), store' = store, made' = made
    PROVE  SessionInv'
  BY ForgetFrame DEF SessionInv

-----------------------------------------------------------------------------
(* The actions *)

LEMMA BeginInv ==
    ASSUME Inv, NEW w \in Workers, NEW o \in Ops, NEW m \in Members, NEW id \in 0 .. made,
           Begin(w, o, m, id)
    PROVE  Inv'
  <1>1. TypeOK /\ SessionInv /\ ExclusiveInv /\ NewsInv
    BY DEF Inv
  <1>2. TypeOK'
    <2>1. pc' \in [Workers -> Phases] /\ op' \in [Workers -> Ops] /\ lock' \in Workers \cup {None, Dead}
      BY <1>1 DEF TypeOK, Begin, Phases, AcquireLock
    <2>2. actor' \in [Workers -> Members \cup {None}] /\ target' \in [Workers -> 0 .. MaxSessions]
      BY <1>1, MaxSessionsAssumption DEF TypeOK, Begin
    <2> QED BY <1>1, <2>1, <2>2 DEF TypeOK, Begin, history
  <1>3. /\ pc[w] = "idle" /\ pc'[w] = "read" /\ op'[w] = o /\ actor'[w] = m
        /\ \A v \in Workers \ {w} : pc'[v] = pc[v] /\ op'[v] = op[v] /\ actor'[v] = actor[v]
        /\ UNCHANGED << store, session, made, seen, lapsed, overtaken >>
    BY <1>1 DEF TypeOK, Begin, history
  <1>4. SessionInv'
    BY <1>1, <1>3 DEF SessionInv
  <1>5. ExclusiveInv'
    <2>1. IF o = "state" THEN lock' = lock ELSE lock = None /\ lock' = w
      BY DEF Begin, AcquireLock
    <2> QED BY <1>1, <1>3, <2>1, HoldersAssumption DEF ExclusiveInv, Allowed
  <1>6. NewsInv'
    <2>1. Bearers' = Bearers /\ Fresh' = Fresh
      BY <1>3 DEF Bearers, Fresh
    <2>2. \A v \in Fresh : v # w /\ v \in Workers
      BY <1>3 DEF Bearers, Fresh
    <2> QED BY <1>1, <1>3, <2>1, <2>2 DEF NewsInv
  <1> QED BY <1>2, <1>4, <1>5, <1>6 DEF Inv

LEMMA GetInv ==
    ASSUME Inv, NEW w \in Workers, Get(w)
    PROVE  Inv'
  <1>1. TypeOK /\ SessionInv /\ ExclusiveInv /\ NewsInv
    BY DEF Inv
  <1>2. TypeOK'
    BY <1>1 DEF TypeOK, Get, Goto, command, Phases
  <1>3. /\ pc[w] = "read" /\ session'[w] = store
        /\ pc'[w] = (IF op[w] = "state" THEN "announce" ELSE "write")
        /\ \A v \in Workers \ {w} : pc'[v] = pc[v] /\ session'[v] = session[v]
        /\ UNCHANGED << store, lock, made, seen, lapsed, overtaken, op, actor, target >>
    BY <1>1 DEF TypeOK, Get, Goto, command
  <1>4. /\ op[w] = "start" => store = NoCall
        /\ op[w] \in {"join", "leave", "end"} => store # NoCall
        /\ op[w] = "leave" => actor[w] \in store.participants
        /\ op[w] = "end" => actor[w] \in store.participants \cup {store.starter}
    BY DEF Get, Permitted, requireActiveSession, HasParticipant
  <1>5. SessionInv'
    <2>1. op[w] \in {"start", "join", "leave", "end", "state"}
      BY <1>1 DEF TypeOK, Ops
    <2> QED BY <1>1, <1>3, <1>4, <2>1 DEF SessionInv
  <1>6. ExclusiveInv'
    <2>1. Allowed(w)'
      BY <1>3, <1>4 DEF Allowed
    <2> QED BY <1>1, <1>3, <2>1 DEF ExclusiveInv, Allowed
  <1>7. NewsInv'
    <2>1. w \notin Bearers /\ w \notin overtaken
      BY <1>1, <1>3 DEF Bearers, NewsInv
    <2>2. CASE op[w] = "state"
      <3>1. Bearers' = Bearers \cup {w} /\ Fresh' = Fresh \cup {w}
        BY <1>3, <2>1, <2>2 DEF Bearers, Fresh
      <3> QED BY <1>1, <1>3, <2>1, <3>1 DEF NewsInv, Fresh, Bearers
    <2>3. CASE op[w] # "state"
      <3>1. Bearers' = Bearers /\ Fresh' = Fresh
        BY <1>3, <2>3 DEF Bearers, Fresh
      <3> QED BY <1>1, <1>3, <2>1, <3>1 DEF NewsInv, Fresh, Bearers
    <2> QED BY <2>2, <2>3
  <1> QED BY <1>2, <1>5, <1>6, <1>7 DEF Inv

LEMMA RefuseInv ==
    ASSUME Inv, NEW w \in Workers, Refuse(w)
    PROVE  Inv'
  <1>1. TypeOK /\ SessionInv /\ ExclusiveInv /\ NewsInv /\ Forget(w)
    BY DEF Inv, Refuse
  <1>2. UNCHANGED << store, made, seen, lapsed >> /\ pc[w] \in {"read", "write"}
    BY DEF Refuse
  <1>3. lock' \in Workers \cup {None, Dead} /\ \A v \in Workers \ {w} : lock = v => lock' = v
    BY <1>1 DEF Refuse, ReleaseLock, TypeOK
  <1>4. TypeOK'
    BY <1>1, <1>2, <1>3, ForgetFrame DEF TypeOK
  <1>5. SessionInv' /\ ExclusiveInv'
    BY <1>1, <1>2, <1>3, ForgetSessions, ForgetExclusive
  <1>6. NewsInv'
    <2>1. w \notin Bearers /\ Bearers' = Bearers /\ Fresh' = Fresh
      BY <1>1, <1>2, ForgetBearers DEF Bearers, Fresh
    <2> QED BY <1>1, <1>2, <2>1, ForgetFrame DEF NewsInv, Fresh, Bearers, Forget
  <1> QED BY <1>4, <1>5, <1>6 DEF Inv

LEMMA WriteInv ==
    ASSUME Inv, NEW w \in Workers, Write(w)
    PROVE  Inv'
  <1>1. TypeOK /\ SessionInv /\ ExclusiveInv /\ NewsInv
    BY DEF Inv
  <1>2. /\ Changed(w) \in Calls
        /\ Changed(w) # NoCall => Changed(w).id \in 1 .. made'
    BY ChangedType DEF Write
  <1>3. made \in Nat /\ made' \in 0 .. MaxSessions /\ made <= made'
    BY <1>1, MaxSessionsAssumption DEF TypeOK, Write
  <1>4. /\ pc[w] = "write" /\ pc'[w] = "release" /\ session'[w] = Changed(w) /\ store' = Changed(w)
        /\ \A v \in Workers \ {w} : pc'[v] = pc[v] /\ session'[v] = session[v]
        /\ overtaken' = overtaken \cup Bearers
        /\ UNCHANGED << lock, seen, lapsed, op, actor, target >>
    BY <1>1 DEF TypeOK, Write, command
  <1>5. TypeOK'
    <2>1. pc' \in [Workers -> Phases] /\ session' \in [Workers -> Calls]
      BY <1>1, <1>2 DEF TypeOK, Write, Phases
    <2>2. overtaken' \subseteq Workers
      BY <1>1, <1>4 DEF TypeOK, Bearers
    <2> QED BY <1>1, <1>2, <1>3, <1>4, <2>1, <2>2 DEF TypeOK
  <1>6. SessionInv'
    <2>1. op[w] # "state"
      BY <1>1, <1>4 DEF SessionInv
    <2>2. 1 .. made \subseteq 1 .. made'
      BY <1>3
    <2> QED BY <1>1, <1>2, <1>4, <2>1, <2>2 DEF SessionInv
  <1>7. ExclusiveInv'
    <2> SUFFICES ASSUME ~lapsed', NEW v \in Workers
                 PROVE  /\ pc'[v] \in {"read", "write"} /\ op'[v] # "state" => lock' = v
                        /\ pc'[v] = "write" => Allowed(v)'
      BY DEF ExclusiveInv
    <2>1. lock = w
      BY <1>1, <1>4 DEF ExclusiveInv, SessionInv
    <2>2. pc'[v] # "write"
      BY <1>1, <1>4, <2>1 DEF ExclusiveInv, SessionInv
    <2> QED BY <1>1, <1>4, <2>2 DEF ExclusiveInv
  <1>8. NewsInv'
    <2>1. w \notin Bearers /\ Bearers' = Bearers \cup {w} /\ Fresh' = {w}
      <3>1. Bearers' = Bearers \cup {w} /\ w \notin Bearers
        BY <1>1, <1>4 DEF Bearers, SessionInv
      <3> QED BY <1>1, <1>4, <3>1 DEF Fresh, NewsInv
    <2>2. op'[w] # "state"
      BY <1>1, <1>4 DEF SessionInv
    <2> QED BY <1>1, <1>4, <2>1, <2>2 DEF NewsInv
  <1> QED BY <1>5, <1>6, <1>7, <1>8 DEF Inv

LEMMA ReleaseInv ==
    ASSUME Inv, NEW w \in Workers, Release(w)
    PROVE  Inv'
  <1>1. TypeOK /\ SessionInv /\ ExclusiveInv /\ NewsInv
    BY DEF Inv
  <1>2. /\ pc[w] = "release" /\ pc'[w] = "announce" /\ op[w] # "state"
        /\ \A v \in Workers \ {w} : pc'[v] = pc[v]
        /\ UNCHANGED << store, session, made, seen, lapsed, overtaken, op, actor, target >>
        /\ lock' \in Workers \cup {None, Dead}
        /\ \A v \in Workers \ {w} : lock = v => lock' = v
    BY <1>1 DEF TypeOK, SessionInv, Release, Goto, command, ReleaseLock
  <1>3. TypeOK'
    BY <1>1, <1>2 DEF TypeOK, Release, Goto, Phases
  <1>4. SessionInv'
    BY <1>1, <1>2 DEF SessionInv
  <1>5. ExclusiveInv'
    BY <1>1, <1>2 DEF ExclusiveInv, Allowed
  <1>6. NewsInv'
    <2>1. Bearers' = Bearers /\ Fresh' = Fresh
      BY <1>2 DEF Bearers, Fresh
    <2> QED BY <1>1, <1>2, <2>1 DEF NewsInv
  <1> QED BY <1>3, <1>4, <1>5, <1>6 DEF Inv

LEMMA AnnounceInv ==
    ASSUME Inv, NEW w \in Workers, Announce(w)
    PROVE  Inv'
  <1>1. TypeOK /\ SessionInv /\ ExclusiveInv /\ NewsInv /\ Forget(w)
    BY DEF Inv, Announce
  <1>2. UNCHANGED << store, lock, made, lapsed >> /\ pc[w] = "announce" /\ w \in Bearers
    BY DEF Announce, Bearers
  <1> DEFINE told == IF op[w] = "state" THEN {actor[w]} ELSE Members
  <1>3. told \subseteq Members
    BY <1>1, <1>2 DEF SessionInv
  <1>4. /\ DOMAIN seen' \subseteq Members /\ \A m \in DOMAIN seen' : seen'[m] \in Calls
        /\ w \in overtaken => \A m \in DOMAIN seen' : m \in DOMAIN seen /\ seen'[m] = seen[m]
        /\ w \notin overtaken =>
              \A m \in DOMAIN seen' : IF m \in told THEN seen'[m] = session[w]
                                      ELSE m \in DOMAIN seen /\ seen'[m] = seen[m]
    <2>1. CASE w \in overtaken
      <3>1. seen' = [m \in DOMAIN seen \ told |-> seen[m]]
        BY <2>1 DEF Announce
      <3> QED BY <1>1, <2>1, <3>1 DEF TypeOK
    <2>2. CASE w \notin overtaken
      <3>1. seen' = [m \in DOMAIN seen \cup told |-> IF m \in told THEN session[w] ELSE seen[m]]
        BY <2>2 DEF Announce
      <3>2. session[w] \in Calls
        BY <1>1 DEF TypeOK
      <3> HIDE DEF told
      <3> QED BY <1>1, <1>3, <2>2, <3>1, <3>2 DEF TypeOK
    <2> QED BY <2>1, <2>2
  <1>5. TypeOK'
    BY <1>1, <1>2, <1>4, ForgetFrame DEF TypeOK
  <1>6. SessionInv' /\ ExclusiveInv'
    BY <1>1, <1>2, ForgetSessions, ForgetExclusive
  <1>7. NewsInv'
    <2>1. /\ Bearers' = Bearers \ {w} /\ Fresh' = Fresh \ {w} /\ overtaken' = overtaken \ {w}
          /\ Bearers \subseteq Workers
      BY <1>1, ForgetBearers DEF Bearers, Forget
    <2>2. overtaken' \subseteq Bearers' /\ \A v \in Fresh' : session'[v] = store'
      BY <1>1, <1>2, <2>1, ForgetFrame DEF NewsInv, Fresh
    <2>3. ASSUME NEW m \in DOMAIN seen', seen'[m] # store'
          PROVE  \E v \in Fresh' : op'[v] # "state"
      <3>1. CASE w \in overtaken
        <4>1. PICK v \in Fresh : op[v] # "state"
          BY <1>1, <1>2, <1>4, <2>3, <3>1 DEF NewsInv
        <4> QED BY <1>1, <2>1, <3>1, <4>1, ForgetFrame DEF Fresh
      <3>2. CASE w \notin overtaken
        <4>1. session[w] = store
          BY <1>1, <1>2, <3>2 DEF NewsInv, Fresh
        <4>2. m \notin told /\ m \in DOMAIN seen /\ seen[m] # store
          BY <1>2, <1>4, <2>3, <3>2, <4>1
        <4>3. op[w] = "state"
          BY <1>1, <4>2 DEF TypeOK
        <4>4. PICK v \in Fresh : op[v] # "state"
          BY <1>1, <4>2 DEF NewsInv
        <4> QED BY <1>1, <2>1, <4>3, <4>4, ForgetFrame DEF Fresh
      <3> QED BY <3>1, <3>2
    <2> QED BY <2>2, <2>3 DEF NewsInv
  <1> QED BY <1>5, <1>6, <1>7 DEF Inv

LEMMA LoseNewsInv ==
    ASSUME Inv, NEW w \in Workers, LoseNews(w)
    PROVE  Inv'
  <1>1. TypeOK /\ SessionInv /\ ExclusiveInv /\ NewsInv /\ Forget(w)
    BY DEF Inv, LoseNews
  <1>2. UNCHANGED << store, made, lapsed >> /\ pc[w] \in {"release", "announce"}
    BY DEF LoseNews
  <1>3. lock' \in Workers \cup {None, Dead} /\ \A v \in Workers \ {w} : lock = v => lock' = v
    BY <1>1 DEF LoseNews, TypeOK
  <1>4. /\ DOMAIN seen' \subseteq Members /\ \A m \in DOMAIN seen' : seen'[m] \in Calls
        /\ op[w] # "state" => DOMAIN seen' = {}
        /\ op[w] = "state" => seen' = seen
    BY <1>1 DEF LoseNews, TypeOK, Nothing
  <1>5. TypeOK'
    BY <1>1, <1>2, <1>3, <1>4, ForgetFrame DEF TypeOK
  <1>6. SessionInv' /\ ExclusiveInv'
    BY <1>1, <1>2, <1>3, ForgetSessions, ForgetExclusive
  <1>7. NewsInv'
    <2>1. /\ Bearers' = Bearers \ {w} /\ Fresh' = Fresh \ {w} /\ overtaken' = overtaken \ {w}
          /\ Fresh \subseteq Workers
      BY <1>1, ForgetBearers DEF Bearers, Fresh, Forget
    <2>2. overtaken' \subseteq Bearers' /\ \A v \in Fresh' : session'[v] = store'
      BY <1>1, <1>2, <2>1, ForgetFrame DEF NewsInv
    <2>3. ASSUME NEW m \in DOMAIN seen', seen'[m] # store'
          PROVE  \E v \in Fresh' : op'[v] # "state"
      <3>1. op[w] = "state" /\ m \in DOMAIN seen /\ seen[m] # store
        BY <1>2, <1>4, <2>3
      <3>2. PICK v \in Fresh : op[v] # "state"
        BY <1>1, <3>1 DEF NewsInv
      <3> QED BY <1>1, <2>1, <3>1, <3>2, ForgetFrame
    <2> QED BY <2>2, <2>3 DEF NewsInv
  <1> QED BY <1>5, <1>6, <1>7 DEF Inv

LEMMA LockExpiresInv ==
    ASSUME Inv, LockExpires
    PROVE  Inv'
  <1>1. TypeOK /\ SessionInv /\ ExclusiveInv /\ NewsInv
    BY DEF Inv
  <1>2. UNCHANGED << store, pc, op, actor, target, session, made, seen, overtaken >>
    BY DEF LockExpires, command
  <1>3. TypeOK'
    BY <1>1, <1>2 DEF TypeOK, LockExpires
  <1>4. SessionInv'
    BY <1>1, <1>2 DEF SessionInv
  <1>5. ExclusiveInv'
    <2>1. ASSUME ~lapsed', NEW v \in Workers
          PROVE  ~lapsed /\ (lock = v => pc[v] \notin {"read", "write"})
      BY <2>1, HoldersAssumption DEF LockExpires
    <2> QED BY <1>1, <1>2, <2>1 DEF ExclusiveInv, SessionInv
  <1>6. NewsInv'
    BY <1>1, <1>2 DEF NewsInv, Fresh, Bearers
  <1> QED BY <1>3, <1>4, <1>5, <1>6 DEF Inv

LEMMA SessionExpiresInv ==
    ASSUME Inv, SessionExpires
    PROVE  Inv'
  <1>1. TypeOK /\ SessionInv /\ ExclusiveInv /\ NewsInv
    BY DEF Inv
  <1>2. /\ UNCHANGED << lock, pc, op, actor, target, session, made >>
        /\ store' = NoCall /\ overtaken' = overtaken \cup Bearers /\ DOMAIN seen' = {}
    BY DEF SessionExpires, command, Nothing
  <1>3. TypeOK'
    <2>1. lapsed' \in BOOLEAN
      BY <1>1 DEF TypeOK, SessionExpires
    <2> QED BY <1>1, <1>2, <2>1 DEF TypeOK, Calls, Bearers
  <1>4. SessionInv'
    BY <1>1, <1>2 DEF SessionInv
  <1>5. ExclusiveInv'
    <2>1. ASSUME ~lapsed' PROVE ~lapsed /\ \A v \in Workers : pc[v] # "write"
      BY <2>1 DEF SessionExpires, Writing
    <2> QED BY <1>1, <1>2, <2>1 DEF ExclusiveInv
  <1>6. NewsInv'
    BY <1>1, <1>2 DEF NewsInv, Fresh, Bearers
  <1> QED BY <1>3, <1>4, <1>5, <1>6 DEF Inv

LEMMA NextInv == Inv /\ [Next]_vars => Inv'
  <1> SUFFICES ASSUME Inv, [Next]_vars PROVE Inv'
    OBVIOUS
  <1>1. CASE UNCHANGED vars
    <2>1. UNCHANGED << store, lock, pc, op, actor, target, session, made, seen, lapsed, overtaken >>
      BY <1>1 DEF vars, command, history
    <2>2. TypeOK'
      BY <2>1 DEF Inv, TypeOK
    <2>3. SessionInv' /\ ExclusiveInv' /\ NewsInv'
      BY <2>1 DEF Inv, SessionInv, ExclusiveInv, Allowed, NewsInv, Fresh, Bearers
    <2> QED BY <2>2, <2>3 DEF Inv
  <1>2. CASE Next
    BY <1>2, BeginInv, GetInv, RefuseInv, WriteInv, ReleaseInv, AnnounceInv, LoseNewsInv,
       LockExpiresInv, SessionExpiresInv DEF Next
  <1> QED BY <1>1, <1>2

LEMMA Invariance == Spec => []Inv
  BY InitInv, NextInv, PTL DEF Spec

\* What the members of a room believe about its call is what is stored, once
\* nobody has news for them, unless their last news was overtaken or lost: the
\* announcements of video_call_service.go are made after the lock is released.
THEOREM RoomNewsIsExplained == Spec => []NewsIsExplained
  <1>1. Inv => NewsIsExplained
    <2> SUFFICES ASSUME Inv, Bearers = {}, NEW m \in DOMAIN seen PROVE seen[m] = store
      BY DEF Inv, NewsIsExplained
    <2>1. Fresh = {}
      BY DEF Fresh
    <2> QED BY <2>1 DEF Inv, NewsInv
  <1> QED BY <1>1, Invariance, PTL

-----------------------------------------------------------------------------
(* The refinement *)

\* A write is a change of the call as it is, or the room is not safe any more.
LEMMA WriteIsAtomic ==
    ASSUME Inv, NEW w \in Workers, Write(w)
    PROVE  Abstract!Next
  <1>1. /\ TypeOK /\ SessionInv /\ ExclusiveInv
        /\ pc[w] = "write" /\ actor[w] \in Members /\ lapsed' = lapsed /\ store' = Changed(w)
        /\ op[w] \in {"start", "join", "leave", "end"}
        /\ made \in Nat
    BY MaxSessionsAssumption DEF Inv, SessionInv, Write, TypeOK, Ops
  <1>2. CASE lapsed
    <2>1. Changed(w) # NoCall => Changed(w).id \in 1 .. made'
      BY ChangedType DEF Write
    <2>2. 1 .. made \subseteq 1 .. made'
      BY <1>1 DEF Write
    <2>3. Abstract!Overwrite
      BY <1>1, <1>2, <2>1, <2>2 DEF Abstract!Overwrite
    <2> QED BY <1>1, <2>3 DEF Abstract!Next
  <1>3. CASE ~lapsed
    <2>1. Allowed(w)
      BY <1>1, <1>3 DEF ExclusiveInv
    <2>2. CASE op[w] = "start"
      <3>1. made' = made + 1 /\ store' = [id |-> made + 1, starter |-> actor[w], participants |-> {actor[w]}]
        BY <1>1, <2>2 DEF Write, Changed, NewVideoCallSession
      <3>2. made + 1 \in 1 .. made' \ 1 .. made /\ 1 .. made' = (1 .. made) \cup {made + 1}
        BY <1>1, <3>1
      <3>3. store = NoCall
        BY <2>1, <2>2 DEF Allowed
      <3>4. Abstract!Start(actor[w])
        BY <3>1, <3>2, <3>3 DEF Abstract!Start
      <3> QED BY <1>1, <3>4 DEF Abstract!Next
    <2>3. CASE op[w] = "join"
      <3>1. made' = made /\ store' = [store EXCEPT !.participants = @ \cup {actor[w]}]
        BY <1>1, <2>1, <2>3 DEF Write, Changed, Join, Allowed
      <3>2. Abstract!Join(actor[w])
        BY <2>1, <2>3, <3>1 DEF Abstract!Join, Allowed
      <3> QED BY <1>1, <3>2 DEF Abstract!Next
    <2>4. CASE op[w] = "leave"
      <3>1. made' = made /\ store' = IF store.participants = {actor[w]} THEN NoCall
                                     ELSE [store EXCEPT !.participants = @ \ {actor[w]}]
        BY <1>1, <2>1, <2>4 DEF Write, Changed, Leave, Allowed
      <3>2. Abstract!Leave(actor[w])
        BY <2>1, <2>4, <3>1 DEF Abstract!Leave, Allowed
      <3> QED BY <1>1, <3>2 DEF Abstract!Next
    <2>5. CASE op[w] = "end"
      <3>1. made' = made /\ store' = NoCall
        BY <1>1, <2>5 DEF Write, Changed
      <3>2. Abstract!End(actor[w])
        BY <2>1, <2>5, <3>1 DEF Abstract!End, Allowed
      <3> QED BY <1>1, <3>2 DEF Abstract!Next
    <2> QED BY <1>1, <2>2, <2>3, <2>4, <2>5
  <1> QED BY <1>2, <1>3

LEMMA StepIsAtomic == Inv /\ [Next]_vars => [Abstract!Next]_(Abstract!vars)
  <1> SUFFICES ASSUME Inv, [Next]_vars
               PROVE  Abstract!Next \/ UNCHANGED << store, 1 .. made, ~lapsed >>
    BY DEF Abstract!vars
  <1>1. CASE UNCHANGED vars
    BY <1>1 DEF vars, history
  <1>2. ASSUME NEW w \in Workers, NEW o \in Ops, NEW m \in Members, NEW id \in 0 .. made,
               Begin(w, o, m, id)
        PROVE  UNCHANGED << store, 1 .. made, ~lapsed >>
    BY <1>2 DEF Begin, history
  <1>3. ASSUME NEW w \in Workers,
               Get(w) \/ Refuse(w) \/ Release(w) \/ Announce(w) \/ LoseNews(w)
        PROVE  UNCHANGED << store, 1 .. made, ~lapsed >>
    BY <1>3 DEF Get, Refuse, Release, Announce, LoseNews
  <1>4. CASE LockExpires
    <2>1. UNCHANGED << store, made >> /\ (~lapsed' => ~lapsed)
      BY <1>4 DEF LockExpires
    <2> QED BY <2>1 DEF Abstract!Next
  <1>5. CASE SessionExpires
    <2>1. Abstract!Expire /\ (~lapsed' => ~lapsed)
      BY <1>5 DEF SessionExpires, Abstract!Expire
    <2> QED BY <2>1 DEF Abstract!Next
  <1> QED BY <1>1, <1>2, <1>3, <1>4, <1>5, WriteIsAtomic DEF Next

\* The requests on a call implement atomic ones: read, change and write of
\* video_call_service.go are one step under WithLocks, until a key runs out
\* under the holder of the lock.
THEOREM CallsImplementAtomicCall == Spec => CallsAreAtomic
  <1>1. Init => Abstract!Init
    BY DEF Init, Abstract!Init
  <1> QED BY <1>1, StepIsAtomic, Invariance, PTL DEF Spec, CallsAreAtomic, Abstract!Spec

=============================================================================
