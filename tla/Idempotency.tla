---------------------------- MODULE Idempotency ----------------------------
(***************************************************************************)
(* The last steps of a write request through the gateway: its               *)
(* Idempotency-Key is taken in Redis, the request is passed to a backend    *)
(* that Consul lists, and the key is marked done or released by the status  *)
(* of the answer.                                                           *)
(*                                                                          *)
(* The lock lives for five minutes and a done key for a day; nothing else   *)
(* bounds a request.  Both calls to Redis use the context of the request,   *)
(* which ends when the client goes away, and the second one's error is      *)
(* dropped.  The backend works on its own: it may carry out a request the   *)
(* gateway has already answered with 502.                                   *)
(***************************************************************************)
EXTENDS Integers, Sequences, FiniteSets

CONSTANTS Calls,         \* requests
          Keys, keyOf,   \* the Idempotency-Key of a request
          Hosts, NoHost, \* addresses of backends; the address of an unusable entry
          ServiceLists,  \* what Consul may answer: sequences over Hosts and NoHost
          MaxExpired     \* bound: keys that run out

ASSUME KeysAssumption ==
    /\ keyOf \in [Calls -> Keys]
    /\ NoHost \notin Hosts
    /\ ServiceLists \subseteq Seq(Hosts \cup {NoHost})
    /\ MaxExpired \in Nat

VARIABLES
    redisKey,     \* a key in Redis: free, locked or done
    nextBackend,  \* counter of the load balancer
    call,         \* a request: where the gateway is with it, and its answer
    gone,         \* requests whose client has gone away
    work,         \* what the backend does for a request: none, sent or did
    unclosed,     \* history: requests whose key was not marked or released
    expired       \* history: keys that ran out, and how many

idemVars == << redisKey, nextBackend, call, gone, work, unclosed, expired >>

Phases == {"begin", "proxy", "wait", "end", "over"}
Answers == {"none", "success", "failure", "conflict", "error"}

IdemInit ==
    /\ redisKey = [k \in Keys |-> "free"]
    /\ nextBackend = 0
    /\ call = [r \in Calls |-> [at |-> "begin", answer |-> "none"]]
    /\ gone = {}
    /\ work = [r \in Calls |-> "none"]
    /\ unclosed = {}
    /\ expired = << >>

Move(r, at, answer) == call' = [call EXCEPT ![r] = [at |-> at, answer |-> answer]]

-----------------------------------------------------------------------------

\* nextTargetHost: the first usable entry from where the counter points, or none.
nextTargetHost(services, start) ==
    LET from(offset) == services[((start + offset) % Len(services)) + 1]
        usable == { o \in 0 .. Len(services) - 1 : from(o) # NoHost }
    IN  IF usable = {} THEN {}
        ELSE {from(CHOOSE o \in usable : \A i \in usable : o <= i)}

\* SetNX: true when the key was free.
TryLock(k) == redisKey[k] = "free" /\ redisKey' = [redisKey EXCEPT ![k] = "locked"]
MarkDone(k) == redisKey' = [redisKey EXCEPT ![k] = "done"]
Release(k) == redisKey' = [redisKey EXCEPT ![k] = "free"]

\* Mutant: the lock is looked up and not found, then set.
BeginAnyway(r) ==
    /\ call[r].at = "begin"
    /\ redisKey[keyOf[r]] # "done"
    /\ redisKey' = [redisKey EXCEPT ![keyOf[r]] = "locked"]
    /\ Move(r, "proxy", "none")
    /\ UNCHANGED << nextBackend, gone, work, unclosed, expired >>

\* Begin: a taken key is a conflict and a failed command an error, which may also be the
\* lost answer of one that took effect.
Begin(r) ==
    /\ call[r].at = "begin"
    /\ \/ TryLock(keyOf[r]) /\ Move(r, "proxy", "none") /\ UNCHANGED unclosed
       \/ redisKey[keyOf[r]] # "free" /\ Move(r, "over", "conflict") /\ UNCHANGED << redisKey, unclosed >>
       \/ Move(r, "over", "error") /\ UNCHANGED << redisKey, unclosed >>
       \/ TryLock(keyOf[r]) /\ Move(r, "over", "error") /\ unclosed' = unclosed \cup {r}
    /\ UNCHANGED << nextBackend, gone, work, expired >>

\* The director asks Consul and picks a host; without one the answer is 502.
Direct(r) ==
    /\ call[r].at = "proxy"
    /\ \E services \in ServiceLists :
          /\ nextBackend' = IF services = << >> THEN nextBackend ELSE nextBackend + 1
          /\ IF nextTargetHost(services, nextBackend) = {}
             THEN Move(r, "end", "failure") /\ UNCHANGED work
             ELSE Move(r, "wait", "none") /\ work' = [work EXCEPT ![r] = "sent"]
    /\ UNCHANGED << redisKey, gone, unclosed, expired >>

\* The backend carries the request out, whether the gateway still waits for it or not.
BackendWorks(r) ==
    /\ work[r] = "sent"
    /\ work' = [work EXCEPT ![r] = "did"]
    /\ UNCHANGED << redisKey, nextBackend, call, gone, unclosed, expired >>

\* The answer: a status below 300 of a request that was carried out, or any other, or the
\* proxy's 502 when the connection or the client is gone.
Answer(r) ==
    /\ call[r].at = "wait"
    /\ \/ work[r] = "did" /\ r \notin gone /\ Move(r, "end", "success")
       \/ Move(r, "end", "failure")
    /\ UNCHANGED << redisKey, nextBackend, gone, work, unclosed, expired >>

ClientGoes(r) ==
    /\ call[r].at \in {"proxy", "wait", "end"} /\ r \notin gone
    /\ gone' = gone \cup {r}
    /\ UNCHANGED << redisKey, nextBackend, call, work, unclosed, expired >>

\* End: MarkDone or Release, whoever holds the key by now.  The command fails for a client
\* that is gone, or with Redis.
End(r) ==
    /\ call[r].at = "end"
    /\ \/ /\ r \notin gone
          /\ IF call[r].answer = "success" THEN MarkDone(keyOf[r]) ELSE Release(keyOf[r])
          /\ UNCHANGED unclosed
       \/ unclosed' = unclosed \cup {r} /\ UNCHANGED redisKey
    /\ Move(r, "over", call[r].answer)
    /\ UNCHANGED << nextBackend, gone, work, expired >>

\* A key's life in Redis ends.
KeyExpires(k) ==
    /\ redisKey[k] # "free" /\ Len(expired) < MaxExpired
    /\ redisKey' = [redisKey EXCEPT ![k] = "free"]
    /\ expired' = Append(expired, k)
    /\ UNCHANGED << nextBackend, call, gone, work, unclosed >>

IdemNext ==
    \/ \E r \in Calls :
          Begin(r) \/ Direct(r) \/ BackendWorks(r) \/ Answer(r) \/ ClientGoes(r) \/ End(r)
    \/ \E k \in Keys : KeyExpires(k)

-----------------------------------------------------------------------------
(* Properties *)

RanOut(k) == \E i \in DOMAIN expired : expired[i] = k
Holding(r) == call[r].at \in {"proxy", "wait", "end"}

IdemTypeOK ==
    /\ redisKey \in [Keys -> {"free", "locked", "done"}]
    /\ nextBackend \in Nat
    /\ call \in [Calls -> [at : Phases, answer : Answers]]
    /\ work \in [Calls -> {"none", "sent", "did"}]
    /\ gone \subseteq Calls /\ unclosed \subseteq Calls

\* Two requests with the same key are both carried out only when one of them was answered
\* with a failure (the answer to a client who then tries again) or the key ran out.
CarriedOutOnce ==
    \A q, r \in Calls :
        q # r /\ keyOf[q] = keyOf[r] /\ work[q] = "did" /\ work[r] = "did" =>
            \/ "failure" \in {call[q].answer, call[r].answer}
            \/ RanOut(keyOf[q])

\* A client that got a success and tries again gets a conflict, and nothing is done.
SuccessIsFinal ==
    \A r \in Calls : call[r].at = "over" /\ call[r].answer = "success" =>
        RanOut(keyOf[r]) \/ redisKey[keyOf[r]] = "done" \/ r \in unclosed

\* Between two expiries one request at a time holds a key, and a key nobody holds is
\* locked only after a request that could not give it back.
LockedIsHeld ==
    \A k \in Keys :
        LET holders == { r \in Calls : keyOf[r] = k /\ Holding(r) }
        IN  /\ RanOut(k) \/ Cardinality(holders) <= 1
            /\ RanOut(k) \/ holders = {} \/ redisKey[k] = "locked"
            /\ redisKey[k] = "locked" => holders # {} \/ \E r \in unclosed : keyOf[r] = k

\* A request fails for want of a backend only when Consul lists no usable one, and the
\* hosts of a list take turns.
BackendsTakeTurns ==
    \A services \in ServiceLists :
        LET usable == { services[i] : i \in DOMAIN services } \ {NoHost}
        IN  UNION { nextTargetHost(services, nextBackend + i) : i \in 0 .. Len(services) - 1 } = usable

IdempotencyIsSound ==
    /\ IdemTypeOK
    /\ CarriedOutOnce
    /\ SuccessIsFinal
    /\ LockedIsHeld
    /\ BackendsTakeTurns
=============================================================================
