---------------------------- MODULE RateLimiter ----------------------------
(***************************************************************************)
(* The gateway's sliding window: a sorted set in Redis for each client      *)
(* address holds the requests of the last minute.  A request adds itself,   *)
(* drops what is too old, counts and prolongs the life of the set, each     *)
(* with a command of its own, so the commands of several requests (and of   *)
(* several gateways) interleave; any of them may fail.  Requests are kept   *)
(* apart by their nanoseconds and dated in seconds.                         *)
(***************************************************************************)
EXTENDS Integers, FiniteSets

CONSTANTS Requests,
          limit, window,
          CheckTime,     \* a request spends at most this long in Allow
          MaxTime, MaxFailures  \* bounds: the clock and the commands that fail

ASSUME WindowAssumption ==
    /\ limit \in Nat \ {0} /\ window \in Nat \ {0}
    /\ CheckTime \in 0 .. window - 1
    /\ MaxTime \in Nat \ {0} /\ MaxFailures \in Nat

VARIABLES
    clock,
    members,    \* the sorted set of one address: requests, scored by their time
    expiresAt,  \* when Redis drops the set: 0 is never
    check,      \* a request: where it is in Allow, its time and the count it got
    admitted,   \* history: requests let through because the count allowed it
    forgotten,  \* history: requests whose entry was lost while it still counted
    failures    \* number of commands that failed

limiterVars == << clock, members, expiresAt, check, admitted, forgotten, failures >>

Steps == {"new", "add", "trim", "count", "expire", "passed", "failedOpen", "rejected"}
InAllow(r) == check[r].at \in {"add", "trim", "count", "expire"}

LimiterInit ==
    /\ clock = 1
    /\ members = {} /\ expiresAt = 0
    /\ check = [r \in Requests |-> [at |-> "new", now |-> 0, count |-> 0, kept |-> FALSE]]
    /\ admitted = {} /\ forgotten = {}
    /\ failures = 0

Step(r, to) == check' = [check EXCEPT ![r].at = to]

Decision(r) == IF check[r].count <= limit THEN "passed" ELSE "rejected"

\* A Redis command fails: the error of ZAdd and of ZCard lets the request through.
Fails == failures < MaxFailures /\ failures' = failures + 1

-----------------------------------------------------------------------------

\* Allow reads the time...
Allow(r) ==
    /\ check[r].at = "new"
    /\ check' = [check EXCEPT ![r].at = "add", ![r].now = clock]
    /\ UNCHANGED << clock, members, expiresAt, admitted, forgotten, failures >>

\* ... and adds the request.
ZAdd(r) ==
    /\ check[r].at = "add"
    /\ \/ members' = members \cup {r} /\ Step(r, "trim") /\ UNCHANGED failures
       \/ Fails /\ Step(r, "failedOpen") /\ UNCHANGED members
    /\ UNCHANGED << clock, expiresAt, admitted, forgotten >>

\* Drop what is older than the window of this request.
ZRemRangeByScore(r) ==
    /\ check[r].at = "trim"
    /\ \/ /\ members' = { q \in members : check[q].now > check[r].now - window }
          /\ UNCHANGED failures
       \/ Fails /\ UNCHANGED members
    /\ expiresAt' = IF members' = {} THEN 0 ELSE expiresAt
    /\ Step(r, "count")
    /\ UNCHANGED << clock, admitted, forgotten >>

\* Count, the request itself included.
ZCard(r) ==
    /\ check[r].at = "count"
    /\ \/ check' = [check EXCEPT ![r].at = "expire", ![r].count = Cardinality(members)]
          /\ UNCHANGED failures
       \/ Fails /\ Step(r, "failedOpen")
    /\ UNCHANGED << clock, members, expiresAt, admitted, forgotten >>

\* Prolong the life of the set, if it is still there, and decide.
SetExpireTime(r) ==
    /\ check[r].at = "expire"
    /\ \/ /\ expiresAt' = IF members = {} THEN 0 ELSE clock + window
          /\ check' = [check EXCEPT ![r].kept = r \in members, ![r].at = Decision(r)]
          /\ UNCHANGED failures
       \/ /\ Fails
          /\ Step(r, Decision(r))
          /\ UNCHANGED expiresAt
    /\ admitted' = admitted \cup { q \in {r} : Decision(q) = "passed" }
    /\ UNCHANGED << clock, members, forgotten >>

\* Redis drops the set some time in the second its life ends.
SetExpires ==
    /\ expiresAt # 0 /\ clock >= expiresAt
    /\ forgotten' = forgotten \cup { q \in members : check[q].now > clock - window }
    /\ members' = {} /\ expiresAt' = 0
    /\ UNCHANGED << clock, check, admitted, failures >>

\* Time passes; the client of Redis gives up before a request is in Allow for too long.
Tick ==
    /\ clock < MaxTime
    /\ expiresAt # 0 => clock < expiresAt
    /\ \A r \in Requests : InAllow(r) => clock < check[r].now + CheckTime
    /\ clock' = clock + 1
    /\ UNCHANGED << members, expiresAt, check, admitted, forgotten, failures >>

LimiterNext ==
    \/ \E r \in Requests : Allow(r) \/ ZAdd(r) \/ ZRemRangeByScore(r) \/ ZCard(r) \/ SetExpireTime(r)
    \/ SetExpires \/ Tick

-----------------------------------------------------------------------------
(* Properties *)

LimiterTypeOK ==
    /\ clock \in 1 .. MaxTime /\ expiresAt \in 0 .. MaxTime + window
    /\ members \subseteq Requests /\ admitted \subseteq Requests /\ forgotten \subseteq Requests
    /\ \A r \in Requests : check[r].at \in Steps /\ check[r].now \in 0 .. MaxTime
    /\ failures \in 0 .. MaxFailures

\* However the commands interleave, no more than limit requests of a window are let
\* through.  The window is shorter by the time a check may take: a request that counts
\* late misses what a later one has already dropped.  Not counted are requests the limiter
\* let through because Redis failed and those whose entry was lost.
NeverOverLimit ==
    \A r \in Requests :
        LET recent == { q \in admitted \ forgotten :
                          check[q].now \in check[r].now - (window - CheckTime) + 1 .. check[r].now }
        IN  Cardinality(recent) <= limit

\* An entry is lost with the set only before its request has prolonged the life of the
\* set, which happens after it was added: ZADD alone does not keep a set alive.
OnlyTheUnkeptAreForgotten == \A r \in forgotten : ~check[r].kept

LimiterIsSound == LimiterTypeOK /\ NeverOverLimit /\ OnlyTheUnkeptAreForgotten
=============================================================================
