----------------------------- MODULE Lifecycle -----------------------------
(***************************************************************************)
(* The life of a process once its databases are migrated: it binds its      *)
(* port, registers with Consul, starts its runtimes (consumers, projections, *)
(* the payout job) one after the other, serves, and takes it all down again *)
(* when it is told to stop or when a step fails.                            *)
(***************************************************************************)
EXTENDS Integers, FiniteSets

CONSTANTS runtimes,     \* number of module runtimes
          MaxStarts     \* bound: starts of the process

ASSUME RuntimesAssumption == runtimes \in Nat \ {0} /\ MaxStarts \in Nat

VARIABLES
    at,          \* what main does
    listening,   \* the HTTP port is bound
    registered,  \* Consul lists the process
    running,     \* the runtimes that were started and not stopped
    started,     \* the runtime startModuleRuntimes is at
    context,     \* AppContext: open, with its bus, database and caches, or closed
    request,     \* a request is in its handler
    cutShort,    \* history: Shutdown gave up on a request
    left,        \* history: a crash or a failed call left Consul's entry behind
    delisted,    \* history: Consul dropped the entry of a process that was not serving yet
    starts       \* number of starts

lifeVars == << at, listening, registered, running, started, context, request, cutShort, left, delisted, starts >>

Runtimes == 1 .. runtimes
Stages == {"down", "bind", "register", "start", "undo", "serve", "shutdown", "stop",
           "unregister", "close"}

LifeInit ==
    /\ at = "down"
    /\ listening = FALSE /\ registered = FALSE
    /\ running = {} /\ started = 0
    /\ context = "closed"
    /\ request = FALSE /\ cutShort = FALSE /\ left = FALSE /\ delisted = FALSE
    /\ starts = 0

-----------------------------------------------------------------------------

\* main, up to the migrations.
Boot ==
    /\ at = "down" /\ starts < MaxStarts
    /\ starts' = starts + 1
    /\ at' = "bind" /\ context' = "open" /\ started' = 0
    /\ cutShort' = FALSE /\ delisted' = FALSE
    /\ UNCHANGED << listening, registered, running, request, left >>

\* The port is bound, or is taken and main returns.
Bind ==
    /\ at = "bind"
    /\ \/ at' = "register" /\ listening' = TRUE
       \/ at' = "close" /\ UNCHANGED listening
    /\ UNCHANGED << registered, running, started, context, request, cutShort, left, delisted, starts >>

\* RegisterService, or main returns; the listener is closed with the process.  A call that
\* took effect may still report an error.
RegisterService ==
    /\ at = "register"
    /\ \/ at' = "start" /\ registered' = TRUE /\ left' = FALSE
       \/ at' = "close" /\ registered' \in {registered, TRUE} /\ left' = registered'
    /\ UNCHANGED << listening, running, started, context, request, cutShort, delisted, starts >>

\* Mutant: the runtime before the one that failed is not stopped.
StartSkipsOne ==
    /\ at = "start"
    /\ \/ /\ started < runtimes
          /\ started' = started + 1 /\ running' = running \cup {started + 1}
          /\ UNCHANGED at
       \/ started < runtimes /\ at' = "undo" /\ started' = started - 1 /\ UNCHANGED running
       \/ started = runtimes /\ at' = "serve" /\ UNCHANGED << started, running >>
    /\ UNCHANGED << listening, registered, context, request, cutShort, left, delisted, starts >>

\* startModuleRuntimes: the next runtime starts, or fails and leaves nothing running.
startModuleRuntimes ==
    /\ at = "start"
    /\ \/ /\ started < runtimes
          /\ started' = started + 1 /\ running' = running \cup {started + 1}
          /\ UNCHANGED at
       \/ started < runtimes /\ at' = "undo" /\ UNCHANGED << started, running >>
       \/ started = runtimes /\ at' = "serve" /\ UNCHANGED << started, running >>
    /\ UNCHANGED << listening, registered, context, request, cutShort, left, delisted, starts >>

\* stopStartedRuntimes: the runtimes that were started, the last one first.  Stop waits
\* for the loop of a consumer.
stopStartedRuntimes ==
    /\ at = "undo"
    /\ IF started > 0
       THEN started' = started - 1 /\ running' = running \ {started} /\ UNCHANGED at
       ELSE at' = "unregister" /\ UNCHANGED << started, running >>
    /\ UNCHANGED << listening, registered, context, request, cutShort, left, delisted, starts >>

\* A request reaches a handler, and returns.
Serve ==
    /\ at = "serve" /\ ~request /\ request' = TRUE
    /\ UNCHANGED << at, listening, registered, running, started, context, cutShort, left, delisted, starts >>
Respond ==
    /\ request /\ request' = FALSE
    /\ UNCHANGED << at, listening, registered, running, started, context, cutShort, left, delisted, starts >>

\* A signal, or an error of the HTTP or the gRPC server, ends the context of the group:
\* Shutdown closes the listener.
EndGroup ==
    /\ at = "serve"
    /\ at' = "shutdown" /\ listening' = FALSE
    /\ UNCHANGED << registered, running, started, context, request, cutShort, left, delisted, starts >>

\* Shutdown waits for the handlers, for five seconds.
Shutdown ==
    /\ at = "shutdown"
    /\ at' = "stop"
    /\ cutShort' = request
    /\ UNCHANGED << listening, registered, running, started, context, request, left, delisted, starts >>

\* stopModuleRuntimes: all at once, waiting for each.
stopModuleRuntimes ==
    /\ at = "stop"
    /\ \/ \E r \in running : running' = running \ {r} /\ UNCHANGED at
       \/ running = {} /\ at' = "unregister" /\ UNCHANGED running
    /\ UNCHANGED << listening, registered, started, context, request, cutShort, left, delisted, starts >>

\* The deferred UnregisterService, whose error is only logged.
UnregisterService ==
    /\ at = "unregister"
    /\ \/ registered' = FALSE /\ UNCHANGED left
       \/ left' = TRUE /\ UNCHANGED registered
    /\ at' = "close"
    /\ UNCHANGED << listening, running, started, context, request, cutShort, delisted, starts >>

\* The deferred AppContext.Close; main returns and the process ends, with what still runs
\* in it.
CloseContext ==
    /\ at = "close"
    /\ IF context = "open"
       THEN context' = "closed" /\ UNCHANGED << at, listening, running, request >>
       ELSE at' = "down" /\ listening' = FALSE /\ running' = {} /\ request' = FALSE /\ UNCHANGED context
    /\ UNCHANGED << registered, started, cutShort, left, delisted, starts >>

\* The process is killed.
Killed ==
    /\ at # "down"
    /\ at' = "down" /\ listening' = FALSE /\ running' = {} /\ request' = FALSE
    /\ context' = "closed"
    /\ left' = registered
    /\ UNCHANGED << registered, started, cutShort, delisted, starts >>

\* Consul drops an entry whose health check has failed for a minute: of a process that is
\* not there, or that has bound its port and is still starting its runtimes.  Nothing
\* registers it again.
ConsulDrops ==
    /\ registered /\ at # "serve"
    /\ registered' = FALSE /\ left' = FALSE
    /\ delisted' = (at = "start")
    /\ UNCHANGED << at, listening, running, started, context, request, cutShort, starts >>

LifeSteps ==
    \/ Bind \/ RegisterService \/ startModuleRuntimes \/ stopStartedRuntimes
    \/ Shutdown \/ stopModuleRuntimes \/ UnregisterService \/ CloseContext

LifeNext == Boot \/ LifeSteps \/ Serve \/ Respond \/ EndGroup \/ Killed \/ ConsulDrops

-----------------------------------------------------------------------------
(* Properties *)

LifeTypeOK ==
    /\ at \in Stages
    /\ listening \in BOOLEAN /\ registered \in BOOLEAN
    /\ running \subseteq Runtimes /\ started \in 0 .. runtimes
    /\ context \in {"open", "closed"} /\ starts \in 0 .. MaxStarts

\* No consumer, projection or job works on a closed database, bus or cache, and a request
\* does so only when Shutdown gave up on it.
NothingUsesAClosedContext ==
    context = "closed" => running = {} /\ (request => cutShort)

\* When the servers are up every runtime is, and when main lets go of them none is, also
\* if one of them failed to start.
RuntimesMatchTheStage ==
    /\ at \in {"serve", "shutdown"} => running = Runtimes
    /\ at \in {"bind", "register", "unregister", "close", "down"} => running = {}

\* Consul lists a process that can be reached, except while it takes itself down and
\* after a crash or a failed call; and it lists one that serves, unless it gave up on it
\* before.
ListedIsReachable ==
    /\ registered => listening \/ left \/ at \in {"shutdown", "stop", "unregister"}
    /\ at = "serve" => registered \/ delisted

LifecycleIsSound ==
    LifeTypeOK /\ NothingUsesAClosedContext /\ RuntimesMatchTheStage /\ ListedIsReachable
=============================================================================
