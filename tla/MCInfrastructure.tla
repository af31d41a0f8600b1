-------------------------- MODULE MCInfrastructure --------------------------
(***************************************************************************)
(* What the modules of the application stand on.  The parts share no state  *)
(* with each other, so each is a story of its own.                          *)
(***************************************************************************)
EXTENDS KafkaConsumer, LocalBus, RateLimiter, Idempotency, Migrations, Lifecycle,
        HttpApi, TLC

CONSTANTS p1, p2, s1, s2, t1, t2,  \* publishers, subscriptions and topics of the bus
          k, r1, r2, r3, h1, h2    \* a key, requests and hosts of the gateway

VARIABLE story

\* Two handlers listen to one topic, one of which unsubscribes; nobody listens to the other.
MCTopicOf == (s1 :> t1 @@ s2 :> t1)
MCMaxPublished == (p1 :> 2 @@ p2 :> 1)

MCKeyOf == (r1 :> k @@ r2 :> k @@ r3 :> k)
MCServiceLists == { << >>, << NoHost >>, << NoHost, h1 >>, << h1, NoHost, h2 >> }

MCSqlFiles == << << "create", "change" >>, << "change" >>, << "create" >> >>
MCCqlFiles == << 2, 1 >>

MCInit ==
    /\ story \in {"consumer", "bus", "limiter", "keys", "migrations", "life", "api"}
    /\ Init /\ BusInit /\ LimiterInit /\ IdemInit /\ MigrationInit /\ LifeInit /\ ApiInit

Tells(name, A, others) == story = name /\ A /\ UNCHANGED << others, story >>

MCNext ==
    \/ Tells("consumer", Next, << busVars, limiterVars, idemVars, migrationVars, lifeVars, apiVars >>)
    \/ Tells("bus", BusNext, << vars, limiterVars, idemVars, migrationVars, lifeVars, apiVars >>)
    \/ Tells("limiter", LimiterNext, << vars, busVars, idemVars, migrationVars, lifeVars, apiVars >>)
    \/ Tells("keys", IdemNext, << vars, busVars, limiterVars, migrationVars, lifeVars, apiVars >>)
    \/ Tells("migrations", MigrationNext, << vars, busVars, limiterVars, idemVars, lifeVars, apiVars >>)
    \/ Tells("life", LifeNext, << vars, busVars, limiterVars, idemVars, migrationVars, apiVars >>)
    \/ Tells("api", ApiNext, << vars, busVars, limiterVars, idemVars, migrationVars, lifeVars >>)

\* The fairness of each part, in its story.
MCFairness ==
    /\ \A m \in Members : WF_vars(story = "consumer" /\ Work(m))
    /\ WF_vars(story = "consumer" /\ owner = NoMember /\ \E m \in Members : Rebalance(m))
    /\ \A p \in Publishers : WF_busVars(story = "bus" /\ PublisherGoesOn(p))
    /\ \A s \in Subs : /\ WF_busVars(story = "bus" /\ Receive(s))
                       /\ WF_busVars(story = "bus" /\ CloseSubscription(s))
    /\ WF_busVars(story = "bus" /\ CloseNext)
    /\ \A p \in Processes : WF_migrationVars(story = "migrations" /\ MigrationStep(p))

MCSpec ==
    /\ MCInit
    /\ [][MCNext]_<< vars, busVars, limiterVars, idemVars, migrationVars, lifeVars, apiVars, story >>
    /\ MCFairness

\* What stands between a client and the commands: the limits and the keys the gateway keeps
\* in Redis, the tokens and the forms of the API.
GatewayIsSound == LimiterIsSound /\ IdempotencyIsSound /\ ApiIsSound

\* Processes that start and stop leave the databases, Consul and each other in order.
StartupIsSound == MigrationsAreSound /\ LifecycleIsSound

\* EveryMessageIsTried, in the story of the consumer.
MessagesAreTried == story = "consumer" => EveryMessageIsTried
\* ProcessesGetReady, in the story of the migrations.
MigrationsComplete == story = "migrations" => ProcessesGetReady
=============================================================================
