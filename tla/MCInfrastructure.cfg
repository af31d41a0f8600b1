SPECIFICATION MCSpec
CONSTANTS
    Members = {m1, m2}
    NoMember = NoMember
    Last = 3
    MaxRebalances = 3
    p1 = p1
    p2 = p2
    s1 = s1
    s2 = s2
    t1 = t1
    t2 = t2
    Topics = {t1, t2}
    Publishers = {p1, p2}
    Subs = {s1, s2}
    topicOf <- MCTopicOf
    Leaving = {s1}
    bufferSize = 1
    MaxPublished <- MCMaxPublished
    k = k
    r1 = r1
    r2 = r2
    r3 = r3
    h1 = h1
    h2 = h2
    Requests = {r1, r2, r3}
    limit = 1
    window = 3
    CheckTime = 1
    MaxTime = 5
    MaxFailures = 1
    Calls = {r1, r2, r3}
    Keys = {k}
    keyOf <- MCKeyOf
    Hosts = {h1, h2}
    NoHost = NoHost
    ServiceLists <- MCServiceLists
    MaxExpired = 1
    Processes = {p1, p2}
    sqlFiles <- MCSqlFiles
    cqlFiles <- MCCqlFiles
    MaxDeaths = 2
    runtimes = 3
    MaxStarts = 2
    MaxOdd = 1
INVARIANTS HandlingIsSound BusIsSound GatewayIsSound StartupIsSound
PROPERTIES MessagesAreTried OffsetNeverGoesBack BusShutsDown MigrationsComplete
CHECK_DEADLOCK FALSE
