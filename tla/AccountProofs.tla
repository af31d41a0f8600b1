---------------------------- MODULE AccountProofs ----------------------------
(***************************************************************************)
(* Proofs about Account and Sessions, for every number of requests handled  *)
(* at the same time, of passwords, devices, sessions and tokens.            *)
(***************************************************************************)
EXTENDS Sessions, FiniteSetTheorems, TLAPS

-----------------------------------------------------------------------------
(* The inductive invariant: the account *)

\* Once an event has verified the address the account is verified, so that no other
\* event can be made that does.
LogInv ==
    /\ log \in Seq(Accounts) /\ Version <= MaxVersion
    /\ \A v \in 1 .. Version : log[v].kind = "verified" => Row.verified
    /\ \A u, v \in 1 .. Version : log[u].kind = "verified" /\ log[v].kind = "verified" => u = v
    /\ NothingIsUndone

RangeInv ==
    /\ cache \in 0 .. Version /\ index \in 0 .. Version /\ done \in 0 .. Version
    /\ reading \in 0 .. Version /\ fetched \in 0 .. Version
    /\ sent \in 0 .. MaxLinks /\ links \subseteq 1 .. sent
    /\ blurred \in BOOLEAN /\ lagging \in BOOLEAN
    /\ sent > 0 => Version > 0

Fields == {"op", "pc", "arg", "base", "read"}

JobShape ==
    DOMAIN job = Workers /\ \A w \in Workers : DOMAIN job[w] = Fields

\* What a command has checked about the version it was loaded from stays true of it.
JobInv(w) ==
    /\ job[w].op \in Ops \cup {"none"}
    /\ job[w].base \in 0 .. Version
    /\ job[w].pc \in {"idle", "loaded", "mailed", "got", "listed", "hook"}
    /\ job[w].op = "none" => job[w].pc = "idle"
    /\ job[w].op \in {"refresh", "logout", "logout_all"} => job[w].pc = "loaded"
    /\ job[w].pc = "listed" => job[w].op = "password"
    /\ IsAt(w, "profile", "loaded") => job[w].base > 0 /\ job[w].arg \in Profiles
    /\ job[w].op = "password" /\ job[w].pc # "hook" => job[w].base > 0 /\ job[w].arg \in Passwords
    /\ job[w].op = "verify" /\ job[w].pc # "hook" => job[w].base > 0
    /\ IsAt(w, "confirm", "got") => Version > 0
    /\ IsAt(w, "confirm", "loaded") => job[w].base > 0 /\ ~log[job[w].base].verified
    /\ job[w].op \in {"login", "google"} /\ job[w].pc # "hook" => job[w].arg \in DeviceUIDs

Listed(w) == job[w].pc = "listed"

\* The row is locked from the save of a new password to its commit.
LockInv ==
    \A w \in Workers : Listed(w) =>
        /\ job[w].base = Version /\ Version < MaxVersion
        /\ \A x \in Workers : Listed(x) => x = w

\* What the projector has fetched is as new as the event it is at, and what is between the
\* indexed version and the last event it is through with changed nothing that is shown.
ProjectorInv ==
    /\ fetched # 0 => done < Version /\ (~lagging => done < fetched)
    /\ fetched = 0 /\ index # 0 /\ ~lagging /\ index <= done => Searchable(index) = Searchable(done)

AccountPart ==
    /\ JobShape
    /\ LogInv
    /\ RangeInv
    /\ \A w \in Workers : JobInv(w)
    /\ LockInv
    /\ CacheIsExplained
    /\ ProjectorInv

-----------------------------------------------------------------------------
(* The inductive invariant: the sessions *)

RowsInv ==
    /\ devices \subseteq DeviceUIDs
    /\ sessions \in Seq(Rows) /\ Len(sessions) <= MaxSessions
    /\ issued \in Seq(SessionIds) /\ Len(issued) <= MaxTokens
    /\ used \subseteq 1 .. Len(issued)
    /\ late \subseteq Workers
    /\ raced \subseteq SessionIds

\* A refresh or a logout has read the row of its token, which was not revoked; a logout
\* from everywhere or a new password the rows there were.
ReadInv(w) ==
    /\ job[w].op \in {"refresh", "logout"} =>
          /\ job[w].arg \in 1 .. Len(issued) /\ DOMAIN job[w].read = {issued[job[w].arg]}
          /\ job[w].read[issued[job[w].arg]] \in Rows
          /\ job[w].read[issued[job[w].arg]].status = "active"
    /\ job[w].op = "logout_all" \/ Listed(w) =>
          DOMAIN job[w].read \subseteq SessionIds /\ \A s \in DOMAIN job[w].read : job[w].read[s] \in Rows

\* Nobody has written the row of a refresh that is not late.
FreshInv(w) ==
    job[w].op = "refresh" /\ w \notin late =>
        /\ sessions[issued[job[w].arg]].status = "active"
        /\ sessions[issued[job[w].arg]].epoch = job[w].read[issued[job[w].arg]].epoch

\* A session that was read as revoked is, or a late refresh has made it active again.
ListedInv(w) ==
    Listed(w) => \A s \in DOMAIN job[w].read :
        job[w].read[s].status = "revoked" => sessions[s].status = "revoked" \/ s \in raced

\* No session takes a token that was used: a row written back from before its use is revoked.
TokenInv ==
    \A t \in used : sessions[issued[t]].hash = t => sessions[issued[t]].status = "revoked"

SessionPart ==
    /\ RowsInv
    /\ \A w \in Workers : ReadInv(w)
    /\ \A w \in Workers : FreshInv(w)
    /\ \A w \in Workers : ListedInv(w)
    /\ TokenInv
    /\ TokensAreSingleUse
    /\ ActiveIsEarned

Inv == AccountPart /\ SessionPart

-----------------------------------------------------------------------------
(* The log *)

\* Events are only appended.
Grown ==
    /\ Len(log') >= Version
    /\ \A v \in 1 .. Version : log'[v] = log[v]

LEMMA LogTypes ==
    ASSUME LogInv
    PROVE  /\ log \in Seq(Accounts) /\ Version \in Nat
           /\ \A v \in 1 .. Version : log[v] \in Accounts
           /\ Version > 0 => Row \in Accounts
  BY DEF LogInv, Version, Row

LEMMA LogKept ==
    ASSUME UNCHANGED log, LogInv
    PROVE  LogInv' /\ Grown /\ Version' = Version /\ Epoch(Version)' = Epoch(Version)
  BY DEF LogInv, Version, Row, NothingIsUndone, Grown, Epoch

\* The event that follows the last one changes only what it is about, and verifies an
\* account only if it was not.
Follows(e) ==
    /\ e \in Accounts
    /\ e.kind # "password" => e.password = Row.password
    /\ e.kind # "profile" => e.profile = Row.profile
    /\ e.kind # "verified" => e.verified = Row.verified
    /\ e.kind = "verified" => e.verified /\ ~Row.verified

LEMMA OneMore ==
    ASSUME NEW e, log \in Seq(Accounts), e \in Accounts, log' = log \o << e >>
    PROVE  /\ log' \in Seq(Accounts) /\ Len(log') = Len(log) + 1 /\ log'[Len(log) + 1] = e
           /\ \A v \in 1 .. Len(log) : log'[v] = log[v]
  OBVIOUS

LEMMA EventFollows ==
    ASSUME NEW e, LogInv, Version > 0, Version < MaxVersion, Follows(e), log' = log \o << e >>
    PROVE  LogInv' /\ Grown /\ Version' = Version + 1
  <1>1. /\ log' \in Seq(Accounts) /\ Len(log') = Len(log) + 1 /\ log'[Len(log) + 1] = e
        /\ \A v \in 1 .. Len(log) : log'[v] = log[v]
    BY OneMore DEF LogInv, Follows
  <1>2. Version \in Nat /\ Version' = Version + 1 /\ Row' = e /\ Version = Len(log) /\ Row = log[Version]
    BY <1>1, LogTypes DEF Version, Row
  <1>3. Grown
    BY <1>1, <1>2 DEF Grown
  <1>4. Version' <= MaxVersion
    BY <1>2, BoundsAssumption
  <1>5. ASSUME NEW v \in 1 .. Version', log'[v].kind = "verified" PROVE e.verified
    <2>1. CASE v = Version + 1
      BY <1>1, <1>2, <1>5, <2>1 DEF Follows
    <2>2. CASE v \in 1 .. Version
      <3>1. Row.verified
        BY <1>1, <1>2, <1>5, <2>2 DEF LogInv
      <3> QED BY <3>1 DEF Follows
    <2> QED BY <1>2, <2>1, <2>2
  <1>6. ASSUME NEW u \in 1 .. Version', NEW v \in 1 .. Version',
               log'[u].kind = "verified", log'[v].kind = "verified"
        PROVE  u = v
    <2>1. e.kind = "verified" => \A x \in 1 .. Version : log[x].kind # "verified"
      BY DEF LogInv, Follows
    <2> QED BY <1>1, <1>2, <1>6, <2>1 DEF LogInv
  <1>7. ASSUME NEW v \in 2 .. Version'
        PROVE  /\ log'[v].kind # "password" => log'[v].password = log'[v - 1].password
               /\ log'[v].kind # "profile" => log'[v].profile = log'[v - 1].profile
               /\ log'[v].kind # "verified" => log'[v].verified = log'[v - 1].verified
    <2>1. CASE v = Version + 1
      <3>1. log'[v] = e /\ log'[v - 1] = Row
        BY <1>1, <1>2, <2>1
      <3> QED BY <3>1 DEF Follows
    <2>2. CASE v \in 2 .. Version
      <3>1. log'[v] = log[v] /\ log'[v - 1] = log[v - 1]
        BY <1>1, <1>2, <2>2
      <3> QED BY <2>2, <3>1 DEF LogInv, NothingIsUndone
    <2> QED BY <1>2, <2>1, <2>2
  <1>8. NothingIsUndone'
    BY <1>7 DEF NothingIsUndone
  <1> QED BY <1>1, <1>2, <1>3, <1>4, <1>5, <1>6, <1>8 DEF LogInv

\* An account is opened by one event, or by the three of a Google account.
LEMMA FirstEvents ==
    ASSUME NEW p \in Passwords \cup {NoPassword}, NEW n \in Profiles, LogInv, Version = 0,
           \/ log' = log \o Register(p, n) /\ 1 <= MaxVersion
           \/ log' = log \o OpenRegister(n) /\ 3 <= MaxVersion
    PROVE  LogInv' /\ Grown /\ Version' > 0 /\ \A v \in 1 .. Version' : log'[v].kind # "password"
  <1>1. log = << >> /\ log \in Seq(Accounts)
    BY DEF LogInv, Version
  <1> DEFINE a == applyAccountCreated(p, n)
             g == applyAccountCreated(NoPassword, n)
             b == applyAccountProfileUpdated(g, n)
             c == applyAccountEmailVerified(b)
  <1>2. a \in Accounts /\ a.kind = "created" /\ a.verified = FALSE
    BY DEF applyAccountCreated, Accounts, Kinds
  <1>3. g \in Accounts /\ g.kind = "created" /\ g.verified = FALSE /\ g.profile = n
    BY DEF applyAccountCreated, Accounts, Kinds
  <1>4. b \in Accounts /\ b.kind = "profile" /\ b.verified = FALSE /\ b.profile = n /\ b.password = g.password
    BY <1>3 DEF applyAccountProfileUpdated, Accounts, Kinds
  <1>5. c \in Accounts /\ c.kind = "verified" /\ c.verified = TRUE /\ c.profile = n /\ c.password = b.password
    BY <1>4 DEF applyAccountEmailVerified, Accounts, Kinds
  <1>6. Grown
    BY <1>1 DEF Grown, Version
  <1> HIDE DEF a, g, b, c
  <1>7. CASE log' = log \o << a >> /\ 1 <= MaxVersion
    <2>1. /\ log' \in Seq(Accounts) /\ Len(log') = 1 /\ log'[1] = a
      BY <1>1, <1>2, <1>7
    <2> QED BY <1>2, <1>6, <1>7, <2>1 DEF LogInv, Version, Row, NothingIsUndone
  <1>8. CASE log' = log \o << g, b, c >> /\ 3 <= MaxVersion
    <2>1. /\ log' \in Seq(Accounts) /\ Len(log') = 3 /\ log'[1] = g /\ log'[2] = b /\ log'[3] = c
      BY <1>1, <1>3, <1>4, <1>5, <1>8
    <2>2. Version' = 3 /\ Row' = c /\ \A v \in 1 .. 3 : v = 1 \/ v = 2 \/ v = 3
      BY <2>1 DEF Version, Row
    <2>3. NothingIsUndone'
      <3>1. \A v \in 2 .. 3 : (v = 2 /\ v - 1 = 1) \/ (v = 3 /\ v - 1 = 2)
        OBVIOUS
      <3> QED BY <1>3, <1>4, <1>5, <2>1, <2>2, <3>1 DEF NothingIsUndone
    <2>4. \A v \in 1 .. 3 : (log'[v].kind = "verified" => v = 3) /\ log'[v].kind # "password"
      BY <1>3, <1>4, <1>5, <2>1, <2>2
    <2> QED BY <1>5, <1>6, <1>8, <2>1, <2>2, <2>3, <2>4 DEF LogInv
  <1> QED BY <1>7, <1>8 DEF Register, OpenRegister, a, g, b, c

\* The events but a new password leave the epoch alone.
LEMMA EpochKept ==
    ASSUME LogInv, Grown, Version' \in Nat,
           \A v \in Version + 1 .. Version' : log'[v].kind # "password"
    PROVE  Epoch(Version)' = Epoch(Version)
  <1>1. Version \in Nat /\ Version' = Len(log') /\ Version = Len(log)
    BY LogTypes DEF Version
  <1>2. { i \in 1 .. Version' : log'[i].kind = "password" } = { i \in 1 .. Version : log[i].kind = "password" }
    BY <1>1 DEF Grown
  <1> QED BY <1>2 DEF Epoch

LEMMA EpochIsNat ==
    ASSUME NEW v \in Nat
    PROVE  Epoch(v) \in Nat
  <1>1. IsFiniteSet(1 .. v)
    BY FS_Interval
  <1>2. IsFiniteSet({ i \in 1 .. v : log[i].kind = "password" })
    BY <1>1, FS_Subset
  <1> QED BY <1>2, FS_CardinalityType DEF Epoch

-----------------------------------------------------------------------------
(* What a step leaves alone *)

LEMMA WorkFacts ==
    ASSUME JobShape, NEW w \in Workers, NEW j, Work(w, j), DOMAIN j = Fields
    PROVE  job'[w] = j /\ (\A x \in Workers \ {w} : job'[x] = job[x]) /\ JobShape'
  BY DEF JobShape, Work, Fields

LEMMA IdleFacts ==
    /\ DOMAIN Idle = Fields /\ Idle.op = "none" /\ Idle.pc = "idle" /\ Idle.base = 0
  BY DEF Idle, Fields

\* The other commands, and the lock, when w does something else.
LEMMA OtherJobs ==
    ASSUME AccountPart, NEW w \in Workers, Grown, Version' \in Nat,
           \A x \in Workers \ {w} : job'[x] = job[x], JobInv(w)', job'[w].pc # "listed",
           Version' = Version \/ \A x \in Workers \ {w} : job[x].pc # "listed"
    PROVE  (\A x \in Workers : JobInv(x)') /\ LockInv'
  <1>1. Version \in Nat
    BY LogTypes DEF AccountPart
  <1>2. ASSUME NEW x \in Workers \ {w} PROVE JobInv(x)'
    <2>1. JobInv(x) /\ job'[x] = job[x]
      BY DEF AccountPart
    <2>2. job[x].base \in 0 .. Version' /\ (job[x].base > 0 => log'[job[x].base] = log[job[x].base])
      BY <1>1, <2>1 DEF JobInv, Grown, Version
    <2>3. Version > 0 => Version' > 0
      BY <1>1 DEF Grown, Version
    <2> QED BY <2>1, <2>2, <2>3 DEF JobInv, IsAt
  <1>3. LockInv'
    BY DEF LockInv, Listed, AccountPart
  <1> QED BY <1>2, <1>3

\* A step that reads the account, or works on what is not the account.
LEMMA AccountQuiet ==
    ASSUME AccountPart, UNCHANGED << log, cache, projection, blurred >>, RangeInv', JobShape',
           \A x \in Workers : JobInv(x)', LockInv',
           \A x \in Workers : job[x].pc = "hook" => job'[x] = job[x]
    PROVE  AccountPart'
  <1>1. LogInv' /\ Version' = Version
    BY LogKept DEF AccountPart
  <1>2. CacheIsExplained'
    BY <1>1 DEF AccountPart, CacheIsExplained
  <1>3. ProjectorInv'
    BY <1>1 DEF AccountPart, ProjectorInv, Searchable, projection
  <1> QED BY <1>1, <1>2, <1>3 DEF AccountPart

\* A command that has committed and has its hook to run.
LEMMA AccountSaved ==
    ASSUME AccountPart, NEW w \in Workers, Grown, LogInv', Version' > 0,
           \A x \in Workers \ {w} : job[x].pc # "listed",
           UNCHANGED << cache, links, sent, projection, blurred >>, JobShape',
           \A x \in Workers \ {w} : job'[x] = job[x],
           job'[w].op \in Ops \ {"refresh", "logout", "logout_all"},
           job'[w].pc = "hook", job'[w].base = Version'
    PROVE  AccountPart'
  <1>1. Version \in Nat /\ Version' \in Nat /\ Version <= Version'
    <2>1. Version \in Nat
      BY LogTypes DEF AccountPart
    <2>2. Version' \in Nat
      BY DEF LogInv, Version
    <2> QED BY <2>1, <2>2 DEF Grown, Version
  <1>2. JobInv(w)'
    BY <1>1 DEF JobInv, IsAt, Ops
  <1>3. (\A x \in Workers : JobInv(x)') /\ LockInv'
    BY <1>1, <1>2, OtherJobs
  <1>4. RangeInv'
    BY <1>1 DEF AccountPart, RangeInv, projection
  <1>5. CacheIsExplained'
    BY DEF CacheIsExplained
  <1>6. ProjectorInv'
    <2>1. RangeInv /\ ProjectorInv
      BY DEF AccountPart
    <2>2. fetched # 0 => done < Version'
      BY <1>1, <2>1 DEF RangeInv, ProjectorInv
    <2>3. index # 0 /\ index <= done => log'[index] = log[index] /\ log'[done] = log[done]
      BY <1>1, <2>1 DEF RangeInv, Grown, Version
    <2> QED BY <2>1, <2>2, <2>3 DEF ProjectorInv, Searchable, projection
  <1> QED BY <1>3, <1>4, <1>5, <1>6 DEF AccountPart

\* A step that has nothing to do with sessions.
LEMMA SessionsQuiet ==
    ASSUME Inv, UNCHANGED sessionVars, Epoch(Version)' = Epoch(Version),
           \A x \in Workers : \/ job'[x] = job[x]
                              \/ /\ job'[x].op \notin {"refresh", "logout", "logout_all"}
                                 /\ job'[x].pc # "listed"
    PROVE  SessionPart'
  <1> USE DEF sessionVars
  <1>1. RowsInv' /\ TokenInv'
    BY DEF Inv, SessionPart, RowsInv, TokenInv, SessionIds
  <1>2. ASSUME NEW x \in Workers PROVE ReadInv(x)' /\ FreshInv(x)' /\ ListedInv(x)'
    <2>1. ReadInv(x) /\ FreshInv(x) /\ ListedInv(x)
      BY DEF Inv, SessionPart
    <2> QED BY <2>1 DEF ReadInv, FreshInv, ListedInv, Listed, SessionIds
  <1>3. TokensAreSingleUse'
    BY DEF Inv, SessionPart, TokensAreSingleUse
  <1>4. ActiveIsEarned'
    BY DEF Inv, SessionPart, ActiveIsEarned, SessionIds
  <1> QED BY <1>1, <1>2, <1>3, <1>4 DEF SessionPart

-----------------------------------------------------------------------------
(* Profile and e-mail *)

LEMMA LoadFacts ==
    ASSUME JobShape, NEW w \in Workers, NEW op, NEW arg, NEW ph, Load(w, op, arg, ph)
    PROVE  /\ job'[w].op = op /\ job'[w].pc = ph /\ job'[w].arg = arg /\ job'[w].base = Version
           /\ \A x \in Workers \ {w} : job'[x] = job[x]
           /\ JobShape'
  <1> DEFINE j == [op |-> op, pc |-> ph, arg |-> arg, base |-> Version, read |-> << >>]
  <1>1. Work(w, j) /\ DOMAIN j = Fields
    BY DEF Load, Fields
  <1>2. job'[w] = j /\ (\A x \in Workers \ {w} : job'[x] = job[x]) /\ JobShape'
    BY <1>1, WorkFacts
  <1> QED BY <1>2

\* A command that is at its beginning, or gives up.
LEMMA JobStep ==
    ASSUME Inv, NEW w \in Workers, UNCHANGED << log, cache, projection, blurred, sessionVars >>,
           RangeInv', JobShape', \A x \in Workers \ {w} : job'[x] = job[x], JobInv(w)',
           job'[w].op \notin {"refresh", "logout", "logout_all"}, job'[w].pc # "listed",
           job[w].pc # "hook"
    PROVE  Inv'
  <1>1. /\ LogInv' /\ Grown /\ Version' = Version /\ Epoch(Version)' = Epoch(Version)
        /\ Version \in Nat
    BY LogKept, LogTypes DEF Inv, AccountPart
  <1>2. (\A x \in Workers : JobInv(x)') /\ LockInv'
    BY <1>1, OtherJobs DEF Inv
  <1>3. AccountPart'
    BY <1>2, AccountQuiet DEF Inv
  <1>4. SessionPart'
    BY <1>1, SessionsQuiet
  <1> QED BY <1>3, <1>4 DEF Inv

LEMMA RangeKept ==
    ASSUME RangeInv, UNCHANGED << log, cache, projection, blurred, links, sent >>
    PROVE  RangeInv'
  BY DEF RangeInv, projection, Version

LEMMA LoadForProfileInv ==
    ASSUME Inv, NEW w \in Workers, NEW n \in Profiles, LoadForProfile(w, n), UNCHANGED sessionVars
    PROVE  Inv'
  <1>1. /\ job[w] = Idle /\ Version > 0 /\ Load(w, "profile", n, "loaded")
        /\ UNCHANGED << log, cache, links, sent, projection, blurred >>
    BY DEF LoadForProfile, IsIdle
  <1>2. /\ job'[w].op = "profile" /\ job'[w].pc = "loaded" /\ job'[w].arg = n /\ job'[w].base = Version
        /\ \A x \in Workers \ {w} : job'[x] = job[x]
        /\ JobShape'
    BY <1>1, LoadFacts DEF Inv, AccountPart
  <1>3. RangeInv' /\ Version' = Version /\ Version \in Nat
    BY <1>1, RangeKept, LogTypes DEF Inv, AccountPart, Version
  <1>4. JobInv(w)'
    BY <1>1, <1>2, <1>3 DEF JobInv, IsAt, Ops
  <1> QED BY <1>1, <1>2, <1>3, <1>4, IdleFacts, JobStep

LEMMA LoadForVerifyInv ==
    ASSUME Inv, NEW w \in Workers, LoadForVerify(w), UNCHANGED sessionVars
    PROVE  Inv'
  <1>1. /\ job[w] = Idle /\ Version > 0 /\ Load(w, "verify", 0, "loaded")
        /\ UNCHANGED << log, cache, links, sent, projection, blurred >>
    BY DEF LoadForVerify, IsIdle
  <1>2. /\ job'[w].op = "verify" /\ job'[w].pc = "loaded" /\ job'[w].base = Version
        /\ \A x \in Workers \ {w} : job'[x] = job[x]
        /\ JobShape'
    BY <1>1, LoadFacts DEF Inv, AccountPart
  <1>3. RangeInv' /\ Version' = Version /\ Version \in Nat
    BY <1>1, RangeKept, LogTypes DEF Inv, AccountPart, Version
  <1>4. JobInv(w)'
    BY <1>1, <1>2, <1>3 DEF JobInv, IsAt, Ops
  <1> QED BY <1>1, <1>2, <1>3, <1>4, IdleFacts, JobStep

LEMMA SendVerificationEmailInv ==
    ASSUME Inv, NEW w \in Workers, SendVerificationEmail(w), UNCHANGED sessionVars
    PROVE  Inv'
  <1>1. /\ job[w].op = "verify" /\ job[w].pc = "loaded" /\ job[w].base > 0 /\ JobInv(w)
        /\ UNCHANGED << log, cache, projection, blurred >>
    BY DEF SendVerificationEmail, IsAt, Inv, AccountPart, JobInv
  <1>2. /\ job'[w] = [job[w] EXCEPT !.pc = "mailed"]
        /\ \A x \in Workers \ {w} : job'[x] = job[x]
        /\ DOMAIN job' = DOMAIN job
    BY DEF SendVerificationEmail, Inv, AccountPart, JobShape
  <1>3. /\ job'[w].op = "verify" /\ job'[w].pc = "mailed" /\ job'[w].base = job[w].base
        /\ JobShape'
    BY <1>1, <1>2 DEF Inv, AccountPart, JobShape, Fields
  <1>4. Version' = Version /\ Version \in Nat /\ job[w].base \in 0 .. Version
    BY <1>1, LogTypes DEF Inv, AccountPart, Version, JobInv
  <1>5. RangeInv'
    <2>1. sent' = sent + 1 /\ sent < MaxLinks /\ links' = links \cup {sent + 1}
      BY DEF SendVerificationEmail
    <2>2. sent \in 0 .. MaxLinks /\ links \subseteq 1 .. sent
      BY DEF Inv, AccountPart, RangeInv
    <2>3. sent' \in 0 .. MaxLinks /\ links' \subseteq 1 .. sent'
      BY <2>1, <2>2, BoundsAssumption
    <2> QED BY <1>1, <1>4, <2>3 DEF Inv, AccountPart, RangeInv, projection
  <1>6. JobInv(w)'
    BY <1>1, <1>3, <1>4 DEF JobInv, IsAt, Ops
  <1> QED BY <1>1, <1>2, <1>3, <1>5, <1>6, JobStep

LEMMA GetVerificationTokenInv ==
    ASSUME Inv, NEW w \in Workers, NEW l \in links, GetVerificationToken(w, l), UNCHANGED sessionVars
    PROVE  Inv'
  <1> DEFINE j == [Idle EXCEPT !.op = "confirm", !.pc = "got", !.arg = l]
  <1>1. /\ job[w] = Idle /\ Work(w, j)
        /\ UNCHANGED << log, cache, links, sent, projection, blurred >>
    BY DEF GetVerificationToken, IsIdle
  <1>2. DOMAIN j = Fields /\ j.op = "confirm" /\ j.pc = "got" /\ j.base = 0
    BY DEF Idle, Fields
  <1> HIDE DEF j
  <1>3. job'[w] = j /\ (\A x \in Workers \ {w} : job'[x] = job[x]) /\ JobShape'
    BY <1>1, <1>2, WorkFacts DEF Inv, AccountPart
  <1>4. RangeInv' /\ Version' = Version /\ Version \in Nat
    BY <1>1, RangeKept, LogTypes DEF Inv, AccountPart, Version
  <1>5. Version > 0
    BY DEF Inv, AccountPart, RangeInv
  <1>6. JobInv(w)'
    BY <1>2, <1>3, <1>4, <1>5 DEF JobInv, IsAt, Ops
  <1> QED BY <1>1, <1>2, <1>3, <1>4, <1>6, IdleFacts, JobStep

LEMMA ConsumeVerificationTokenInv ==
    ASSUME Inv, NEW w \in Workers, ConsumeVerificationToken(w), UNCHANGED sessionVars
    PROVE  Inv'
  <1>1. /\ job[w].op = "confirm" /\ job[w].pc = "got" /\ Version > 0
        /\ UNCHANGED << log, cache, sent, projection, blurred >>
        /\ links' \subseteq links
    BY DEF ConsumeVerificationToken, IsAt, Inv, AccountPart, JobInv
  <1>2. Version' = Version /\ Version \in Nat /\ Row' = Row
    BY <1>1, LogTypes DEF Inv, AccountPart, Version, Row
  <1>3. RangeInv'
    BY <1>1, <1>2 DEF Inv, AccountPart, RangeInv, projection
  <1>4. CASE EnsureEmailVerificationAllowed /\ Load(w, "confirm", job[w].arg, "loaded")
    <2>1. /\ job'[w].op = "confirm" /\ job'[w].pc = "loaded" /\ job'[w].base = Version
          /\ \A x \in Workers \ {w} : job'[x] = job[x]
          /\ JobShape'
      BY <1>4, LoadFacts DEF Inv, AccountPart
    <2>2. ~log[Version].verified
      BY <1>4 DEF EnsureEmailVerificationAllowed, Row
    <2>3. JobInv(w)'
      BY <1>1, <1>2, <2>1, <2>2 DEF JobInv, IsAt, Ops
    <2> QED BY <1>1, <1>3, <2>1, <2>3, JobStep
  <1>5. CASE Work(w, Idle)
    <2>1. job'[w] = Idle /\ (\A x \in Workers \ {w} : job'[x] = job[x]) /\ JobShape'
      BY <1>5, IdleFacts, WorkFacts DEF Inv, AccountPart
    <2>2. JobInv(w)'
      BY <1>2, <2>1, IdleFacts DEF JobInv, IsAt, Ops
    <2> QED BY <1>1, <1>3, <2>1, <2>2, IdleFacts, JobStep
  <1> QED BY <1>4, <1>5 DEF ConsumeVerificationToken

LEMMA FailInv ==
    ASSUME Inv, NEW w \in Workers, Fail(w), UNCHANGED sessionVars
    PROVE  Inv'
  <1>1. job[w].pc # "hook" /\ Work(w, Idle) /\ UNCHANGED << log, cache, links, sent, projection, blurred >>
    BY DEF Fail
  <1>2. job'[w] = Idle /\ (\A x \in Workers \ {w} : job'[x] = job[x]) /\ JobShape'
    BY <1>1, IdleFacts, WorkFacts DEF Inv, AccountPart
  <1>3. RangeInv' /\ Version' = Version /\ Version \in Nat
    BY <1>1, RangeKept, LogTypes DEF Inv, AccountPart, Version
  <1>4. JobInv(w)'
    BY <1>2, <1>3, IdleFacts DEF JobInv, IsAt, Ops
  <1> QED BY <1>1, <1>2, <1>3, <1>4, IdleFacts, JobStep

LEMMA HookFacts ==
    ASSUME JobShape, NEW w \in Workers, HookPending(w)
    PROVE  /\ job'[w].op = job[w].op /\ job'[w].pc = "hook" /\ job'[w].base = Version'
           /\ \A x \in Workers \ {w} : job'[x] = job[x]
           /\ JobShape'
  <1> DEFINE j == [Idle EXCEPT !.op = job[w].op, !.pc = "hook", !.base = Len(log')]
  <1>1. Work(w, j) /\ DOMAIN j = Fields /\ j.op = job[w].op /\ j.pc = "hook" /\ j.base = Version'
    BY DEF HookPending, Idle, Fields, Version
  <1> HIDE DEF j
  <1>2. job'[w] = j /\ (\A x \in Workers \ {w} : job'[x] = job[x]) /\ JobShape'
    BY <1>1, WorkFacts
  <1> QED BY <1>1, <1>2

LEMMA NotLocked ==
    ASSUME AccountPart, NEW w \in Workers, ~RowIsLocked(w)
    PROVE  \A x \in Workers \ {w} : job[x].pc # "listed"
  BY DEF AccountPart, RowIsLocked, IsAt, JobInv

\* A save of one event made from the version that is still the last.
LEMMA SaveOneInv ==
    ASSUME Inv, NEW w \in Workers, NEW e, Version > 0, Follows(e), e.kind # "password",
           Save(w, << e >>), HookPending(w), job[w].op \in Ops \ {"refresh", "logout", "logout_all"},
           UNCHANGED << cache, links, sent, projection, blurred, sessionVars >>
    PROVE  Inv'
  <1>1. Version \in Nat /\ Version < MaxVersion
    BY LogTypes, BoundsAssumption DEF Save, Inv, AccountPart
  <1>2. log' = log \o << e >>
    BY DEF Save
  <1>3. LogInv' /\ Grown /\ Version' = Version + 1
    BY <1>1, <1>2, EventFollows DEF Inv, AccountPart
  <1>4. \A x \in Workers \ {w} : job[x].pc # "listed"
    BY NotLocked DEF Inv, Save
  <1>5. /\ job'[w].op = job[w].op /\ job'[w].pc = "hook" /\ job'[w].base = Version'
        /\ \A x \in Workers \ {w} : job'[x] = job[x]
        /\ JobShape'
    BY HookFacts DEF Inv, AccountPart
  <1>6. AccountPart'
    BY <1>1, <1>3, <1>4, <1>5, AccountSaved DEF Inv
  <1>7. Epoch(Version)' = Epoch(Version)
    <2>1. log'[Version + 1] = e /\ Version' \in Nat
      BY <1>1, <1>2, <1>3, OneMore DEF Inv, AccountPart, LogInv, Follows, Version
    <2>2. \A v \in Version + 1 .. Version' : log'[v].kind # "password"
      BY <1>1, <1>3, <2>1
    <2> QED BY <1>3, <2>1, <2>2, EpochKept DEF Inv, AccountPart
  <1>8. SessionPart'
    BY <1>5, <1>7, SessionsQuiet
  <1> QED BY <1>6, <1>8 DEF Inv

LEMMA SaveProfileInv ==
    ASSUME Inv, NEW w \in Workers, SaveProfile(w), UNCHANGED sessionVars
    PROVE  Inv'
  <1>1. /\ job[w].op = "profile" /\ job[w].pc = "loaded" /\ job[w].arg \in Profiles /\ job[w].base > 0
        /\ Version = job[w].base /\ log[job[w].base] = Row
        /\ Save(w, UpdateProfile(Row, job[w].arg)) /\ HookPending(w)
        /\ UNCHANGED << cache, links, sent, projection, blurred >>
    BY DEF SaveProfile, IsAt, Save, Inv, AccountPart, JobInv, Row
  <1>2. Row \in Accounts /\ Version \in Nat
    BY <1>1, LogTypes DEF Inv, AccountPart
  <1>3. CASE Row.profile = job[w].arg
    <2>1. Save(w, << >>)
      BY <1>1, <1>3 DEF UpdateProfile
    <2>2. log' = log
      BY <2>1, LogTypes DEF Save, Inv, AccountPart
    <2>3. /\ LogInv' /\ Grown /\ Version' = Version /\ Epoch(Version)' = Epoch(Version)
      BY <2>2, LogKept DEF Inv, AccountPart
    <2>4. \A x \in Workers \ {w} : job[x].pc # "listed"
      BY <2>1, NotLocked DEF Inv, Save
    <2>5. /\ job'[w].op = job[w].op /\ job'[w].pc = "hook" /\ job'[w].base = Version'
          /\ \A x \in Workers \ {w} : job'[x] = job[x]
          /\ JobShape'
      BY <1>1, HookFacts DEF Inv, AccountPart
    <2>6. AccountPart'
      BY <1>1, <1>2, <2>3, <2>4, <2>5, AccountSaved DEF Inv, Ops
    <2>7. SessionPart'
      BY <1>1, <2>3, <2>5, SessionsQuiet
    <2> QED BY <2>6, <2>7 DEF Inv
  <1>4. CASE Row.profile # job[w].arg
    <2> DEFINE e == applyAccountProfileUpdated(Row, job[w].arg)
    <2>1. Save(w, << e >>)
      BY <1>1, <1>4 DEF UpdateProfile
    <2>2. Follows(e) /\ e.kind # "password"
      BY <1>1, <1>2 DEF Follows, applyAccountProfileUpdated, Accounts, Kinds
    <2> QED BY <1>1, <2>1, <2>2, SaveOneInv DEF Ops
  <1> QED BY <1>3, <1>4

LEMMA RequestEmailVerificationInv ==
    ASSUME Inv, NEW w \in Workers, RequestEmailVerification(w), UNCHANGED sessionVars
    PROVE  Inv'
  <1> DEFINE e == applyAccountEmailVerificationRequested(Row)
  <1>1. /\ job[w].op = "verify" /\ job[w].pc = "mailed" /\ job[w].base > 0
        /\ Version = job[w].base /\ log[job[w].base] = Row
        /\ Save(w, << e >>) /\ HookPending(w)
        /\ UNCHANGED << cache, links, sent, projection, blurred >>
    BY DEF RequestEmailVerification, IsAt, Save, Inv, AccountPart, JobInv, Row
  <1>2. Row \in Accounts
    BY <1>1, LogTypes DEF Inv, AccountPart
  <1>3. Follows(e) /\ e.kind # "password"
    BY <1>2 DEF Follows, applyAccountEmailVerificationRequested, Accounts, Kinds
  <1> QED BY <1>1, <1>3, SaveOneInv DEF Ops

\* Of the requests that follow a link one saves: the others loaded a version that is no
\* longer the last.
LEMMA SaveVerifiedInv ==
    ASSUME Inv, NEW w \in Workers, SaveVerified(w), UNCHANGED sessionVars
    PROVE  Inv'
  <1> DEFINE e == applyAccountEmailVerified(Row)
  <1>1. /\ job[w].op = "confirm" /\ job[w].pc = "loaded" /\ job[w].base > 0
        /\ Version = job[w].base /\ log[job[w].base] = Row /\ ~Row.verified
        /\ Save(w, << e >>) /\ HookPending(w)
        /\ UNCHANGED << cache, links, sent, projection, blurred >>
    BY DEF SaveVerified, ConfirmEmailVerified, IsAt, Save, Inv, AccountPart, JobInv, Row
  <1>2. Row \in Accounts
    BY <1>1, LogTypes DEF Inv, AccountPart
  <1>3. Follows(e) /\ e.kind # "password"
    BY <1>1, <1>2 DEF Follows, applyAccountEmailVerified, Accounts, Kinds
  <1> QED BY <1>1, <1>3, SaveOneInv DEF Ops

-----------------------------------------------------------------------------
(* The cache and the search index *)

\* The hook of w runs or is lost.
LEMMA HookRunsInv ==
    ASSUME Inv, NEW w \in Workers, job[w].pc = "hook", Work(w, Idle),
           UNCHANGED << log, links, sent, projection, sessionVars >>,
           cache' \in 0 .. Version, blurred' \in BOOLEAN, blurred' \/ cache' = Version
    PROVE  Inv'
  <1>1. job'[w] = Idle /\ (\A x \in Workers \ {w} : job'[x] = job[x]) /\ JobShape'
    BY IdleFacts, WorkFacts DEF Inv, AccountPart
  <1>2. /\ LogInv' /\ Grown /\ Version' = Version /\ Epoch(Version)' = Epoch(Version)
        /\ Version \in Nat
    BY LogKept, LogTypes DEF Inv, AccountPart
  <1>3. JobInv(w)'
    BY <1>1, <1>2, IdleFacts DEF JobInv, IsAt, Ops
  <1>4. (\A x \in Workers : JobInv(x)') /\ LockInv'
    BY <1>1, <1>2, <1>3, IdleFacts, OtherJobs DEF Inv
  <1>5. RangeInv'
    BY <1>2 DEF Inv, AccountPart, RangeInv, projection
  <1>6. CacheIsExplained'
    BY <1>2 DEF CacheIsExplained
  <1>7. ProjectorInv'
    BY <1>2 DEF Inv, AccountPart, ProjectorInv, Searchable, projection
  <1>8. SessionPart'
    BY <1>1, <1>2, IdleFacts, SessionsQuiet
  <1> QED BY <1>1, <1>2, <1>4, <1>5, <1>6, <1>7, <1>8 DEF Inv, AccountPart

LEMMA HookInv ==
    ASSUME Inv, NEW w \in Workers, syncCacheAfterCommit(w) \/ LoseHook(w), UNCHANGED sessionVars
    PROVE  Inv'
  <1>1. job[w].base \in 0 .. Version /\ cache \in 0 .. Version
    BY DEF Inv, AccountPart, JobInv, RangeInv
  <1>2. CASE syncCacheAfterCommit(w)
    <2>1. cache' = job[w].base /\ blurred' = (job[w].base # Version)
      BY <1>2 DEF syncCacheAfterCommit
    <2>2. blurred' \in BOOLEAN /\ (blurred' \/ cache' = Version)
      BY <2>1, Zenon
    <2> QED BY <1>1, <1>2, <2>1, <2>2, HookRunsInv DEF syncCacheAfterCommit
  <1>3. CASE LoseHook(w)
    BY <1>1, <1>3, HookRunsInv DEF LoseHook
  <1> QED BY <1>2, <1>3

\* Steps of the readers, of Redis and of the projector.
LEMMA ReaderStep ==
    ASSUME Inv, UNCHANGED << log, job, sessionVars >>, RangeInv', CacheIsExplained', ProjectorInv'
    PROVE  Inv'
  <1>1. /\ LogInv' /\ Grown /\ Version' = Version /\ Epoch(Version)' = Epoch(Version)
        /\ Version \in Nat
    BY LogKept, LogTypes DEF Inv, AccountPart
  <1>2. JobShape' /\ (\A x \in Workers : JobInv(x)') /\ LockInv'
    BY <1>1 DEF Inv, AccountPart, JobShape, JobInv, LockInv, Listed, IsAt
  <1>3. SessionPart'
    BY <1>1, SessionsQuiet
  <1> QED BY <1>1, <1>2, <1>3 DEF Inv, AccountPart

LEMMA CacheStepInv ==
    ASSUME Inv, UNCHANGED sessionVars,
           CacheExpires \/ GetAccountByID \/ WarmCache \/ \E l \in links : LinkExpires(l)
    PROVE  Inv'
  <1>1. RangeInv /\ CacheIsExplained /\ ProjectorInv /\ Version \in Nat
    BY LogTypes DEF Inv, AccountPart
  <1>2. CASE CacheExpires
    <2>1. /\ cache' = 0 /\ blurred' = FALSE /\ Version' = Version
          /\ UNCHANGED << log, links, sent, job, reading, done, fetched, index, lagging >>
      BY <1>2 DEF CacheExpires, projection, Version
    <2>2. RangeInv'
      <3>1. blurred' \in BOOLEAN
        BY <2>1, Zenon
      <3> QED BY <1>1, <2>1, <3>1 DEF RangeInv
    <2>3. CacheIsExplained'
      BY <2>1 DEF CacheIsExplained
    <2>4. ProjectorInv'
      BY <1>1, <2>1 DEF ProjectorInv, Searchable
    <2> QED BY <2>1, <2>2, <2>3, <2>4, ReaderStep
  <1>3. CASE GetAccountByID
    <2>1. RangeInv' /\ CacheIsExplained' /\ ProjectorInv'
      BY <1>1, <1>3 DEF GetAccountByID, RangeInv, CacheIsExplained, ProjectorInv, projection, Version, Searchable
    <2> QED BY <1>3, <2>1, ReaderStep DEF GetAccountByID
  <1>4. CASE WarmCache
    <2>1. blurred' \in BOOLEAN /\ (blurred' \/ cache' = Version)
      BY <1>4, Zenon DEF WarmCache
    <2>2. RangeInv' /\ CacheIsExplained' /\ ProjectorInv'
      BY <1>1, <1>4, <2>1 DEF WarmCache, RangeInv, CacheIsExplained, ProjectorInv, Version, Searchable
    <2> QED BY <1>4, <2>2, ReaderStep DEF WarmCache
  <1>5. CASE \E l \in links : LinkExpires(l)
    <2>1. links' \subseteq links /\ UNCHANGED << log, cache, sent, job, projection, blurred >>
      BY <1>5 DEF LinkExpires
    <2>2. RangeInv' /\ CacheIsExplained' /\ ProjectorInv'
      BY <1>1, <2>1 DEF RangeInv, CacheIsExplained, ProjectorInv, projection, Version, Searchable
    <2> QED BY <2>1, <2>2, ReaderStep
  <1> QED BY <1>2, <1>3, <1>4, <1>5

\* An event that is skipped shows nothing; what is fetched is the newest version there is
\* unless the cache is behind the row.
LEMMA ProjectorStepInv ==
    ASSUME Inv, UNCHANGED sessionVars, SkipEvent \/ FetchAccount \/ SyncAccount \/ ProjectionFails
    PROVE  Inv'
  <1>1. RangeInv /\ CacheIsExplained /\ ProjectorInv /\ Version \in Nat
    BY LogTypes DEF Inv, AccountPart
  <1>2. CASE SkipEvent
    <2>1. /\ fetched = 0 /\ done < Version /\ log[done + 1].kind = "requested" /\ done' = done + 1
          /\ UNCHANGED << log, cache, links, sent, job, reading, fetched, index, blurred, lagging >>
      BY <1>2 DEF SkipEvent, Projected
    <2>2. RangeInv' /\ CacheIsExplained'
      BY <1>1, <2>1 DEF RangeInv, CacheIsExplained, Version
    <2>3. ASSUME index # 0, ~lagging, index <= done + 1
          PROVE  Searchable(index) = Searchable(done + 1)
      <3>1. index \in 0 .. Version /\ done \in 0 .. Version
        BY <1>1 DEF RangeInv
      <3>2. CASE index = done + 1
        BY <3>2
      <3>3. CASE index <= done
        <4>1. Searchable(index) = Searchable(done)
          BY <1>1, <2>1, <2>3, <3>3 DEF ProjectorInv
        <4>2. done \in 1 .. Version /\ done + 1 \in 2 .. Version /\ (done + 1) - 1 = done
          BY <1>1, <2>1, <2>3, <3>1, <3>3
        <4>3. /\ log[done + 1].password = log[done].password /\ log[done + 1].profile = log[done].profile
              /\ log[done + 1].verified = log[done].verified
          BY <2>1, <4>2 DEF Inv, AccountPart, LogInv, NothingIsUndone
        <4>4. log[done] \in Accounts /\ log[done + 1] \in Accounts
          BY <1>1, <4>2, LogTypes DEF Inv, AccountPart
        <4>5. Searchable(done) = Searchable(done + 1)
          BY <4>3, <4>4 DEF Searchable, Accounts
        <4> QED BY <4>1, <4>5
      <3> QED BY <2>3, <3>1, <3>2, <3>3
    <2>4. ProjectorInv'
      BY <2>1, <2>3 DEF ProjectorInv, Searchable
    <2> QED BY <2>1, <2>2, <2>4, ReaderStep
  <1>3. CASE FetchAccount
    <2>1. /\ fetched = 0 /\ done < Version /\ fetched' = cache'
          /\ cache' = (IF cache = 0 THEN Version ELSE cache)
          /\ UNCHANGED << log, links, sent, job, reading, done, index, blurred >>
      BY <1>3 DEF FetchAccount
    <2>2. lagging' \in BOOLEAN /\ (lagging' \/ cache \in {0, Version})
      BY <1>3, Zenon DEF FetchAccount
    <2>3. RangeInv'
      BY <1>1, <2>1, <2>2 DEF RangeInv, Version
    <2>4. CacheIsExplained'
      BY <1>1, <2>1 DEF CacheIsExplained, Version
    <2>5. ProjectorInv'
      BY <1>1, <2>1, <2>2 DEF ProjectorInv, RangeInv, Version
    <2> QED BY <2>1, <2>3, <2>4, <2>5, ReaderStep
  <1>4. CASE SyncAccount \/ ProjectionFails
    <2>1. /\ fetched # 0 /\ fetched' = 0 /\ done' = done + 1
          /\ UNCHANGED << log, cache, links, sent, job, reading, blurred >>
          /\ \/ index' = fetched /\ lagging' = lagging
             \/ index' = index /\ lagging' = TRUE
      BY <1>4 DEF SyncAccount, ProjectionFails
    <2>2. RangeInv' /\ CacheIsExplained'
      <3>1. Version' = Version /\ done < Version
        BY <1>1, <2>1 DEF ProjectorInv, Version
      <3>2. CacheIsExplained'
        BY <1>1, <2>1, <3>1 DEF CacheIsExplained
      <3>3. index' \in 0 .. Version /\ done' \in 0 .. Version
        BY <1>1, <2>1, <3>1 DEF RangeInv
      <3>4. lagging' \in BOOLEAN
        BY <1>1, <2>1, Zenon DEF RangeInv
      <3> QED BY <1>1, <2>1, <3>1, <3>2, <3>3, <3>4 DEF RangeInv
    <2>3. ProjectorInv'
      <3>1. fetched \in 0 .. Version /\ done \in 0 .. Version /\ (~lagging => done < fetched)
        BY <1>1, <2>1 DEF ProjectorInv, RangeInv
      <3>2. ~lagging' /\ index' <= done' => index' = done'
        BY <2>1, <3>1
      <3> QED BY <2>1, <3>2 DEF ProjectorInv, Searchable
    <2> QED BY <2>1, <2>2, <2>3, ReaderStep
  <1> QED BY <1>2, <1>3, <1>4

-----------------------------------------------------------------------------
(* Opening a session *)

LEMMA SeqOfFunction ==
    ASSUME NEW T, NEW n \in Nat, NEW f \in [1 .. n -> T]
    PROVE  f \in Seq(T) /\ Len(f) = n
  OBVIOUS

LEMMA RowTypes ==
    ASSUME SessionPart
    PROVE  /\ Len(sessions) \in Nat /\ Len(issued) \in Nat
           /\ DOMAIN sessions = SessionIds /\ SessionIds = 1 .. Len(sessions)
           /\ \A s \in SessionIds : sessions[s] \in Rows
           /\ \A t \in 1 .. Len(issued) : issued[t] \in SessionIds
           /\ used \subseteq 1 .. Len(issued)
  BY DEF SessionPart, RowsInv, SessionIds

\* A command about sessions leaves the account alone.
LEMMA AccountKept ==
    ASSUME Inv, NEW w \in Workers, UNCHANGED << log, cache, links, sent, projection, blurred >>,
           JobShape', \A x \in Workers \ {w} : job'[x] = job[x], JobInv(w)',
           job[w].pc # "hook", job'[w].pc # "listed"
    PROVE  AccountPart' /\ Epoch(Version)' = Epoch(Version)
  <1>1. /\ LogInv' /\ Grown /\ Version' = Version /\ Epoch(Version)' = Epoch(Version)
        /\ Version \in Nat
    BY LogKept, LogTypes DEF Inv, AccountPart
  <1>2. (\A x \in Workers : JobInv(x)') /\ LockInv'
    BY <1>1, OtherJobs DEF Inv
  <1>3. RangeInv'
    BY RangeKept DEF Inv, AccountPart
  <1> QED BY <1>1, <1>2, <1>3, AccountQuiet DEF Inv

LEMMA IdleJob ==
    ASSUME Inv, NEW w \in Workers, Work(w, Idle), UNCHANGED log
    PROVE  /\ job'[w] = Idle /\ (\A x \in Workers \ {w} : job'[x] = job[x]) /\ JobShape' /\ JobInv(w)'
           /\ job'[w].op = "none" /\ job'[w].pc = "idle"
  <1>1. job'[w] = Idle /\ (\A x \in Workers \ {w} : job'[x] = job[x]) /\ JobShape'
    BY IdleFacts, WorkFacts DEF Inv, AccountPart
  <1>2. Version' = Version /\ Version \in Nat
    BY LogTypes DEF Inv, AccountPart, Version
  <1> QED BY <1>1, <1>2, IdleFacts DEF JobInv, IsAt, Ops

\* A login that was overtaken by a new password is known to have been.
LEMMA CreateSessionInv ==
    ASSUME Inv, NEW w \in Workers, NEW uid \in DeviceUIDs, NEW hash \in 0 .. MaxTokens,
           NEW base \in 0 .. Version, RegisterDevice(uid), CreateSession(hash, base),
           \A x \in Workers \ {w} : job'[x] = job[x],
           job'[w].op \notin {"refresh", "logout", "logout_all"}, job'[w].pc # "listed",
           Epoch(Version)' = Epoch(Version)
    PROVE  SessionPart'
  <1> DEFINE n == Len(sessions) + 1
             r == NewSession(hash, Epoch(base))
  <1>1. /\ SessionPart /\ RowsInv
        /\ Len(sessions) \in Nat /\ Len(issued) \in Nat
        /\ DOMAIN sessions = SessionIds /\ SessionIds = 1 .. Len(sessions)
        /\ \A s \in SessionIds : sessions[s] \in Rows
        /\ \A t \in 1 .. Len(issued) : issued[t] \in SessionIds
        /\ used \subseteq 1 .. Len(issued)
    BY RowTypes DEF Inv, SessionPart
  <1>2. r \in Rows /\ r.epoch = Epoch(base)
    <2>1. base \in Nat
      BY LogTypes DEF Inv, AccountPart
    <2>2. Epoch(base) \in Nat
      BY <2>1, EpochIsNat
    <2> QED BY <2>2 DEF NewSession, Rows
  <1> HIDE DEF r
  <1>3. /\ sessions' \in Seq(Rows) /\ Len(sessions') = n /\ sessions'[n] = r
        /\ \A s \in SessionIds : sessions'[s] = sessions[s]
        /\ n <= MaxSessions
    <2>1. sessions' = Append(sessions, r) /\ Len(sessions) < MaxSessions
      BY DEF CreateSession, r
    <2> QED BY <1>1, <1>2, <2>1, SessionBoundsAssumption DEF RowsInv
  <1>4. SessionIds' = 1 .. n /\ SessionIds \subseteq SessionIds'
    BY <1>1, <1>3 DEF SessionIds
  <1>5. /\ issued' \in Seq(SessionIds') /\ Len(issued') = Len(issued) + 1 /\ Len(issued') <= MaxTokens
        /\ \A t \in 1 .. Len(issued) : issued'[t] = issued[t]
    <2>1. issued' = Append(issued, n) /\ Len(issued) + 1 <= MaxTokens
      BY DEF CreateSession, NextToken
    <2>2. issued \in Seq(SessionIds') /\ n \in SessionIds'
      BY <1>1, <1>4 DEF RowsInv
    <2> QED BY <1>1, <2>1, <2>2
  <1>6. /\ used' = used /\ late' = late /\ raced' \in {raced, raced \cup {n}}
        /\ n \notin raced' => Epoch(base) = Epoch(Version)
    BY DEF CreateSession
  <1>7. RowsInv'
    <2>1. devices' \subseteq DeviceUIDs
      BY <1>1 DEF RowsInv, RegisterDevice
    <2>2. used' \subseteq 1 .. Len(issued')
      BY <1>1, <1>5, <1>6
    <2>3. late' \subseteq Workers /\ raced' \subseteq SessionIds'
      BY <1>1, <1>4, <1>6 DEF RowsInv
    <2> QED BY <1>3, <1>5, <2>1, <2>2, <2>3 DEF RowsInv
  <1>8. ASSUME NEW x \in Workers PROVE ReadInv(x)' /\ FreshInv(x)' /\ ListedInv(x)'
    <2>1. CASE x = w
      BY <2>1 DEF ReadInv, FreshInv, ListedInv, Listed
    <2>2. CASE x # w
      <3>1. ReadInv(x) /\ FreshInv(x) /\ ListedInv(x) /\ job'[x] = job[x]
        BY <1>1, <2>2 DEF SessionPart
      <3>2. ReadInv(x)'
        <4>1. job[x].op \in {"refresh", "logout"} =>
                job[x].arg \in 1 .. Len(issued') /\ issued'[job[x].arg] = issued[job[x].arg]
          BY <1>1, <1>5, <3>1 DEF ReadInv
        <4> QED BY <1>4, <3>1, <4>1 DEF ReadInv, Listed
      <3>3. FreshInv(x)'
        BY <1>1, <1>3, <1>5, <1>6, <3>1 DEF ReadInv, FreshInv
      <3>4. ListedInv(x)'
        BY <1>1, <1>3, <1>6, <3>1 DEF ReadInv, ListedInv, Listed
      <3> QED BY <3>2, <3>3, <3>4
    <2> QED BY <2>1, <2>2
  <1>9. TokenInv'
    BY <1>1, <1>3, <1>5, <1>6 DEF SessionPart, TokenInv
  <1>10. TokensAreSingleUse'
    BY <1>1, <1>6 DEF SessionPart, TokensAreSingleUse
  <1>11. ASSUME NEW s \in SessionIds', sessions'[s].status = "active", s \notin raced'
         PROVE  sessions'[s].epoch = Epoch(Version)
    <2>1. CASE s = n
      BY <1>2, <1>3, <1>6, <1>11, <2>1
    <2>2. CASE s \in SessionIds
      BY <1>1, <1>3, <1>6, <1>11, <2>2 DEF SessionPart, ActiveIsEarned
    <2> QED BY <1>1, <1>4, <2>1, <2>2
  <1>12. ActiveIsEarned'
    BY <1>11 DEF ActiveIsEarned
  <1> QED BY <1>7, <1>8, <1>9, <1>10, <1>12 DEF SessionPart

LEMMA RegisterAccountInv ==
    ASSUME Inv, NEW w \in Workers, NEW p \in Passwords, NEW n \in Profiles, NEW uid \in DeviceUIDs,
           RegisterAccount(w, p, n, uid)
    PROVE  Inv'
  <1> DEFINE j == [Idle EXCEPT !.op = "register", !.pc = "hook", !.base = 1]
  <1>1. /\ job[w] = Idle /\ Version = 0 /\ Save(w, Register(p, n)) /\ RegisterDevice(uid)
        /\ CreateSession(NextToken, 0) /\ Work(w, j)
        /\ UNCHANGED << cache, links, sent, projection, blurred >>
    BY DEF RegisterAccount, IsIdle
  <1>2. DOMAIN j = Fields /\ j.op = "register" /\ j.pc = "hook" /\ j.base = 1
    BY DEF Idle, Fields
  <1> HIDE DEF j
  <1>3. job'[w] = j /\ (\A x \in Workers \ {w} : job'[x] = job[x]) /\ JobShape'
    BY <1>1, <1>2, WorkFacts DEF Inv, AccountPart
  <1>4. log' = log \o Register(p, n) /\ Len(Register(p, n)) = 1 /\ 1 <= MaxVersion
    BY <1>1 DEF Save, Register
  <1>5. LogInv' /\ Grown /\ Version' > 0 /\ \A v \in 1 .. Version' : log'[v].kind # "password"
    BY <1>1, <1>4, FirstEvents DEF Inv, AccountPart
  <1>6. Version' = 1
    <2>1. log = << >>
      BY <1>1 DEF Inv, AccountPart, LogInv, Version
    <2> QED BY <1>4, <2>1 DEF Version, Register
  <1>7. \A x \in Workers \ {w} : job[x].pc # "listed"
    BY <1>1, NotLocked DEF Inv, Save
  <1>8. AccountPart'
    BY <1>1, <1>2, <1>3, <1>5, <1>6, <1>7, AccountSaved DEF Inv, Ops
  <1>9. Epoch(Version)' = Epoch(Version)
    BY <1>1, <1>5, <1>6, EpochKept DEF Inv, AccountPart
  <1>10. NextToken \in 0 .. MaxTokens
    BY <1>1, RowTypes, SessionBoundsAssumption DEF CreateSession, NextToken, Inv
  <1>11. SessionPart'
    BY <1>1, <1>2, <1>3, <1>9, <1>10, CreateSessionInv
  <1> QED BY <1>8, <1>11 DEF Inv

LEMMA LoginInv ==
    ASSUME Inv, NEW w \in Workers, Login(w)
    PROVE  Inv'
  <1>1. /\ job[w].op = "login" /\ job[w].pc = "loaded" /\ job[w].arg \in DeviceUIDs
        /\ job[w].base \in 0 .. Version
        /\ RegisterDevice(job[w].arg) /\ CreateSession(NextToken, job[w].base) /\ Work(w, Idle)
        /\ UNCHANGED << log, cache, links, sent, projection, blurred >>
    BY DEF Login, IsAt, Inv, AccountPart, JobInv
  <1>2. /\ job'[w] = Idle /\ (\A x \in Workers \ {w} : job'[x] = job[x]) /\ JobShape' /\ JobInv(w)'
        /\ job'[w].op = "none" /\ job'[w].pc = "idle"
    BY <1>1, IdleJob
  <1>3. AccountPart' /\ Epoch(Version)' = Epoch(Version)
    BY <1>1, <1>2, AccountKept
  <1>4. NextToken \in 0 .. MaxTokens
    BY <1>1, RowTypes, SessionBoundsAssumption DEF CreateSession, NextToken, Inv
  <1>5. SessionPart'
    BY <1>1, <1>2, <1>3, <1>4, CreateSessionInv
  <1> QED BY <1>3, <1>5 DEF Inv

LEMMA CallbackGoogleInv ==
    ASSUME Inv, NEW w \in Workers, NEW n \in Profiles, CallbackGoogle(w, n)
    PROVE  Inv'
  <1> DEFINE events == GoogleEvents(job[w].base, n)
  <1>1. /\ job[w].op = "google" /\ job[w].pc = "loaded" /\ job[w].arg \in DeviceUIDs
        /\ job[w].base \in 0 .. Version
        /\ RegisterDevice(job[w].arg) /\ CreateSession(Unhashed, job[w].base)
        /\ UNCHANGED << cache, links, sent, projection, blurred >>
    BY DEF CallbackGoogle, IsAt, Inv, AccountPart, JobInv
  <1>2. Unhashed \in 0 .. MaxTokens
    BY SessionBoundsAssumption DEF Unhashed
  <1>3. \/ events = << >> /\ Work(w, Idle) /\ UNCHANGED log
        \/ events # << >> /\ Save(w, events) /\ HookPending(w)
    BY DEF CallbackGoogle
  <1> HIDE DEF events
  <1>4. CASE events = << >> /\ Work(w, Idle) /\ UNCHANGED log
    <2>1. /\ job'[w] = Idle /\ (\A x \in Workers \ {w} : job'[x] = job[x]) /\ JobShape' /\ JobInv(w)'
          /\ job'[w].op = "none" /\ job'[w].pc = "idle"
      BY <1>4, IdleJob
    <2>2. AccountPart' /\ Epoch(Version)' = Epoch(Version)
      BY <1>1, <1>4, <2>1, AccountKept
    <2>3. SessionPart'
      BY <1>1, <1>2, <2>1, <2>2, CreateSessionInv
    <2> QED BY <2>2, <2>3 DEF Inv
  <1>5. CASE events # << >> /\ Save(w, events) /\ HookPending(w)
    <2>1. Version = job[w].base /\ log' = log \o events /\ Version \in Nat
      BY <1>5, LogTypes DEF Save, Inv, AccountPart
    <2>2. \A x \in Workers \ {w} : job[x].pc # "listed"
      BY <1>5, NotLocked DEF Inv, Save
    <2>3. /\ job'[w].op = job[w].op /\ job'[w].pc = "hook" /\ job'[w].base = Version'
          /\ \A x \in Workers \ {w} : job'[x] = job[x]
          /\ JobShape'
      BY <1>5, HookFacts DEF Inv, AccountPart
    <2>4. LogInv' /\ Grown /\ Version' > 0 /\ \A v \in Version + 1 .. Version' : log'[v].kind # "password"
      <3>1. CASE Version = 0
        <4>1. events = OpenRegister(n) /\ Len(OpenRegister(n)) = 3
          BY <2>1, <3>1 DEF events, GoogleEvents, OpenRegister
        <4>2. 3 <= MaxVersion
          <5>1. Version + Len(events) <= MaxVersion
            BY <1>5 DEF Save
          <5> QED BY <3>1, <4>1, <5>1
        <4>3. LogInv' /\ Grown /\ Version' > 0 /\ \A v \in 1 .. Version' : log'[v].kind # "password"
          BY <2>1, <3>1, <4>1, <4>2, FirstEvents DEF Inv, AccountPart
        <4> QED BY <3>1, <4>3
      <3>2. CASE Version # 0
        <4> DEFINE e == applyAccountEmailVerified(Row)
        <4>1. events = << e >> /\ ~Row.verified
          BY <1>5, <2>1, <3>2 DEF events, GoogleEvents, ConfirmEmailVerified, Row
        <4>2. Row \in Accounts
          BY <2>1, <3>2, LogTypes DEF Inv, AccountPart
        <4>3. Follows(e) /\ e.kind # "password" /\ e \in Accounts
          BY <4>1, <4>2 DEF Follows, applyAccountEmailVerified, Accounts, Kinds
        <4> HIDE DEF e
        <4>4. Version < MaxVersion
          BY <1>5, <2>1, <4>1, BoundsAssumption DEF Save
        <4>5. LogInv' /\ Grown /\ Version' = Version + 1
          BY <2>1, <3>2, <4>1, <4>3, <4>4, EventFollows DEF Inv, AccountPart
        <4>6. log'[Version + 1] = e
          BY <2>1, <4>1, <4>3, OneMore DEF Inv, AccountPart, LogInv, Version
        <4>7. Version' > 0 /\ \A v \in Version + 1 .. Version' : v = Version + 1
          BY <2>1, <4>5
        <4> QED BY <4>3, <4>5, <4>6, <4>7
      <3> QED BY <3>1, <3>2
    <2>5. AccountPart'
      BY <1>1, <2>2, <2>3, <2>4, AccountSaved DEF Inv, Ops
    <2>6. Version' \in Nat
      BY <2>4 DEF LogInv, Version
    <2>7. Epoch(Version)' = Epoch(Version)
      BY <2>4, <2>6, EpochKept DEF Inv, AccountPart
    <2>8. SessionPart'
      BY <1>1, <1>2, <2>3, <2>7, CreateSessionInv
    <2> QED BY <2>5, <2>8 DEF Inv
  <1> QED BY <1>3, <1>4, <1>5

-----------------------------------------------------------------------------
(* Loading *)

\* Login, Google and a new password, when they have read the account.
LEMMA LoadInv ==
    ASSUME Inv, NEW w \in Workers,
           \/ \E p \in Passwords, uid \in DeviceUIDs : VerifyPassword(w, p, uid)
           \/ \E uid \in DeviceUIDs : LoadByEmail(w, uid)
           \/ \E p, q \in Passwords : LoadForPassword(w, p, q)
    PROVE  Inv'
  <1>1. PICK op, arg :
          /\ Load(w, op, arg, "loaded")
          /\ \/ op \in {"login", "google"} /\ arg \in DeviceUIDs
             \/ op = "password" /\ arg \in Passwords /\ Version > 0
    BY DEF VerifyPassword, LoadByEmail, LoadForPassword
  <1>2. job[w] = Idle /\ UNCHANGED << log, cache, links, sent, projection, blurred, sessionVars >>
    BY DEF VerifyPassword, LoadByEmail, LoadForPassword, IsIdle
  <1>3. /\ job'[w].op = op /\ job'[w].pc = "loaded" /\ job'[w].arg = arg /\ job'[w].base = Version
        /\ \A x \in Workers \ {w} : job'[x] = job[x]
        /\ JobShape'
    BY <1>1, LoadFacts DEF Inv, AccountPart
  <1>4. RangeInv' /\ Version' = Version /\ Version \in Nat
    BY <1>2, RangeKept, LogTypes DEF Inv, AccountPart, Version
  <1>5. JobInv(w)'
    BY <1>1, <1>3, <1>4 DEF JobInv, IsAt, Ops
  <1> QED BY <1>1, <1>2, <1>3, <1>4, <1>5, IdleFacts, JobStep

\* What a command about sessions has read.
ReadJob(op, arg, read) == [op |-> op, pc |-> "loaded", arg |-> arg, base |-> Version, read |-> read]

LEMMA ReadFacts ==
    ASSUME Inv, NEW w \in Workers, NEW op \in {"refresh", "logout", "logout_all"}, NEW arg, NEW read,
           Work(w, ReadJob(op, arg, read)), IsIdle(w),
           UNCHANGED << log, cache, links, sent, projection, blurred >>
    PROVE  /\ job'[w].op = op /\ job'[w].pc = "loaded" /\ job'[w].arg = arg /\ job'[w].read = read
           /\ \A x \in Workers \ {w} : job'[x] = job[x]
           /\ AccountPart' /\ Epoch(Version)' = Epoch(Version)
  <1> DEFINE j == ReadJob(op, arg, read)
  <1>1. DOMAIN j = Fields /\ j.op = op /\ j.pc = "loaded" /\ j.arg = arg /\ j.read = read /\ j.base = Version
    BY DEF ReadJob, Fields
  <1> HIDE DEF j
  <1>2. job'[w] = j /\ (\A x \in Workers \ {w} : job'[x] = job[x]) /\ JobShape'
    BY <1>1, WorkFacts DEF Inv, AccountPart, j
  <1>3. Version' = Version /\ Version \in Nat
    BY LogTypes DEF Inv, AccountPart, Version
  <1>4. JobInv(w)'
    BY <1>1, <1>2, <1>3 DEF JobInv, IsAt, Ops
  <1>5. job[w].pc # "hook" /\ job'[w].pc # "listed"
    BY <1>1, <1>2, IdleFacts DEF IsIdle
  <1> QED BY <1>1, <1>2, <1>4, <1>5, AccountKept

\* A token that was used is not accepted again.
LEMMA LoadForRefreshInv ==
    ASSUME Inv, NEW w \in Workers, NEW t \in 1 .. Len(issued), LoadForRefresh(w, t)
    PROVE  Inv'
  <1> DEFINE s == issued[t]
  <1>1. /\ IsIdle(w) /\ sessions[s].hash = t /\ sessions[s].status = "active"
        /\ Work(w, ReadJob("refresh", t, Only(s))) /\ late' = late \ {w}
        /\ UNCHANGED << log, cache, links, sent, projection, blurred >>
        /\ UNCHANGED << devices, sessions, issued, used, raced >>
    BY DEF LoadForRefresh, EnsureRefreshAllowed, ReadJob
  <1>2. /\ job'[w].op = "refresh" /\ job'[w].pc = "loaded" /\ job'[w].arg = t /\ job'[w].read = Only(s)
        /\ \A x \in Workers \ {w} : job'[x] = job[x]
        /\ AccountPart' /\ Epoch(Version)' = Epoch(Version)
    BY <1>1, ReadFacts
  <1>3. SessionPart /\ s \in SessionIds /\ sessions[s] \in Rows
    BY RowTypes DEF Inv
  <1>4. DOMAIN Only(s) = {s} /\ Only(s)[s] = sessions[s]
    BY DEF Only
  <1>5. t \notin used
    BY <1>1, <1>3 DEF SessionPart, TokenInv
  <1>6. RowsInv' /\ TokenInv'
    BY <1>1, <1>3 DEF SessionPart, RowsInv, TokenInv, SessionIds
  <1>7. ASSUME NEW x \in Workers PROVE ReadInv(x)' /\ FreshInv(x)' /\ ListedInv(x)'
    <2>1. CASE x = w
      BY <1>1, <1>2, <1>3, <1>4, <2>1 DEF ReadInv, FreshInv, ListedInv, Listed
    <2>2. CASE x # w
      BY <1>1, <1>2, <1>3, <2>2 DEF SessionPart, ReadInv, FreshInv, ListedInv, Listed, SessionIds
    <2> QED BY <2>1, <2>2
  <1>8. TokensAreSingleUse'
    BY <1>1, <1>2, <1>3, <1>5 DEF SessionPart, TokensAreSingleUse
  <1>9. ActiveIsEarned'
    BY <1>1, <1>2, <1>3 DEF SessionPart, ActiveIsEarned, SessionIds
  <1> QED BY <1>2, <1>6, <1>7, <1>8, <1>9 DEF Inv, SessionPart

LEMMA LoadToRevokeInv ==
    ASSUME Inv, NEW w \in Workers,
           ListByAccountID(w) \/ \E t \in 1 .. Len(issued) : LoadForLogout(w, t)
    PROVE  Inv'
  <1>1. /\ SessionPart /\ DOMAIN sessions = SessionIds /\ \A s \in SessionIds : sessions[s] \in Rows
        /\ \A t \in 1 .. Len(issued) : issued[t] \in SessionIds
    BY RowTypes DEF Inv
  <1>2. PICK op, arg, read :
          /\ Work(w, ReadJob(op, arg, read))
          /\ \/ /\ op = "logout" /\ arg \in 1 .. Len(issued) /\ read = Only(issued[arg])
                /\ sessions[issued[arg]].status # "revoked"
             \/ op = "logout_all" /\ read = sessions
    <2>1. CASE ListByAccountID(w)
      <3>1. Work(w, ReadJob("logout_all", 0, sessions))
        BY <2>1 DEF ListByAccountID, ReadJob
      <3> QED BY <3>1, Zenon
    <2>2. CASE \E t \in 1 .. Len(issued) : LoadForLogout(w, t)
      <3>1. PICK t \in 1 .. Len(issued) :
              /\ Work(w, ReadJob("logout", t, Only(issued[t])))
              /\ sessions[issued[t]].status # "revoked"
        BY <2>2 DEF LoadForLogout, ReadJob
      <3> QED BY <3>1, Zenon
    <2> QED BY <2>1, <2>2
  <1>3. IsIdle(w) /\ UNCHANGED << log, cache, links, sent, projection, blurred, sessionVars >>
    BY DEF ListByAccountID, LoadForLogout
  <1>4. /\ job'[w].op = op /\ job'[w].pc = "loaded" /\ job'[w].arg = arg /\ job'[w].read = read
        /\ \A x \in Workers \ {w} : job'[x] = job[x]
        /\ AccountPart' /\ Epoch(Version)' = Epoch(Version)
    BY <1>2, <1>3, ReadFacts
  <1>5. ReadInv(w)'
    <2>1. CASE op = "logout"
      <3>1. read = Only(issued[arg]) /\ issued[arg] \in SessionIds /\ arg \in 1 .. Len(issued)
        BY <1>1, <1>2, <2>1
      <3>2. DOMAIN read = {issued[arg]} /\ read[issued[arg]] = sessions[issued[arg]]
        BY <3>1 DEF Only
      <3>3. sessions[issued[arg]] \in Rows /\ sessions[issued[arg]].status = "active"
        BY <1>1, <1>2, <2>1, <3>1 DEF Rows
      <3> QED BY <1>3, <1>4, <2>1, <3>1, <3>2, <3>3 DEF ReadInv, Listed, sessionVars
    <2>2. CASE op = "logout_all"
      BY <1>1, <1>2, <1>3, <1>4, <2>2 DEF ReadInv, Listed, sessionVars, SessionIds
    <2> QED BY <1>2, <2>1, <2>2
  <1>6. RowsInv' /\ TokenInv'
    BY <1>1, <1>3 DEF SessionPart, RowsInv, TokenInv, SessionIds, sessionVars
  <1>7. ASSUME NEW x \in Workers PROVE ReadInv(x)' /\ FreshInv(x)' /\ ListedInv(x)'
    <2>1. CASE x = w
      BY <1>2, <1>4, <1>5, <2>1 DEF FreshInv, ListedInv, Listed
    <2>2. CASE x # w
      BY <1>1, <1>3, <1>4, <2>2 DEF SessionPart, ReadInv, FreshInv, ListedInv, Listed, SessionIds, sessionVars
    <2> QED BY <2>1, <2>2
  <1>8. TokensAreSingleUse'
    BY <1>1, <1>2, <1>3, <1>4 DEF SessionPart, TokensAreSingleUse, sessionVars
  <1>9. ActiveIsEarned'
    BY <1>1, <1>3, <1>4 DEF SessionPart, ActiveIsEarned, SessionIds, sessionVars
  <1> QED BY <1>4, <1>6, <1>7, <1>8, <1>9 DEF Inv, SessionPart

LEMMA SaveAndListInv ==
    ASSUME Inv, NEW w \in Workers, SaveAndList(w)
    PROVE  Inv'
  <1>1. /\ job[w].op = "password" /\ job[w].pc = "loaded" /\ JobInv(w)
        /\ ~RowIsLocked(w) /\ Version = job[w].base /\ Version < MaxVersion
        /\ UNCHANGED << log, cache, links, sent, projection, blurred, sessionVars >>
    BY DEF SaveAndList, IsAt, Inv, AccountPart
  <1>2. /\ job'[w] = [job[w] EXCEPT !.pc = "listed", !.read = sessions]
        /\ \A x \in Workers \ {w} : job'[x] = job[x]
        /\ DOMAIN job' = DOMAIN job
    BY DEF SaveAndList, Inv, AccountPart, JobShape
  <1>3. /\ job'[w].op = "password" /\ job'[w].pc = "listed" /\ job'[w].base = job[w].base
        /\ job'[w].arg = job[w].arg /\ job'[w].read = sessions /\ JobShape'
    BY <1>1, <1>2 DEF Inv, AccountPart, JobShape, Fields
  <1>4. /\ LogInv' /\ Version' = Version /\ Epoch(Version)' = Epoch(Version)
        /\ Version \in Nat
    BY <1>1, LogKept, LogTypes DEF Inv, AccountPart
  <1>5. RangeInv'
    BY <1>1, RangeKept DEF Inv, AccountPart
  <1>6. JobInv(w)'
    BY <1>1, <1>3, <1>4 DEF JobInv, IsAt, Ops
  <1>7. ASSUME NEW x \in Workers PROVE JobInv(x)'
    <2>1. CASE x # w
      BY <1>1, <1>2, <1>4, <2>1 DEF Inv, AccountPart, JobInv, IsAt
    <2> QED BY <1>6, <2>1
  <1>8. LockInv'
    <2>1. \A x \in Workers \ {w} : job'[x].pc # "listed"
      BY <1>1, <1>2, NotLocked DEF Inv
    <2> QED BY <1>1, <1>3, <1>4, <2>1 DEF LockInv, Listed
  <1>9. AccountPart'
    BY <1>1, <1>2, <1>3, <1>5, <1>7, <1>8, AccountQuiet DEF Inv
  <1>10. SessionPart /\ DOMAIN sessions = SessionIds /\ \A s \in SessionIds : sessions[s] \in Rows
    BY RowTypes DEF Inv
  <1>11. RowsInv' /\ TokenInv'
    BY <1>1, <1>10 DEF SessionPart, RowsInv, TokenInv, SessionIds, sessionVars
  <1>12. ASSUME NEW x \in Workers PROVE ReadInv(x)' /\ FreshInv(x)' /\ ListedInv(x)'
    <2>1. CASE x = w
      BY <1>1, <1>3, <1>10, <2>1 DEF ReadInv, FreshInv, ListedInv, Listed, sessionVars, SessionIds
    <2>2. CASE x # w
      BY <1>1, <1>2, <1>10, <2>2 DEF SessionPart, ReadInv, FreshInv, ListedInv, Listed, SessionIds, sessionVars
    <2> QED BY <2>1, <2>2
  <1>13. TokensAreSingleUse'
    BY <1>1, <1>2, <1>3, <1>10 DEF SessionPart, TokensAreSingleUse, sessionVars
  <1>14. ActiveIsEarned'
    BY <1>1, <1>4, <1>10 DEF SessionPart, ActiveIsEarned, SessionIds, sessionVars
  <1> QED BY <1>9, <1>11, <1>12, <1>13, <1>14 DEF Inv, SessionPart

-----------------------------------------------------------------------------
(* Writing sessions back *)

\* A refresh that nobody has overtaken finds the row as it was; one that was overtaken is
\* known to have been.
LEMMA RefreshInv ==
    ASSUME Inv, NEW w \in Workers, Refresh(w)
    PROVE  Inv'
  <1> DEFINE s == issued[job[w].arg]
             r == Rotate(job[w].read[s], NextToken)
  <1>1. /\ job[w].op = "refresh" /\ job[w].pc = "loaded" /\ NextToken <= MaxTokens
        /\ sessions' = [sessions EXCEPT ![s] = r]
        /\ issued' = Append(issued, s)
        /\ used' = used \cup {job[w].arg}
        /\ late' = (late \cup Readers(w, {s})) \ {w}
        /\ raced' = (IF w \in late THEN raced \cup {s} ELSE raced)
        /\ Work(w, Idle)
        /\ UNCHANGED << log, cache, links, sent, projection, blurred, devices >>
    BY DEF Refresh, IsAt
  <1>2. /\ job'[w] = Idle /\ (\A x \in Workers \ {w} : job'[x] = job[x]) /\ JobShape' /\ JobInv(w)'
        /\ job'[w].op = "none" /\ job'[w].pc = "idle"
    BY <1>1, IdleJob
  <1>3. AccountPart' /\ Epoch(Version)' = Epoch(Version)
    BY <1>1, <1>2, AccountKept
  <1>4. /\ SessionPart /\ RowsInv
        /\ Len(sessions) \in Nat /\ Len(issued) \in Nat
        /\ DOMAIN sessions = SessionIds /\ SessionIds = 1 .. Len(sessions)
        /\ \A i \in SessionIds : sessions[i] \in Rows
        /\ \A t \in 1 .. Len(issued) : issued[t] \in SessionIds
        /\ used \subseteq 1 .. Len(issued)
    BY RowTypes DEF Inv, SessionPart
  <1>5. /\ job[w].arg \in 1 .. Len(issued) /\ s \in SessionIds
        /\ job[w].read[s] \in Rows /\ job[w].read[s].status = "active"
    BY <1>1, <1>4 DEF SessionPart, ReadInv
  <1>6. /\ r \in Rows /\ r.hash = Len(issued) + 1 /\ r.status = "active" /\ r.epoch = job[w].read[s].epoch
    <2>1. NextToken \in 0 .. MaxTokens /\ NextToken = Len(issued) + 1
      BY <1>1, <1>4, SessionBoundsAssumption DEF NextToken
    <2> QED BY <1>5, <2>1 DEF Rotate, Rows
  <1> HIDE DEF r
  <1>7. /\ sessions' \in Seq(Rows) /\ Len(sessions') = Len(sessions) /\ SessionIds' = SessionIds
        /\ sessions'[s] = r /\ \A i \in SessionIds \ {s} : sessions'[i] = sessions[i]
    <2>1. /\ sessions' \in [1 .. Len(sessions) -> Rows]
          /\ sessions'[s] = r /\ \A i \in SessionIds \ {s} : sessions'[i] = sessions[i]
      BY <1>1, <1>4, <1>5, <1>6 DEF RowsInv
    <2>2. sessions' \in Seq(Rows) /\ Len(sessions') = Len(sessions)
      BY <1>4, <2>1, SeqOfFunction
    <2> QED BY <1>4, <2>1, <2>2 DEF SessionIds
  <1>8. /\ issued' \in Seq(SessionIds) /\ Len(issued') = Len(issued) + 1 /\ Len(issued') <= MaxTokens
        /\ \A t \in 1 .. Len(issued) : issued'[t] = issued[t]
    BY <1>1, <1>4, <1>5 DEF RowsInv, NextToken
  <1>9. raced \subseteq raced' /\ raced' \subseteq SessionIds /\ (w \in late => s \in raced')
    BY <1>1, <1>4, <1>5 DEF RowsInv
  <1>10. RowsInv'
    <2>1. used' \subseteq 1 .. Len(issued')
      <3>1. 1 .. Len(issued) \subseteq 1 .. Len(issued')
        BY <1>4, <1>8
      <3> QED BY <1>1, <1>4, <1>5, <3>1
    <2>2. late' \subseteq Workers
      BY <1>1, <1>4 DEF RowsInv, Readers
    <2> QED BY <1>1, <1>4, <1>7, <1>8, <1>9, <2>1, <2>2 DEF RowsInv
  <1>11. ASSUME NEW x \in Workers \ {w}, job[x].op = "refresh", x \notin late'
         PROVE  x \notin late /\ issued[job[x].arg] # s
    <2>1. x \notin late /\ x \notin Readers(w, {s})
      BY <1>1, <1>11
    <2>2. DOMAIN job[x].read = {issued[job[x].arg]}
      BY <1>4, <1>11 DEF SessionPart, ReadInv
    <2> QED BY <1>11, <2>1, <2>2 DEF Readers
  <1>12. ASSUME NEW x \in Workers PROVE ReadInv(x)' /\ FreshInv(x)' /\ ListedInv(x)'
    <2>1. CASE x = w
      BY <1>2, <2>1 DEF ReadInv, FreshInv, ListedInv, Listed
    <2>2. CASE x # w
      <3>1. ReadInv(x) /\ FreshInv(x) /\ ListedInv(x) /\ job'[x] = job[x]
        BY <1>2, <1>4, <2>2 DEF SessionPart
      <3>2. job[x].op \in {"refresh", "logout"} =>
              /\ job[x].arg \in 1 .. Len(issued) /\ job[x].arg \in 1 .. Len(issued')
              /\ issued'[job[x].arg] = issued[job[x].arg]
        BY <1>4, <1>8, <3>1 DEF ReadInv
      <3>3. ReadInv(x)'
        BY <1>7, <3>1, <3>2 DEF ReadInv, Listed
      <3>4. FreshInv(x)'
        <4> SUFFICES ASSUME job[x].op = "refresh", x \notin late'
                     PROVE  /\ sessions'[issued[job[x].arg]].status = "active"
                            /\ sessions'[issued[job[x].arg]].epoch = job[x].read[issued[job[x].arg]].epoch
          BY <3>1, <3>2 DEF FreshInv
        <4>1. x \notin late /\ issued[job[x].arg] \in SessionIds \ {s}
          BY <1>4, <1>11, <2>2, <3>2
        <4> QED BY <1>7, <3>1, <4>1 DEF FreshInv
      <3>5. ListedInv(x)'
        <4> SUFFICES ASSUME Listed(x), NEW i \in DOMAIN job[x].read, job[x].read[i].status = "revoked"
                     PROVE  sessions'[i].status = "revoked" \/ i \in raced'
          BY <3>1 DEF ListedInv, Listed
        <4>1. i \in SessionIds /\ (sessions[i].status = "revoked" \/ i \in raced)
          BY <3>1 DEF ListedInv, ReadInv
        <4>2. CASE i = s
          BY <1>1, <1>4, <1>9, <4>1, <4>2 DEF SessionPart, FreshInv
        <4>3. CASE i # s
          BY <1>7, <1>9, <4>1, <4>3
        <4> QED BY <4>2, <4>3
      <3> QED BY <3>3, <3>4, <3>5
    <2> QED BY <2>1, <2>2
  <1>13. TokenInv'
    <2> SUFFICES ASSUME NEW t \in used', sessions'[issued'[t]].hash = t
                 PROVE  sessions'[issued'[t]].status = "revoked"
      BY DEF TokenInv
    <2>1. t \in 1 .. Len(issued) /\ issued'[t] = issued[t] /\ issued[t] \in SessionIds
      BY <1>1, <1>4, <1>5, <1>8
    <2>2. issued[t] # s
      BY <1>4, <1>6, <1>7, <2>1
    <2>3. t \in used
      BY <1>1, <2>2
    <2> QED BY <1>4, <1>7, <2>1, <2>2, <2>3 DEF SessionPart, TokenInv
  <1>14. TokensAreSingleUse'
    <2> SUFFICES ASSUME NEW x \in Workers, job'[x].op = "refresh", x \notin late'
                 PROVE  job'[x].arg \notin used'
      BY DEF TokensAreSingleUse
    <2>1. x # w /\ job'[x] = job[x]
      BY <1>2
    <2>2. x \notin late /\ issued[job[x].arg] # s
      BY <1>11, <2>1
    <2> QED BY <1>1, <1>4, <2>1, <2>2 DEF SessionPart, TokensAreSingleUse
  <1>15. ActiveIsEarned'
    <2> SUFFICES ASSUME NEW i \in SessionIds, sessions'[i].status = "active", i \notin raced'
                 PROVE  sessions'[i].epoch = Epoch(Version)
      BY <1>3, <1>7 DEF ActiveIsEarned
    <2>1. CASE i = s
      <3>1. w \notin late /\ s \notin raced
        BY <1>9, <2>1
      <3>2. FreshInv(w)
        BY <1>4 DEF SessionPart
      <3> QED BY <1>1, <1>4, <1>5, <1>6, <1>7, <2>1, <3>1, <3>2 DEF SessionPart, FreshInv, ActiveIsEarned
    <2>2. CASE i # s
      BY <1>4, <1>7, <1>9, <2>2 DEF SessionPart, ActiveIsEarned
    <2> QED BY <2>1, <2>2
  <1> QED BY <1>3, <1>10, <1>12, <1>13, <1>14, <1>15 DEF Inv, SessionPart

\* Rows written back revoked: whoever has read one of them to refresh it is late.
LEMMA RevokeInv ==
    ASSUME Inv, NEW w \in Workers, NEW S \in SUBSET SessionIds, NEW read, \A s \in S : read[s] \in Rows,
           SaveRevoked(w, S, read), UNCHANGED << devices, issued, used >>,
           raced' \subseteq SessionIds,
           \A s \in raced : s \in raced' \/ (s \in S /\ read[s].status # "revoked"),
           \A x \in Workers \ {w} : job'[x] = job[x],
           job'[w].op \notin {"refresh", "logout", "logout_all"}, job'[w].pc # "listed",
           \/ Epoch(Version)' = Epoch(Version)
           \/ \A s \in SessionIds : \/ s \in S /\ read[s].status # "revoked"
                                    \/ sessions[s].status = "revoked" \/ s \in raced'
    PROVE  SessionPart'
  <1> DEFINE changed == { s \in S : read[s].status # "revoked" }
  <1>1. /\ SessionPart /\ RowsInv
        /\ Len(sessions) \in Nat /\ Len(issued) \in Nat
        /\ DOMAIN sessions = SessionIds /\ SessionIds = 1 .. Len(sessions)
        /\ \A i \in SessionIds : sessions[i] \in Rows
        /\ \A t \in 1 .. Len(issued) : issued[t] \in SessionIds
        /\ used \subseteq 1 .. Len(issued)
    BY RowTypes DEF Inv, SessionPart
  <1>2. /\ sessions' = [s \in SessionIds |-> IF s \in changed THEN Revoke(read[s]) ELSE sessions[s]]
        /\ late' = late \cup Readers(w, changed)
    BY DEF SaveRevoked
  <1>3. /\ \A s \in raced : s \in raced' \/ s \in changed
        /\ \/ Epoch(Version)' = Epoch(Version)
           \/ \A s \in SessionIds \ changed : sessions[s].status = "revoked" \/ s \in raced'
        /\ changed \subseteq SessionIds
    OBVIOUS
  <1>4. \A s \in changed : Revoke(read[s]) \in Rows /\ Revoke(read[s]).status = "revoked"
    BY DEF Revoke, Rows
  <1> HIDE DEF changed
  <1>5. /\ sessions' \in Seq(Rows) /\ Len(sessions') = Len(sessions) /\ SessionIds' = SessionIds
        /\ \A s \in changed : sessions'[s].status = "revoked"
        /\ \A s \in SessionIds \ changed : sessions'[s] = sessions[s]
    <2>1. /\ sessions' \in [1 .. Len(sessions) -> Rows]
          /\ \A s \in changed : sessions'[s].status = "revoked"
          /\ \A s \in SessionIds \ changed : sessions'[s] = sessions[s]
      BY <1>1, <1>2, <1>3, <1>4
    <2>2. sessions' \in Seq(Rows) /\ Len(sessions') = Len(sessions)
      BY <1>1, <2>1, SeqOfFunction
    <2> QED BY <1>1, <2>1, <2>2 DEF SessionIds
  <1>6. RowsInv'
    <2>1. late' \subseteq Workers
      BY <1>1, <1>2 DEF RowsInv, Readers
    <2> QED BY <1>1, <1>5, <2>1 DEF RowsInv
  <1>7. ASSUME NEW x \in Workers PROVE ReadInv(x)' /\ FreshInv(x)' /\ ListedInv(x)'
    <2>1. CASE x = w
      BY <2>1 DEF ReadInv, FreshInv, ListedInv, Listed
    <2>2. CASE x # w
      <3>1. ReadInv(x) /\ FreshInv(x) /\ ListedInv(x) /\ job'[x] = job[x]
        BY <1>1, <2>2 DEF SessionPart
      <3>2. ReadInv(x)'
        BY <1>5, <3>1 DEF ReadInv, Listed
      <3>3. FreshInv(x)'
        <4> SUFFICES ASSUME job[x].op = "refresh", x \notin late'
                     PROVE  /\ sessions'[issued[job[x].arg]].status = "active"
                            /\ sessions'[issued[job[x].arg]].epoch = job[x].read[issued[job[x].arg]].epoch
          BY <3>1 DEF FreshInv
        <4>1. x \notin late /\ x \notin Readers(w, changed)
          BY <1>2
        <4>2. DOMAIN job[x].read = {issued[job[x].arg]} /\ issued[job[x].arg] \in SessionIds
          BY <1>1, <3>1 DEF ReadInv
        <4>3. issued[job[x].arg] \notin changed
          BY <2>2, <4>1, <4>2 DEF Readers
        <4> QED BY <1>5, <3>1, <4>1, <4>2, <4>3 DEF FreshInv
      <3>4. ListedInv(x)'
        <4> SUFFICES ASSUME Listed(x), NEW i \in DOMAIN job[x].read, job[x].read[i].status = "revoked"
                     PROVE  sessions'[i].status = "revoked" \/ i \in raced'
          BY <3>1 DEF ListedInv, Listed
        <4>1. i \in SessionIds /\ (sessions[i].status = "revoked" \/ i \in raced)
          BY <3>1 DEF ListedInv, ReadInv
        <4> QED BY <1>3, <1>5, <4>1
      <3> QED BY <3>2, <3>3, <3>4
    <2> QED BY <2>1, <2>2
  <1>8. TokenInv'
    <2> SUFFICES ASSUME NEW t \in used, sessions'[issued[t]].hash = t
                 PROVE  sessions'[issued[t]].status = "revoked"
      BY DEF TokenInv
    <2>1. issued[t] \in SessionIds
      BY <1>1
    <2> QED BY <1>1, <1>5, <2>1 DEF SessionPart, TokenInv
  <1>9. TokensAreSingleUse'
    <2>1. \A x \in Workers : x \notin late' => x \notin late
      BY <1>2
    <2> QED BY <1>1, <2>1 DEF SessionPart, TokensAreSingleUse
  <1>10. ASSUME NEW i \in SessionIds, sessions'[i].status = "active", i \notin raced'
         PROVE  sessions'[i].epoch = Epoch(Version)'
    <2>1. i \notin changed /\ sessions'[i] = sessions[i] /\ i \notin raced
      BY <1>3, <1>5, <1>10
    <2>2. Epoch(Version)' = Epoch(Version)
      BY <1>3, <1>10, <2>1
    <2> QED BY <1>1, <1>10, <2>1, <2>2 DEF SessionPart, ActiveIsEarned
  <1>11. ActiveIsEarned'
    BY <1>5, <1>10 DEF ActiveIsEarned
  <1> QED BY <1>6, <1>7, <1>8, <1>9, <1>11 DEF SessionPart

LEMMA LogoutInv ==
    ASSUME Inv, NEW w \in Workers, Logout(w)
    PROVE  Inv'
  <1> DEFINE s == issued[job[w].arg]
  <1>1. /\ job[w].op = "logout" /\ job[w].pc = "loaded" /\ SaveRevoked(w, {s}, job[w].read)
        /\ raced' = raced \ {s} /\ Work(w, Idle)
        /\ UNCHANGED << log, cache, links, sent, projection, blurred, devices, issued, used >>
    BY DEF Logout, IsAt
  <1>2. s \in SessionIds /\ job[w].read[s] \in Rows /\ job[w].read[s].status # "revoked"
    BY <1>1, RowTypes DEF Inv, SessionPart, ReadInv
  <1>3. /\ job'[w] = Idle /\ (\A x \in Workers \ {w} : job'[x] = job[x]) /\ JobShape' /\ JobInv(w)'
        /\ job'[w].op = "none" /\ job'[w].pc = "idle"
    BY <1>1, IdleJob
  <1>4. AccountPart' /\ Epoch(Version)' = Epoch(Version)
    BY <1>1, <1>3, AccountKept
  <1> HIDE DEF s
  <1>5. raced' \subseteq SessionIds /\ \A i \in raced : i \in raced' \/ i = s
    BY <1>1 DEF Inv, SessionPart, RowsInv
  <1>6. SessionPart'
    BY <1>1, <1>2, <1>3, <1>4, <1>5, RevokeInv
  <1> QED BY <1>4, <1>6 DEF Inv

LEMMA LogoutAllInv ==
    ASSUME Inv, NEW w \in Workers, LogoutAll(w)
    PROVE  Inv'
  <1> DEFINE S == DOMAIN job[w].read
  <1>1. /\ job[w].op = "logout_all" /\ job[w].pc = "loaded" /\ SaveRevoked(w, S, job[w].read)
        /\ raced' = raced \ { s \in S : job[w].read[s].status # "revoked" } /\ Work(w, Idle)
        /\ UNCHANGED << log, cache, links, sent, projection, blurred, devices, issued, used >>
    BY DEF LogoutAll, IsAt
  <1>2. S \in SUBSET SessionIds /\ \A s \in S : job[w].read[s] \in Rows
    BY <1>1 DEF Inv, SessionPart, ReadInv
  <1>3. /\ job'[w] = Idle /\ (\A x \in Workers \ {w} : job'[x] = job[x]) /\ JobShape' /\ JobInv(w)'
        /\ job'[w].op = "none" /\ job'[w].pc = "idle"
    BY <1>1, IdleJob
  <1>4. AccountPart' /\ Epoch(Version)' = Epoch(Version)
    BY <1>1, <1>3, AccountKept
  <1> HIDE DEF S
  <1>5. /\ raced' \subseteq SessionIds
        /\ \A s \in raced : s \in raced' \/ (s \in S /\ job[w].read[s].status # "revoked")
    BY <1>1 DEF Inv, SessionPart, RowsInv
  <1>6. SessionPart'
    BY <1>1, <1>2, <1>3, <1>4, <1>5, RevokeInv
  <1> QED BY <1>4, <1>6 DEF Inv

\* The sessions that were listed are revoked or were already; those opened since are known.
LEMMA ChangePasswordInv ==
    ASSUME Inv, NEW w \in Workers, ChangePasswordCommit(w)
    PROVE  Inv'
  <1> DEFINE S == DOMAIN job[w].read
             e == applyAccountPasswordChanged(Row, job[w].arg)
  <1>1. /\ job[w].op = "password" /\ job[w].pc = "listed" /\ Listed(w)
        /\ log' = log \o << e >> /\ SaveRevoked(w, S, job[w].read)
        /\ raced' = (raced \ { s \in S : job[w].read[s].status # "revoked" }) \cup (SessionIds \ S)
        /\ HookPending(w)
        /\ UNCHANGED << cache, links, sent, projection, blurred, devices, issued, used >>
    BY DEF ChangePasswordCommit, ChangePassword, IsAt, Listed
  <1>2. /\ job[w].base = Version /\ Version > 0 /\ Version < MaxVersion /\ job[w].arg \in Passwords
        /\ \A x \in Workers \ {w} : job[x].pc # "listed"
    BY <1>1 DEF Inv, AccountPart, LockInv, JobInv, Listed
  <1>3. S \in SUBSET SessionIds /\ \A s \in S : job[w].read[s] \in Rows
    BY <1>1 DEF Inv, SessionPart, ReadInv
  <1>4. \A s \in S : job[w].read[s].status = "revoked" => sessions[s].status = "revoked" \/ s \in raced
    BY <1>1 DEF Inv, SessionPart, ListedInv
  <1>5. Row \in Accounts
    BY <1>2, LogTypes DEF Inv, AccountPart
  <1>6. Follows(e)
    BY <1>2, <1>5 DEF Follows, applyAccountPasswordChanged, Accounts, Kinds
  <1> HIDE DEF S, e
  <1>7. LogInv' /\ Grown /\ Version' = Version + 1
    BY <1>1, <1>2, <1>6, EventFollows DEF Inv, AccountPart
  <1>8. /\ job'[w].op = job[w].op /\ job'[w].pc = "hook" /\ job'[w].base = Version'
        /\ \A x \in Workers \ {w} : job'[x] = job[x]
        /\ JobShape'
    BY <1>1, HookFacts DEF Inv, AccountPart
  <1>9. Version' > 0
    BY <1>2, <1>7, LogTypes DEF Inv, AccountPart
  <1>10. AccountPart'
    BY <1>1, <1>2, <1>7, <1>8, <1>9, AccountSaved DEF Inv, Ops
  <1>11. /\ raced' \subseteq SessionIds
         /\ \A s \in raced : s \in raced' \/ (s \in S /\ job[w].read[s].status # "revoked")
    BY <1>1 DEF Inv, SessionPart, RowsInv
  <1>12. \A s \in SessionIds : \/ s \in S /\ job[w].read[s].status # "revoked"
                               \/ sessions[s].status = "revoked" \/ s \in raced'
    BY <1>1, <1>4
  <1>13. SessionPart'
    BY <1>1, <1>3, <1>8, <1>11, <1>12, RevokeInv
  <1> QED BY <1>10, <1>13 DEF Inv

LEMMA SessionExpiresInv ==
    ASSUME Inv, NEW s \in SessionIds, SessionExpires(s)
    PROVE  Inv'
  <1>1. /\ sessions' = [sessions EXCEPT ![s].expired = TRUE]
        /\ UNCHANGED << log, cache, links, sent, job, projection, blurred, devices, issued, used, late, raced >>
    BY DEF SessionExpires, accountVars
  <1>2. /\ SessionPart /\ RowsInv
        /\ Len(sessions) \in Nat
        /\ DOMAIN sessions = SessionIds /\ SessionIds = 1 .. Len(sessions)
        /\ \A i \in SessionIds : sessions[i] \in Rows
        /\ \A t \in 1 .. Len(issued) : issued[t] \in SessionIds
        /\ used \subseteq 1 .. Len(issued)
    BY RowTypes DEF Inv, SessionPart
  <1>3. ASSUME NEW i \in SessionIds
        PROVE  /\ sessions'[i] \in Rows /\ sessions'[i].status = sessions[i].status
               /\ sessions'[i].epoch = sessions[i].epoch /\ sessions'[i].hash = sessions[i].hash
    <2>1. sessions[i] \in Rows
      BY <1>2
    <2>2. CASE i = s
      <3>1. sessions'[i] = [sessions[i] EXCEPT !.expired = TRUE]
        BY <1>1, <1>2, <2>2
      <3> QED BY <2>1, <3>1 DEF Rows
    <2>3. CASE i # s
      BY <1>1, <1>2, <2>1, <2>3
    <2> QED BY <2>2, <2>3
  <1>4. sessions' \in Seq(Rows) /\ Len(sessions') = Len(sessions) /\ SessionIds' = SessionIds
    <2>1. sessions' = [i \in 1 .. Len(sessions) |-> sessions'[i]]
      BY <1>1, <1>2
    <2>2. sessions' \in [1 .. Len(sessions) -> Rows]
      BY <1>2, <1>3, <2>1
    <2>3. sessions' \in Seq(Rows) /\ Len(sessions') = Len(sessions)
      BY <1>2, <2>2, SeqOfFunction
    <2> QED BY <1>2, <2>3 DEF SessionIds
  <1>5. /\ LogInv' /\ Version' = Version /\ Epoch(Version)' = Epoch(Version)
    BY <1>1, LogKept DEF Inv, AccountPart
  <1>6. AccountPart'
    <2>1. RangeInv'
      BY <1>1, RangeKept DEF Inv, AccountPart
    <2>2. JobShape' /\ (\A x \in Workers : JobInv(x)') /\ LockInv'
      BY <1>1, <1>5 DEF Inv, AccountPart, JobShape, JobInv, LockInv, Listed, IsAt
    <2> QED BY <1>1, <2>1, <2>2, AccountQuiet DEF Inv
  <1>7. RowsInv'
    BY <1>1, <1>2, <1>4 DEF RowsInv
  <1>8. ASSUME NEW x \in Workers PROVE ReadInv(x)' /\ FreshInv(x)' /\ ListedInv(x)'
    <2>1. ReadInv(x) /\ FreshInv(x) /\ ListedInv(x)
      BY <1>2 DEF SessionPart
    <2>2. ReadInv(x)'
      BY <1>1, <1>4, <2>1 DEF ReadInv, Listed
    <2>3. FreshInv(x)'
      <3>1. job[x].op = "refresh" => issued[job[x].arg] \in SessionIds
        BY <1>2, <2>1 DEF ReadInv
      <3> QED BY <1>1, <1>3, <2>1, <3>1 DEF FreshInv
    <2>4. ListedInv(x)'
      BY <1>1, <1>3, <2>1 DEF ReadInv, ListedInv, Listed
    <2> QED BY <2>2, <2>3, <2>4
  <1>9. TokenInv'
    BY <1>1, <1>2, <1>3 DEF SessionPart, TokenInv
  <1>10. TokensAreSingleUse'
    BY <1>1, <1>2 DEF SessionPart, TokensAreSingleUse
  <1>11. ActiveIsEarned'
    BY <1>1, <1>2, <1>3, <1>4, <1>5 DEF SessionPart, ActiveIsEarned
  <1> QED BY <1>6, <1>7, <1>8, <1>9, <1>10, <1>11 DEF Inv, SessionPart

-----------------------------------------------------------------------------
(* The theorems *)

LEMMA InitInv == Init => Inv
  <1> SUFFICES ASSUME Init PROVE Inv
    OBVIOUS
  <1>1. log = << >> /\ Version = 0 /\ log \in Seq(Accounts)
    BY DEF Init, AccountInit, Version
  <1>2. JobShape /\ \A w \in Workers : job[w] = Idle
    BY IdleFacts DEF Init, AccountInit, JobShape
  <1>3. LogInv
    BY <1>1, BoundsAssumption DEF LogInv, NothingIsUndone
  <1>4. RangeInv
    <2>1. blurred \in BOOLEAN /\ lagging \in BOOLEAN
      BY Zenon DEF Init, AccountInit
    <2> QED BY <1>1, <2>1, BoundsAssumption DEF Init, AccountInit, RangeInv
  <1>5. (\A w \in Workers : JobInv(w)) /\ LockInv
    BY <1>1, <1>2, IdleFacts DEF JobInv, IsAt, LockInv, Listed
  <1>6. CacheIsExplained /\ ProjectorInv
    BY DEF Init, AccountInit, CacheIsExplained, ProjectorInv
  <1>7. sessions = << >> /\ issued = << >> /\ SessionIds = {} /\ Len(sessions) = 0 /\ Len(issued) = 0
    BY DEF Init, SessionIds
  <1>8. RowsInv
    BY <1>7, SessionBoundsAssumption DEF Init, RowsInv
  <1>9. \A w \in Workers : ReadInv(w) /\ FreshInv(w) /\ ListedInv(w)
    BY <1>2, IdleFacts DEF ReadInv, FreshInv, ListedInv, Listed
  <1>10. TokenInv /\ TokensAreSingleUse /\ ActiveIsEarned
    BY <1>2, <1>7, IdleFacts DEF Init, TokenInv, TokensAreSingleUse, ActiveIsEarned
  <1> QED BY <1>2, <1>3, <1>4, <1>5, <1>6, <1>8, <1>9, <1>10 DEF Inv, AccountPart, SessionPart

LEMMA NextInv == Inv /\ [Next]_vars => Inv'
  <1> SUFFICES ASSUME Inv, [Next]_vars PROVE Inv'
    OBVIOUS
  <1>1. ASSUME NEW w \in Workers, SessionStep(w) PROVE Inv'
    <2>1. ASSUME NEW p \in Passwords, NEW n \in Profiles, NEW uid \in DeviceUIDs, RegisterAccount(w, p, n, uid)
          PROVE  Inv'
      BY <2>1, RegisterAccountInv
    <2>2. CASE \/ \E p \in Passwords, uid \in DeviceUIDs : VerifyPassword(w, p, uid)
               \/ \E uid \in DeviceUIDs : LoadByEmail(w, uid)
               \/ \E p, q \in Passwords : LoadForPassword(w, p, q)
      BY <2>2, LoadInv
    <2>3. ASSUME NEW n \in Profiles, CallbackGoogle(w, n) PROVE Inv'
      BY <2>3, CallbackGoogleInv
    <2>4. ASSUME NEW t \in 1 .. Len(issued), LoadForRefresh(w, t) PROVE Inv'
      BY <2>4, LoadForRefreshInv
    <2>5. CASE ListByAccountID(w) \/ \E t \in 1 .. Len(issued) : LoadForLogout(w, t)
      BY <2>5, LoadToRevokeInv
    <2>6. CASE Login(w)
      BY <2>6, LoginInv
    <2>7. CASE Refresh(w)
      BY <2>7, RefreshInv
    <2>8. CASE Logout(w)
      BY <2>8, LogoutInv
    <2>9. CASE LogoutAll(w)
      BY <2>9, LogoutAllInv
    <2>10. CASE SaveAndList(w)
      BY <2>10, SaveAndListInv
    <2>11. CASE ChangePasswordCommit(w)
      BY <2>11, ChangePasswordInv
    <2> QED BY <1>1, <2>1, <2>2, <2>3, <2>4, <2>5, <2>6, <2>7, <2>8, <2>9, <2>10, <2>11 DEF SessionStep
  <1>2. ASSUME NEW s \in SessionIds, SessionExpires(s) PROVE Inv'
    BY <1>2, SessionExpiresInv
  <1>3. CASE AccountStep /\ UNCHANGED sessionVars
    <2>1. ASSUME NEW w \in Workers, ProfileStep(w) PROVE Inv'
      BY <1>3, <2>1, LoadForProfileInv, SaveProfileInv DEF ProfileStep
    <2>2. ASSUME NEW w \in Workers, EmailStep(w) PROVE Inv'
      BY <1>3, <2>2, LoadForVerifyInv, SendVerificationEmailInv, RequestEmailVerificationInv,
         GetVerificationTokenInv, ConsumeVerificationTokenInv, SaveVerifiedInv DEF EmailStep
    <2>3. ASSUME NEW w \in Workers, syncCacheAfterCommit(w) \/ LoseHook(w) PROVE Inv'
      BY <1>3, <2>3, HookInv
    <2>4. ASSUME NEW w \in Workers, Fail(w) PROVE Inv'
      BY <1>3, <2>4, FailInv
    <2>5. CASE CacheExpires \/ GetAccountByID \/ WarmCache \/ \E l \in links : LinkExpires(l)
      BY <1>3, <2>5, CacheStepInv
    <2>6. CASE SkipEvent \/ FetchAccount \/ SyncAccount \/ ProjectionFails
      BY <1>3, <2>6, ProjectorStepInv
    <2> QED BY <1>3, <2>1, <2>2, <2>3, <2>4, <2>5, <2>6 DEF AccountStep
  <1>4. CASE UNCHANGED vars
    <2>1. UNCHANGED << log, cache, links, sent, job, projection, blurred, sessionVars >>
      BY <1>4 DEF vars, accountVars
    <2>2. Version' = Version
      BY <2>1 DEF Version
    <2>3. RangeInv' /\ CacheIsExplained' /\ ProjectorInv'
      BY <2>1, <2>2, RangeKept DEF Inv, AccountPart, CacheIsExplained, ProjectorInv, projection, Searchable
    <2> QED BY <2>1, <2>3, ReaderStep
  <1> QED BY <1>1, <1>2, <1>3, <1>4 DEF Next

LEMMA Invariant == Spec => []Inv
  BY InitInv, NextInv, PTL DEF Spec

\* However the requests of an account interleave, its address is verified once, no save
\* undoes what another one did, and a cached copy or a search document that is behind the
\* row has one of the known causes.
THEOREM AccountsStaySound == Spec => []AccountIsSound
  <1>1. Inv => AccountIsSound
    <2> SUFFICES ASSUME Inv PROVE AccountIsSound
      OBVIOUS
    <2>1. AccountTypeOK
      BY DEF Inv, AccountPart, LogInv, RangeInv, JobInv, AccountTypeOK
    <2>2. VerifiedOnce
      <3> DEFINE V == { v \in 1 .. Version : log[v].kind = "verified" }
      <3>1. \A u, v \in V : u = v
        BY DEF Inv, AccountPart, LogInv
      <3> HIDE DEF V
      <3>2. Cardinality(V) <= 1
        <4>1. CASE V = {}
          <5>1. Cardinality(V) = 0
            BY <4>1, FS_EmptySet
          <5> QED BY <5>1
        <4>2. CASE V # {}
          <5>1. PICK v \in V : TRUE
            BY <4>2
          <5>2. V = {v}
            BY <3>1, <5>1
          <5>3. Cardinality({v}) = 1
            BY FS_Singleton
          <5> QED BY <5>2, <5>3
        <4> QED BY <4>1, <4>2
      <3> QED BY <3>2 DEF VerifiedOnce, V
    <2>3. IndexIsExplained
      <3>1. Version \in Nat /\ RangeInv /\ ProjectorInv
        BY LogTypes DEF Inv, AccountPart
      <3> QED BY <3>1 DEF RangeInv, ProjectorInv, IndexIsExplained
    <2> QED BY <2>1, <2>2, <2>3 DEF Inv, AccountPart, LogInv, AccountIsSound
  <1> QED BY <1>1, Invariant, PTL

\* A refresh token is good for one refresh, unless its session was written between the
\* check and the refresh.
THEOREM SessionsStaySound == Spec => []SessionsAreSound
  <1>1. Inv => SessionsAreSound
    <2> SUFFICES ASSUME Inv PROVE SessionsAreSound
      OBVIOUS
    <2>1. AccountTypeOK
      BY DEF Inv, AccountPart, LogInv, RangeInv, JobInv, AccountTypeOK
    <2> QED BY <2>1 DEF Inv, SessionPart, RowsInv, SessionTypeOK, SessionsAreSound
  <1> QED BY <1>1, Invariant, PTL

\* A session that can be refreshed was opened with the present password and not revoked
\* since, except after the races of refreshHandler and loginHandler with a revocation,
\* which are the only way around it.
THEOREM ActiveSessionsAreEarned == Spec => []ActiveIsEarned
  <1>1. Inv => ActiveIsEarned
    BY DEF Inv, SessionPart
  <1> QED BY <1>1, Invariant, PTL

=============================================================================
