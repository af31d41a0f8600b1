------------------------------ MODULE Account ------------------------------
(***************************************************************************)
(* One account: its event history and row in the database, the copy in the  *)
(* Redis cache, the document in the search index and the links that verify  *)
(* its e-mail address.                                                      *)
(*                                                                          *)
(* A save writes the row and appends the events in one transaction; the     *)
(* unique index on (aggregate_id, version) refuses a save made from a       *)
(* version that is no longer the last.  The cache is set by a hook after    *)
(* the commit, so hooks may overtake each other.  The projector of the      *)
(* search index reads the account through that cache.                       *)
(*                                                                          *)
(* log[v] is the account after event v, with the event's kind.  Names and   *)
(* avatars are one value, times are left out, and so are bans, which no     *)
(* command makes.                                                           *)
(***************************************************************************)
EXTENDS Integers, Sequences, FiniteSets

CONSTANTS Workers,       \* requests handled at the same time
          Passwords,
          NoPassword,    \* the hash of an account opened by Google matches none
          Profiles,      \* display name, user name and avatar
          MaxVersion,    \* bound: events of the account
          MaxLinks       \* bound: verification mails

ASSUME PasswordAssumption == NoPassword \notin Passwords
ASSUME BoundsAssumption == MaxVersion \in Nat /\ MaxLinks \in Nat

VARIABLES
    log,        \* account_outbox_events; the row is what the last one left
    cache,      \* version of the copy under account:<id>, 0: no key
    links,      \* verification tokens in Redis
    sent,       \* verification tokens made
    job,        \* the command of a worker: what it is at and what it has read
    reading,    \* version that a reader is about to put into the cache, 0: none
    done,       \* events the projector is through with
    fetched,    \* version the projector is about to index, 0: none
    index,      \* version of the document in the search index, 0: none
    blurred,    \* history: an old version was put into the cache, or a hook was lost
    lagging     \* history: the projector missed an event or read an old version

projection == << reading, done, fetched, index, lagging >>
accountVars == << log, cache, links, sent, job, projection, blurred >>

Kinds == {"created", "profile", "requested", "verified", "password"}
Ops == {"register", "google", "login", "refresh", "logout", "logout_all",
        "password", "profile", "verify", "confirm"}

Accounts == [kind : Kinds, password : Passwords \cup {NoPassword}, profile : Profiles,
             verified : BOOLEAN]

Version == Len(log)
Row == log[Version]

Idle == [op |-> "none", pc |-> "idle", arg |-> 0, base |-> 0, read |-> << >>]

Jobs(w) == job[w].op # "none"

AccountTypeOK ==
    /\ log \in Seq(Accounts) /\ Version <= MaxVersion
    /\ cache \in 0 .. Version /\ index \in 0 .. Version /\ done \in 0 .. Version
    /\ reading \in 0 .. Version /\ fetched \in 0 .. Version
    /\ sent \in 0 .. MaxLinks /\ links \subseteq 1 .. sent
    /\ \A w \in Workers :
        /\ job[w].op \in Ops \cup {"none"}
        /\ job[w].base \in 0 .. Version
        /\ job[w].pc \in {"idle", "loaded", "mailed", "got", "listed", "hook"}
    /\ blurred \in BOOLEAN /\ lagging \in BOOLEAN

AccountInit ==
    /\ log = << >>
    /\ cache = 0
    /\ links = {} /\ sent = 0
    /\ job = [w \in Workers |-> Idle]
    /\ reading = 0 /\ done = 0 /\ fetched = 0 /\ index = 0
    /\ blurred = FALSE /\ lagging = FALSE

-----------------------------------------------------------------------------
(* The aggregate: what each event makes of the account. *)

applyAccountCreated(p, n) == [kind |-> "created", password |-> p, profile |-> n, verified |-> FALSE]
applyAccountProfileUpdated(a, n) == [a EXCEPT !.kind = "profile", !.profile = n]
applyAccountEmailVerificationRequested(a) == [a EXCEPT !.kind = "requested"]
applyAccountEmailVerified(a) == [a EXCEPT !.kind = "verified", !.verified = TRUE]
applyAccountPasswordChanged(a, p) == [a EXCEPT !.kind = "password", !.password = p]

Register(p, n) == << applyAccountCreated(p, n) >>

\* A Google account: created, given its picture, verified.
OpenRegister(n) ==
    LET a == applyAccountCreated(NoPassword, n)
        b == applyAccountProfileUpdated(a, n)
    IN  << a, b, applyAccountEmailVerified(b) >>

EnsureEmailVerificationAllowed == ~Row.verified
ConfirmEmailVerified(a) == << applyAccountEmailVerified(a) >>
ChangePassword(a, p) == << applyAccountPasswordChanged(a, p) >>

\* UpdateProfile reports whether there is anything to save.
UpdateProfile(a, n) == IF a.profile = n THEN << >> ELSE << applyAccountProfileUpdated(a, n) >>

-----------------------------------------------------------------------------
(* The repository. *)

IsIdle(w) == job[w] = Idle
IsAt(w, op, pc) == job[w].op = op /\ job[w].pc = pc
Work(w, j) == job' = [job EXCEPT ![w] = j]

\* Load: the events, and a row that has nothing to add to them.
Load(w, op, arg, pc) ==
    Work(w, [op |-> op, pc |-> pc, arg |-> arg, base |-> Version, read |-> << >>])

\* A transaction that holds the row and its next version until it commits.
RowIsLocked(w) == \E x \in Workers \ {w} : IsAt(x, "password", "listed")

\* Mutant: the version is not checked.
SaveUnchecked(w, events) ==
    /\ ~RowIsLocked(w)
    /\ Version + Len(events) <= MaxVersion
    /\ log' = log \o events

\* Save: upsert of the row and insert of the events, numbered from the version
\* that was loaded.
Save(w, events) ==
    /\ ~RowIsLocked(w)
    /\ Version = job[w].base
    /\ Version + Len(events) <= MaxVersion
    /\ log' = log \o events

\* After the commit the hook is still to come.
HookPending(w) == Work(w, [Idle EXCEPT !.op = job[w].op, !.pc = "hook", !.base = Len(log')])

\* syncCacheAfterCommit, with the snapshot that was saved.
syncCacheAfterCommit(w) ==
    /\ job[w].pc = "hook"
    /\ cache' = job[w].base
    /\ blurred' = (job[w].base # Version)
    /\ Work(w, Idle)
    /\ UNCHANGED << log, links, sent, projection >>

\* The process dies, or Redis fails, before the hook has run.
LoseHook(w) ==
    /\ job[w].pc = "hook"
    /\ blurred' = TRUE
    /\ Work(w, Idle)
    /\ UNCHANGED << log, cache, links, sent, projection >>

\* Any error, crash or version conflict before the commit: rolled back.
Fail(w) ==
    /\ Jobs(w) /\ job[w].pc # "hook"
    /\ Work(w, Idle)
    /\ UNCHANGED << log, cache, links, sent, projection, blurred >>

\* The cached copy's time is over.
CacheExpires ==
    /\ cache # 0
    /\ cache' = 0
    /\ blurred' = FALSE
    /\ UNCHANGED << log, links, sent, job, projection >>

-----------------------------------------------------------------------------
(* Profile and e-mail. *)

LoadForProfile(w, n) ==
    /\ IsIdle(w) /\ Version > 0 /\ UpdateProfile(Row, n) # << >>
    /\ Load(w, "profile", n, "loaded")
    /\ UNCHANGED << log, cache, links, sent, projection, blurred >>

SaveProfile(w) ==
    /\ IsAt(w, "profile", "loaded")
    /\ Save(w, UpdateProfile(log[job[w].base], job[w].arg))
    /\ HookPending(w)
    /\ UNCHANGED << cache, links, sent, projection, blurred >>

\* verifyEmailHandler: the account is loaded, a token stored and mailed, then
\* the request is recorded.
LoadForVerify(w) ==
    /\ IsIdle(w) /\ Version > 0 /\ EnsureEmailVerificationAllowed
    /\ Load(w, "verify", 0, "loaded")
    /\ UNCHANGED << log, cache, links, sent, projection, blurred >>

SendVerificationEmail(w) ==
    /\ IsAt(w, "verify", "loaded") /\ sent < MaxLinks
    /\ sent' = sent + 1
    /\ links' = links \cup {sent + 1}
    /\ job' = [job EXCEPT ![w].pc = "mailed"]
    /\ UNCHANGED << log, cache, projection, blurred >>

RequestEmailVerification(w) ==
    /\ IsAt(w, "verify", "mailed")
    /\ Save(w, << applyAccountEmailVerificationRequested(log[job[w].base]) >>)
    /\ HookPending(w)
    /\ UNCHANGED << cache, links, sent, projection, blurred >>

\* ConsumeVerificationToken: Exists and Get, then Delete, which finds the key
\* or not; the account is loaded afterwards.
GetVerificationToken(w, l) ==
    /\ IsIdle(w) /\ l \in links
    /\ Work(w, [Idle EXCEPT !.op = "confirm", !.pc = "got", !.arg = l])
    /\ UNCHANGED << log, cache, links, sent, projection, blurred >>

ConsumeVerificationToken(w) ==
    /\ IsAt(w, "confirm", "got")
    /\ links' = links \ {job[w].arg}
    /\ IF EnsureEmailVerificationAllowed
       THEN Load(w, "confirm", job[w].arg, "loaded")
       ELSE Work(w, Idle)
    /\ UNCHANGED << log, cache, sent, projection, blurred >>

SaveVerified(w) ==
    /\ IsAt(w, "confirm", "loaded")
    /\ Save(w, ConfirmEmailVerified(log[job[w].base]))
    /\ HookPending(w)
    /\ UNCHANGED << cache, links, sent, projection, blurred >>

\* The 15 minutes of a token are over.
LinkExpires(l) ==
    /\ l \in links
    /\ links' = links \ {l}
    /\ UNCHANGED << log, cache, sent, job, projection, blurred >>

-----------------------------------------------------------------------------
(* Readers of the account. *)

\* GetAccountByID for a profile query that misses the cache.
GetAccountByID ==
    /\ reading = 0 /\ cache = 0 /\ Version > 0
    /\ reading' = Version
    /\ UNCHANGED << log, cache, links, sent, job, done, fetched, index, blurred, lagging >>

\* It puts what it read into the cache.
WarmCache ==
    /\ reading # 0
    /\ cache' = reading
    /\ blurred' = (reading # Version)
    /\ reading' = 0
    /\ UNCHANGED << log, links, sent, job, done, fetched, index, lagging >>

\* handleAccountOutboxEvent: the events it acts on.
Projected(kind) == kind # "requested"

SkipEvent ==
    /\ fetched = 0 /\ done < Version /\ ~Projected(log[done + 1].kind)
    /\ done' = done + 1
    /\ UNCHANGED << log, cache, links, sent, job, reading, fetched, index, blurred, lagging >>

\* syncAccount reads the account through the cache.  (A miss warms the cache
\* at once; the copy is as good as the row.)
FetchAccount ==
    /\ fetched = 0 /\ done < Version /\ Projected(log[done + 1].kind)
    /\ fetched' = IF cache = 0 THEN Version ELSE cache
    /\ cache' = IF cache = 0 THEN Version ELSE cache
    /\ lagging' = (cache \notin {0, Version})
    /\ UNCHANGED << log, links, sent, job, reading, done, index, blurred >>

\* SyncAccount writes the document.
SyncAccount ==
    /\ fetched # 0
    /\ index' = fetched
    /\ fetched' = 0
    /\ done' = done + 1
    /\ UNCHANGED << log, cache, links, sent, job, reading, blurred, lagging >>

\* Elasticsearch refuses: the event goes to the dead letters.
ProjectionFails ==
    /\ fetched # 0
    /\ fetched' = 0
    /\ done' = done + 1
    /\ lagging' = TRUE
    /\ UNCHANGED << log, cache, links, sent, job, reading, index, blurred >>

-----------------------------------------------------------------------------

ProfileStep(w) ==
    \/ \E n \in Profiles : LoadForProfile(w, n)
    \/ SaveProfile(w)

EmailStep(w) ==
    \/ LoadForVerify(w) \/ SendVerificationEmail(w) \/ RequestEmailVerification(w)
    \/ \E l \in links : GetVerificationToken(w, l)
    \/ ConsumeVerificationToken(w) \/ SaveVerified(w)

AccountStep ==
    \/ \E w \in Workers :
        \/ ProfileStep(w) \/ EmailStep(w)
        \/ syncCacheAfterCommit(w) \/ LoseHook(w) \/ Fail(w)
    \/ \E l \in links : LinkExpires(l)
    \/ CacheExpires \/ GetAccountByID \/ WarmCache
    \/ SkipEvent \/ FetchAccount \/ SyncAccount \/ ProjectionFails

-----------------------------------------------------------------------------
(* Properties. *)

\* The address is verified once, however many links were mailed and however
\* many requests follow one link: ConsumeVerificationToken reads and deletes the
\* token in two calls, but the version check lets one of the saves through.
VerifiedOnce == Cardinality({ v \in 1 .. Version : log[v].kind = "verified" }) <= 1

\* No event is lost to a save made from an older account: every event changes
\* only what it is about.
NothingIsUndone ==
    \A v \in 2 .. Version :
        LET a == log[v - 1]
            b == log[v]
        IN  /\ b.kind # "password" => b.password = a.password
            /\ b.kind # "profile" => b.profile = a.profile
            /\ b.kind # "verified" => b.verified = a.verified

\* A copy in the cache that is not the row is one whose hook is still to come,
\* was lost, or was overtaken by an older copy.
CacheIsExplained ==
    cache \notin {0, Version} => blurred \/ \E w \in Workers : job[w].pc = "hook" /\ job[w].base = Version

\* Once every event was projected the search document shows the account, unless
\* an event could not be indexed or the last one was projected from a cache that
\* was behind the row: syncAccount ignores the event's content and reads the
\* account again.
Searchable(v) == [log[v] EXCEPT !.kind = "created"]
IndexIsExplained ==
    done = Version /\ index # 0 /\ ~lagging => Searchable(index) = Searchable(Version)

AccountIsSound == AccountTypeOK /\ VerifiedOnce /\ NothingIsUndone /\ CacheIsExplained /\ IndexIsExplained

=============================================================================
