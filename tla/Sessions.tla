------------------------------ MODULE Sessions ------------------------------
(***************************************************************************)
(* Devices and sessions of an account, and the commands that open, refresh  *)
(* and end them.                                                            *)
(*                                                                          *)
(* A refresh or a revocation loads the whole session row without a lock and *)
(* writes the whole row back; transactions run at READ COMMITTED, so each   *)
(* is a step that reads and a step that commits, with anything in between.  *)
(* The session cache is written and, as every load is made in a             *)
(* transaction, never read: it is left out.                                 *)
(***************************************************************************)
EXTENDS Account

CONSTANTS DeviceUIDs,    \* X-Device-UID of the clients
          MaxSessions,   \* bound: sessions opened
          MaxTokens      \* bound: refresh tokens issued

ASSUME SessionBoundsAssumption == MaxSessions \in Nat /\ MaxTokens \in Nat

VARIABLES
    devices,     \* device uids registered with the account
    sessions,    \* the session rows, in the order of their creation
    issued,      \* the session each refresh token was issued for
    used,        \* history: tokens a committed refresh was made with
    late,        \* history: workers whose session row was changed since they read it
    raced        \* history: sessions that a late refresh or login made or kept active

sessionVars == << devices, sessions, issued, used, late, raced >>
vars == << accountVars, sessionVars >>

\* The token of a Google session is stored as it is instead of hashed: no
\* token verifies against it.
Unhashed == 0

SessionIds == 1 .. Len(sessions)

\* The epoch of a session is history: the password changes before its login,
\* or Ended once it was revoked.
Ended == -1

Rows == [status : {"active", "revoked"}, hash : 0 .. MaxTokens, expired : BOOLEAN,
         epoch : Nat \cup {Ended}]

SessionTypeOK ==
    /\ AccountTypeOK
    /\ devices \subseteq DeviceUIDs
    /\ sessions \in Seq(Rows) /\ Len(sessions) <= MaxSessions
    /\ issued \in Seq(SessionIds) /\ Len(issued) <= MaxTokens
    /\ used \subseteq 1 .. Len(issued)
    /\ late \subseteq Workers
    /\ raced \subseteq SessionIds

Init ==
    /\ AccountInit
    /\ devices = {}
    /\ sessions = << >>
    /\ issued = << >>
    /\ used = {} /\ late = {} /\ raced = {}

\* Password changes up to version v.
Epoch(v) == Cardinality({ i \in 1 .. v : log[i].kind = "password" })

-----------------------------------------------------------------------------
(* The session entity. *)

NewSession(hash, epoch) ==
    [status |-> "active", hash |-> hash, expired |-> FALSE, epoch |-> epoch]

\* Mutant: a revoked session may be refreshed.
RefreshUnlessExpired(s) == ~s.expired

\* An expired session is marked so and saved, but the error that follows rolls
\* it back.
EnsureRefreshAllowed(s) == s.status = "active" /\ ~s.expired

Rotate(s, hash) == [s EXCEPT !.hash = hash, !.status = "active", !.expired = FALSE]

Revoke(s) == [s EXCEPT !.status = "revoked", !.epoch = Ended]

-----------------------------------------------------------------------------
(* Opening a session. *)

\* issueAccountTokenPair.
NextToken == Len(issued) + 1

\* Register of a device, as a new row each time: the row of a known uid is
\* looked up by id, is not found, and the insert meets uk_dev_acc_uid.
RegisterDevice(uid) ==
    /\ uid \notin devices
    /\ devices' = devices \cup {uid}

\* The session row, inserted in the transaction of the device.
CreateSession(hash, base) ==
    /\ Len(sessions) < MaxSessions /\ NextToken <= MaxTokens
    /\ sessions' = Append(sessions, NewSession(hash, Epoch(base)))
    /\ issued' = Append(issued, Len(sessions) + 1)
    /\ raced' = IF Epoch(base) # Epoch(Version) THEN raced \cup {Len(sessions) + 1} ELSE raced
    /\ UNCHANGED << used, late >>

\* registerHandler: account, device and session in one transaction; the unique
\* e-mail address makes a second registration fail.
RegisterAccount(w, p, n, uid) ==
    /\ IsIdle(w)
    /\ Version = 0
    /\ Save(w, Register(p, n))
    /\ RegisterDevice(uid)
    /\ CreateSession(NextToken, 0)
    /\ Work(w, [Idle EXCEPT !.op = "register", !.pc = "hook", !.base = 1])
    /\ UNCHANGED << cache, links, sent, projection, blurred >>

\* loginHandler: account and password are checked before the transaction.
VerifyPassword(w, p, uid) ==
    /\ IsIdle(w) /\ Version > 0 /\ Row.password = p
    /\ Load(w, "login", uid, "loaded")
    /\ UNCHANGED << log, cache, links, sent, projection, blurred, sessionVars >>

Login(w) ==
    /\ IsAt(w, "login", "loaded")
    /\ RegisterDevice(job[w].arg)
    /\ CreateSession(NextToken, job[w].base)
    /\ Work(w, Idle)
    /\ UNCHANGED << log, cache, links, sent, projection, blurred >>

\* callbackGoogleHandler, in one transaction: the account is loaded, or
\* opened, or its address verified; the session keeps the bare token.
LoadByEmail(w, uid) ==
    /\ IsIdle(w)
    /\ Load(w, "google", uid, "loaded")
    /\ UNCHANGED << log, cache, links, sent, projection, blurred, sessionVars >>

GoogleEvents(base, n) ==
    IF base = 0 THEN OpenRegister(n)
    ELSE IF log[base].verified THEN << >> ELSE ConfirmEmailVerified(log[base])

CallbackGoogle(w, n) ==
    /\ IsAt(w, "google", "loaded")
    /\ LET events == GoogleEvents(job[w].base, n)
       IN  IF events = << >>
           THEN Work(w, Idle) /\ UNCHANGED log
           ELSE Save(w, events) /\ HookPending(w)
    /\ RegisterDevice(job[w].arg)
    /\ CreateSession(Unhashed, job[w].base)
    /\ UNCHANGED << cache, links, sent, projection, blurred >>

-----------------------------------------------------------------------------
(* Refreshing and ending sessions. *)

\* The row of one session, as it is now.
Only(s) == [x \in {s} |-> sessions[x]]

\* Workers other than w that have read one of the sessions S and not written yet.
Readers(w, S) ==
    { x \in Workers \ {w} : job[x].op = "refresh" /\ DOMAIN job[x].read \subseteq S }

\* Mutant: any token of the session will do.
LoadForRefreshUnverified(w, t) ==
    /\ IsIdle(w)
    /\ EnsureRefreshAllowed(sessions[issued[t]])
    /\ Work(w, [op |-> "refresh", pc |-> "loaded", arg |-> t, base |-> Version,
                read |-> Only(issued[t])])
    /\ late' = late \ {w}
    /\ UNCHANGED << log, cache, links, sent, projection, blurred,
                    devices, sessions, issued, used, raced >>

\* refreshHandler up to the account: the session is loaded, the token verified
\* against its hash.
LoadForRefresh(w, t) ==
    /\ IsIdle(w)
    /\ sessions[issued[t]].hash = t
    /\ EnsureRefreshAllowed(sessions[issued[t]])
    /\ Work(w, [op |-> "refresh", pc |-> "loaded", arg |-> t, base |-> Version,
                read |-> Only(issued[t])])
    /\ late' = late \ {w}
    /\ UNCHANGED << log, cache, links, sent, projection, blurred,
                    devices, sessions, issued, used, raced >>

\* The device is touched, the row it read is rotated and saved.
Refresh(w) ==
    LET s == issued[job[w].arg]
    IN  /\ IsAt(w, "refresh", "loaded") /\ NextToken <= MaxTokens
        /\ sessions' = [sessions EXCEPT ![s] = Rotate(job[w].read[s], NextToken)]
        /\ issued' = Append(issued, s)
        /\ used' = used \cup {job[w].arg}
        /\ late' = (late \cup Readers(w, {s})) \ {w}
        /\ raced' = IF w \in late THEN raced \cup {s} ELSE raced
        /\ Work(w, Idle)
        /\ UNCHANGED << log, cache, links, sent, projection, blurred, devices >>

\* The rows of S, as they were read, are written back revoked.
SaveRevoked(w, S, read) ==
    LET changed == { s \in S : read[s].status # "revoked" }
    IN  /\ sessions' = [s \in SessionIds |-> IF s \in changed THEN Revoke(read[s]) ELSE sessions[s]]
        /\ late' = late \cup Readers(w, changed)

\* logoutHandler with a token: only the claims of the token are checked.
LoadForLogout(w, t) ==
    /\ IsIdle(w)
    /\ sessions[issued[t]].status # "revoked"
    /\ Work(w, [op |-> "logout", pc |-> "loaded", arg |-> t, base |-> Version,
                read |-> Only(issued[t])])
    /\ UNCHANGED << log, cache, links, sent, projection, blurred, sessionVars >>

Logout(w) ==
    LET s == issued[job[w].arg]
    IN  /\ IsAt(w, "logout", "loaded")
        /\ SaveRevoked(w, {s}, job[w].read)
        /\ raced' = raced \ {s}
        /\ Work(w, Idle)
        /\ UNCHANGED << log, cache, links, sent, projection, blurred, devices, issued, used >>

\* logoutHandler without a token: every session of the account.
ListByAccountID(w) ==
    /\ IsIdle(w) /\ Version > 0
    /\ Work(w, [op |-> "logout_all", pc |-> "loaded", arg |-> 0, base |-> Version, read |-> sessions])
    /\ UNCHANGED << log, cache, links, sent, projection, blurred, sessionVars >>

\* A session that was read as revoked and is active again is not written.
LogoutAll(w) ==
    LET S == DOMAIN job[w].read
    IN  /\ IsAt(w, "logout_all", "loaded")
        /\ SaveRevoked(w, S, job[w].read)
        /\ raced' = raced \ { s \in S : job[w].read[s].status # "revoked" }
        /\ Work(w, Idle)
        /\ UNCHANGED << log, cache, links, sent, projection, blurred, devices, issued, used >>

\* changePasswordHandler: the current password is verified before the transaction.
LoadForPassword(w, p, q) ==
    /\ IsIdle(w) /\ Version > 0
    /\ Row.password = p /\ q # p
    /\ Load(w, "password", q, "loaded")
    /\ UNCHANGED << log, cache, links, sent, projection, blurred, sessionVars >>

\* In the transaction the account is saved first, which fails if it is no
\* longer the version that was loaded; then the sessions are listed.
SaveAndList(w) ==
    /\ IsAt(w, "password", "loaded")
    /\ ~RowIsLocked(w) /\ Version = job[w].base /\ Version < MaxVersion
    /\ job' = [job EXCEPT ![w].pc = "listed", ![w].read = sessions]
    /\ UNCHANGED << log, cache, links, sent, projection, blurred, sessionVars >>

\* Sessions opened after the list was made live on.
ChangePasswordCommit(w) ==
    LET S == DOMAIN job[w].read
    IN  /\ IsAt(w, "password", "listed")
        /\ log' = log \o ChangePassword(Row, job[w].arg)
        /\ SaveRevoked(w, S, job[w].read)
        /\ raced' = (raced \ { s \in S : job[w].read[s].status # "revoked" }) \cup (SessionIds \ S)
        /\ HookPending(w)
        /\ UNCHANGED << cache, links, sent, projection, blurred, devices, issued, used >>

\* The refresh token's time is over.
SessionExpires(s) ==
    /\ ~sessions[s].expired
    /\ sessions' = [sessions EXCEPT ![s].expired = TRUE]
    /\ UNCHANGED << accountVars, devices, issued, used, late, raced >>

-----------------------------------------------------------------------------

SessionStep(w) ==
    \/ \E p \in Passwords, n \in Profiles, uid \in DeviceUIDs : RegisterAccount(w, p, n, uid)
    \/ \E p \in Passwords, uid \in DeviceUIDs : VerifyPassword(w, p, uid)
    \/ \E uid \in DeviceUIDs : LoadByEmail(w, uid)
    \/ \E n \in Profiles : CallbackGoogle(w, n)
    \/ \E t \in 1 .. Len(issued) : LoadForRefresh(w, t) \/ LoadForLogout(w, t)
    \/ \E p, q \in Passwords : LoadForPassword(w, p, q)
    \/ Login(w) \/ Refresh(w) \/ Logout(w)
    \/ ListByAccountID(w) \/ LogoutAll(w)
    \/ SaveAndList(w) \/ ChangePasswordCommit(w)

Next ==
    \/ \E w \in Workers : SessionStep(w)
    \/ \E s \in SessionIds : SessionExpires(s)
    \/ AccountStep /\ UNCHANGED sessionVars

Spec == Init /\ [][Next]_vars

-----------------------------------------------------------------------------
(* Properties. *)

\* A session that can be refreshed was opened with the present password and was
\* not revoked since, unless a login or a refresh that had read the old state
\* was overtaken by the revocation: refreshHandler and loginHandler check before
\* they write, and nothing makes the two one step.
ActiveIsEarned ==
    \A s \in SessionIds :
        sessions[s].status = "active" /\ s \notin raced => sessions[s].epoch = Epoch(Version)

\* A refresh token is good for one refresh: a refresh that is under way holds a
\* token nobody has used before, unless somebody changed the session since it
\* was read.
TokensAreSingleUse ==
    \A w \in Workers : job[w].op = "refresh" /\ w \notin late => job[w].arg \notin used

SessionsAreSound == SessionTypeOK /\ TokensAreSingleUse

=============================================================================
