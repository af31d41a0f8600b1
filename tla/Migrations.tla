----------------------------- MODULE Migrations -----------------------------
(***************************************************************************)
(* What a process does to the databases before it serves: several of them   *)
(* start at once, and any of them may die at any step and start again.      *)
(*                                                                          *)
(* PostgreSQL: the versions that are not yet in schema_migrations, read     *)
(* once, are applied in order, each file in a transaction that ends with    *)
(* the insert of its version.  An "already exists" error is passed over,    *)
(* but PostgreSQL has given the transaction up by then, so its next         *)
(* statement fails.                                                         *)
(*                                                                          *)
(* Cassandra: each file is looked up, its statements take effect one by     *)
(* one, "already exists" is passed over, and the file's id is written last. *)
(***************************************************************************)
EXTENDS Integers, Sequences, FiniteSets

CONSTANTS Processes,
          sqlFiles,     \* for each version its statements: "create" or "change"
          cqlFiles,     \* for each Cassandra file, in order, its number of statements
          MaxDeaths     \* bound: processes that die or give up

ASSUME FilesAssumption ==
    /\ sqlFiles \in Seq(Seq({"create", "change"}))
    /\ cqlFiles \in Seq(Nat)
    /\ MaxDeaths \in Nat

Statements == UNION { {v} \X (DOMAIN sqlFiles[v]) : v \in DOMAIN sqlFiles }

VARIABLES
    versions,   \* the rows of schema_migrations, or no table
    effects,    \* how often a statement has taken effect, committed
    cqlDone,    \* statements that took effect in Cassandra
    cqlMarked,  \* ids in the table of Cassandra migrations
    process,    \* where a process is
    deaths      \* number of deaths

migrationVars == << versions, effects, cqlDone, cqlMarked, process, deaths >>

NoTable == {0}
Dead == [at |-> "ensure", applied |-> {}, file |-> 0, stmt |-> 0, aborted |-> FALSE]

MigrationInit ==
    /\ versions = NoTable
    /\ effects = [s \in Statements |-> 0]
    /\ cqlDone = {} /\ cqlMarked = {}
    /\ process = [p \in Processes |-> Dead]
    /\ deaths = 0

Set(p, r) == process' = [process EXCEPT ![p] = r]

\* A transaction has run this statement and has not ended.
Pending(q, s) ==
    process[q].at = "apply" /\ process[q].file = s[1] /\ s[2] < process[q].stmt

-----------------------------------------------------------------------------

\* A process fails or is killed at any step: an open transaction is rolled back, and it
\* starts again.
Dies(p) ==
    /\ process[p].at # "ensure" /\ deaths < MaxDeaths
    /\ deaths' = deaths + 1
    /\ Set(p, Dead)
    /\ UNCHANGED << versions, effects, cqlDone, cqlMarked >>

\* A statement returned an error that is not passed over: roll back and give up.  The
\* process is started again.
RollBack(p) == Set(p, Dead) /\ UNCHANGED << versions, effects >>

\* ensureSchemaMigrations; a table that exists is fine.
ensureSchemaMigrations(p) ==
    /\ process[p].at = "ensure"
    /\ versions' = IF versions = NoTable THEN {} ELSE versions
    /\ Set(p, [Dead EXCEPT !.at = "read"])
    /\ UNCHANGED << effects, cqlDone, cqlMarked, deaths >>

\* getAppliedVersions
getAppliedVersions(p) ==
    /\ process[p].at = "read"
    /\ Set(p, [process[p] EXCEPT !.at = "files", !.applied = versions])
    /\ UNCHANGED << versions, effects, cqlDone, cqlMarked, deaths >>

\* Migrate: begin the transaction of the next file that was not applied when the versions
\* were read.
NextFile(p) ==
    /\ process[p].at = "files"
    /\ LET left == { v \in DOMAIN sqlFiles : v > process[p].file /\ v \notin process[p].applied }
       IN  IF left = {}
           THEN Set(p, [process[p] EXCEPT !.at = "cqlFiles", !.file = 0])
           ELSE Set(p, [process[p] EXCEPT !.at = "apply", !.stmt = 1, !.aborted = FALSE,
                            !.file = CHOOSE v \in left : \A w \in left : v <= w])
    /\ UNCHANGED << versions, effects, cqlDone, cqlMarked, deaths >>

\* applyMigrationFile: one statement.  Two transactions cannot create the same thing: the
\* second waits for the first, and finds it there if that one committed.
ExecStatement(p) ==
    LET s == << process[p].file, process[p].stmt >>
    IN  /\ process[p].at = "apply" /\ s \in Statements
        /\ ~ \E q \in Processes \ {p} : Pending(q, s)
        /\ IF process[p].aborted THEN RollBack(p)
           ELSE /\ Set(p, [process[p] EXCEPT !.stmt = @ + 1,
                              !.aborted = sqlFiles[s[1]][s[2]] = "create" /\ effects[s] > 0])
                /\ UNCHANGED << versions, effects >>
        /\ UNCHANGED << cqlDone, cqlMarked, deaths >>

\* Mutant: the statements are committed before the version is recorded.
CommitWithoutVersion(p) ==
    /\ effects' = [s \in Statements |-> effects[s] + IF s[1] = process[p].file THEN 1 ELSE 0]
    /\ versions' \in {versions, versions \cup {process[p].file}}
    /\ Set(p, [process[p] EXCEPT !.at = "files"])

\* Everything takes effect at once.
Commit(p) ==
    /\ versions' = versions \cup {process[p].file}
    /\ effects' = [s \in Statements |-> effects[s] + IF s[1] = process[p].file THEN 1 ELSE 0]
    /\ Set(p, [process[p] EXCEPT !.at = "files"])

\* The version is inserted, which its primary key allows once, and everything committed.
InsertVersion(p) ==
    /\ process[p].at = "apply" /\ << process[p].file, process[p].stmt >> \notin Statements
    /\ IF process[p].aborted \/ process[p].file \in versions THEN RollBack(p) ELSE Commit(p)
    /\ UNCHANGED << cqlDone, cqlMarked, deaths >>

-----------------------------------------------------------------------------

\* Cassandra's Migrate: the next file, unless its id is in the table by now.
NextCqlFile(p) ==
    /\ process[p].at = "cqlFiles"
    /\ LET f == process[p].file + 1
       IN  Set(p, [process[p] EXCEPT !.file = f, !.stmt = 1,
                      !.at = IF f \notin DOMAIN cqlFiles THEN "ready"
                             ELSE IF f \in cqlMarked THEN "cqlFiles" ELSE "cqlApply"])
    /\ UNCHANGED << versions, effects, cqlDone, cqlMarked, deaths >>

\* A statement, which takes effect at once and may be there already.
ExecCql(p) ==
    /\ process[p].at = "cqlApply" /\ process[p].stmt <= cqlFiles[process[p].file]
    /\ cqlDone' = cqlDone \cup {<< process[p].file, process[p].stmt >>}
    /\ Set(p, [process[p] EXCEPT !.stmt = @ + 1])
    /\ UNCHANGED << versions, effects, cqlMarked, deaths >>

\* The file's id is written.
MarkApplied(p) ==
    /\ process[p].at = "cqlApply" /\ process[p].stmt > cqlFiles[process[p].file]
    /\ cqlMarked' = cqlMarked \cup {process[p].file}
    /\ Set(p, [process[p] EXCEPT !.at = "cqlFiles"])
    /\ UNCHANGED << versions, effects, cqlDone, deaths >>

MigrationStep(p) ==
    \/ ensureSchemaMigrations(p) \/ getAppliedVersions(p)
    \/ NextFile(p) \/ ExecStatement(p) \/ InsertVersion(p)
    \/ NextCqlFile(p) \/ ExecCql(p) \/ MarkApplied(p)

MigrationNext == \E p \in Processes : MigrationStep(p) \/ Dies(p)

\* A process that does not die goes on, and one that has died is started again.
MigrationFairness == \A p \in Processes : WF_migrationVars(MigrationStep(p))

-----------------------------------------------------------------------------
(* Properties *)

MigrationTypeOK ==
    /\ versions = NoTable \/ versions \subseteq DOMAIN sqlFiles
    /\ cqlMarked \subseteq DOMAIN cqlFiles
    /\ deaths \in 0 .. MaxDeaths

\* A recorded version is in force as a whole and once, one that is not recorded not at
\* all, whoever started together and died where.
VersionsAreWhole ==
    \A s \in Statements : effects[s] = IF s[1] \in versions THEN 1 ELSE 0

\* Versions come into force in their order.
VersionsInOrder ==
    \A v \in DOMAIN sqlFiles : v \in versions => 1 .. v \subseteq versions

\* An id in Cassandra's table stands for a file all of whose statements took effect, and
\* a process that goes on has every file of both databases.
MarkedIsDone ==
    \A f \in cqlMarked : \A i \in 1 .. cqlFiles[f] : << f, i >> \in cqlDone
ReadyIsMigrated ==
    \A p \in Processes : process[p].at = "ready" =>
        versions = DOMAIN sqlFiles /\ cqlMarked = DOMAIN cqlFiles

MigrationsAreSound ==
    MigrationTypeOK /\ VersionsAreWhole /\ VersionsInOrder /\ MarkedIsDone /\ ReadyIsMigrated

\* Processes that lose the race for a version start again and get ready: none is stopped
\* for good by what another, or its own earlier life, has left behind.
ProcessesGetReady == <>[](\A p \in Processes : process[p].at = "ready")
=============================================================================
