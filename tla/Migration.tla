----------------------------- MODULE Migration -----------------------------
(***************************************************************************)
(* MigrationRunner::apply() (persistence/migration.cpp) as the gateways    *)
(* run it before they listen: several processes, of the same or of         *)
(* different releases, on the one modelharbor.db of the user.              *)
(*                                                                         *)
(* A statement outside a transaction sees one committed state; a           *)
(* Transaction holds SQLite's write lock from BEGIN IMMEDIATE on and       *)
(* shows nothing to others before COMMIT.  `wal' is the list of committed  *)
(* states that may survive: the last is the current one, and losing power  *)
(* (synchronous = NORMAL) loses some of those after the first.             *)
(***************************************************************************)
EXTENDS Naturals, Sequences, FiniteSets

CONSTANTS
    Runners,      \* gateway processes
    NoRunner,     \* nobody holds the write lock
    Scripts,      \* contents of migrations: a name, an SQL text and its checksum
    Release,      \* Release[r]: the migrations r was built with, from version 1 on
    Rerunnable,   \* the scripts whose SQL does not fail the second time
    Faults        \* the failures this instance allows

FaultKinds == {"busy",        \* the lock is not had within busy_timeout, 5 s
               "io",          \* a statement fails: disk full, I/O error, bad SQL
               "crash",       \* a gateway dies
               "powerLoss"}

ASSUME NoRunnerAssumption == NoRunner \notin Runners
ASSUME ReleaseAssumption == Release \in [Runners -> Seq(Scripts)]
ASSUME MigrationFaultsAssumption == Faults \subseteq FaultKinds

VARIABLES
    wal,        \* the committed states since the last checkpoint, in order
    writer,     \* who holds the write lock
    work,       \* the state inside the writer's transaction
    pc,         \* pc[r]: what r does next
    next,       \* next[r]: the version r's loop has come to
    reason,     \* reason[r]: why r ended, if it failed
    reported    \* reported[r]: the schema version r tells its clients

vars == <<wal, writer, work, pc, next, reason, reported>>

InTransaction == {"script", "record", "version", "commit"}
Looping       == {"pragma", "loop"} \cup InTransaction
Stages        == {"idle", "bootstrap", "read", "report", "serving", "failed"} \cup Looping

Reasons == {"none", "newer", "changed", "disagree", "database"}

(* A state of the database: whether schema_migrations is there, its rows   *)
(* by version, PRAGMA user_version, and the scripts run on it.             *)
EmptyDatabase == [table |-> FALSE, records |-> <<>>, userVersion |-> 0, schema |-> <<>>]

Database == wal[Len(wal)]

Init ==
    /\ wal = <<EmptyDatabase>>
    /\ writer = NoRunner
    /\ work = EmptyDatabase
    /\ pc = [r \in Runners |-> "idle"]
    /\ next = [r \in Runners |-> 1]
    /\ reason = [r \in Runners |-> "none"]
    /\ reported = [r \in Runners |-> 0]

IsPrefix(s, t) == Len(s) <= Len(t) /\ s = SubSeq(t, 1, Len(s))

GoTo(r, stage) == pc' = [pc EXCEPT ![r] = stage]

(* What the process r knew is gone, and so is its transaction. *)
Forget(r) ==
    /\ next' = [next EXCEPT ![r] = 1]
    /\ reported' = [reported EXCEPT ![r] = 0]
    /\ IF writer = r
       THEN writer' = NoRunner /\ work' = EmptyDatabase
       ELSE UNCHANGED <<writer, work>>

(* apply() throws, and main() returns 3; ~Transaction() rolls back. *)
Fail(r, why) ==
    /\ GoTo(r, "failed")
    /\ reason' = [reason EXCEPT ![r] = why]
    /\ Forget(r)
    /\ UNCHANGED wal

---------------------------------------------------------------------------
Launch(r) ==
    /\ pc[r] \in {"idle", "failed"}
    /\ GoTo(r, "bootstrap")
    /\ reason' = [reason EXCEPT ![r] = "none"]
    /\ UNCHANGED <<wal, writer, work, next, reported>>

(* CREATE TABLE IF NOT EXISTS; it takes the lock only to create. *)
Bootstrap(r) ==
    /\ pc[r] = "bootstrap"
    /\ \/ Database.table /\ UNCHANGED wal
       \/ /\ ~Database.table
          /\ writer = NoRunner
          /\ wal' = Append(wal, [Database EXCEPT !.table = TRUE])
    /\ GoTo(r, "read")
    /\ UNCHANGED <<writer, work, next, reason, reported>>

(* A bug: only the number of migrations is looked at. *)
AppliedErrorByCount(rows, release) ==
    IF Cardinality(DOMAIN rows) > Len(release) THEN "newer" ELSE "none"

(* What apply() finds wrong with the rows it has read. *)
AppliedError(rows, release) ==
    LET n == Cardinality(DOMAIN rows)
    IN  IF n > Len(release) THEN "newer"
        ELSE IF rows # SubSeq(release, 1, n) THEN "changed"
        ELSE "none"

(* A bug: the loop begins at the last migration applied. *)
ReadAppliedAgain(r) ==
    LET rows == Database.records
        why == AppliedError(rows, Release[r])
    IN  /\ pc[r] = "read"
        /\ \/ why # "none" /\ Fail(r, why)
           \/ /\ why = "none"
              /\ next' = [next EXCEPT ![r] = Cardinality(DOMAIN rows)]
              /\ GoTo(r, "pragma")
              /\ UNCHANGED <<wal, writer, work, reason, reported>>

(* readApplied(), and the comparison with the release's own migrations. *)
ReadApplied(r) ==
    LET rows == Database.records
        why == AppliedError(rows, Release[r])
    IN  /\ pc[r] = "read"
        /\ \/ why # "none" /\ Fail(r, why)
           \/ /\ why = "none"
              /\ next' = [next EXCEPT ![r] = Cardinality(DOMAIN rows) + 1]
              /\ GoTo(r, "pragma")
              /\ UNCHANGED <<wal, writer, work, reason, reported>>

(* A bug: an off-by-one. *)
CheckUserVersionOfNext(r) ==
    /\ pc[r] = "pragma"
    /\ \/ Database.userVersion # next[r] /\ Fail(r, "disagree")
       \/ /\ Database.userVersion = next[r]
          /\ GoTo(r, "loop")
          /\ UNCHANGED <<wal, writer, work, next, reason, reported>>

(* PRAGMA user_version, a statement of its own, against the rows read before. *)
CheckUserVersion(r) ==
    /\ pc[r] = "pragma"
    /\ \/ Database.userVersion # next[r] - 1 /\ Fail(r, "disagree")
       \/ /\ Database.userVersion = next[r] - 1
          /\ GoTo(r, "loop")
          /\ UNCHANGED <<wal, writer, work, next, reason, reported>>

(* The loop is over. *)
ApplyReturns(r) ==
    /\ pc[r] = "loop"
    /\ next[r] > Len(Release[r])
    /\ GoTo(r, "report")
    /\ UNCHANGED <<wal, writer, work, next, reason, reported>>

(* A bug: BEGIN DEFERRED does not take the lock. *)
BeginDeferred(r) ==
    /\ pc[r] = "loop"
    /\ next[r] <= Len(Release[r])
    /\ writer' = r
    /\ work' = Database
    /\ GoTo(r, "script")
    /\ UNCHANGED <<wal, next, reason, reported>>

(* Transaction transaction(database): BEGIN IMMEDIATE. *)
Begin(r) ==
    /\ pc[r] = "loop"
    /\ next[r] <= Len(Release[r])
    /\ writer = NoRunner
    /\ writer' = r
    /\ work' = Database
    /\ GoTo(r, "script")
    /\ UNCHANGED <<wal, next, reason, reported>>

(* The migration's SQL.  CREATE TABLE fails on a table that is there. *)
RunScript(r) ==
    LET script == Release[r][next[r]]
        done == \E i \in DOMAIN work.schema : work.schema[i] = script
    IN  /\ pc[r] = "script"
        /\ \/ done /\ script \notin Rerunnable /\ Fail(r, "database")
           \/ /\ ~done \/ script \in Rerunnable
              /\ work' = [work EXCEPT !.schema = Append(@, script)]
              /\ GoTo(r, "record")
              /\ UNCHANGED <<wal, writer, next, reason, reported>>

(* Rows with one more, or with one replaced. *)
WithRow(rows, version, script) ==
    [v \in DOMAIN rows \cup {version} |-> IF v = version THEN script ELSE rows[v]]

(* INSERT INTO schema_migrations; `version' is the primary key. *)
Record(r) ==
    /\ pc[r] = "record"
    /\ \/ next[r] \in DOMAIN work.records /\ Fail(r, "database")
       \/ /\ next[r] \notin DOMAIN work.records
          /\ work' = [work EXCEPT !.records = WithRow(@, next[r], Release[r][next[r]])]
          /\ GoTo(r, "version")
          /\ UNCHANGED <<wal, writer, next, reason, reported>>

(* PRAGMA user_version = next, in the same transaction. *)
SetUserVersion(r) ==
    /\ pc[r] = "version"
    /\ work' = [work EXCEPT !.userVersion = next[r]]
    /\ GoTo(r, "commit")
    /\ UNCHANGED <<wal, writer, next, reason, reported>>

(* A bug: the version is not committed. *)
CommitWithoutVersion(r) ==
    /\ pc[r] = "commit"
    /\ wal' = Append(wal, [work EXCEPT !.userVersion = Database.userVersion])
    /\ writer' = NoRunner
    /\ work' = EmptyDatabase
    /\ next' = [next EXCEPT ![r] = @ + 1]
    /\ GoTo(r, "loop")
    /\ UNCHANGED <<reason, reported>>

(* transaction.commit(), and on to the next version. *)
Commit(r) ==
    /\ pc[r] = "commit"
    /\ wal' = Append(wal, work)
    /\ writer' = NoRunner
    /\ work' = EmptyDatabase
    /\ next' = [next EXCEPT ![r] = @ + 1]
    /\ GoTo(r, "loop")
    /\ UNCHANGED <<reason, reported>>

(* currentVersion(): SELECT COALESCE(MAX(version), 0); then main() listens. *)
Report(r) ==
    /\ pc[r] = "report"
    /\ \E v \in DOMAIN Database.records \cup {0} :
          /\ \A w \in DOMAIN Database.records : w <= v
          /\ reported' = [reported EXCEPT ![r] = v]
    /\ GoTo(r, "serving")
    /\ UNCHANGED <<wal, writer, work, next, reason>>

Exit(r) ==
    /\ pc[r] = "serving"
    /\ GoTo(r, "idle")
    /\ Forget(r)
    /\ UNCHANGED <<wal, reason>>

---------------------------------------------------------------------------
(* Failures. *)

(* A statement fails; BEGIN and CREATE do when the lock is not had in time. *)
StatementFails(r) ==
    /\ \/ "io" \in Faults /\ pc[r] \in {"bootstrap", "read", "report"} \cup Looping
       \/ /\ "busy" \in Faults
          /\ writer \notin {r, NoRunner}
          /\ \/ pc[r] = "bootstrap" /\ ~Database.table
             \/ pc[r] = "loop" /\ next[r] <= Len(Release[r])
    /\ Fail(r, "database")

(* A gateway dies; its transaction is rolled back by the next reader. *)
Crash(r) ==
    /\ "crash" \in Faults
    /\ pc[r] \notin {"idle", "failed"}
    /\ GoTo(r, "idle")
    /\ Forget(r)
    /\ UNCHANGED <<wal, reason>>

(* SQLite copies the log to the file, and syncs both, at times of its own. *)
Checkpoint ==
    /\ Len(wal) > 1
    /\ wal' = <<Database>>
    /\ UNCHANGED <<writer, work, pc, next, reason, reported>>

PowerLoss ==
    /\ "powerLoss" \in Faults
    /\ \E n \in 1..Len(wal) : wal' = SubSeq(wal, 1, n)
    /\ writer' = NoRunner
    /\ work' = EmptyDatabase
    /\ pc' = [r \in Runners |-> "idle"]
    /\ next' = [r \in Runners |-> 1]
    /\ reported' = [r \in Runners |-> 0]
    /\ reason' = [r \in Runners |-> "none"]

Apply(r) ==
    \/ Bootstrap(r)
    \/ ReadApplied(r)
    \/ CheckUserVersion(r)
    \/ ApplyReturns(r)
    \/ Begin(r)
    \/ RunScript(r)
    \/ Record(r)
    \/ SetUserVersion(r)
    \/ Commit(r)
    \/ Report(r)

Next ==
    \/ \E r \in Runners : Launch(r) \/ Apply(r) \/ Exit(r) \/ StatementFails(r) \/ Crash(r)
    \/ Checkpoint
    \/ PowerLoss

Spec == Init /\ [][Next]_vars

(* A process that runs goes on; nothing is assumed of launches and faults. *)
FairSpec == Spec /\ \A r \in Runners : WF_vars(Apply(r))
=============================================================================
