----------------------------- MODULE Connections -----------------------------
(***************************************************************************)
(* The connections to one database file (persistence/sqlite_database.cpp): *)
(* statements, and the RAII class Transaction around them, of several      *)
(* clients, each with a connection of its own.                             *)
(*                                                                         *)
(* SQLite in WAL mode: one connection writes at a time, a transaction      *)
(* reads the commit that its first statement found, and may only begin to  *)
(* write while that one is still the last.                                 *)
(***************************************************************************)
EXTENDS Tables

CONSTANTS
    Clients,
    Workloads,     \* what the clients may be about to do, and a bound on the commits
    Done, Failed   \* what a call returned that returns nothing, or has thrown

ASSUME ClientsAssumption == Clients # {}
ASSUME WorkloadsAssumption ==
    \A w \in Workloads :
        w.calls \subseteq Calls /\ w.savers \subseteq Clients /\ w.commits \in Nat

VARIABLES
    workload,      \* the calls that are made, who backs up, how many commits there may be
    db,            \* what is committed
    commits,       \* how many commits there have been
    scope,         \* each client's Transaction object
    tx,            \* each connection's transaction
    answer         \* what returned last: to whom, from which call, with what

vars == <<workload, db, commits, scope, tx, answer>>

(* "unwinding": an exception is on its way through the object's scope. *)
Scopes == {"none", "open", "unwinding"}

(* "begun" is a deferred transaction without a statement yet; sees is what *)
(* the statements find, of the commit with the number snapshot.            *)
AutoCommit == [mode |-> "auto", sees |-> EmptyDatabase, snapshot |-> 0, wrote |-> FALSE]
Begun == [AutoCommit EXCEPT !.mode = "begun"]
Snapshot(mode) == [mode |-> mode, sees |-> db, snapshot |-> commits, wrote |-> FALSE]

InTransaction(c) == tx[c].mode # "auto"
LockFree == \A c \in Clients : tx[c].mode # "writing"

(* The commit that a statement of this client finds; that of a transaction *)
(* that writes is not one yet.                                             *)
Finds(c) ==
    CASE tx[c].mode = "reading" -> tx[c].snapshot
      [] tx[c].mode = "writing" -> commits + 1
      [] OTHER -> commits

NoAnswer == <<>>                     \* nothing has returned
AnyCall == Call("any", 0, NoRow)     \* one that has thrown
BeginCall == Call("transaction_begin", 0, NoRow)
CommitCall == Call("transaction_commit", 0, NoRow)
RollbackCall == Call("transaction_rollback", 0, NoRow)

Init ==
    /\ workload \in Workloads
    /\ db = EmptyDatabase /\ commits = 0
    /\ scope = [c \in Clients |-> "none"]
    /\ tx = [c \in Clients |-> AutoCommit]
    /\ answer = NoAnswer

Answer(c, call, result) == answer' = <<c, call, result>>
Throw(c) == Answer(c, AnyCall, Failed)

-----------------------------------------------------------------------------
(* Statements *)

(* Outside a transaction: a transaction of its own, which is committed     *)
(* before the last step() of the call returns.                             *)
Autocommit(c, call) ==
    LET effect == Effect(db, call)
    IN  /\ ~InTransaction(c)
        /\ Reads(call) \/ LockFree
        /\ Fits(db, call)
        /\ effect.wrote => commits < workload.commits
        /\ db' = effect.db
        /\ commits' = IF effect.wrote THEN commits + 1 ELSE commits
        /\ Answer(c, call, effect.answer)
        /\ UNCHANGED <<scope, tx>>

(* The connection's transaction as a statement needs it. *)
ForReading(c) == IF tx[c].mode = "begun" THEN Snapshot("reading") ELSE tx[c]
ForWriting(c) == IF tx[c].mode = "begun" THEN Snapshot("writing")
                                         ELSE [tx[c] EXCEPT !.mode = "writing"]

(* SQLITE_BUSY otherwise; SQLITE_BUSY_SNAPSHOT when others have committed. *)
MayWrite(c) ==
    \/ tx[c].mode = "writing"
    \/ LockFree /\ (tx[c].mode = "reading" => tx[c].snapshot = commits)

(* Inside one.  A statement that a constraint refuses is undone alone.     *)
Perform(c, call) ==
    /\ InTransaction(c)
    /\ Reads(call) \/ MayWrite(c)
    /\ LET mine == IF Reads(call) THEN ForReading(c) ELSE ForWriting(c)
           effect == Effect(mine.sees, call)
       IN  /\ Fits(mine.sees, call)
           /\ tx' = [tx EXCEPT ![c] = [mine EXCEPT !.sees = effect.db,
                                                   !.wrote = @ \/ effect.wrote]]
           /\ Answer(c, call, effect.answer)
    /\ UNCHANGED <<db, commits, scope>>

(* step() throws: the lock is taken for longer than the busy timeout, or   *)
(* the disk is full or out of order.  Then SQLite may have rolled back the *)
(* whole transaction.  The exception leaves the object's scope.            *)
Throws(c) ==
    /\ \/ UNCHANGED tx
       \/ tx' = [tx EXCEPT ![c] = AutoCommit]
    /\ scope' = [scope EXCEPT ![c] = IF @ = "open" THEN "unwinding" ELSE @]
    /\ Throw(c)
    /\ UNCHANGED <<db, commits>>

Statement(c) ==
    /\ scope[c] # "unwinding"
    /\ \/ \E call \in workload.calls : Autocommit(c, call) \/ Perform(c, call)
       \/ Throws(c)

-----------------------------------------------------------------------------
(* class Transaction *)

(* The constructor with Mode::Immediate or Mode::Deferred. *)
Begin(c) ==
    /\ scope[c] = "none"
    /\ ~InTransaction(c)
    /\ \/ LockFree /\ tx' = [tx EXCEPT ![c] = Snapshot("writing")]
       \/ tx' = [tx EXCEPT ![c] = Begun]
    /\ scope' = [scope EXCEPT ![c] = "open"]
    /\ Answer(c, BeginCall, Done)
    /\ UNCHANGED <<db, commits>>

(* BEGIN fails: the lock is taken, or there is a transaction already, as   *)
(* when a caller that has one calls another.  There is no object then, and *)
(* nothing has changed.                                                    *)
BeginThrows(c) ==
    /\ scope[c] # "unwinding"
    /\ Throw(c)
    /\ UNCHANGED <<db, commits, scope, tx>>

(* A bug: COMMIT is sent as the destructor sends ROLLBACK. *)
CommitNoThrow(c) ==
    /\ scope[c] = "open"
    /\ tx' = [tx EXCEPT ![c] = AutoCommit]
    /\ scope' = [scope EXCEPT ![c] = "none"]
    /\ Answer(c, CommitCall, Done)
    /\ UNCHANGED <<db, commits>>

(* commit() *)
Commit(c) ==
    /\ scope[c] = "open"
    /\ InTransaction(c)
    /\ tx[c].wrote => commits < workload.commits
    /\ IF tx[c].wrote THEN db' = tx[c].sees /\ commits' = commits + 1
                      ELSE UNCHANGED <<db, commits>>
    /\ tx' = [tx EXCEPT ![c] = AutoCommit]
    /\ scope' = [scope EXCEPT ![c] = "none"]
    /\ Answer(c, CommitCall, Done)

(* A bug: finished_ is set before COMMIT has returned. *)
CommitThrowsFinished(c) ==
    /\ scope[c] = "open"
    /\ \/ UNCHANGED tx
       \/ tx' = [tx EXCEPT ![c] = AutoCommit]
    /\ scope' = [scope EXCEPT ![c] = "none"]
    /\ Throw(c)
    /\ UNCHANGED <<db, commits>>

(* COMMIT fails, with the transaction still there or rolled back: finished_ *)
(* stays unset and the destructor does the rest.                            *)
CommitThrows(c) ==
    /\ scope[c] = "open"
    /\ \/ UNCHANGED tx
       \/ tx' = [tx EXCEPT ![c] = AutoCommit]
    /\ scope' = [scope EXCEPT ![c] = "unwinding"]
    /\ Throw(c)
    /\ UNCHANGED <<db, commits>>

(* ROLLBACK ends the transaction of the connection, if it has one.         *)
EndTransaction(c) == tx' = [tx EXCEPT ![c] = AutoCommit]

(* rollback() *)
Rollback(c) ==
    /\ scope[c] = "open"
    /\ InTransaction(c)
    /\ EndTransaction(c)
    /\ scope' = [scope EXCEPT ![c] = "none"]
    /\ Answer(c, RollbackCall, Done)
    /\ UNCHANGED <<db, commits>>

(* A bug: the destructor leaves it to the connection. *)
DestroyIdly(c) ==
    /\ scope[c] # "none"
    /\ scope' = [scope EXCEPT ![c] = "none"]
    /\ answer' = NoAnswer
    /\ UNCHANGED <<db, commits, tx>>

(* The destructor of an object that is not finished, with executeNoThrow(). *)
Destroy(c) ==
    /\ scope[c] # "none"
    /\ EndTransaction(c)
    /\ scope' = [scope EXCEPT ![c] = "none"]
    /\ answer' = NoAnswer
    /\ UNCHANGED <<db, commits>>

(* The client's process ends, as tests/persistence_crash_writer.cpp does,  *)
(* and opens the database anew.                                            *)
Crash(c) ==
    /\ EndTransaction(c)
    /\ scope' = [scope EXCEPT ![c] = "none"]
    /\ answer' = NoAnswer
    /\ UNCHANGED <<workload, db, commits>>

LeaveScope(c) == Commit(c) \/ CommitThrows(c) \/ Rollback(c) \/ Destroy(c)

Step(c) ==
    /\ Statement(c) \/ Begin(c) \/ BeginThrows(c) \/ LeaveScope(c)
    /\ UNCHANGED workload
=============================================================================
