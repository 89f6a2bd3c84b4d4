------------------------------ MODULE Database ------------------------------
(***************************************************************************)
(* The clients of a database that is backed up: Connections with           *)
(* SqliteDatabase::backupTo() (Backup), which any of them may call, inside *)
(* a transaction of its own or outside, while the others go on.            *)
(***************************************************************************)
EXTENDS Connections

CONSTANTS
    NoClient,
    Chunks, MaxBusy, Torn, NoFile   \* those of Backup

ASSUME NoClientAssumption == NoClient \notin Clients
ASSUME BackupAssumption ==
    /\ Chunks \in Nat \ {0} /\ MaxBusy \in Nat
    /\ Torn \notin Nat /\ NoFile \notin Nat /\ Torn # NoFile

VARIABLES
    caller,        \* the client that is inside backupTo()
    destination, temporary, pc, copied, from, busyAttempts, began, outcome

copyVars == <<destination, temporary, pc, copied, from, busyAttempts, began, outcome>>
allVars == <<vars, caller, copyVars>>

(* backupTo() on the connection of client c copies what its statements     *)
(* would find.                                                             *)
Copy(c) == INSTANCE Backup WITH source <- Finds(c)

DatabaseInit ==
    /\ Init
    /\ caller = NoClient
    /\ \A c \in Clients : Copy(c)!Init

(* A client that is inside backupTo() does nothing else. *)
ClientStep(c) ==
    /\ caller # c
    /\ Step(c)
    /\ UNCHANGED <<caller, copyVars>>

CallBackup(c) ==
    /\ c \in workload.savers
    /\ caller = NoClient
    /\ scope[c] # "unwinding"
    /\ UNCHANGED vars
    /\ Copy(c)!Call
    /\ caller' = IF pc' = "returned" THEN NoClient ELSE c

(* A connection that is writing is not copied from: SQLITE_BUSY every time. *)
MayCopy(c) == tx[c].mode # "writing"

BackupStep(c) ==
    /\ caller = c
    /\ UNCHANGED vars
    /\ (MayCopy(c) /\ Copy(c)!StepCopies) \/ Copy(c)!GoesOn
    /\ caller' = IF pc' = "returned" THEN NoClient ELSE c

(* The process of a client ends, also inside backupTo(). *)
ProcessEnds(c) ==
    /\ Crash(c)
    /\ IF caller = c THEN Copy(c)!Crash /\ caller' = NoClient
                     ELSE UNCHANGED <<caller, copyVars>>

DatabaseNext ==
    \E c \in Clients :
        ClientStep(c) \/ CallBackup(c) \/ BackupStep(c) \/ ProcessEnds(c)

(* The block that holds a Transaction ends, whatever is called in it; so   *)
(* does a loop that does nothing but wait for SQLite.                      *)
Leaves(c) == caller # c /\ LeaveScope(c) /\ UNCHANGED <<workload, caller, copyVars>>

DatabaseSpec ==
    /\ DatabaseInit /\ [][DatabaseNext]_allVars
    /\ \A c \in Clients : SF_allVars(Leaves(c)) /\ WF_allVars(BackupStep(c))
=============================================================================
