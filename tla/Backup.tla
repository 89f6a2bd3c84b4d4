------------------------------- MODULE Backup -------------------------------
(***************************************************************************)
(* SqliteDatabase::backupTo() (persistence/sqlite_database.cpp): a copy of *)
(* a database that is being written, made in a temporary file beside the   *)
(* destination and renamed over it.  The database is written by others,    *)
(* and whoever calls this is a client of it: see Database.                 *)
(*                                                                         *)
(* A database is the number of its last commit; a copy is Torn when its    *)
(* pages are not all there or are of more than one commit.                 *)
(***************************************************************************)
EXTENDS Naturals

CONSTANTS
    Chunks,        \* the sqlite3_backup_step() calls that copy every page
    MaxBusy,       \* the attempts that may find the database locked, 500
    Torn, NoFile   \* contents of a file

VARIABLES
    source,        \* the commit that the caller's connection finds
    destination,   \* the file that backupTo() is to write
    temporary,     \* the file it writes first
    pc,            \* where backupTo() is
    copied, from,  \* chunks copied, and the commit that they are of
    busyAttempts,
    began,         \* the commit that was found when backupTo() was called
    outcome        \* how the last call ended

locals == <<copied, from, busyAttempts>>
files == <<destination, temporary>>

Init ==
    /\ destination = NoFile /\ temporary = NoFile
    /\ pc = "returned"
    /\ copied = 0 /\ from = 0 /\ busyAttempts = 0 /\ began = 0
    /\ outcome = "none"

Return(result) ==
    /\ pc' = "returned"
    /\ outcome' = result
    /\ copied' = 0 /\ from' = 0 /\ busyAttempts' = 0
    /\ began' = IF result = "written" THEN began ELSE 0

(* remove() may fail as well; its error is swallowed, and the file stays.  *)
Cleanup(file) == temporary' \in {NoFile, file}

(* An open that fails throws at once, and what it may have created stays.  *)
OpenFails ==
    /\ temporary' \in {NoFile, Torn}
    /\ Return("unopened")

(* sqlite3_backup_init() fails. *)
InitFails ==
    /\ Cleanup(Torn)
    /\ Return("failed")

CopyBegins ==
    /\ temporary' = Torn
    /\ began' = source
    /\ copied' = 0 /\ from' = source /\ busyAttempts' = 0
    /\ outcome' = "none"
    /\ pc' = "step"

(* A temporary file of a name of its own is opened. *)
Call ==
    /\ pc = "returned"
    /\ OpenFails \/ InitFails \/ CopyBegins
    /\ UNCHANGED destination

(* One sqlite3_backup_step().  It begins again when another connection has *)
(* committed since the last one.                                           *)
StepCopies ==
    /\ pc = "step"
    /\ from' = source
    /\ copied' = IF from = source THEN copied + 1 ELSE 1
    /\ pc' = IF copied' = Chunks THEN "finish" ELSE "step"
    /\ UNCHANGED <<files, busyAttempts, began, outcome>>

(* A bug: what was copied is taken for done. *)
StepBusyGoesOn ==
    /\ pc = "step"
    /\ busyAttempts' = busyAttempts + 1
    /\ pc' = IF busyAttempts' > MaxBusy THEN "finish" ELSE "step"
    /\ UNCHANGED <<files, copied, from, began, outcome>>

(* Two more: the last attempt is not the last; the count begins again.     *)
StepBusyOnceMore ==
    /\ pc = "step"
    /\ busyAttempts' = busyAttempts + 1
    /\ pc' = IF busyAttempts > MaxBusy THEN "failed" ELSE "step"
    /\ UNCHANGED <<files, copied, from, began, outcome>>
StepBusyStartsOver ==
    /\ pc = "step"
    /\ busyAttempts' = IF busyAttempts < MaxBusy THEN busyAttempts + 1 ELSE 0
    /\ UNCHANGED <<pc, files, copied, from, began, outcome>>

(* SQLITE_BUSY or SQLITE_LOCKED, and the sleep. *)
StepBusy ==
    /\ pc = "step"
    /\ busyAttempts' = busyAttempts + 1
    /\ pc' = IF busyAttempts' > MaxBusy THEN "failed" ELSE "step"
    /\ UNCHANGED <<files, copied, from, began, outcome>>

(* The copy is committed; sqlite3_backup_finish() and the close succeed. *)
Finish ==
    /\ pc = "finish"
    /\ temporary' = IF copied = Chunks THEN from ELSE Torn
    /\ pc' = "replace"
    /\ UNCHANGED <<destination, locals, began, outcome>>

(* Any other result of a step, or of the finish or the close. *)
CopyFails ==
    /\ pc \in {"step", "finish"}
    /\ pc' = "failed"
    /\ UNCHANGED <<files, locals, began, outcome>>

(* Then, with the file closed, it throws. *)
CopyThrows ==
    /\ pc = "failed"
    /\ Cleanup(temporary)
    /\ Return("failed")
    /\ UNCHANGED destination

(* atomicReplace(). *)
Replace ==
    /\ pc = "replace"
    /\ destination' = temporary
    /\ temporary' = NoFile
    /\ Return("written")

(* atomicReplace() throws: the whole copy is thrown away. *)
ReplaceThrows ==
    /\ pc = "replace"
    /\ Cleanup(temporary)
    /\ Return("failed")
    /\ UNCHANGED destination

(* The process dies.  Its temporary file stays: the next one has another name. *)
Crash ==
    /\ pc # "returned"
    /\ Return("crashed")
    /\ UNCHANGED files

(* What does not read the database. *)
GoesOn ==
    StepBusy \/ Finish \/ CopyFails \/ CopyThrows \/ Replace \/ ReplaceThrows
=============================================================================
