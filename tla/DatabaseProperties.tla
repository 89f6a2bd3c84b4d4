-------------------------- MODULE DatabaseProperties --------------------------
(***************************************************************************)
(* What the clients of the database may rely on.                           *)
(***************************************************************************)
EXTENDS Database

Contents ==
    [sites : UNION {[ids -> Data] : ids \in SUBSET Ids},
     channels : SUBSET Ids, credentials : SUBSET Ids, setting : Data \cup {NoRow}]

Transactions ==
    [mode : {"auto", "begun", "reading", "writing"}, sees : Contents,
     snapshot : Nat, wrote : BOOLEAN]

Files == Nat \cup {Torn, NoFile}

ClientTypeOK ==
    /\ workload \in Workloads
    /\ db \in Contents
    /\ commits \in 0..workload.commits
    /\ scope \in [Clients -> Scopes]
    /\ tx \in [Clients -> Transactions]
    /\ \A c \in Clients : tx[c].snapshot <= commits

CopyTypeOK ==
    /\ caller \in Clients \cup {NoClient}
    /\ caller = NoClient <=> pc = "returned"
    /\ pc \in {"returned", "step", "finish", "replace", "failed"}
    /\ destination \in Files /\ temporary \in Files
    /\ busyAttempts \in 0..(MaxBusy + 1) /\ copied \in 0..Chunks
    /\ from \in Nat /\ began \in Nat

TypeOK == ClientTypeOK /\ CopyTypeOK

(* Without a Transaction object a connection is in no transaction, however *)
(* the object's scope was left and whatever had failed: a transaction that *)
(* stayed behind would keep the lock of the file, and swallow the next     *)
(* statements of a caller that takes them for committed.                   *)
NoTransactionLeft == \A c \in Clients : InTransaction(c) => scope[c] # "none"

(* What refers to a site refers to one that there is, in what is committed *)
(* and in what every transaction sees.  An id is given again after its     *)
(* site was removed, so a reference left behind would come to belong to    *)
(* another site.                                                           *)
Referenced(contents) ==
    contents.channels \cup contents.credentials \subseteq SitesOf(contents)

ReferencesHold == Referenced(db) /\ \A c \in Clients : Referenced(tx[c].sees)

(* The destination holds one commit whole, or what it held before: never a *)
(* part of a copy, never what a transaction has not committed, whichever   *)
(* commits came between the steps and wherever the call failed or the      *)
(* process died; and a backup that was written is not older than what its  *)
(* caller saw when it called.                                              *)
DestinationWhole ==
    /\ destination # Torn
    /\ outcome = "written" => destination \in began..commits

(* At the steps of the copy: what it has is of a commit that there was     *)
(* since the call began, so that what it leaves is as well.                *)
CopyStages ==
    /\ pc # "returned" => outcome = "none"
    /\ pc = "step" =>
          /\ began <= Finds(caller)
          /\ copied < Chunks /\ busyAttempts <= MaxBusy
    /\ pc = "finish" => copied = Chunks /\ from \in began..commits
    /\ pc = "replace" => temporary \in began..commits

(* Who has written still writes; the one that writes has the last commit,  *)
(* and there is no other.                                                  *)
WriterIsLast ==
    \A c \in Clients :
        /\ tx[c].wrote => tx[c].mode = "writing"
        /\ tx[c].mode = "writing" =>
               /\ tx[c].snapshot = commits
               /\ \A d \in Clients : tx[d].mode = "writing" => d = c

(* Who reads the last commit sees what is committed. *)
LastCommitSeen ==
    \A c \in Clients :
        tx[c].mode = "reading" /\ tx[c].snapshot = commits => tx[c].sees = db

(* The inductive invariants of DatabaseProofs, of clients and of a copy.   *)
ClientInv ==
    ClientTypeOK /\ NoTransactionLeft /\ ReferencesHold /\ WriterIsLast /\ LastCommitSeen
CopyInv == CopyTypeOK /\ CopyStages /\ DestinationWhole
DatabaseInv == ClientInv /\ CopyInv

(* Transactions and single calls are atomic, isolated and acknowledged     *)
(* only when they are done: AtomicStore.                                   *)
Unit(c) ==
    IF scope[c] = "none" \/ tx[c].mode \in {"auto", "begun"}
    THEN [open |-> FALSE, base |-> EmptyDatabase, now |-> EmptyDatabase, wrote |-> FALSE]
    ELSE [open |-> TRUE, base |-> IF tx[c].mode = "writing" THEN db ELSE tx[c].sees,
          now |-> tx[c].sees, wrote |-> tx[c].wrote]

Units == [c \in Clients |-> Unit(c)]

Atomic == INSTANCE AtomicStore WITH store <- db, unit <- Units, Requests <- Calls

StoreAtomic == Atomic!Spec

(* A call of backupTo() ends, also when the lock that it waits for is held *)
(* by its own caller: the attempts are counted.                            *)
CallEnds == pc # "returned" ~> pc = "returned"

(* Who holds the lock of the file lets go of it, also a caller that backs  *)
(* the database up inside its transaction.                                 *)
LockReleased == \A c \in Clients : tx[c].mode = "writing" ~> tx[c].mode # "writing"
=============================================================================
