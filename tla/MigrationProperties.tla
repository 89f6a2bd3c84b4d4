------------------------ MODULE MigrationProperties ------------------------
(***************************************************************************)
(* What migrating promises of the database, however many gateways do it.   *)
(***************************************************************************)
EXTENDS Migration

Databases == [table : BOOLEAN, records : Seq(Scripts), userVersion : Nat, schema : Seq(Scripts)]

TypeOK ==
    /\ wal \in Seq(Databases) /\ wal # <<>>
    /\ writer \in Runners \cup {NoRunner}
    /\ work \in Databases
    /\ pc \in [Runners -> Stages]
    /\ next \in [Runners -> Nat \ {0}]
    /\ reason \in [Runners -> Reasons]
    /\ reported \in [Runners -> Nat]

Consistent(d) ==
    /\ d.records = d.schema
    /\ d.userVersion = Len(d.schema)
    /\ d.schema # <<>> => d.table

(* The rows of schema_migrations, PRAGMA user_version and the scripts run  *)
(* on the database tell the same in every committed state that may         *)
(* survive, wherever gateways fail, die or lose power, and whichever       *)
(* migrate at the same time.                                               *)
StoreConsistent == \A i \in DOMAIN wal : Consistent(wal[i])

(* A gateway that got to listening has every migration of its release in   *)
(* the database, and reports a version that is not older, although other   *)
(* gateways, of other releases too, migrated between its statements.       *)
ServesOwnSchema ==
    \A r \in Runners :
        /\ pc[r] \in {"report", "serving"} => IsPrefix(Release[r], Database.schema)
        /\ pc[r] = "serving" => reported[r] \in Len(Release[r])..Len(Database.schema)

(* Committed states change as the abstract store does: by the next         *)
(* migration of one release, never by two releases' migrations mixed,      *)
(* never one skipped or run twice.                                         *)
Store == INSTANCE VersionedStore WITH
            Releases  <- {Release[r] : r \in Runners},
            installed <- Database.schema,
            version   <- Database.userVersion

StoreRefined == Store!Spec

(* Only a power failure takes a migration back: what a commit has returned *)
(* for survives every crash, rollback and other gateway's failure.         *)
OnlyPowerTakesBack ==
    [][PowerLoss \/ IsPrefix(Database.schema, Database'.schema)]_vars

(* From some point on nothing fails and nobody dies. *)
Sound ==
    <>[][~(PowerLoss \/ \E r \in Runners : StatementFails(r) \/ Crash(r))]_vars

(* A gateway that is launched again and again gets its release into the    *)
(* database in the end, unless there is one that is no part of it.  One    *)
(* launch is not enough even where nothing fails: a gateway that loses the *)
(* race for the lock gives up, and if the other is of an older release,    *)
(* the database stays at that.                                             *)
Migrates ==
    Sound => \A r \in Runners :
        []<>(pc[r] = "bootstrap") =>
            <>[](IsPrefix(Release[r], Database.schema) \/ ~IsPrefix(Database.schema, Release[r]))

---------------------------------------------------------------------------
(* What makes the properties above inductive.                              *)

(* One writer; outside its transaction nobody is at a step of one.         *)
WriterInv == \A r \in Runners : writer = r <=> pc[r] \in InTransaction

(* What a runner that is in its loop has behind it is in the database.     *)
LoopInv ==
    \A r \in Runners :
        pc[r] \in Looping =>
            /\ next[r] - 1 <= Len(Release[r])
            /\ IsPrefix(SubSeq(Release[r], 1, next[r] - 1), Database.schema)

(* How far the transaction of r has come.                                  *)
HowFar(r) ==
    LET grown == Append(Database.schema, Release[r][next[r]])
        added == [Database EXCEPT !.schema = grown, !.records = grown]
    IN  /\ next[r] <= Len(Release[r])
        /\ pc[r] = "script" => work = Database
        /\ pc[r] = "record" => work = [Database EXCEPT !.schema = grown]
        /\ pc[r] \in {"version", "commit"} => next[r] = Len(Database.schema) + 1
        /\ pc[r] = "version" => work = added
        /\ pc[r] = "commit" => work = [added EXCEPT !.userVersion = next[r]]

WorkInv == \A r \in Runners : pc[r] \in InTransaction => HowFar(r)

(* What a power failure may leave is what was there before.                *)
WalGrows ==
    \A i, j \in DOMAIN wal : i <= j => IsPrefix(wal[i].schema, wal[j].schema)

(* The table is there when a runner has passed the bootstrap.              *)
TableInv ==
    \A r \in Runners :
        pc[r] \in {"read", "report", "serving"} \cup Looping => Database.table

MigrationInv ==
    TypeOK /\ StoreConsistent /\ WriterInv /\ LoopInv /\ WorkInv /\ WalGrows /\ TableInv
    /\ ServesOwnSchema

---------------------------------------------------------------------------
(* `schema_migrations' and PRAGMA user_version are committed together      *)
(* (ARCHITECTURE.md:206), so that no gateway finds them at odds.  apply()  *)
(* reads them in two statements with no transaction around them, and takes *)
(* a commit of another gateway in between for a damaged database.          *)
NeverDisagree == \A r \in Runners : reason[r] # "disagree"
=============================================================================
