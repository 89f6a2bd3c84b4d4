--------------------------- MODULE AtomicityProofs ---------------------------
(***************************************************************************)
(* The connections implement AtomicStore, for any clients and rows.        *)
(***************************************************************************)
EXTENDS DatabaseProofs

ClosedUnit == [open |-> FALSE, base |-> EmptyDatabase, now |-> EmptyDatabase, wrote |-> FALSE]

OpenUnit(base, now, wrote) == [open |-> TRUE, base |-> base, now |-> now, wrote |-> wrote]

(* The two modules have the same statements. *)
LEMMA SameTables ==
    /\ \A d, call : Atomic!Effect(d, call) = Effect(d, call)
    /\ Atomic!EmptyDatabase = EmptyDatabase
<1>1. Atomic!EmptyDatabase = EmptyDatabase
  BY DEF Atomic!EmptyDatabase, EmptyDatabase
<1> USE DEF Atomic!Returns, Returns, Atomic!Writes, Writes, Atomic!SitesOf, SitesOf,
            Atomic!WithSite, WithSite, Atomic!ForeignKeysOn, ForeignKeysOn
<1>2. \A d : Atomic!NextId(d) = NextId(d)
  BY DEF Atomic!NextId, NextId
<1>3. \A d, data : Atomic!Create(d, data) = Create(d, data)
  BY <1>2 DEF Atomic!Create, Create
<1>4. \A d, id : Atomic!FindById(d, id) = FindById(d, id)
  BY DEF Atomic!FindById, FindById
<1>5. \A d : /\ Atomic!List(d) = List(d)
             /\ Atomic!FindSetting(d) = FindSetting(d)
             /\ Atomic!RemoveSetting(d) = RemoveSetting(d)
  BY DEF Atomic!List, List, Atomic!FindSetting, FindSetting, Atomic!RemoveSetting, RemoveSetting
<1>6. \A d, id, data : Atomic!Update(d, id, data) = Update(d, id, data)
  BY DEF Atomic!Update, Update
<1>7. \A d, id : Atomic!Remove(d, id) = Remove(d, id)
  BY DEF Atomic!Remove, Remove
<1>8. \A d, data : Atomic!Upsert(d, data) = Upsert(d, data)
  BY DEF Atomic!Upsert, Upsert
<1>9. \A d, id : /\ Atomic!AddChannel(d, id) = AddChannel(d, id)
                 /\ Atomic!AddCredential(d, id) = AddCredential(d, id)
  BY DEF Atomic!AddChannel, AddChannel, Atomic!AddCredential, AddCredential
<1>10. \A d, call : Atomic!Effect(d, call) = Effect(d, call)
  BY <1>3, <1>4, <1>5, <1>6, <1>7, <1>8, <1>9 DEF Atomic!Effect, Effect
<1>. QED
  BY <1>1, <1>10

(* The transaction object is not needed to tell what a connection has.     *)
LEMMA UnitByMode ==
    ASSUME ClientInv, NEW c \in Clients
    PROVE  Unit(c) = IF tx[c].mode \in {"auto", "begun"} THEN ClosedUnit
                     ELSE OpenUnit(IF tx[c].mode = "writing" THEN db ELSE tx[c].sees,
                                   tx[c].sees, tx[c].wrote)
BY DEF Unit, ClosedUnit, OpenUnit, ClientInv, NoTransactionLeft, InTransaction

LEMMA UnitByModeNext ==
    ASSUME ClientInv', NEW c \in Clients
    PROVE  Unit(c)' = IF tx'[c].mode \in {"auto", "begun"} THEN ClosedUnit
                      ELSE OpenUnit(IF tx'[c].mode = "writing" THEN db' ELSE tx'[c].sees,
                                    tx'[c].sees, tx'[c].wrote)
BY DEF Unit, ClosedUnit, OpenUnit, ClientInv, NoTransactionLeft, InTransaction

(* A step of one client leaves the units of the others alone, if none of   *)
(* them is writing when it commits.                                        *)
LEMMA OthersUnits ==
    ASSUME ClientInv, NEW c \in Clients, Kept(c),
           db' = db \/ \A d \in Clients \ {c} : tx[d].mode # "writing"
    PROVE  /\ \A u : Unit(c)' = u => Units' = [Units EXCEPT ![c] = u]
           /\ Unit(c)' = Unit(c) => Units' = Units
<1>1. \A d \in Clients \ {c} : Unit(d)' = Unit(d)
  BY UnitByMode, UnitByModeNext DEF Kept
<1>. QED
  BY <1>1 DEF Units

(* A statement with a transaction of its own is a single call.             *)
LEMMA AutocommitSingle ==
    ASSUME ClientInv, NEW c \in Clients, NEW call \in workload.calls, Autocommit(c, call),
           UNCHANGED workload
    PROVE  Atomic!Single(c)
<1>1. Kept(c) /\ call \in Calls
  BY AutocommitInv, WorkloadsAssumption DEF ClientInv, ClientTypeOK
<1> DEFINE effect == Effect(db, call)
<1>2. db' = effect.db /\ answer' = <<c, call, effect.answer>> /\ tx' = tx /\ ~InTransaction(c)
  BY DEF Autocommit, Answer
<1>3. db' = db \/ \A d \in Clients \ {c} : tx[d].mode # "writing"
  <2>1. Sound(db, effect)
    BY <1>1, EffectSound DEF Autocommit, ClientInv, ClientTypeOK
  <2>. QED
    BY <1>2, <2>1, ReadersOnlyRead DEF Autocommit, Sound, LockFree
<1>4. Unit(c) = ClosedUnit /\ Unit(c)' = ClosedUnit
  BY <1>1, <1>2, UnitByMode, UnitByModeNext DEF Kept, InTransaction
<1>5. Units' = Units /\ ~Units[c].open
  <2>1. Units' = Units
    BY <1>1, <1>3, <1>4, OthersUnits
  <2>2. Units[c] = ClosedUnit
    BY <1>4 DEF Units
  <2>. QED
    BY <2>1, <2>2 DEF ClosedUnit
<1>6. call \in Atomic!Asked(c)
  BY <1>1, <1>2 DEF Atomic!Asked, Atomic!NoAnswer
<1>. QED
  BY <1>2, <1>5, <1>6, SameTables DEF Atomic!Single, Atomic!Answer

(* What a statement inside a transaction works on is the client's unit.    *)
LEMMA MineIsUnit ==
    ASSUME ClientInv, NEW c \in Clients, InTransaction(c), NEW call,
           Reads(call) \/ MayWrite(c),
           NEW mine, mine = IF Reads(call) THEN ForReading(c) ELSE ForWriting(c)
    PROVE  /\ mine.mode \in {"reading", "writing"}
           /\ Atomic!UnitOf(c) =
                  OpenUnit(IF mine.mode = "writing" THEN db ELSE mine.sees, mine.sees, mine.wrote)
           /\ mine.mode = "reading" => Reads(call)
<1>1. tx[c] \in Transactions /\ tx[c].mode \in {"begun", "reading", "writing"}
  BY DEF ClientInv, ClientTypeOK, Transactions, InTransaction
<1>2. Units[c] = Unit(c)
  BY DEF Units
<1>3. CASE tx[c].mode = "begun"
  <2>1. mine = Snapshot(IF Reads(call) THEN "reading" ELSE "writing")
    BY <1>3 DEF ForReading, ForWriting
  <2>2. Units[c] = ClosedUnit
    BY <1>2, <1>3, UnitByMode
  <2>3. Atomic!UnitOf(c) = OpenUnit(db, db, FALSE)
    BY <2>2 DEF Atomic!UnitOf, Atomic!Fresh, ClosedUnit, OpenUnit
  <2>4. /\ mine.mode = IF Reads(call) THEN "reading" ELSE "writing"
        /\ mine.sees = db /\ mine.wrote = FALSE
    BY <2>1 DEF Snapshot
  <2>. QED
    BY <2>3, <2>4
<1>4. CASE tx[c].mode # "begun"
  <2>1. mine = IF Reads(call) THEN tx[c] ELSE [tx[c] EXCEPT !.mode = "writing"]
    BY <1>4 DEF ForReading, ForWriting
  <2>2. Atomic!UnitOf(c) = Unit(c) /\ Units[c].open
    BY <1>1, <1>2, <1>4, UnitByMode DEF Atomic!UnitOf, OpenUnit
  <2>3. Unit(c) = OpenUnit(IF tx[c].mode = "writing" THEN db ELSE tx[c].sees,
                           tx[c].sees, tx[c].wrote)
    BY <1>1, <1>4, UnitByMode
  <2>4. /\ mine.sees = tx[c].sees /\ mine.wrote = tx[c].wrote
        /\ mine.mode = IF Reads(call) THEN tx[c].mode ELSE "writing"
    <3>1. CASE Reads(call)
      BY <2>1, <3>1
    <3>2. CASE ~Reads(call)
      <4> DEFINE writing == [tx[c] EXCEPT !.mode = "writing"]
      <4>1. mine = writing
        BY <2>1, <3>2
      <4>2. /\ writing.mode = "writing"
            /\ writing.sees = tx[c].sees /\ writing.wrote = tx[c].wrote
        BY <1>1, ModeType
      <4> HIDE DEF writing
      <4>. QED
        BY <3>2, <4>1, <4>2
    <3>. QED
      BY <3>1, <3>2
  <2>5. tx[c].mode = "reading" /\ ~Reads(call) => tx[c].sees = db
    BY DEF MayWrite, ClientInv, LastCommitSeen
  <2>. QED
    BY <1>1, <1>4, <2>2, <2>3, <2>4, <2>5
<1>. QED
  BY <1>3, <1>4

(* A statement inside a transaction extends the unit.                      *)
LEMMA PerformExtend ==
    ASSUME ClientInv, NEW c \in Clients, NEW call \in workload.calls, Perform(c, call),
           UNCHANGED workload
    PROVE  Atomic!Extend(c)
<1> DEFINE mine == IF Reads(call) THEN ForReading(c) ELSE ForWriting(c)
           effect == Effect(mine.sees, call)
           after == [mine EXCEPT !.sees = effect.db, !.wrote = @ \/ effect.wrote]
<1>1. Kept(c) /\ call \in Calls
  BY PerformInv, WorkloadsAssumption DEF ClientInv, ClientTypeOK
<1>2. /\ tx' = [tx EXCEPT ![c] = after] /\ Fits(mine.sees, call)
      /\ answer' = <<c, call, effect.answer>> /\ db' = db
      /\ InTransaction(c) /\ (Reads(call) \/ MayWrite(c))
  BY DEF Perform, Answer
<1>3. mine \in Transactions /\ tx \in [Clients -> Transactions]
  BY MineType DEF ClientInv, ClientTypeOK
<1>4. /\ mine.mode \in {"reading", "writing"}
      /\ Atomic!UnitOf(c) =
             OpenUnit(IF mine.mode = "writing" THEN db ELSE mine.sees, mine.sees, mine.wrote)
      /\ mine.mode = "reading" => Reads(call)
  BY <1>2, MineIsUnit
<1> HIDE DEF mine
<1>5. Sound(mine.sees, effect)
  BY <1>1, <1>2, <1>3, EffectSound DEF Transactions
<1>6. mine.mode = "reading" => effect.db = mine.sees
  BY <1>4, <1>5, ReadersOnlyRead DEF Sound
<1>7. /\ after.mode = mine.mode /\ after.sees = effect.db
      /\ after.wrote = (mine.wrote \/ effect.wrote)
  BY <1>3 DEF Transactions
<1> HIDE DEF after
<1>8. tx'[c] = after
  BY <1>2, <1>3
<1> DEFINE unit == OpenUnit(IF mine.mode = "writing" THEN db ELSE mine.sees, effect.db,
                            mine.wrote \/ effect.wrote)
<1>9. Unit(c)' = unit
  BY <1>1, <1>2, <1>4, <1>6, <1>7, <1>8, UnitByModeNext DEF Kept
<1>10. Units' = [Units EXCEPT ![c] = unit]
  BY <1>1, <1>2, <1>9, OthersUnits
<1>11. /\ Atomic!UnitOf(c).now = mine.sees /\ Atomic!UnitOf(c).wrote = mine.wrote
       /\ Atomic!UnitOf(c).base = IF mine.mode = "writing" THEN db ELSE mine.sees
  BY <1>4 DEF OpenUnit
<1>12. call \in Atomic!Asked(c)
  BY <1>1, <1>2 DEF Atomic!Asked, Atomic!NoAnswer
<1> HIDE DEF effect
<1>13. Atomic!Effect(Atomic!UnitOf(c).now, call) = effect
  BY <1>11, SameTables DEF effect
<1>. QED
  BY <1>2, <1>10, <1>11, <1>12, <1>13 DEF Atomic!Extend, Atomic!Answer, OpenUnit

(* BEGIN opens a unit at once, or when it begins to look.                  *)
LEMMA BeginOpen ==
    ASSUME ClientInv, NEW c \in Clients, Begin(c), UNCHANGED workload
    PROVE  Atomic!Open(c)
<1>1. Kept(c) /\ tx \in [Clients -> Transactions]
  BY BeginInv DEF ClientInv, ClientTypeOK
<1>2. /\ db' = db /\ answer' = <<c, BeginCall, Done>> /\ ~InTransaction(c)
      /\ tx'[c] = Snapshot("writing") \/ tx'[c] = Begun
  BY <1>1 DEF Begin, Answer
<1>3. Unit(c) = ClosedUnit
  BY <1>2, UnitByMode DEF InTransaction
<1>4. Units[c] = ClosedUnit
  BY <1>3 DEF Units
<1>5. Unit(c)' = ClosedUnit \/ Unit(c)' = OpenUnit(db, db, FALSE)
  <2>1. CASE tx'[c] = Snapshot("writing")
    <3>1. /\ tx'[c].mode = "writing" /\ tx'[c].sees = db /\ tx'[c].wrote = FALSE
      BY <2>1 DEF Snapshot
    <3>. QED
      BY <1>1, <1>2, <3>1, UnitByModeNext DEF Kept
  <2>2. CASE tx'[c] = Begun
    <3>1. tx'[c].mode = "begun"
      BY <2>2, AutoCommitType, ModeType DEF Begun
    <3>. QED
      BY <1>1, <3>1, UnitByModeNext DEF Kept
  <2>. QED
    BY <1>2, <2>1, <2>2
<1>6. Units' = Units \/ Units' = [Units EXCEPT ![c] = OpenUnit(db, db, FALSE)]
  BY <1>1, <1>2, <1>3, <1>5, OthersUnits
<1>. QED
  BY <1>2, <1>4, <1>6
     DEF Atomic!Open, Atomic!Answer, Atomic!Fresh, Atomic!Begun, Atomic!Call, BeginCall, Call,
         OpenUnit, ClosedUnit

(* COMMIT closes the unit and puts it in the store.                        *)
LEMMA CommitClose ==
    ASSUME ClientInv, NEW c \in Clients, Commit(c), UNCHANGED workload
    PROVE  Atomic!Close(c)
<1>1. Kept(c) /\ tx \in [Clients -> Transactions]
  BY CommitInv DEF ClientInv, ClientTypeOK
<1>2. /\ answer' = <<c, CommitCall, Done>> /\ tx'[c] = AutoCommit /\ InTransaction(c)
      /\ db' = IF tx[c].wrote THEN tx[c].sees ELSE db
  BY <1>1 DEF Commit, Answer
<1>3. tx[c].wrote => \A d \in Clients \ {c} : tx[d].mode # "writing"
  BY DEF ClientInv, WriterIsLast
<1>4. tx'[c].mode = "auto"
  BY <1>2 DEF AutoCommit
<1>5. Unit(c)' = ClosedUnit
  BY <1>1, <1>4, UnitByModeNext DEF Kept
<1>6. Units' = [Units EXCEPT ![c] = ClosedUnit]
  BY <1>1, <1>2, <1>3, <1>5, OthersUnits
<1>7. CASE tx[c].mode = "begun"
  <2>1. Units[c] = ClosedUnit
    BY <1>7, UnitByMode DEF Units
  <2>2. Atomic!UnitOf(c).wrote = FALSE /\ tx[c].wrote = FALSE
    BY <1>1, <1>7, <2>1
       DEF Atomic!UnitOf, Atomic!Fresh, ClosedUnit, ClientInv, WriterIsLast, Transactions
  <2>. QED
    BY <1>2, <1>6, <2>2, SameTables
       DEF Atomic!Close, Atomic!Answer, Atomic!Committed, Atomic!Call, CommitCall, Call,
           Atomic!NoUnit, ClosedUnit
<1>8. CASE tx[c].mode # "begun"
  <2>1. Units[c] = OpenUnit(IF tx[c].mode = "writing" THEN db ELSE tx[c].sees,
                            tx[c].sees, tx[c].wrote)
    BY <1>1, <1>2, <1>8, UnitByMode DEF Units, InTransaction, Transactions
  <2>2. /\ Atomic!UnitOf(c).wrote = tx[c].wrote /\ Atomic!UnitOf(c).now = tx[c].sees
        /\ tx[c].wrote => Atomic!UnitOf(c).base = db
    BY <2>1 DEF Atomic!UnitOf, OpenUnit, ClientInv, WriterIsLast
  <2>. QED
    BY <1>2, <1>6, <2>2, SameTables
       DEF Atomic!Close, Atomic!Answer, Atomic!Committed, Atomic!Call, CommitCall, Call,
           Atomic!NoUnit, ClosedUnit
<1>. QED
  BY <1>7, <1>8

(* A transaction that ends without COMMIT, or stays.                       *)
LEMMA EndUnits ==
    ASSUME ClientInv, NEW c \in Clients, Kept(c), db' = db,
           \/ tx' = tx
           \/ tx' = [tx EXCEPT ![c] = AutoCommit]
    PROVE  Units' = Units \/ Units' = [Units EXCEPT ![c] = ClosedUnit]
<1>1. tx \in [Clients -> Transactions]
  BY DEF ClientInv, ClientTypeOK
<1>2. CASE tx' = tx
  <2>1. Unit(c)' = Unit(c)
    BY <1>2, UnitByMode, UnitByModeNext DEF Kept
  <2>. QED
    BY <2>1, OthersUnits
<1>3. CASE tx' = [tx EXCEPT ![c] = AutoCommit]
  <2>1. tx'[c].mode = "auto"
    BY <1>1, <1>3 DEF AutoCommit
  <2>2. Unit(c)' = ClosedUnit
    BY <2>1, UnitByModeNext DEF Kept
  <2>. QED
    BY <2>1, <2>2, OthersUnits
<1>. QED
  BY <1>2, <1>3

(* Every step of a client is one of AtomicStore.                           *)
LEMMA ClientStepAtomic ==
    ASSUME ClientInv, NEW c \in Clients, Step(c) \/ Crash(c)
    PROVE  Atomic!Next
<1>1. Kept(c) /\ workload' = workload /\ tx \in [Clients -> Transactions]
  BY ClientStepInv DEF Step, Crash, ClientInv, ClientTypeOK
<1>2. ClosedUnit = Atomic!NoUnit
  BY SameTables DEF ClosedUnit, Atomic!NoUnit
<1>3. AnyCall = Atomic!AnyCall /\ RollbackCall = Atomic!RolledBack /\ NoAnswer = Atomic!NoAnswer
  BY DEF AnyCall, Atomic!AnyCall, Call, Atomic!Call, RollbackCall, Atomic!RolledBack,
         NoAnswer, Atomic!NoAnswer
<1>4. CASE \E call \in workload.calls : Autocommit(c, call)
  BY <1>1, <1>4, AutocommitSingle DEF Atomic!Next
<1>5. CASE \E call \in workload.calls : Perform(c, call)
  BY <1>1, <1>5, PerformExtend DEF Atomic!Next
<1>6. CASE Throws(c) \/ BeginThrows(c) \/ CommitThrows(c)
  <2>1. /\ answer' = <<c, AnyCall, Failed>> /\ db' = db
        /\ tx' = tx \/ tx' = [tx EXCEPT ![c] = AutoCommit]
    BY <1>6 DEF Throws, BeginThrows, CommitThrows, Throw, Answer
  <2>2. Units' = Units \/ Units' = [Units EXCEPT ![c] = Atomic!NoUnit]
    BY <1>1, <1>2, <2>1, EndUnits
  <2>3. Atomic!Fail(c)
    BY <1>3, <2>1, <2>2 DEF Atomic!Fail, Atomic!Answer
  <2>. QED
    BY <2>3 DEF Atomic!Next
<1>7. CASE Begin(c)
  BY <1>1, <1>7, BeginOpen DEF Atomic!Next
<1>8. CASE Commit(c)
  BY <1>1, <1>8, CommitClose DEF Atomic!Next
<1>9. CASE Rollback(c) \/ Destroy(c) \/ Crash(c)
  <2>1. /\ answer' = <<c, RollbackCall, Done>> \/ answer' = NoAnswer
        /\ db' = db /\ tx' = [tx EXCEPT ![c] = AutoCommit]
    BY <1>9 DEF Rollback, Destroy, Crash, EndTransaction, Answer
  <2>2. tx'[c].mode = "auto"
    BY <1>1, <2>1 DEF AutoCommit
  <2>3. Unit(c)' = ClosedUnit
    BY <1>1, <2>2, UnitByModeNext DEF Kept
  <2>4. Units' = [Units EXCEPT ![c] = Atomic!NoUnit]
    BY <1>1, <1>2, <2>1, <2>3, OthersUnits
  <2>5. Atomic!Abandon(c)
    BY <1>3, <2>1, <2>4 DEF Atomic!Abandon, Atomic!Answer
  <2>. QED
    BY <2>5 DEF Atomic!Next
<1>. QED
  BY <1>4, <1>5, <1>6, <1>7, <1>8, <1>9 DEF Step, Statement, LeaveScope

(* Copying a database does nothing to it.                                  *)
LEMMA NextAtomic ==
    ASSUME ClientInv, [DatabaseNext]_allVars
    PROVE  [Atomic!Next]_<<db, Units, answer>>
<1>1. ASSUME NEW c \in Clients, ClientStep(c) \/ ProcessEnds(c)
      PROVE  Atomic!Next
  BY <1>1, ClientStepAtomic DEF ClientStep, ProcessEnds
<1>2. ASSUME UNCHANGED vars
      PROVE  UNCHANGED <<db, Units, answer>>
  BY <1>2 DEF vars, Units, Unit
<1>3. CASE UNCHANGED vars
  BY <1>2, <1>3
<1>. QED
  BY <1>1, <1>3 DEF DatabaseNext, CallBackup, BackupStep, allVars

LEMMA InitAtomic == DatabaseInit => Atomic!Init
<1> SUFFICES ASSUME DatabaseInit PROVE Atomic!Init
  OBVIOUS
<1>1. /\ db = EmptyDatabase /\ answer = NoAnswer
      /\ \A c \in Clients : tx[c] = AutoCommit
  BY DEF DatabaseInit, Init
<1>2. \A c \in Clients : Unit(c) = ClosedUnit
  BY <1>1 DEF Unit, AutoCommit, ClosedUnit
<1>3. ClosedUnit = Atomic!NoUnit
  BY SameTables DEF ClosedUnit, Atomic!NoUnit
<1>. QED
  BY <1>1, <1>2, <1>3, SameTables DEF Atomic!Init, Units, NoAnswer, Atomic!NoAnswer

(* What docs/DATABASE_SCHEMA.md, section 5, promises of transactions is    *)
(* what the connections do, for any clients, rows and order of steps, with *)
(* failing statements, COMMITs and processes (sqlite_database.cpp, class   *)
(* Transaction).                                                           *)
THEOREM ConnectionsAtomic == DatabaseSpec => StoreAtomic
<1>1. DatabaseInv => ClientInv
  BY DEF DatabaseInv
<1>. QED
  BY <1>1, InitAtomic, NextAtomic, DatabaseCorrect, PTL
     DEF StoreAtomic, Atomic!Spec, DatabaseSpec
=============================================================================
