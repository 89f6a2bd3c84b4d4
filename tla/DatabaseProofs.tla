--------------------------- MODULE DatabaseProofs ---------------------------
(***************************************************************************)
(* Theorems about the clients of the database and its backups, for any     *)
(* clients, rows, ids, chunks and whatever the clients are about to do.    *)
(***************************************************************************)
EXTENDS DatabaseProperties, TLAPS

-----------------------------------------------------------------------------
(* Statements.                                                             *)

(* What every call does to a database: it leaves one, it keeps references  *)
(* where they held, and it changes nothing unless it wrote.                *)
Sound(contents, effect) ==
    /\ effect.db \in Contents
    /\ effect.wrote \in BOOLEAN
    /\ ~effect.wrote => effect.db = contents
    /\ Referenced(contents) => Referenced(effect.db)

LEMMA ReturnsSound ==
    ASSUME NEW d \in Contents, NEW result
    PROVE  Sound(d, Returns(d, result))
BY DEF Sound, Returns

(* A table of sites. *)
LEMMA SitesType ==
    ASSUME NEW ids \in SUBSET Ids, NEW sites \in [ids -> Data]
    PROVE  sites \in UNION {[s -> Data] : s \in SUBSET Ids}
OBVIOUS

LEMMA SitesOfType ==
    ASSUME NEW d \in Contents
    PROVE  SitesOf(d) \in SUBSET Ids /\ d.sites \in [SitesOf(d) -> Data]
<1>1. PICK ids \in SUBSET Ids : d.sites \in [ids -> Data]
  BY DEF Contents
<1>. QED
  BY <1>1 DEF SitesOf

LEMMA WithSiteSound ==
    ASSUME NEW d \in Contents, NEW id \in Ids, NEW data \in Data, NEW result
    PROVE  Sound(d, Writes(WithSite(d, id, data), result))
<1> DEFINE ids == SitesOf(d) \cup {id}
           sites == [i \in ids |-> IF i = id THEN data ELSE d.sites[i]]
<1>1. sites \in [ids -> Data] /\ ids \in SUBSET Ids
  BY SitesOfType
<1>2. sites \in UNION {[s -> Data] : s \in SUBSET Ids}
  BY <1>1, SitesType
<1>3. WithSite(d, id, data) = [d EXCEPT !.sites = sites]
  BY DEF WithSite
<1> HIDE DEF sites
<1>4. WithSite(d, id, data) \in Contents
  BY <1>2, <1>3 DEF Contents
<1>5. SitesOf(WithSite(d, id, data)) = ids
  BY <1>1, <1>3 DEF SitesOf, Contents
<1>6. Referenced(d) => Referenced(WithSite(d, id, data))
  BY <1>3, <1>5 DEF Referenced, Contents
<1>. QED
  BY <1>4, <1>6 DEF Sound, Writes

(* A site that is removed takes no channel with it, and leaves no          *)
(* credential that refers to it.                                           *)
LEMMA RemoveSound ==
    ASSUME NEW d \in Contents, NEW id \in Ids
    PROVE  Sound(d, Remove(d, id))
<1>1. CASE id \notin SitesOf(d) \/ id \in d.channels
  <2>1. Remove(d, id) \in {Returns(d, FALSE), Returns(d, Refused)}
    BY <1>1 DEF Remove, ForeignKeysOn
  <2>. QED
    BY <2>1, ReturnsSound
<1>2. CASE id \in SitesOf(d) /\ id \notin d.channels
  <2> DEFINE ids == SitesOf(d) \ {id}
             sites == [i \in ids |-> d.sites[i]]
             after == [d EXCEPT !.sites = sites, !.credentials = @ \ {id}]
  <2>1. Remove(d, id) = Writes(after, TRUE)
    BY <1>2 DEF Remove, ForeignKeysOn
  <2>2. sites \in [ids -> Data] /\ ids \in SUBSET Ids
    BY SitesOfType
  <2>3. sites \in UNION {[s -> Data] : s \in SUBSET Ids}
    BY <2>2, SitesType
  <2> HIDE DEF sites
  <2>4. after \in Contents
    BY <2>3 DEF Contents
  <2>5. SitesOf(after) = ids
    BY <2>2 DEF SitesOf, Contents
  <2>6. after.channels = d.channels /\ after.credentials = d.credentials \ {id}
    BY DEF Contents
  <2>7. Referenced(d) => Referenced(after)
    BY <1>2, <2>5, <2>6 DEF Referenced
  <2> HIDE DEF after
  <2>. QED
    BY <2>1, <2>4, <2>7 DEF Sound, Writes
<1>. QED
  BY <1>1, <1>2

(* The setting; nothing refers to it. *)
LEMMA SettingSound ==
    ASSUME NEW d \in Contents, NEW data \in Data \cup {NoRow}, NEW result
    PROVE  Sound(d, Writes([d EXCEPT !.setting = data], result))
BY DEF Sound, Writes, Contents, Referenced, SitesOf

(* A row that refers to a site needs one that there is. *)
LEMMA ReferrersSound ==
    ASSUME NEW d \in Contents, NEW id \in Ids
    PROVE  Sound(d, AddChannel(d, id)) /\ Sound(d, AddCredential(d, id))
<1>1. CASE id \notin SitesOf(d)
  BY <1>1, ReturnsSound DEF AddChannel, AddCredential, ForeignKeysOn
<1>2. CASE id \in SitesOf(d)
  <2>1. Sound(d, Writes([d EXCEPT !.channels = @ \cup {id}], TRUE))
    BY <1>2 DEF Sound, Writes, Contents, Referenced, SitesOf
  <2>2. Sound(d, Writes([d EXCEPT !.credentials = @ \cup {id}], TRUE))
    BY <1>2 DEF Sound, Writes, Contents, Referenced, SitesOf
  <2>. QED
    BY <1>2, <2>1, <2>2 DEF AddChannel, AddCredential, ForeignKeysOn
<1>. QED
  BY <1>1, <1>2

(* Every call, given that there is an id left. *)
LEMMA EffectSound ==
    ASSUME NEW d \in Contents, NEW call \in Calls, Fits(d, call)
    PROVE  Sound(d, Effect(d, call))
<1>1. CASE call.name = "sites.create"
  <2>1. call.data \in Data /\ NextId(d) \in Ids
    BY <1>1 DEF Calls, Call, Fits
  <2>2. Sound(d, Create(d, call.data))
    BY <2>1, ReturnsSound, WithSiteSound DEF Create
  <2>. QED
    BY <1>1, <2>2 DEF Effect
<1>2. CASE call.name \in {"sites.find_by_id", "sites.list", "app_settings.find"}
  BY <1>2, ReturnsSound DEF Effect, FindById, List, FindSetting
<1>3. CASE call.name = "sites.update"
  <2>1. call.data \in Data /\ call.id \in Ids
    BY <1>3 DEF Calls, Call
  <2>2. Sound(d, Update(d, call.id, call.data))
    BY <2>1, ReturnsSound, WithSiteSound DEF Update
  <2>. QED
    BY <1>3, <2>2 DEF Effect
<1>4. CASE call.name \in {"sites.remove", "channels.insert", "credentials.insert"}
  <2>1. call.id \in Ids
    BY <1>4 DEF Calls, Call
  <2>. QED
    BY <1>4, <2>1, RemoveSound, ReferrersSound DEF Effect
<1>5. CASE call.name = "app_settings.upsert"
  <2>1. call.data \in Data
    BY <1>5 DEF Calls, Call
  <2>. QED
    BY <1>5, <2>1, SettingSound DEF Effect, Upsert
<1>6. CASE call.name = "app_settings.remove"
  BY <1>6, ReturnsSound, SettingSound DEF Effect, RemoveSetting
<1>. QED
  BY <1>1, <1>2, <1>3, <1>4, <1>5, <1>6 DEF Calls, Call

(* A reader writes nothing. *)
LEMMA ReadersOnlyRead ==
    ASSUME NEW d, NEW call, Reads(call)
    PROVE  ~Effect(d, call).wrote
BY DEF Reads, Readers, Effect, FindById, List, FindSetting, Returns

-----------------------------------------------------------------------------
(* The steps of the clients and of the copy.                               *)

LEMMA AutoCommitType == AutoCommit \in Transactions
<1>1. EmptyDatabase.sites \in [{} -> Data]
  BY DEF EmptyDatabase
<1>2. EmptyDatabase \in Contents
  BY <1>1, SitesType DEF EmptyDatabase, Contents
<1>. QED
  BY <1>2 DEF AutoCommit, Transactions

LEMMA ModeType ==
    ASSUME NEW t \in Transactions, NEW m \in {"auto", "begun", "reading", "writing"}
    PROVE  LET u == [t EXCEPT !.mode = m]
           IN  /\ u \in Transactions /\ u.mode = m
               /\ u.sees = t.sees /\ u.snapshot = t.snapshot /\ u.wrote = t.wrote
BY DEF Transactions

LEMMA EmptyReferenced == Referenced(EmptyDatabase)
BY DEF Referenced, EmptyDatabase, SitesOf

(* What a statement inside a transaction works on. *)
LEMMA MineType ==
    ASSUME ClientInv, NEW c \in Clients
    PROVE  \A mine \in {ForReading(c), ForWriting(c)} :
               /\ mine \in Transactions
               /\ mine.snapshot <= commits
               /\ Referenced(mine.sees)
<1> USE DEF ClientInv, ClientTypeOK
<1>1. /\ tx[c] \in Transactions /\ tx[c].snapshot <= commits
      /\ Referenced(tx[c].sees) /\ Referenced(db)
  BY DEF ReferencesHold
<1>2. /\ Snapshot("reading") \in Transactions /\ Snapshot("writing") \in Transactions
      /\ Snapshot("reading").snapshot = commits /\ Snapshot("writing").snapshot = commits
      /\ Snapshot("reading").sees = db /\ Snapshot("writing").sees = db
  BY DEF Snapshot, Transactions
<1> DEFINE writing == [tx[c] EXCEPT !.mode = "writing"]
<1>3. /\ writing \in Transactions
      /\ writing.snapshot = tx[c].snapshot /\ writing.sees = tx[c].sees
  BY <1>1, ModeType
<1>4. ForReading(c) = tx[c] \/ ForReading(c) = Snapshot("reading")
  BY DEF ForReading
<1>5. ForWriting(c) = writing \/ ForWriting(c) = Snapshot("writing")
  BY DEF ForWriting
<1> HIDE DEF writing, ClientInv, ClientTypeOK
<1>6. commits <= commits
  BY DEF ClientInv, ClientTypeOK
<1>7. ForReading(c) \in Transactions /\ ForReading(c).snapshot <= commits
      /\ Referenced(ForReading(c).sees)
  BY <1>1, <1>2, <1>4, <1>6
<1>8. ForWriting(c) \in Transactions /\ ForWriting(c).snapshot <= commits
      /\ Referenced(ForWriting(c).sees)
  BY <1>1, <1>2, <1>3, <1>5, <1>6
<1>. QED
  BY <1>7, <1>8

(* What a client's step keeps, of its own and of the others. *)
Kept(c) == ClientInv' /\ commits' >= commits /\ \A d \in Clients \ {c} : tx'[d] = tx[d]

(* A connection whose transaction ends, and whose object is left or not.   *)
LEMMA EndInv ==
    ASSUME ClientInv, NEW c \in Clients, UNCHANGED <<workload, db, commits>>,
           NEW s \in Scopes, scope' = [scope EXCEPT ![c] = s],
           \/ tx' = tx /\ (scope[c] # "none" => s # "none")
           \/ tx' = [tx EXCEPT ![c] = AutoCommit]
    PROVE  Kept(c)
<1> USE DEF ClientInv, ClientTypeOK
<1>1. /\ \A d \in Clients \ {c} : tx'[d] = tx[d] /\ scope'[d] = scope[d]
      /\ scope'[c] = s
      /\ (tx'[c] = tx[c] /\ (scope[c] # "none" => s # "none")) \/ tx'[c] = AutoCommit
  OBVIOUS
<1>2. ClientTypeOK'
  BY <1>1, AutoCommitType DEF AutoCommit
<1>3. NoTransactionLeft'
  BY <1>1 DEF NoTransactionLeft, InTransaction, AutoCommit
<1>4. ReferencesHold'
  BY <1>1, EmptyReferenced DEF ReferencesHold, AutoCommit
<1>5. WriterIsLast'
  BY <1>1 DEF WriterIsLast, AutoCommit
<1>6. LastCommitSeen'
  BY <1>1 DEF LastCommitSeen, AutoCommit
<1>7. commits' >= commits
  BY WorkloadsAssumption
<1>. QED
  BY <1>1, <1>2, <1>3, <1>4, <1>5, <1>6, <1>7 DEF Kept

(* A statement with a transaction of its own. *)
LEMMA AutocommitInv ==
    ASSUME ClientInv, NEW c \in Clients, NEW call \in workload.calls, Autocommit(c, call),
           UNCHANGED workload
    PROVE  Kept(c)
<1> USE DEF ClientInv, ClientTypeOK
<1> DEFINE effect == Effect(db, call)
<1>1. call \in Calls
  BY WorkloadsAssumption
<1>2. Sound(db, effect)
  BY <1>1, EffectSound DEF Autocommit
<1>3. commits' \in {commits, commits + 1} /\ commits' \in 0..workload.commits
  BY WorkloadsAssumption DEF Autocommit
<1>4. ClientTypeOK'
  BY <1>2, <1>3 DEF Autocommit, Sound, Transactions
<1>5. NoTransactionLeft'
  BY DEF NoTransactionLeft, Autocommit, InTransaction
<1>6. ReferencesHold'
  BY <1>2 DEF ReferencesHold, Autocommit, Sound
<1>7. commits' # commits => LockFree
  BY ReadersOnlyRead DEF Autocommit
<1>8. WriterIsLast'
  BY <1>3, <1>7 DEF WriterIsLast, Autocommit, LockFree
<1>9. LastCommitSeen'
  <2>1. commits' = commits => db' = db
    BY <1>2, <1>3 DEF Autocommit, Sound
  <2>2. \A d \in Clients : tx'[d] = tx[d] /\ tx[d].snapshot <= commits /\ tx[d].snapshot \in Nat
    BY DEF Autocommit, Transactions
  <2>. QED
    BY <1>3, <2>1, <2>2 DEF LastCommitSeen
<1>. QED
  BY <1>3, <1>4, <1>5, <1>6, <1>8, <1>9 DEF Autocommit, Kept

(* A statement inside a transaction. *)
LEMMA PerformInv ==
    ASSUME ClientInv, NEW c \in Clients, NEW call \in workload.calls, Perform(c, call),
           UNCHANGED workload
    PROVE  Kept(c)
<1> USE DEF ClientInv, ClientTypeOK
<1> DEFINE mine == IF Reads(call) THEN ForReading(c) ELSE ForWriting(c)
           effect == Effect(mine.sees, call)
           after == [mine EXCEPT !.sees = effect.db, !.wrote = @ \/ effect.wrote]
<1>1. tx' = [tx EXCEPT ![c] = after] /\ Fits(mine.sees, call)
  BY DEF Perform
<1>2. mine \in Transactions /\ mine.snapshot <= commits /\ Referenced(mine.sees)
  BY MineType
<1>3. call \in Calls
  BY WorkloadsAssumption
<1>4. /\ mine.wrote \/ ~Reads(call) => mine.mode = "writing"
      /\ mine.mode = "writing" => mine.snapshot = commits /\ \A d \in Clients \ {c} : tx[d].mode # "writing"
  BY DEF Perform, MayWrite, LockFree, WriterIsLast, ForReading, ForWriting, Snapshot, Transactions,
         InTransaction
<1>5. mine.mode = "reading" => Reads(call) /\ (mine.snapshot = commits => mine.sees = db)
  BY DEF Perform, LastCommitSeen, ForReading, ForWriting, Snapshot, Transactions, InTransaction
<1> HIDE DEF mine
<1>6. Sound(mine.sees, effect)
  BY <1>1, <1>2, <1>3, EffectSound DEF Transactions
<1>7. effect.wrote => ~Reads(call)
  BY ReadersOnlyRead
<1>8. /\ after \in Transactions /\ after.snapshot = mine.snapshot /\ after.mode = mine.mode
      /\ Referenced(after.sees) /\ (after.wrote => mine.wrote \/ ~Reads(call))
      /\ Reads(call) => after.sees = mine.sees
  BY <1>2, <1>6, <1>7 DEF Transactions, Sound
<1> HIDE DEF after
<1>9. UNCHANGED <<db, commits, scope>>
  BY DEF Perform
<1>10. \A d \in Clients : tx'[d] = IF d = c THEN after ELSE tx[d]
  BY <1>1
<1>11. ClientTypeOK'
  BY <1>1, <1>2, <1>8, <1>9, <1>10
<1>12. NoTransactionLeft'
  BY <1>9, <1>10 DEF NoTransactionLeft, InTransaction, Perform
<1>13. ReferencesHold'
  BY <1>8, <1>9, <1>10 DEF ReferencesHold
<1>14. WriterIsLast'
  BY <1>4, <1>8, <1>9, <1>10 DEF WriterIsLast
<1>15. LastCommitSeen'
  BY <1>8, <1>9, <1>10, <1>5 DEF LastCommitSeen
<1>. QED
  BY <1>9, <1>10, <1>11, <1>12, <1>13, <1>14, <1>15, WorkloadsAssumption DEF Kept

(* BEGIN. *)
LEMMA BeginInv ==
    ASSUME ClientInv, NEW c \in Clients, Begin(c), UNCHANGED workload
    PROVE  Kept(c)
<1> USE DEF ClientInv, ClientTypeOK
<1>1. PICK t \in {Snapshot("writing"), Begun} :
          tx' = [tx EXCEPT ![c] = t] /\ (t = Begun \/ (t = Snapshot("writing") /\ LockFree))
  BY DEF Begin
<1>2. /\ t \in Transactions /\ t.snapshot <= commits /\ Referenced(t.sees)
      /\ ~t.wrote /\ t.mode # "reading"
      /\ t.mode = "writing" => t.snapshot = commits /\ LockFree
  <2>1. CASE t = Snapshot("writing") /\ LockFree
    BY <1>1, <2>1 DEF Snapshot, Transactions, ReferencesHold
  <2>2. CASE t = Begun
    <3>1. AutoCommit.snapshot = 0 /\ Referenced(AutoCommit.sees)
      BY EmptyReferenced DEF AutoCommit
    <3>2. /\ Begun \in Transactions /\ Begun.mode = "begun"
          /\ Begun.sees = AutoCommit.sees /\ Begun.snapshot = AutoCommit.snapshot
          /\ ~Begun.wrote
      BY AutoCommitType, ModeType DEF Begun, AutoCommit
    <3>. QED
      BY <2>2, <3>1, <3>2
  <2>. QED
    BY <1>1, <2>1, <2>2
<1>3. UNCHANGED <<db, commits>> /\ scope' = [scope EXCEPT ![c] = "open"]
  BY DEF Begin
<1>4. \A d \in Clients : tx'[d] = IF d = c THEN t ELSE tx[d]
  BY <1>1
<1>5. ClientTypeOK'
  BY <1>1, <1>2, <1>3, <1>4 DEF Scopes
<1>6. NoTransactionLeft'
  BY <1>3, <1>4 DEF NoTransactionLeft, InTransaction
<1>7. ReferencesHold'
  BY <1>2, <1>3, <1>4 DEF ReferencesHold
<1>8. WriterIsLast'
  BY <1>1, <1>2, <1>3, <1>4 DEF WriterIsLast, LockFree
<1>9. LastCommitSeen'
  BY <1>2, <1>3, <1>4 DEF LastCommitSeen
<1>. QED
  BY <1>3, <1>4, <1>5, <1>6, <1>7, <1>8, <1>9, WorkloadsAssumption DEF Kept

(* COMMIT. *)
LEMMA CommitInv ==
    ASSUME ClientInv, NEW c \in Clients, Commit(c), UNCHANGED workload
    PROVE  Kept(c)
<1> USE DEF ClientInv, ClientTypeOK
<1>1. \A d \in Clients : tx'[d] = IF d = c THEN AutoCommit ELSE tx[d]
  BY DEF Commit
<1>2. commits' \in {commits, commits + 1} /\ commits' \in 0..workload.commits
  BY WorkloadsAssumption DEF Commit
<1>3. db' \in {db, tx[c].sees}
  BY DEF Commit
<1>4. ClientTypeOK'
  BY <1>1, <1>2, <1>3, AutoCommitType DEF Commit, Transactions, Scopes, AutoCommit
<1>5. NoTransactionLeft'
  BY <1>1 DEF NoTransactionLeft, InTransaction, AutoCommit, Commit
<1>6. ReferencesHold'
  BY <1>1, <1>3, EmptyReferenced DEF ReferencesHold, AutoCommit
<1>7. WriterIsLast'
  BY <1>1, <1>2 DEF WriterIsLast, AutoCommit, Commit
<1>8. LastCommitSeen'
  <2>1. commits' = commits => db' = db
    BY DEF Commit
  <2>2. \A d \in Clients : tx[d].snapshot <= commits /\ tx[d].snapshot \in Nat
    BY DEF Transactions
  <2>. QED
    BY <1>1, <1>2, <2>1, <2>2 DEF LastCommitSeen, AutoCommit
<1>. QED
  BY <1>1, <1>2, <1>4, <1>5, <1>6, <1>7, <1>8 DEF Kept

(* A step of a client, and the end of its process. *)
LEMMA ClientStepInv ==
    ASSUME ClientInv, NEW c \in Clients, Step(c) \/ Crash(c)
    PROVE  Kept(c)
<1>1. workload' = workload /\ commits \in Nat
  BY WorkloadsAssumption DEF Step, Crash, ClientInv, ClientTypeOK
<1>2. scope \in [Clients -> Scopes] /\ tx \in [Clients -> Transactions]
  BY DEF ClientInv, ClientTypeOK
<1>3. CASE \E call \in workload.calls : Autocommit(c, call)
  BY <1>1, <1>3, AutocommitInv
<1>4. CASE \E call \in workload.calls : Perform(c, call)
  BY <1>1, <1>4, PerformInv
<1>5. CASE scope[c] # "unwinding" /\ Throws(c)
  <2>1. PICK s \in Scopes : scope' = [scope EXCEPT ![c] = s] /\ (scope[c] # "none" => s # "none")
    BY <1>2, <1>5 DEF Throws, Scopes
  <2>2. tx' = tx \/ tx' = [tx EXCEPT ![c] = AutoCommit]
    BY <1>5 DEF Throws
  <2>3. UNCHANGED <<workload, db, commits>>
    BY <1>1, <1>5 DEF Throws
  <2>. QED
    BY <2>1, <2>2, <2>3, EndInv
<1>6. CASE Begin(c)
  BY <1>1, <1>2, <1>6, BeginInv DEF Begin
<1>7. CASE BeginThrows(c)
  <2>1. UNCHANGED <<workload, db, commits, scope, tx>>
    BY <1>1, <1>7 DEF BeginThrows
  <2>. QED
    BY <1>1, <2>1 DEF ClientInv, ClientTypeOK, NoTransactionLeft, InTransaction,
                      ReferencesHold, WriterIsLast, LastCommitSeen, Kept
<1>8. CASE Commit(c)
  BY <1>1, <1>2, <1>8, CommitInv DEF Commit
<1>9. CASE CommitThrows(c)
  <2>1. "unwinding" \in Scopes /\ scope' = [scope EXCEPT ![c] = "unwinding"]
    BY <1>9 DEF CommitThrows, Scopes
  <2>2. tx' = tx \/ tx' = [tx EXCEPT ![c] = AutoCommit]
    BY <1>9 DEF CommitThrows
  <2>3. UNCHANGED <<workload, db, commits>>
    BY <1>1, <1>9 DEF CommitThrows
  <2>. QED
    BY <2>1, <2>2, <2>3, EndInv
<1>10. CASE Rollback(c) \/ Destroy(c) \/ Crash(c)
  <2>1. /\ "none" \in Scopes /\ scope' = [scope EXCEPT ![c] = "none"]
        /\ tx' = [tx EXCEPT ![c] = AutoCommit] /\ UNCHANGED <<db, commits>>
    BY <1>10 DEF Rollback, Destroy, Crash, EndTransaction, Scopes
  <2>. QED
    BY <1>1, <1>2, <2>1, EndInv
<1>. QED
  BY <1>3, <1>4, <1>5, <1>6, <1>7, <1>8, <1>9, <1>10 DEF Step, Statement, LeaveScope

(* What others do does not disturb a copy: commits are only added. *)
LEMMA CopyUndisturbed ==
    ASSUME ClientInv, CopyInv, ClientInv', commits' >= commits,
           UNCHANGED <<caller, copyVars>>,
           caller # NoClient => tx'[caller] = tx[caller]
    PROVE  CopyInv'
<1> USE DEF CopyInv, copyVars
<1>1. CopyTypeOK'
  BY DEF CopyTypeOK
<1>2. commits \in Nat /\ commits' \in Nat
  BY WorkloadsAssumption DEF ClientInv, ClientTypeOK
<1>3. pc = "step" => Finds(caller)' >= Finds(caller) /\ Finds(caller) \in Nat /\ Finds(caller)' \in Nat
  <2>1. CASE pc = "step"
    <3>1. caller \in Clients /\ tx'[caller] = tx[caller] /\ caller' = caller
      BY <2>1 DEF CopyTypeOK
    <3>2. tx[caller].snapshot \in Nat
      BY <3>1 DEF ClientInv, ClientTypeOK, Transactions
    <3>. QED
      BY <1>2, <3>1, <3>2 DEF Finds
  <2>. QED
    BY <2>1
<1>4. CopyStages'
  BY <1>2, <1>3 DEF CopyStages, CopyTypeOK
<1>5. DestinationWhole'
  BY <1>2 DEF DestinationWhole, CopyTypeOK
<1>. QED
  BY <1>1, <1>4, <1>5

(* Entering backupTo(), or failing to. *)
LEMMA CallInv ==
    ASSUME ClientInv, CopyInv, NEW c \in Clients, CallBackup(c)
    PROVE  CopyInv'
<1> USE BackupAssumption, NoClientAssumption DEF CopyInv, CallBackup, vars, copyVars
<1>1. commits \in Nat /\ Finds(c) \in Nat /\ Finds(c)' = Finds(c)
  BY WorkloadsAssumption DEF ClientInv, ClientTypeOK, Transactions, Finds
<1>2. destination' = destination
  BY DEF Copy!Call
<1>3. CASE Copy(c)!OpenFails \/ Copy(c)!InitFails
  <2>1. /\ temporary' \in {NoFile, Torn} /\ outcome' \in {"unopened", "failed"}
        /\ copied' = 0 /\ from' = 0 /\ busyAttempts' = 0 /\ began' = 0
        /\ pc' = "returned" /\ caller' = NoClient
    BY <1>3 DEF Copy!OpenFails, Copy!InitFails, Copy!Cleanup, Copy!Return
  <2>. QED
    BY <1>2, <2>1 DEF CopyTypeOK, CopyStages, DestinationWhole, Files
<1>4. CASE Copy(c)!CopyBegins
  <2>1. /\ temporary' = Torn /\ outcome' = "none" /\ pc' = "step" /\ caller' = c
        /\ copied' = 0 /\ from' = Finds(c) /\ busyAttempts' = 0 /\ began' = Finds(c)
    BY <1>4 DEF Copy!CopyBegins
  <2>. QED
    BY <1>1, <1>2, <2>1 DEF CopyTypeOK, CopyStages, DestinationWhole, Files
<1>. QED
  BY <1>3, <1>4 DEF Copy!Call

(* The steps of backupTo(). *)
LEMMA BackupStepInv ==
    ASSUME ClientInv, CopyInv, NEW c \in Clients, BackupStep(c)
    PROVE  CopyInv'
<1> USE BackupAssumption, NoClientAssumption DEF CopyInv, vars
<1>1. /\ commits \in Nat /\ Finds(c) \in Nat /\ Finds(c)' = Finds(c) /\ commits' = commits
      /\ MayCopy(c) => Finds(c) <= commits
  BY WorkloadsAssumption
     DEF ClientInv, ClientTypeOK, Transactions, Finds, MayCopy, BackupStep
<1>2. caller = c /\ caller' = IF pc' = "returned" THEN NoClient ELSE c
  BY DEF BackupStep
<1>3. CASE MayCopy(c) /\ Copy(c)!StepCopies
  <2>1. /\ pc = "step" /\ from' = Finds(c)
        /\ copied' = IF from = Finds(c) THEN copied + 1 ELSE 1
        /\ pc' = IF copied' = Chunks THEN "finish" ELSE "step"
        /\ UNCHANGED <<destination, temporary, busyAttempts, began, outcome>>
    BY <1>3 DEF Copy!StepCopies, Copy!files
  <2>. QED
    BY <1>1, <1>2, <1>3, <2>1 DEF CopyTypeOK, CopyStages, DestinationWhole
<1>4. CASE Copy(c)!StepBusy
  <2>1. /\ pc = "step" /\ busyAttempts' = busyAttempts + 1
        /\ pc' = IF busyAttempts' > MaxBusy THEN "failed" ELSE "step"
        /\ UNCHANGED <<destination, temporary, copied, from, began, outcome>>
    BY <1>4 DEF Copy!StepBusy, Copy!files
  <2>. QED
    BY <1>1, <1>2, <2>1 DEF CopyTypeOK, CopyStages, DestinationWhole
<1>5. CASE Copy(c)!Finish
  <2>1. /\ pc = "finish" /\ pc' = "replace"
        /\ temporary' = IF copied = Chunks THEN from ELSE Torn
        /\ UNCHANGED <<destination, copied, from, busyAttempts, began, outcome>>
    BY <1>5 DEF Copy!Finish, Copy!locals
  <2>. QED
    BY <1>1, <1>2, <2>1 DEF CopyTypeOK, CopyStages, DestinationWhole, Files
<1>6. CASE Copy(c)!CopyFails
  <2>1. /\ pc # "returned" /\ pc' = "failed"
        /\ UNCHANGED <<destination, temporary, copied, from, busyAttempts, began, outcome>>
    BY <1>6 DEF Copy!CopyFails, Copy!locals, Copy!files
  <2>. QED
    BY <1>1, <1>2, <2>1 DEF CopyTypeOK, CopyStages, DestinationWhole
<1>7. CASE Copy(c)!Replace
  <2>1. /\ pc = "replace" /\ destination' = temporary /\ temporary' = NoFile
        /\ pc' = "returned" /\ outcome' = "written" /\ began' = began
        /\ copied' = 0 /\ from' = 0 /\ busyAttempts' = 0
    BY <1>7 DEF Copy!Replace, Copy!Return
  <2>. QED
    BY <1>1, <1>2, <2>1 DEF CopyTypeOK, CopyStages, DestinationWhole, Files
<1>8. CASE Copy(c)!CopyThrows \/ Copy(c)!ReplaceThrows
  <2>1. /\ destination' = destination /\ temporary' \in {NoFile, temporary}
        /\ pc' = "returned" /\ outcome' = "failed" /\ began' = 0
        /\ copied' = 0 /\ from' = 0 /\ busyAttempts' = 0
    BY <1>8 DEF Copy!CopyThrows, Copy!ReplaceThrows, Copy!Cleanup, Copy!Return
  <2>. QED
    BY <1>2, <2>1 DEF CopyTypeOK, CopyStages, DestinationWhole, Files
<1>. QED
  BY <1>3, <1>4, <1>5, <1>6, <1>7, <1>8 DEF BackupStep, Copy!GoesOn

(* The process of the caller ends. *)
LEMMA CallerEndsInv ==
    ASSUME ClientInv, CopyInv, ClientInv', NEW c \in Clients, Copy(c)!Crash,
           caller' = NoClient
    PROVE  CopyInv'
<1>1. /\ pc # "returned" /\ pc' = "returned" /\ outcome' = "crashed" /\ began' = 0
      /\ copied' = 0 /\ from' = 0 /\ busyAttempts' = 0
      /\ UNCHANGED <<destination, temporary>>
  BY DEF Copy!Crash, Copy!Return, Copy!files
<1>. QED
  BY <1>1, BackupAssumption DEF CopyInv, CopyTypeOK, CopyStages, DestinationWhole

-----------------------------------------------------------------------------
(* The theorems.                                                           *)

LEMMA InitInv == DatabaseInit => DatabaseInv
<1> SUFFICES ASSUME DatabaseInit PROVE DatabaseInv
  OBVIOUS
<1> USE DEF DatabaseInit
<1>1. EmptyDatabase \in Contents
  BY AutoCommitType DEF AutoCommit, Transactions
<1>2. /\ workload \in Workloads /\ db = EmptyDatabase /\ commits = 0
      /\ scope = [c \in Clients |-> "none"] /\ tx = [c \in Clients |-> AutoCommit]
  BY DEF Init
<1>3. \A c \in Clients : tx[c] = AutoCommit
  BY <1>2
<1>4. /\ AutoCommit.mode = "auto" /\ AutoCommit.snapshot = 0 /\ AutoCommit.wrote = FALSE
      /\ AutoCommit.sees = EmptyDatabase
  BY DEF AutoCommit
<1>5. ClientTypeOK
  <2>1. commits \in 0..workload.commits
    BY <1>2, WorkloadsAssumption
  <2>2. tx \in [Clients -> Transactions]
    BY <1>2, AutoCommitType
  <2>3. scope \in [Clients -> Scopes]
    BY <1>2 DEF Scopes
  <2>. QED
    BY <1>1, <1>2, <1>3, <1>4, <2>1, <2>2, <2>3 DEF ClientTypeOK
<1>6. NoTransactionLeft /\ ReferencesHold /\ WriterIsLast /\ LastCommitSeen
  BY <1>2, <1>3, <1>4, EmptyReferenced
     DEF NoTransactionLeft, InTransaction, ReferencesHold, WriterIsLast, LastCommitSeen
<1>7. /\ destination = NoFile /\ temporary = NoFile /\ pc = "returned" /\ caller = NoClient
      /\ copied = 0 /\ from = 0 /\ busyAttempts = 0 /\ began = 0 /\ outcome = "none"
  BY ClientsAssumption DEF Copy!Init
<1>8. CopyInv
  BY <1>7, BackupAssumption
     DEF CopyInv, CopyTypeOK, CopyStages, DestinationWhole, Files
<1>. QED
  BY <1>5, <1>6, <1>8 DEF DatabaseInv, ClientInv

LEMMA NextInv ==
    ASSUME DatabaseInv, [DatabaseNext]_allVars
    PROVE  DatabaseInv'
<1> USE DEF DatabaseInv
<1>1. ASSUME NEW c \in Clients, ClientStep(c)
      PROVE  DatabaseInv'
  <2>1. Kept(c)
    BY <1>1, ClientStepInv DEF ClientStep
  <2>2. caller # NoClient => tx'[caller] = tx[caller]
    BY <1>1, <2>1 DEF ClientStep, Kept, CopyInv, CopyTypeOK
  <2>. QED
    BY <1>1, <2>1, <2>2, CopyUndisturbed DEF ClientStep, Kept
<1>2. ASSUME NEW c \in Clients, CallBackup(c) \/ BackupStep(c)
      PROVE  DatabaseInv'
  <2>1. UNCHANGED vars
    BY <1>2 DEF CallBackup, BackupStep
  <2>2. ClientInv'
    BY <2>1 DEF vars, ClientInv, ClientTypeOK, NoTransactionLeft, InTransaction,
                ReferencesHold, WriterIsLast, LastCommitSeen
  <2>. QED
    BY <1>2, <2>2, CallInv, BackupStepInv
<1>3. ASSUME NEW c \in Clients, ProcessEnds(c)
      PROVE  DatabaseInv'
  <2>1. Kept(c)
    BY <1>3, ClientStepInv DEF ProcessEnds
  <2>2. CASE caller = c
    BY <1>3, <2>1, <2>2, CallerEndsInv DEF ProcessEnds, Kept
  <2>3. CASE caller # c
    <3>1. caller # NoClient => tx'[caller] = tx[caller]
      BY <2>1, <2>3 DEF Kept, CopyInv, CopyTypeOK
    <3>. QED
      BY <1>3, <2>1, <2>3, <3>1, CopyUndisturbed DEF ProcessEnds, Kept
  <2>. QED
    BY <2>2, <2>3
<1>4. CASE UNCHANGED allVars
  BY <1>4 DEF allVars, vars, copyVars, ClientInv, ClientTypeOK, NoTransactionLeft,
              InTransaction, ReferencesHold, WriterIsLast, LastCommitSeen, CopyInv, CopyTypeOK, CopyStages,
              Finds, DestinationWhole
<1>. QED
  BY <1>1, <1>2, <1>3, <1>4 DEF DatabaseNext

(* The inductive invariant: types, what the clients' transactions have, how *)
(* far the copy has come (sqlite_database.cpp, Transaction and backupTo()). *)
THEOREM DatabaseCorrect == DatabaseSpec => []DatabaseInv
BY InitInv, NextInv, PTL DEF DatabaseSpec

(* A connection is in a transaction only while there is a Transaction      *)
(* object, whichever of its calls threw (sqlite_database.cpp, class         *)
(* Transaction).                                                           *)
THEOREM NeverTransactionLeft == DatabaseSpec => []NoTransactionLeft
<1>1. DatabaseInv => NoTransactionLeft
  BY DEF DatabaseInv, ClientInv
<1>. QED
  BY <1>1, DatabaseCorrect, PTL

(* No reference ever leads to a site that is not there                     *)
(* (0001_initial.sql, the foreign keys of channels and credentials).       *)
THEOREM ReferencesAlwaysHold == DatabaseSpec => []ReferencesHold
<1>1. DatabaseInv => ReferencesHold
  BY DEF DatabaseInv, ClientInv
<1>. QED
  BY <1>1, DatabaseCorrect, PTL

(* The types, for any data. *)
THEOREM DatabaseTypeCorrect == DatabaseSpec => []TypeOK
<1>1. DatabaseInv => TypeOK
  BY DEF DatabaseInv, ClientInv, CopyInv, TypeOK
<1>. QED
  BY <1>1, DatabaseCorrect, PTL

(* The destination of backupTo() is whole and of one commit, for any       *)
(* number of chunks, busy attempts and commits.                            *)
THEOREM DestinationAlwaysWhole == DatabaseSpec => []DestinationWhole
<1>1. DatabaseInv => DestinationWhole
  BY DEF DatabaseInv, CopyInv
<1>. QED
  BY <1>1, DatabaseCorrect, PTL
=============================================================================
