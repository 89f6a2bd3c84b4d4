-------------------------- MODULE MigrationProofs --------------------------
(***************************************************************************)
(* Theorems about migrating: for any number of gateways, any releases and  *)
(* every set of faults, the database holds a release's migrations from the *)
(* first one on, and every gateway that serves has its own.                *)
(***************************************************************************)
EXTENDS MigrationProperties, FiniteSetTheorems, SequenceTheorems, TLAPS

---------------------------------------------------------------------------
(* Prefixes.                                                               *)

(* A prefix, element by element. *)
LEMMA PrefixElements ==
    ASSUME NEW S, NEW s \in Seq(S), NEW t \in Seq(S)
    PROVE  IsPrefix(s, t) <=> Len(s) <= Len(t) /\ \A i \in 1..Len(s) : s[i] = t[i]
<1>1. ASSUME Len(s) <= Len(t)
      PROVE  /\ SubSeq(t, 1, Len(s)) \in Seq(S) /\ Len(SubSeq(t, 1, Len(s))) = Len(s)
             /\ \A i \in 1..Len(s) : SubSeq(t, 1, Len(s))[i] = t[i]
  BY <1>1
<1>2. ASSUME NEW u \in Seq(S), Len(u) = Len(s), \A i \in 1..Len(s) : s[i] = u[i]
      PROVE  s = u
  BY <1>2
<1>. QED
  BY <1>1, <1>2 DEF IsPrefix

(* Every sequence is a prefix of itself, *)
LEMMA PrefixOfItself ==
    ASSUME NEW S, NEW s \in Seq(S)
    PROVE  IsPrefix(s, s)
BY PrefixElements

(* prefixes of a prefix are prefixes, *)
LEMMA PrefixTransitive ==
    ASSUME NEW S, NEW s \in Seq(S), NEW t \in Seq(S), NEW u \in Seq(S),
           IsPrefix(s, t), IsPrefix(t, u)
    PROVE  IsPrefix(s, u)
<1>1. Len(s) \in Nat /\ Len(t) \in Nat /\ Len(u) \in Nat
  OBVIOUS
<1>. QED
  BY <1>1, PrefixElements

(* and a sequence is a prefix of itself and one more. *)
LEMMA PrefixAppend ==
    ASSUME NEW S, NEW s \in Seq(S), NEW e \in S
    PROVE  IsPrefix(s, Append(s, e))
<1> DEFINE t == Append(s, e)
<1>1. t \in Seq(S) /\ Len(t) = Len(s) + 1 /\ Len(s) \in Nat /\ \A i \in 1..Len(s) : t[i] = s[i]
  BY AppendProperties
<1> HIDE DEF t
<1>2. IsPrefix(s, t)
  BY <1>1, PrefixElements
<1>. QED
  BY <1>2 DEF t

(* The next element of a sequence, after a prefix of it. *)
LEMMA NextOfPrefix ==
    ASSUME NEW S, NEW t \in Seq(S), NEW n \in Nat, n < Len(t)
    PROVE  /\ SubSeq(t, 1, n) \in Seq(S) /\ Len(SubSeq(t, 1, n)) = n
           /\ t[n + 1] \in S
           /\ Append(SubSeq(t, 1, n), t[n + 1]) = SubSeq(t, 1, n + 1)
OBVIOUS

(* A prefix that is as long as the whole is the whole. *)
LEMMA FullPrefix ==
    ASSUME NEW S, NEW t \in Seq(S)
    PROVE  SubSeq(t, 1, Len(t)) = t
OBVIOUS

(* The rows of a table are a sequence, of as many elements as versions. *)
LEMMA RowCount ==
    ASSUME NEW S, NEW rows \in Seq(S)
    PROVE  DOMAIN rows = 1..Len(rows) /\ Cardinality(DOMAIN rows) = Len(rows)
<1>1. DOMAIN rows = 1..Len(rows) /\ Len(rows) \in Nat
  OBVIOUS
<1>2. Cardinality(1..Len(rows)) = Len(rows)
  BY <1>1, FS_Interval
<1>. QED
  BY <1>1, <1>2

(* The row after the last one makes the rows one longer. *)
LEMMA NextRow ==
    ASSUME NEW S, NEW rows \in Seq(S), NEW e \in S
    PROVE  WithRow(rows, Len(rows) + 1, e) = Append(rows, e)
<1>1. DOMAIN rows = 1..Len(rows) /\ Len(rows) \in Nat
  OBVIOUS
<1>2. DOMAIN rows \cup {Len(rows) + 1} = 1..(Len(rows) + 1)
  BY <1>1
<1>3. /\ Append(rows, e) \in Seq(S) /\ Len(Append(rows, e)) = Len(rows) + 1
      /\ \A v \in 1..Len(rows) : Append(rows, e)[v] = rows[v]
      /\ Append(rows, e)[Len(rows) + 1] = e
  BY AppendProperties
<1> DEFINE with == [v \in 1..(Len(rows) + 1) |-> IF v = Len(rows) + 1 THEN e ELSE rows[v]]
<1>4. with \in Seq(S) /\ Len(with) = Len(rows) + 1
  BY <1>1
<1>5. \A v \in 1..(Len(rows) + 1) : with[v] = Append(rows, e)[v]
  BY <1>1, <1>3
<1>6. with = Append(rows, e)
  BY <1>3, <1>4, <1>5, SeqEqual
<1>. QED
  BY <1>2, <1>6 DEF WithRow

---------------------------------------------------------------------------
(* What the invariant says of the parts of the state.                      *)

(* The database that a gateway reads is the last commit, and well formed. *)
LEMMA DatabaseType ==
    ASSUME TypeOK
    PROVE  /\ Len(wal) \in Nat \ {0} /\ Len(wal) \in DOMAIN wal /\ DOMAIN wal = 1..Len(wal)
           /\ Database \in Databases
           /\ Database.schema \in Seq(Scripts) /\ Database.records \in Seq(Scripts)
           /\ Database.userVersion \in Nat /\ Database.table \in BOOLEAN
           /\ \A i \in DOMAIN wal : wal[i] \in Databases /\ wal[i].schema \in Seq(Scripts)
<1>1. wal \in Seq(Databases) /\ wal # <<>>
  BY DEF TypeOK
<1>2. /\ Len(wal) \in Nat \ {0} /\ Len(wal) \in DOMAIN wal /\ DOMAIN wal = 1..Len(wal)
      /\ \A i \in DOMAIN wal : wal[i] \in Databases
  BY <1>1
<1>3. \A d \in Databases : /\ d.schema \in Seq(Scripts) /\ d.records \in Seq(Scripts)
                           /\ d.userVersion \in Nat /\ d.table \in BOOLEAN
  BY DEF Databases
<1>. QED
  BY <1>2, <1>3 DEF Database

(* The list of committed states, with one more. *)
LEMMA WalAppended ==
    ASSUME TypeOK, StoreConsistent, WalGrows, NEW d \in Databases, Consistent(d),
           IsPrefix(Database.schema, d.schema), wal' = Append(wal, d)
    PROVE  /\ wal' \in Seq(Databases) /\ wal' # <<>>
           /\ StoreConsistent' /\ WalGrows' /\ Database' = d
<1>1. /\ Len(wal) \in Nat \ {0} /\ DOMAIN wal = 1..Len(wal)
      /\ \A i \in 1..Len(wal) : wal[i] \in Databases /\ wal[i].schema \in Seq(Scripts)
  BY DatabaseType
<1>2. /\ wal' \in Seq(Databases) /\ wal' # <<>> /\ Len(wal') = Len(wal) + 1
      /\ \A i \in 1..Len(wal) : wal'[i] = wal[i]
      /\ wal'[Len(wal) + 1] = d
      /\ DOMAIN wal' = 1..(Len(wal) + 1)
  <2>1. wal \in Seq(Databases)
    BY DEF TypeOK
  <2>2. /\ wal' \in Seq(Databases) /\ wal' # <<>> /\ Len(wal') = Len(wal) + 1
        /\ \A i \in 1..Len(wal) : wal'[i] = wal[i]
        /\ wal'[Len(wal) + 1] = d
    BY <2>1, AppendProperties
  <2>3. DOMAIN wal' = 1..Len(wal')
    BY <2>2, LenProperties
  <2>. QED
    BY <2>2, <2>3
<1>3. Database' = d
  BY <1>2 DEF Database
<1>4. StoreConsistent'
  <2>1. ASSUME NEW i \in 1..(Len(wal) + 1)
        PROVE  wal'[i] = d \/ Consistent(wal'[i])
    BY <1>1, <1>2 DEF StoreConsistent
  <2>. QED
    BY <1>2, <2>1 DEF StoreConsistent, Consistent
<1>5. WalGrows'
  <2>1. d.schema \in Seq(Scripts)
    BY DEF Databases
  <2>2. \A i \in 1..Len(wal) : IsPrefix(wal[i].schema, d.schema)
    <3>1. \A i \in 1..Len(wal) : IsPrefix(wal[i].schema, Database.schema)
      BY <1>1 DEF WalGrows, Database
    <3>. QED
      BY <1>1, <2>1, <3>1, DatabaseType, PrefixTransitive
  <2>3. ASSUME NEW i \in 1..(Len(wal) + 1), NEW j \in 1..(Len(wal) + 1), i <= j
        PROVE  IsPrefix(wal'[i].schema, wal'[j].schema)
    <3>1. CASE j \in 1..Len(wal)
      <4>1. i \in 1..Len(wal)
        BY <1>1, <2>3, <3>1
      <4>2. wal'[i] = wal[i] /\ wal'[j] = wal[j]
        BY <1>2, <3>1, <4>1
      <4>3. IsPrefix(wal[i].schema, wal[j].schema)
        BY <1>1, <2>3, <3>1, <4>1 DEF WalGrows
      <4>. QED
        BY <4>2, <4>3
    <3>2. CASE j = Len(wal) + 1 /\ i \in 1..Len(wal)
      BY <1>2, <2>2, <3>2
    <3>3. CASE j = Len(wal) + 1 /\ i = Len(wal) + 1
      BY <1>2, <2>1, <3>3, PrefixOfItself
    <3>. QED
      BY <1>1, <3>1, <3>2, <3>3
  <2>. QED
    BY <1>2, <2>3 DEF WalGrows
<1>. QED
  BY <1>2, <1>3, <1>4, <1>5

(* The invariant is kept by a step of r that leaves the database alone and *)
(* is in no transaction afterwards: what it still has to show is about r.  *)
LEMMA OwnStep ==
    ASSUME MigrationInv, NEW r \in Runners, NEW stage \in Stages \ InTransaction,
           UNCHANGED wal,
           GoTo(r, stage),
           \/ UNCHANGED <<writer, work>> /\ pc[r] \notin InTransaction
           \/ Forget(r),
           next' \in [Runners -> Nat \ {0}], \A q \in Runners \ {r} : next'[q] = next[q],
           reported' \in [Runners -> Nat], \A q \in Runners \ {r} : reported'[q] = reported[q],
           reason' \in [Runners -> Reasons],
           stage \in Looping =>
              /\ next'[r] - 1 <= Len(Release[r])
              /\ IsPrefix(SubSeq(Release[r], 1, next'[r] - 1), Database.schema),
           stage \in {"read", "report", "serving"} \cup Looping => Database.table,
           stage \in {"report", "serving"} => IsPrefix(Release[r], Database.schema),
           stage = "serving" => reported'[r] \in Len(Release[r])..Len(Database.schema)
    PROVE  MigrationInv'
<1>0. TypeOK /\ WriterInv
  BY DEF MigrationInv
<1>1. Database' = Database
  BY DEF Database
<1>2. /\ pc'[r] = stage /\ \A q \in Runners \ {r} : pc'[q] = pc[q]
      /\ pc' \in [Runners -> Stages]
  BY <1>0 DEF GoTo, TypeOK, Stages
<1>3. writer' = (IF writer = r THEN NoRunner ELSE writer)
  BY <1>0 DEF Forget, WriterInv
<1>4. work' = work \/ (writer = r /\ work' = EmptyDatabase)
  BY DEF Forget
<1>5. EmptyDatabase \in Databases
  BY DEF EmptyDatabase, Databases
<1>6. TypeOK'
  BY <1>0, <1>2, <1>3, <1>4, <1>5 DEF TypeOK
<1>7. StoreConsistent' /\ WalGrows'
  BY DEF MigrationInv, StoreConsistent, WalGrows, Consistent
<1>8. WriterInv'
  BY <1>0, <1>2, <1>3, NoRunnerAssumption DEF WriterInv
<1>9. LoopInv'
  BY <1>1, <1>2 DEF MigrationInv, LoopInv
<1>10. WorkInv'
  <2> SUFFICES ASSUME NEW q \in Runners, pc'[q] \in InTransaction
               PROVE  HowFar(q)'
    BY DEF WorkInv
  <2>1. q # r /\ pc'[q] = pc[q] /\ next'[q] = next[q] /\ work' = work
    BY <1>0, <1>2, <1>4 DEF WriterInv
  <2>2. HowFar(q)
    BY <2>1 DEF MigrationInv, WorkInv
  <2>. QED
    BY <1>1, <2>1, <2>2 DEF HowFar
<1>11. TableInv'
  BY <1>1, <1>2 DEF MigrationInv, TableInv
<1>12. ServesOwnSchema'
  BY <1>1, <1>2 DEF MigrationInv, ServesOwnSchema
<1>. QED
  BY <1>6, <1>7, <1>8, <1>9, <1>10, <1>11, <1>12 DEF MigrationInv

(* A runner that ends, of itself or because it dies, keeps the invariant.  *)
LEMMA LeavingStep ==
    ASSUME MigrationInv, NEW r \in Runners, NEW stage \in {"idle", "failed"},
           GoTo(r, stage), Forget(r), UNCHANGED wal, reason' \in [Runners -> Reasons]
    PROVE  MigrationInv'
<1>1. TypeOK
  BY DEF MigrationInv
<1>2. /\ next' \in [Runners -> Nat \ {0}] /\ \A q \in Runners \ {r} : next'[q] = next[q]
      /\ reported' \in [Runners -> Nat] /\ \A q \in Runners \ {r} : reported'[q] = reported[q]
  BY <1>1 DEF TypeOK, Forget
<1>3. stage \in Stages \ InTransaction /\ stage \notin {"read", "report", "serving"} \cup Looping
  BY DEF Stages, InTransaction, Looping
<1>. QED
  BY <1>2, <1>3, OwnStep

(* A gateway that gives up rolls back, and leaves the database as it is. *)
LEMMA FailStep ==
    ASSUME MigrationInv, NEW r \in Runners, NEW why \in Reasons, Fail(r, why)
    PROVE  MigrationInv'
BY LeavingStep DEF Fail, MigrationInv, TypeOK

---------------------------------------------------------------------------
(* The steps of a gateway.                                                 *)

(* What readApplied() compares: the rows are the whole of what was         *)
(* installed, and a release that passes begins with them.                  *)
LEMMA AppliedIsPrefix ==
    ASSUME TypeOK, StoreConsistent, NEW r \in Runners,
           AppliedError(Database.records, Release[r]) = "none"
    PROVE  LET n == Cardinality(DOMAIN Database.records)
           IN  /\ n = Len(Database.schema) /\ n \in Nat /\ n <= Len(Release[r])
               /\ Database.schema = SubSeq(Release[r], 1, n)
<1>1. Database.records = Database.schema /\ Database.schema \in Seq(Scripts)
  BY DatabaseType DEF StoreConsistent, Consistent, Database
<1>2. Cardinality(DOMAIN Database.records) = Len(Database.schema) /\ Len(Database.schema) \in Nat
  BY <1>1, RowCount
<1>3. Release[r] \in Seq(Scripts)
  BY ReleaseAssumption
<1>. QED
  BY <1>1, <1>2, <1>3 DEF AppliedError

(* Reading the rows and comparing user_version changes nothing. *)
LEMMA ReadingStep ==
    ASSUME MigrationInv, NEW r \in Runners, ReadApplied(r) \/ CheckUserVersion(r)
    PROVE  MigrationInv'
<1>0. TypeOK /\ StoreConsistent
  BY DEF MigrationInv
<1>1. CASE ReadApplied(r)
  <2> DEFINE n == Cardinality(DOMAIN Database.records)
             why == AppliedError(Database.records, Release[r])
  <2>1. why \in Reasons
    BY DEF AppliedError, Reasons
  <2>2. CASE Fail(r, why)
    BY <2>1, <2>2, FailStep
  <2>3. CASE why = "none" /\ ~Fail(r, why)
    <3>1. /\ next' = [next EXCEPT ![r] = n + 1]
          /\ GoTo(r, "pragma")
          /\ UNCHANGED <<wal, writer, work, reason, reported>>
      BY <1>1, <2>3 DEF ReadApplied
    <3>2. /\ n = Len(Database.schema) /\ n \in Nat /\ n <= Len(Release[r])
          /\ Database.schema = SubSeq(Release[r], 1, n)
      BY <1>0, <2>3, AppliedIsPrefix
    <3> HIDE DEF n
    <3>3. next' \in [Runners -> Nat \ {0}] /\ next'[r] = n + 1
          /\ \A q \in Runners \ {r} : next'[q] = next[q]
      BY <1>0, <3>1, <3>2 DEF TypeOK
    <3>4. next'[r] - 1 = n /\ IsPrefix(SubSeq(Release[r], 1, n), Database.schema)
      <4>1. IsPrefix(Database.schema, Database.schema)
        BY <1>0, DatabaseType, PrefixOfItself
      <4>. QED
        BY <3>2, <3>3, <4>1
    <3>5. pc[r] \notin InTransaction /\ Database.table
      BY <1>1 DEF ReadApplied, InTransaction, MigrationInv, TableInv
    <3>6. "pragma" \in Stages \ InTransaction
      BY DEF Stages, Looping, InTransaction
    <3>. QED
      BY <1>0, <3>1, <3>2, <3>3, <3>4, <3>5, <3>6, OwnStep DEF TypeOK
  <2>. QED
    BY <1>1, <2>2, <2>3 DEF ReadApplied
<1>2. CASE CheckUserVersion(r)
  <2>1. CASE Fail(r, "disagree")
    BY <2>1, FailStep DEF Reasons
  <2>2. CASE GoTo(r, "loop") /\ UNCHANGED <<wal, writer, work, next, reason, reported>>
    <3>1. pc[r] = "pragma"
      BY <1>2 DEF CheckUserVersion
    <3>2. pc[r] \in Looping /\ pc[r] \notin InTransaction /\ "loop" \in Stages \ InTransaction
      BY <3>1 DEF Looping, InTransaction, Stages
    <3>3. /\ next[r] - 1 <= Len(Release[r]) /\ Database.table
          /\ IsPrefix(SubSeq(Release[r], 1, next[r] - 1), Database.schema)
      BY <3>2 DEF MigrationInv, LoopInv, TableInv
    <3>. QED
      BY <1>0, <2>2, <3>2, <3>3, OwnStep DEF TypeOK
  <2>. QED
    BY <1>2, <2>1, <2>2 DEF CheckUserVersion
<1>. QED
  BY <1>1, <1>2

(* The release has no more to apply, and the version is read again. *)
LEMMA ServingStep ==
    ASSUME MigrationInv, NEW r \in Runners, ApplyReturns(r) \/ Report(r)
    PROVE  MigrationInv'
<1>0. TypeOK /\ StoreConsistent /\ Release[r] \in Seq(Scripts)
  BY ReleaseAssumption DEF MigrationInv
<1>1. CASE ApplyReturns(r)
  <2>1. pc[r] = "loop" /\ next[r] > Len(Release[r])
    BY <1>1 DEF ApplyReturns
  <2>2. pc[r] \in Looping /\ pc[r] \notin InTransaction /\ "report" \in Stages \ InTransaction
        /\ "report" \notin Looping
    BY <2>1 DEF Looping, InTransaction, Stages
  <2>3. /\ next[r] - 1 <= Len(Release[r]) /\ Database.table
        /\ IsPrefix(SubSeq(Release[r], 1, next[r] - 1), Database.schema)
    BY <2>2 DEF MigrationInv, LoopInv, TableInv
  <2>4. next[r] - 1 = Len(Release[r])
    <3>1. next[r] \in Nat /\ Len(Release[r]) \in Nat
      BY <1>0 DEF TypeOK
    <3>. QED
      BY <2>1, <2>3, <3>1
  <2>5. IsPrefix(Release[r], Database.schema)
    BY <1>0, <2>3, <2>4, FullPrefix
  <2>. QED
    BY <1>0, <1>1, <2>2, <2>3, <2>5, OwnStep DEF ApplyReturns, TypeOK
<1>2. CASE Report(r)
  <2>1. pc[r] = "report"
    BY <1>2 DEF Report
  <2>2. pc[r] \notin InTransaction /\ "serving" \in Stages \ InTransaction /\ "serving" \notin Looping
    BY <2>1 DEF Looping, InTransaction, Stages
  <2>3. Database.table /\ IsPrefix(Release[r], Database.schema)
    BY <2>1 DEF MigrationInv, TableInv, ServesOwnSchema
  <2>4. PICK v \in DOMAIN Database.records \cup {0} :
               /\ \A w \in DOMAIN Database.records : w <= v
               /\ reported' = [reported EXCEPT ![r] = v]
    BY <1>2 DEF Report
  <2>5. v = Len(Database.schema) /\ v \in Nat
    <3>1. Database.records = Database.schema /\ Database.schema \in Seq(Scripts)
      BY <1>0, DatabaseType DEF StoreConsistent, Consistent, Database
    <3>2. DOMAIN Database.records = 1..Len(Database.schema) /\ Len(Database.schema) \in Nat
      BY <3>1, RowCount
    <3>3. v \in 0..Len(Database.schema) /\ \A w \in 1..Len(Database.schema) : w <= v
      BY <2>4, <3>2
    <3>4. Len(Database.schema) = 0 \/ Len(Database.schema) <= v
      <4>1. Len(Database.schema) = 0 \/ Len(Database.schema) \in 1..Len(Database.schema)
        BY <3>2
      <4>. QED
        BY <3>3, <4>1
    <3>. QED
      BY <3>2, <3>3, <3>4
  <2>6. /\ reported' \in [Runners -> Nat] /\ reported'[r] = v
        /\ \A q \in Runners \ {r} : reported'[q] = reported[q]
    BY <1>0, <2>4, <2>5 DEF TypeOK
  <2>7. v \in Len(Release[r])..Len(Database.schema)
    BY <1>0, <2>3, <2>5 DEF IsPrefix
  <2>. QED
    BY <1>0, <1>2, <2>2, <2>3, <2>6, <2>7, OwnStep DEF Report, TypeOK
<1>. QED
  BY <1>1, <1>2

(* CREATE TABLE takes the lock, so that no transaction is open beside it. *)
LEMMA BootstrapStep ==
    ASSUME MigrationInv, NEW r \in Runners, Bootstrap(r)
    PROVE  MigrationInv'
<1>0. TypeOK /\ StoreConsistent /\ WalGrows /\ WriterInv
  BY DEF MigrationInv
<1>1. /\ pc[r] = "bootstrap" /\ GoTo(r, "read")
      /\ UNCHANGED <<writer, work, next, reason, reported>>
  BY DEF Bootstrap
<1>2. /\ pc[r] \notin InTransaction /\ "read" \in Stages \ InTransaction
      /\ "read" \notin Looping \cup {"report", "serving"}
  BY <1>1 DEF InTransaction, Looping, Stages
<1>3. CASE Database.table /\ UNCHANGED wal
  BY <1>0, <1>1, <1>2, <1>3, OwnStep DEF TypeOK
<1>4. CASE /\ ~Database.table
           /\ writer = NoRunner
           /\ wal' = Append(wal, [Database EXCEPT !.table = TRUE])
  <2> DEFINE d == [Database EXCEPT !.table = TRUE]
  <2>1. Database \in Databases /\ Database.schema \in Seq(Scripts) /\ Consistent(Database)
    BY <1>0, DatabaseType DEF StoreConsistent, Database
  <2>2. /\ d \in Databases /\ d.table /\ d.schema = Database.schema /\ d.records = Database.records
        /\ d.userVersion = Database.userVersion
    BY <2>1 DEF Databases
  <2>3. Consistent(d) /\ IsPrefix(Database.schema, d.schema)
    BY <2>1, <2>2, PrefixOfItself DEF Consistent
  <2>4. wal' = Append(wal, d)
    BY <1>4
  <2> HIDE DEF d
  <2>5. /\ wal' \in Seq(Databases) /\ wal' # <<>>
        /\ StoreConsistent' /\ WalGrows' /\ Database' = d
    BY <1>0, <2>2, <2>3, <2>4, WalAppended
  <2>6. /\ pc'[r] = "read" /\ \A q \in Runners \ {r} : pc'[q] = pc[q]
        /\ pc' \in [Runners -> Stages]
    BY <1>0, <1>1, <1>2 DEF GoTo, TypeOK
  <2>7. \A q \in Runners : pc[q] \notin InTransaction
    BY <1>0, <1>4, NoRunnerAssumption DEF WriterInv
  <2>8. \A q \in Runners : pc'[q] \notin InTransaction
    BY <1>2, <2>6, <2>7
  <2>9. TypeOK'
    BY <1>0, <1>1, <2>5, <2>6 DEF TypeOK
  <2>10. WriterInv' /\ WorkInv'
    BY <1>1, <1>4, <2>8, NoRunnerAssumption DEF WriterInv, WorkInv
  <2>11. LoopInv'
    BY <1>1, <1>2, <2>2, <2>5, <2>6 DEF MigrationInv, LoopInv
  <2>12. TableInv'
    BY <2>2, <2>5 DEF TableInv
  <2>13. ServesOwnSchema'
    BY <1>1, <1>2, <2>2, <2>5, <2>6 DEF MigrationInv, ServesOwnSchema
  <2>. QED
    BY <2>5, <2>9, <2>10, <2>11, <2>12, <2>13 DEF MigrationInv
<1>. QED
  BY <1>3, <1>4 DEF Bootstrap

(* A step of r inside its transaction: only its own copy changes. *)
LEMMA TransactionStep ==
    ASSUME MigrationInv, NEW r \in Runners, NEW stage \in InTransaction,
           GoTo(r, stage),
           pc[r] \in InTransaction \/ (pc[r] = "loop" /\ writer = NoRunner),
           writer' = r, work' \in Databases,
           UNCHANGED <<wal, next, reason, reported>>,
           HowFar(r)'
    PROVE  MigrationInv'
<1>0. TypeOK /\ WriterInv
  BY DEF MigrationInv
<1>1. Database' = Database
  BY DEF Database
<1>2. /\ pc'[r] = stage /\ \A q \in Runners \ {r} : pc'[q] = pc[q]
      /\ pc' \in [Runners -> Stages]
  BY <1>0 DEF GoTo, TypeOK, Stages, Looping
<1>3. \A q \in Runners \ {r} : pc[q] \notin InTransaction
  BY <1>0, NoRunnerAssumption DEF WriterInv
<1>4. stage \in Looping /\ pc[r] \in Looping /\ stage \notin {"read", "report", "serving"}
  BY DEF Looping, InTransaction
<1>5. TypeOK'
  BY <1>0, <1>2 DEF TypeOK
<1>6. StoreConsistent' /\ WalGrows'
  BY DEF MigrationInv, StoreConsistent, WalGrows, Consistent
<1>7. WriterInv'
  BY <1>2, <1>3 DEF WriterInv
<1>8. LoopInv' /\ TableInv' /\ ServesOwnSchema'
  BY <1>1, <1>2, <1>4 DEF MigrationInv, LoopInv, TableInv, ServesOwnSchema
<1>9. WorkInv'
  BY <1>2, <1>3 DEF WorkInv
<1>. QED
  BY <1>5, <1>6, <1>7, <1>8, <1>9 DEF MigrationInv

(* BEGIN IMMEDIATE, the migration's SQL, its row and its version. *)
LEMMA MigratingStep ==
    ASSUME MigrationInv, NEW r \in Runners,
           Begin(r) \/ RunScript(r) \/ Record(r) \/ SetUserVersion(r)
    PROVE  MigrationInv'
<1>0. TypeOK /\ StoreConsistent /\ WriterInv /\ Release[r] \in Seq(Scripts)
  BY ReleaseAssumption DEF MigrationInv
<1>1. Database \in Databases /\ Database.schema \in Seq(Scripts) /\ Consistent(Database)
  BY <1>0, DatabaseType DEF StoreConsistent, Database
<1>2. next[r] \in Nat \ {0} /\ Len(Release[r]) \in Nat /\ Len(Database.schema) \in Nat
  BY <1>0, <1>1 DEF TypeOK
<1>3. ASSUME next[r] <= Len(Release[r])
      PROVE  Release[r][next[r]] \in Scripts
  BY <1>0, <1>2, <1>3
<1>4. pc[r] \in InTransaction => writer = r /\ HowFar(r)
  BY DEF MigrationInv, WriterInv, WorkInv
<1> DEFINE grown == Append(Database.schema, Release[r][next[r]])
<1>5. ASSUME UNCHANGED wal, UNCHANGED next, NEW stage \in Stages, GoTo(r, stage)
      PROVE  Database' = Database /\ next'[r] = next[r] /\ pc'[r] = stage
  BY <1>0, <1>5 DEF Database, GoTo, TypeOK
<1>6. CASE Begin(r)
  <2>1. HowFar(r)'
    BY <1>5, <1>6 DEF Begin, HowFar, Stages, Looping, InTransaction
  <2>. QED
    BY <1>1, <1>6, <2>1, TransactionStep DEF Begin, InTransaction
<1>7. CASE RunScript(r)
  <2>1. CASE Fail(r, "database")
    BY <2>1, FailStep DEF Reasons
  <2>2. CASE /\ work' = [work EXCEPT !.schema = Append(@, Release[r][next[r]])]
             /\ GoTo(r, "record")
             /\ UNCHANGED <<wal, writer, next, reason, reported>>
    <3>1. pc[r] = "script" /\ writer = r /\ work = Database /\ next[r] <= Len(Release[r])
      BY <1>4, <1>7 DEF RunScript, HowFar, InTransaction
    <3>2. grown \in Seq(Scripts)
      BY <1>1, <1>3, <3>1
    <3>3. work' = [Database EXCEPT !.schema = grown]
      BY <2>2, <3>1
    <3>4. work' \in Databases
      BY <1>1, <3>2, <3>3 DEF Databases
    <3>5. HowFar(r)'
      BY <1>5, <2>2, <3>1, <3>3 DEF HowFar, Stages, Looping, InTransaction
    <3>. QED
      BY <2>2, <3>1, <3>4, <3>5, TransactionStep DEF InTransaction
  <2>. QED
    BY <1>7, <2>1, <2>2 DEF RunScript
<1>8. CASE Record(r)
  <2>1. CASE Fail(r, "database")
    BY <2>1, FailStep DEF Reasons
  <2>2. CASE /\ next[r] \notin DOMAIN work.records
             /\ work' = [work EXCEPT !.records = WithRow(@, next[r], Release[r][next[r]])]
             /\ GoTo(r, "version")
             /\ UNCHANGED <<wal, writer, next, reason, reported>>
    <3>1. /\ pc[r] = "record" /\ writer = r /\ next[r] <= Len(Release[r])
          /\ work = [Database EXCEPT !.schema = grown]
      BY <1>4, <1>8 DEF Record, HowFar, InTransaction
    <3>2. grown \in Seq(Scripts)
      BY <1>1, <1>3, <3>1
    <3>3. work.records = Database.schema
      BY <1>1, <3>1 DEF Consistent, Databases
    <3>4. next[r] = Len(Database.schema) + 1
      <4>1. next[r] \notin 1..Len(Database.schema)
        BY <1>1, <2>2, <3>3, RowCount
      <4>2. next[r] - 1 <= Len(Database.schema)
        <5>1. IsPrefix(SubSeq(Release[r], 1, next[r] - 1), Database.schema)
          BY <3>1 DEF MigrationInv, LoopInv, Looping, InTransaction
        <5>2. next[r] - 1 \in Nat /\ next[r] - 1 < Len(Release[r])
          BY <1>2, <3>1
        <5>3. Len(SubSeq(Release[r], 1, next[r] - 1)) = next[r] - 1
          BY <1>0, <5>2, NextOfPrefix
        <5>. QED
          BY <5>1, <5>3 DEF IsPrefix
      <4>. QED
        BY <1>2, <4>1, <4>2
    <3>5. WithRow(work.records, next[r], Release[r][next[r]]) = grown
      BY <1>1, <1>3, <3>1, <3>3, <3>4, NextRow
    <3>6. work' = [Database EXCEPT !.schema = grown, !.records = grown]
      BY <1>1, <2>2, <3>1, <3>5 DEF Databases
    <3>7. work' \in Databases
      BY <1>1, <3>2, <3>6 DEF Databases
    <3>8. HowFar(r)'
      BY <1>5, <2>2, <3>1, <3>4, <3>6 DEF HowFar, Stages, Looping, InTransaction
    <3>. QED
      BY <2>2, <3>1, <3>7, <3>8, TransactionStep DEF InTransaction
  <2>. QED
    BY <1>8, <2>1, <2>2 DEF Record
<1>9. CASE SetUserVersion(r)
  <2>1. /\ pc[r] = "version" /\ writer = r /\ next[r] <= Len(Release[r])
        /\ next[r] = Len(Database.schema) + 1
        /\ work = [Database EXCEPT !.schema = grown, !.records = grown]
    BY <1>4, <1>9 DEF SetUserVersion, HowFar, InTransaction
  <2>2. work' = [work EXCEPT !.userVersion = next[r]]
    BY <1>9 DEF SetUserVersion
  <2>3. work' \in Databases
    BY <1>0, <1>2, <2>2 DEF TypeOK, Databases
  <2>4. HowFar(r)'
    BY <1>5, <1>9, <2>1, <2>2 DEF SetUserVersion, HowFar, Stages, Looping, InTransaction
  <2>. QED
    BY <1>9, <2>1, <2>3, <2>4, TransactionStep DEF SetUserVersion, InTransaction
<1>. QED
  BY <1>6, <1>7, <1>8, <1>9

(* What is committed is the database with the next migration, and nothing  *)
(* else: both what the invariant and what the refinement need of a commit. *)
LEMMA CommitFacts ==
    ASSUME MigrationInv, NEW r \in Runners, Commit(r)
    PROVE  /\ work \in Databases /\ Consistent(work) /\ work.table
           /\ next[r] = Len(Database.schema) + 1 /\ next[r] <= Len(Release[r])
           /\ Database.schema = SubSeq(Release[r], 1, Len(Database.schema))
           /\ work.schema = SubSeq(Release[r], 1, next[r])
           /\ work.userVersion = next[r]
           /\ IsPrefix(Database.schema, work.schema)
<1>0. TypeOK /\ Release[r] \in Seq(Scripts) /\ pc[r] = "commit"
  BY ReleaseAssumption DEF MigrationInv, Commit
<1>1. Database \in Databases /\ Database.schema \in Seq(Scripts) /\ work \in Databases
  BY <1>0, DatabaseType DEF TypeOK
<1> DEFINE n == Len(Database.schema)
           grown == Append(Database.schema, Release[r][next[r]])
<1>2. HowFar(r) /\ Database.table /\ IsPrefix(SubSeq(Release[r], 1, next[r] - 1), Database.schema)
  BY <1>0 DEF MigrationInv, WorkInv, TableInv, LoopInv, Looping, InTransaction
<1>3. /\ next[r] = n + 1 /\ next[r] <= Len(Release[r]) /\ n \in Nat
      /\ work = [Database EXCEPT !.schema = grown, !.records = grown, !.userVersion = next[r]]
  BY <1>0, <1>1, <1>2 DEF HowFar
<1>4. /\ work.schema = grown /\ work.records = grown /\ work.userVersion = next[r]
      /\ work.table = Database.table
  BY <1>1, <1>3 DEF Databases
<1>5. /\ SubSeq(Release[r], 1, n) \in Seq(Scripts) /\ Len(SubSeq(Release[r], 1, n)) = n
      /\ Release[r][n + 1] \in Scripts
      /\ Append(SubSeq(Release[r], 1, n), Release[r][n + 1]) = SubSeq(Release[r], 1, n + 1)
  BY <1>0, <1>3, NextOfPrefix
<1>6. Database.schema = SubSeq(Release[r], 1, n)
  <2>1. next[r] - 1 = n
    BY <1>3
  <2>2. SubSeq(Release[r], 1, n) = SubSeq(Database.schema, 1, n)
    BY <1>2, <1>5, <2>1 DEF IsPrefix
  <2>. QED
    BY <1>1, <2>2, FullPrefix
<1>7. grown = SubSeq(Release[r], 1, next[r])
  BY <1>3, <1>5, <1>6
<1>8. IsPrefix(Database.schema, grown) /\ Len(grown) = next[r]
  BY <1>1, <1>3, <1>5, PrefixAppend, AppendProperties
<1>. QED
  BY <1>1, <1>2, <1>3, <1>4, <1>6, <1>7, <1>8 DEF Consistent

(* A commit adds one whole migration: row, version and script together. *)
LEMMA CommitStep ==
    ASSUME MigrationInv, NEW r \in Runners, Commit(r)
    PROVE  MigrationInv'
<1>0. TypeOK /\ StoreConsistent /\ WalGrows /\ WriterInv /\ Release[r] \in Seq(Scripts)
  BY ReleaseAssumption DEF MigrationInv
<1>1. /\ pc[r] = "commit" /\ wal' = Append(wal, work) /\ writer' = NoRunner /\ work' = EmptyDatabase
      /\ next' = [next EXCEPT ![r] = @ + 1] /\ GoTo(r, "loop") /\ UNCHANGED <<reason, reported>>
  BY DEF Commit
<1>2. /\ work \in Databases /\ Consistent(work) /\ work.table
      /\ next[r] = Len(Database.schema) + 1 /\ next[r] <= Len(Release[r])
      /\ work.schema = SubSeq(Release[r], 1, next[r])
      /\ IsPrefix(Database.schema, work.schema)
  BY CommitFacts
<1>3. /\ wal' \in Seq(Databases) /\ wal' # <<>>
      /\ StoreConsistent' /\ WalGrows' /\ Database' = work
  BY <1>0, <1>1, <1>2, WalAppended
<1>4. /\ pc'[r] = "loop" /\ \A q \in Runners \ {r} : pc'[q] = pc[q]
      /\ pc' \in [Runners -> Stages]
  BY <1>0, <1>1 DEF GoTo, TypeOK, Stages, Looping
<1>5. /\ next' \in [Runners -> Nat \ {0}] /\ next'[r] - 1 = next[r]
      /\ \A q \in Runners \ {r} : next'[q] = next[q]
  BY <1>0, <1>1 DEF TypeOK
<1>6. TypeOK'
  <2>1. EmptyDatabase \in Databases
    BY DEF EmptyDatabase, Databases
  <2>. QED
    BY <1>0, <1>1, <1>3, <1>4, <1>5, <2>1 DEF TypeOK
<1>7. \A q \in Runners : pc'[q] \notin InTransaction
  BY <1>0, <1>1, <1>4, NoRunnerAssumption DEF WriterInv, InTransaction
<1>8. WriterInv' /\ WorkInv'
  BY <1>1, <1>7, NoRunnerAssumption DEF WriterInv, WorkInv
<1>9. /\ Database.schema \in Seq(Scripts) /\ work.schema \in Seq(Scripts)
      /\ Len(Database.schema) \in Nat /\ Len(work.schema) \in Nat
      /\ Len(Database.schema) <= Len(work.schema)
  BY <1>0, <1>2, DatabaseType DEF Databases, IsPrefix
<1>10. ASSUME NEW s \in Seq(Scripts), IsPrefix(s, Database.schema)
       PROVE  IsPrefix(s, Database'.schema)
  BY <1>2, <1>3, <1>9, <1>10, PrefixTransitive
<1>11. LoopInv'
  <2> SUFFICES ASSUME NEW q \in Runners, pc'[q] \in Looping
               PROVE  /\ next'[q] - 1 <= Len(Release[q])
                      /\ IsPrefix(SubSeq(Release[q], 1, next'[q] - 1), Database'.schema)
    BY DEF LoopInv
  <2>1. CASE q = r
    BY <1>2, <1>3, <1>5, <1>9, <2>1, PrefixOfItself
  <2>2. CASE q # r
    <3>1. /\ next[q] - 1 <= Len(Release[q])
          /\ IsPrefix(SubSeq(Release[q], 1, next[q] - 1), Database.schema)
      BY <1>4, <2>2 DEF MigrationInv, LoopInv
    <3>2. SubSeq(Release[q], 1, next[q] - 1) \in Seq(Scripts)
      <4>1. Release[q] \in Seq(Scripts) /\ next[q] - 1 \in Nat
        BY <1>0, ReleaseAssumption DEF TypeOK
      <4>. QED
        BY <3>1, <4>1
    <3>. QED
      BY <1>5, <1>10, <2>2, <3>1, <3>2
  <2>. QED
    BY <2>1, <2>2
<1>12. TableInv'
  BY <1>2, <1>3 DEF TableInv
<1>13. ServesOwnSchema'
  <2> SUFFICES ASSUME NEW q \in Runners, pc'[q] \in {"report", "serving"}
               PROVE  /\ IsPrefix(Release[q], Database'.schema)
                      /\ pc'[q] = "serving" => reported'[q] \in Len(Release[q])..Len(Database'.schema)
    BY DEF ServesOwnSchema
  <2>1. /\ pc'[q] = pc[q] /\ IsPrefix(Release[q], Database.schema)
        /\ pc[q] = "serving" => reported[q] \in Len(Release[q])..Len(Database.schema)
    BY <1>4 DEF MigrationInv, ServesOwnSchema
  <2>2. Release[q] \in Seq(Scripts) /\ Len(Release[q]) \in Nat
    BY ReleaseAssumption
  <2>3. Len(Database.schema) <= Len(Database'.schema)
    BY <1>3, <1>9
  <2>. QED
    BY <1>1, <1>3, <1>9, <1>10, <2>1, <2>2, <2>3
<1>. QED
  BY <1>3, <1>6, <1>8, <1>11, <1>12, <1>13 DEF MigrationInv

---------------------------------------------------------------------------
(* Launches, exits and failures.                                           *)

(* A gateway that is launched, exits, crashes or finds a statement failing *)
(* changes no commit; its transaction is rolled back.                      *)
LEMMA RunnerStep ==
    ASSUME MigrationInv, NEW r \in Runners,
           Launch(r) \/ Exit(r) \/ StatementFails(r) \/ Crash(r)
    PROVE  MigrationInv'
<1>0. TypeOK
  BY DEF MigrationInv
<1>1. CASE Launch(r)
  <2>1. /\ "bootstrap" \in Stages \ InTransaction /\ pc[r] \notin InTransaction
        /\ "bootstrap" \notin Looping \cup {"read", "report", "serving"}
    BY <1>1 DEF Launch, Stages, Looping, InTransaction
  <2>2. reason' \in [Runners -> Reasons]
    BY <1>0, <1>1 DEF Launch, TypeOK, Reasons
  <2>. QED
    BY <1>0, <1>1, <2>1, <2>2, OwnStep DEF Launch, TypeOK
<1>2. CASE Exit(r)
  BY <1>0, <1>2, LeavingStep DEF Exit, TypeOK
<1>3. CASE StatementFails(r)
  BY <1>3, FailStep DEF StatementFails, Reasons
<1>4. CASE Crash(r)
  BY <1>0, <1>4, LeavingStep DEF Crash, TypeOK
<1>. QED
  BY <1>1, <1>2, <1>3, <1>4

(* The database is the same after a checkpoint. *)
LEMMA CheckpointStep ==
    ASSUME MigrationInv, Checkpoint
    PROVE  MigrationInv'
<1>0. TypeOK /\ StoreConsistent
  BY DEF MigrationInv
<1>1. Database \in Databases /\ Database.schema \in Seq(Scripts) /\ Consistent(Database)
  BY <1>0, DatabaseType DEF StoreConsistent, Database
<1>2. wal' = <<Database>> /\ UNCHANGED <<writer, work, pc, next, reason, reported>>
  BY DEF Checkpoint
<1>3. /\ wal' \in Seq(Databases) /\ wal' # <<>> /\ Len(wal') = 1 /\ DOMAIN wal' = {1}
      /\ wal'[1] = Database
  BY <1>1, <1>2
<1>4. Database' = Database
  BY <1>3 DEF Database
<1>5. TypeOK'
  BY <1>0, <1>2, <1>3 DEF TypeOK
<1>6. StoreConsistent' /\ WalGrows'
  BY <1>1, <1>3, PrefixOfItself DEF StoreConsistent, Consistent, WalGrows
<1>7. WorkInv'
  BY <1>2, <1>4 DEF MigrationInv, WorkInv, HowFar
<1>8. WriterInv' /\ LoopInv' /\ TableInv' /\ ServesOwnSchema'
  BY <1>2, <1>4 DEF MigrationInv, WriterInv, LoopInv, TableInv, ServesOwnSchema
<1>. QED
  BY <1>5, <1>6, <1>7, <1>8 DEF MigrationInv

(* What is left after a power failure. *)
LEMMA PowerLossFacts ==
    ASSUME TypeOK, StoreConsistent, WalGrows, PowerLoss
    PROVE  /\ wal' \in Seq(Databases) /\ wal' # <<>> /\ StoreConsistent' /\ WalGrows'
           /\ Database' \in Databases /\ Consistent(Database')
           /\ IsPrefix(Database'.schema, Database.schema)
<1>1. PICK n \in 1..Len(wal) : wal' = SubSeq(wal, 1, n)
  BY DEF PowerLoss
<1>2. /\ wal \in Seq(Databases) /\ Len(wal) \in Nat \ {0} /\ DOMAIN wal = 1..Len(wal)
      /\ n \in Nat \ {0} /\ n <= Len(wal)
  BY DatabaseType DEF TypeOK
<1>3. /\ wal' \in Seq(Databases) /\ Len(wal') = n /\ DOMAIN wal' = 1..n
      /\ \A i \in 1..n : i \in DOMAIN wal /\ wal'[i] = wal[i]
  BY <1>1, <1>2
<1>4. Database' = wal[n] /\ n \in DOMAIN wal
  BY <1>2, <1>3 DEF Database
<1>5. StoreConsistent' /\ WalGrows'
  BY <1>3 DEF StoreConsistent, WalGrows, Consistent
<1>6. IsPrefix(wal[n].schema, wal[Len(wal)].schema)
  BY <1>2, <1>4 DEF WalGrows
<1>7. wal[n] \in Databases /\ Consistent(wal[n]) /\ wal' # <<>>
  BY <1>2, <1>3, <1>4 DEF StoreConsistent
<1>. QED
  BY <1>3, <1>4, <1>5, <1>6, <1>7 DEF Database

(* A power failure leaves an earlier commit, and no process. *)
LEMMA PowerLossStep ==
    ASSUME MigrationInv, PowerLoss
    PROVE  MigrationInv'
<1>1. wal' \in Seq(Databases) /\ wal' # <<>> /\ StoreConsistent' /\ WalGrows'
  BY PowerLossFacts DEF MigrationInv
<1>2. \A r \in Runners : pc'[r] = "idle"
  BY DEF PowerLoss
<1>3. TypeOK'
  <2>1. EmptyDatabase \in Databases
    BY DEF EmptyDatabase, Databases
  <2>. QED
    BY <1>1, <2>1 DEF PowerLoss, TypeOK, Stages, Reasons
<1>4. WriterInv' /\ LoopInv' /\ WorkInv' /\ TableInv' /\ ServesOwnSchema'
  BY <1>2, NoRunnerAssumption DEF PowerLoss, WriterInv, LoopInv, WorkInv, TableInv, ServesOwnSchema,
                                  Looping, InTransaction
<1>. QED
  BY <1>1, <1>3, <1>4 DEF MigrationInv

---------------------------------------------------------------------------
(* The invariant, and what follows from it.                                *)

(* The invariant holds before the first gateway is launched. *)
LEMMA MigrationInit == Init => MigrationInv
<1> SUFFICES ASSUME Init PROVE MigrationInv
  OBVIOUS
<1>1. /\ wal = <<EmptyDatabase>> /\ Len(wal) = 1 /\ DOMAIN wal = {1} /\ wal[1] = EmptyDatabase
  BY DEF Init
<1>2. EmptyDatabase \in Databases /\ EmptyDatabase.schema = <<>> /\ Consistent(EmptyDatabase)
  BY DEF EmptyDatabase, Databases, Consistent
<1>3. TypeOK
  BY <1>1, <1>2 DEF Init, TypeOK, Stages, Reasons
<1>4. StoreConsistent /\ WalGrows
  <2>1. EmptyDatabase.schema \in Seq(Scripts)
    BY <1>2
  <2>. QED
    BY <1>1, <1>2, <2>1, PrefixOfItself DEF StoreConsistent, WalGrows
<1>5. WriterInv /\ LoopInv /\ WorkInv /\ TableInv /\ ServesOwnSchema
  BY NoRunnerAssumption DEF Init, WriterInv, LoopInv, WorkInv, TableInv, ServesOwnSchema, Looping,
                            InTransaction
<1>. QED
  BY <1>3, <1>4, <1>5 DEF MigrationInv

(* Every step keeps it. *)
LEMMA MigrationStep == MigrationInv /\ [Next]_vars => MigrationInv'
<1> SUFFICES ASSUME MigrationInv, [Next]_vars
             PROVE  MigrationInv'
  OBVIOUS
<1>1. ASSUME NEW r \in Runners, Apply(r)
      PROVE  MigrationInv'
  BY <1>1, BootstrapStep, ReadingStep, ServingStep, MigratingStep, CommitStep DEF Apply
<1>2. CASE Next
  BY <1>1, <1>2, RunnerStep, CheckpointStep, PowerLossStep DEF Next
<1>3. CASE UNCHANGED vars
  <2>1. UNCHANGED <<wal, writer, work, pc, next, reason, reported>> /\ Database' = Database
    BY <1>3 DEF vars, Database
  <2>2. TypeOK' /\ StoreConsistent' /\ WalGrows' /\ WriterInv'
    BY <2>1 DEF MigrationInv, TypeOK, StoreConsistent, Consistent, WalGrows, WriterInv
  <2>3. LoopInv' /\ WorkInv' /\ TableInv' /\ ServesOwnSchema'
    BY <2>1 DEF MigrationInv, LoopInv, WorkInv, HowFar, TableInv, ServesOwnSchema
  <2>. QED
    BY <2>2, <2>3 DEF MigrationInv
<1>. QED
  BY <1>2, <1>3

(* One writer at a time, how far its transaction has come, what a loop has *)
(* behind it and what may survive a power failure hold together, whoever   *)
(* migrates and whatever fails.                                            *)
THEOREM MigrationCorrect == Spec => []MigrationInv
BY MigrationInit, MigrationStep, PTL DEF Spec

(* The state of the database and of the gateways stays within its types. *)
THEOREM MigrationTypeCorrect == Spec => []TypeOK
<1>1. MigrationInv => TypeOK
  BY DEF MigrationInv
<1>. QED
  BY <1>1, MigrationCorrect, PTL

(* Rows, version number and schema of every committed state agree. *)
THEOREM StoreAlwaysConsistent == Spec => []StoreConsistent
<1>1. MigrationInv => StoreConsistent
  BY DEF MigrationInv
<1>. QED
  BY <1>1, MigrationCorrect, PTL

(* A gateway that serves has its release's migrations in the database. *)
THEOREM AlwaysServesOwnSchema == Spec => []ServesOwnSchema
<1>1. MigrationInv => ServesOwnSchema
  BY DEF MigrationInv
<1>. QED
  BY <1>1, MigrationCorrect, PTL

---------------------------------------------------------------------------
(* How the database changes.                                               *)

(* All that a step can do to the database: nothing that the abstract store *)
(* sees, the next migration of one release, or, when the power fails, a    *)
(* return to what was there before.                                        *)
LEMMA DatabaseChanges ==
    ASSUME MigrationInv, [Next]_vars
    PROVE  \/ UNCHANGED <<Database.schema, Database.userVersion>>
           \/ \E r \in Runners : Commit(r)
           \/ PowerLoss
<1>0. TypeOK
  BY DEF MigrationInv
<1>1. UNCHANGED wal => UNCHANGED <<Database.schema, Database.userVersion>>
  BY DEF Database
<1>2. ASSUME NEW r \in Runners, Bootstrap(r)
      PROVE  UNCHANGED <<Database.schema, Database.userVersion>>
  <2>1. CASE wal' = Append(wal, [Database EXCEPT !.table = TRUE])
    <3> DEFINE d == [Database EXCEPT !.table = TRUE]
    <3>1. /\ wal \in Seq(Databases) /\ Database \in Databases /\ d \in Databases
          /\ d.schema = Database.schema /\ d.userVersion = Database.userVersion
      BY <1>0, DatabaseType DEF TypeOK, Databases
    <3>2. wal' = Append(wal, d)
      BY <2>1
    <3> HIDE DEF d
    <3>3. Len(wal') = Len(wal) + 1 /\ wal'[Len(wal) + 1] = d
      BY <3>1, <3>2, AppendProperties
    <3>. QED
      BY <3>1, <3>3 DEF Database
  <2>. QED
    BY <1>1, <1>2, <2>1 DEF Bootstrap
<1>3. ASSUME NEW r \in Runners, Apply(r)
      PROVE  UNCHANGED wal \/ Bootstrap(r) \/ Commit(r)
  BY <1>3 DEF Apply, ReadApplied, CheckUserVersion, ApplyReturns, Begin, RunScript, Record,
              SetUserVersion, Report, Fail
<1>4. ASSUME NEW r \in Runners, Launch(r) \/ Exit(r) \/ StatementFails(r) \/ Crash(r)
      PROVE  UNCHANGED wal
  BY <1>4 DEF Launch, Exit, StatementFails, Crash, Fail
<1>5. ASSUME Checkpoint
      PROVE  UNCHANGED <<Database.schema, Database.userVersion>>
  <2>1. Database' = Database
    BY <1>5 DEF Checkpoint, Database
  <2>. QED
    BY <2>1
<1>6. CASE UNCHANGED vars
  BY <1>1, <1>6 DEF vars
<1>. QED
  BY <1>1, <1>2, <1>3, <1>4, <1>5, <1>6 DEF Next

(* What a commit leaves. *)
LEMMA DatabaseCommitted ==
    ASSUME MigrationInv, NEW r \in Runners, Commit(r)
    PROVE  Database' = work
<1>1. wal \in Seq(Databases) /\ work \in Databases /\ wal' = Append(wal, work)
  BY DEF MigrationInv, TypeOK, Commit
<1>2. Len(wal') = Len(wal) + 1 /\ wal'[Len(wal) + 1] = work
  BY <1>1, AppendProperties
<1>. QED
  BY <1>2 DEF Database

(* Every step is a step of the abstract store: a commit installs the next  *)
(* migration of its own release, however many others read, began or died   *)
(* meanwhile.                                                              *)
LEMMA StoreStep ==
    ASSUME MigrationInv, [Next]_vars
    PROVE  [Store!Advance \/ Store!LoseSome]_<<Database.schema, Database.userVersion>>
<1>1. CASE \E r \in Runners : Commit(r)
  <2>1. PICK r \in Runners : Commit(r)
    BY <1>1
  <2>2. /\ next[r] = Len(Database.schema) + 1 /\ next[r] <= Len(Release[r])
        /\ Database.schema = SubSeq(Release[r], 1, Len(Database.schema))
        /\ Database'.schema = SubSeq(Release[r], 1, Len(Database.schema) + 1)
        /\ Database'.userVersion = Len(Database.schema) + 1
    BY <2>1, CommitFacts, DatabaseCommitted
  <2>3. Len(Database.schema) < Len(Release[r])
    <3>1. Len(Database.schema) \in Nat /\ Len(Release[r]) \in Nat
      BY DatabaseType, ReleaseAssumption DEF MigrationInv
    <3>. QED
      BY <2>2, <3>1
  <2>4. Store!Advance
    BY <2>2, <2>3 DEF Store!Advance
  <2>. QED
    BY <2>4
<1>2. CASE PowerLoss
  <2>1. /\ Database' \in Databases /\ Consistent(Database')
        /\ IsPrefix(Database'.schema, Database.schema)
    BY <1>2, PowerLossFacts DEF MigrationInv
  <2> DEFINE n == Len(Database'.schema)
  <2>2. n \in 0..Len(Database.schema)
    <3>1. n \in Nat /\ Len(Database.schema) \in Nat
      BY <2>1, DatabaseType DEF MigrationInv, Databases
    <3>. QED
      BY <2>1, <3>1 DEF IsPrefix
  <2>3. Database'.schema = SubSeq(Database.schema, 1, n) /\ Database'.userVersion = n
    BY <2>1 DEF IsPrefix, Consistent
  <2>4. Store!LoseSome
    BY <2>2, <2>3 DEF Store!LoseSome
  <2>. QED
    BY <2>4
<1>. QED
  BY <1>1, <1>2, DatabaseChanges

(* However many gateways of however many releases migrate, fail and die,   *)
(* modelharbor.db is the versioned store that its document describes.      *)
THEOREM MigratesAsPromised == Spec => StoreRefined
<1>1. Init => Store!Init
  <2>1. ASSUME Init
        PROVE  Database = EmptyDatabase
    BY <2>1 DEF Init, Database
  <2>. QED
    BY <2>1 DEF Store!Init, EmptyDatabase
<1>2. MigrationInv /\ [Next]_vars
        => [Store!Advance \/ Store!LoseSome]_<<Database.schema, Database.userVersion>>
  BY StoreStep
<1>. QED
  BY <1>1, <1>2, MigrationCorrect, PTL DEF Spec, StoreRefined, Store!Spec

(* No crash, no rollback and no other gateway takes a migration back. *)
THEOREM MigrationsStay == Spec => OnlyPowerTakesBack
<1>1. MigrationInv /\ [Next]_vars => [PowerLoss \/ IsPrefix(Database.schema, Database'.schema)]_vars
  <2> SUFFICES ASSUME MigrationInv, [Next]_vars, ~PowerLoss
               PROVE  IsPrefix(Database.schema, Database'.schema)
    OBVIOUS
  <2>1. CASE \E r \in Runners : Commit(r)
    BY <2>1, CommitFacts, DatabaseCommitted
  <2>2. CASE UNCHANGED <<Database.schema, Database.userVersion>>
    BY <2>2, DatabaseType, PrefixOfItself DEF MigrationInv
  <2>. QED
    BY <2>1, <2>2, DatabaseChanges
<1>. QED
  BY <1>1, MigrationCorrect, PTL DEF Spec, OnlyPowerTakesBack
=============================================================================
