----------------------------- MODULE AtomicStore -----------------------------
(***************************************************************************)
(* What a connection's caller may rely on (docs/DATABASE_SCHEMA.md,        *)
(* section 5): a call outside a transaction that returned has been done,   *)
(* one that threw has not; a transaction sees the database as it was when  *)
(* it began to look, with its own changes; its changes are there at once   *)
(* and whole when commit() returns, as if nobody had written since it      *)
(* began, and never otherwise.                                             *)
(***************************************************************************)
EXTENDS Tables

CONSTANTS
    Clients,
    Requests,      \* the calls that they make
    Done, Failed   \* what a call returned that returns nothing or has thrown

VARIABLES
    store,         \* what is committed
    unit,          \* each client's transaction: what it began with and what it sees
    answer         \* what returned last: to whom, from which call, with what

Begun == Call("transaction_begin", 0, NoRow)
Committed == Call("transaction_commit", 0, NoRow)
RolledBack == Call("transaction_rollback", 0, NoRow)

AnyCall == Call("any", 0, NoRow)

NoAnswer == <<>>
NoUnit == [open |-> FALSE, base |-> EmptyDatabase, now |-> EmptyDatabase, wrote |-> FALSE]
Fresh == [open |-> TRUE, base |-> store, now |-> store, wrote |-> FALSE]
UnitOf(c) == IF unit[c].open THEN unit[c] ELSE Fresh

Init ==
    /\ store = EmptyDatabase
    /\ unit = [c \in Clients |-> NoUnit]
    /\ answer = NoAnswer

Answer(c, call, result) == answer' = <<c, call, result>>

(* The call that this step answers: nothing else needs to be looked at.    *)
Asked(c) ==
    IF answer' = NoAnswer THEN {}
    ELSE IF answer'[1] # c THEN {} ELSE Requests \cap {answer'[2]}

Single(c) ==
    /\ ~unit[c].open
    /\ UNCHANGED unit
    /\ \E call \in Asked(c) :
           LET effect == Effect(store, call)
           IN  Answer(c, call, effect.answer) /\ store' = effect.db

Open(c) ==
    /\ ~unit[c].open
    /\ Answer(c, Begun, Done)
    /\ unit' \in {unit, [unit EXCEPT ![c] = Fresh]}
    /\ UNCHANGED store

Extend(c) ==
    /\ UNCHANGED store
    /\ \E call \in Asked(c) :
           LET effect == Effect(UnitOf(c).now, call)
           IN  /\ Answer(c, call, effect.answer)
               /\ unit' = [unit EXCEPT ![c] =
                              [open |-> TRUE, base |-> UnitOf(c).base, now |-> effect.db,
                               wrote |-> UnitOf(c).wrote \/ effect.wrote]]

Close(c) ==
    /\ UnitOf(c).wrote => UnitOf(c).base = store
    /\ store' = IF UnitOf(c).wrote THEN UnitOf(c).now ELSE store
    /\ unit' = [unit EXCEPT ![c] = NoUnit]
    /\ Answer(c, Committed, Done)

(* An error, whether or not it ends the transaction. *)
Fail(c) ==
    /\ Answer(c, AnyCall, Failed)
    /\ unit' \in {unit, [unit EXCEPT ![c] = NoUnit]}
    /\ UNCHANGED store

Abandon(c) ==
    /\ unit' = [unit EXCEPT ![c] = NoUnit]
    /\ Answer(c, RolledBack, Done) \/ answer' = NoAnswer
    /\ UNCHANGED store

Next ==
    \E c \in Clients :
        Single(c) \/ Open(c) \/ Extend(c) \/ Close(c) \/ Fail(c) \/ Abandon(c)

Spec == Init /\ [][Next]_<<store, unit, answer>>
=============================================================================
