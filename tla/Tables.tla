------------------------------- MODULE Tables -------------------------------
(***************************************************************************)
(* What the statements of SiteRepository and AppSettingsRepository do      *)
(* (persistence/site_repository.cpp, app_settings_repository.cpp) to the   *)
(* tables of resources/migrations/0001_initial.sql, and what they return.  *)
(*                                                                         *)
(* A site is its id and what it holds; of what refers to sites there are   *)
(* the site_id columns of channels (ON DELETE RESTRICT) and of credentials *)
(* (ON DELETE SET NULL), and of the settings there is one key.             *)
(***************************************************************************)
EXTENDS Integers

CONSTANTS
    Data,          \* what a site or a setting may hold
    Blank,         \* what the CHECKs of sites refuse: an empty name
    MaxId,         \* bound on the ids of sites
    NoRow,         \* std::nullopt, and a column that a statement does not have
    Refused        \* the DatabaseError of a constraint

ASSUME MaxIdAssumption == MaxId \in Nat \ {0}
ASSUME RowsAssumption == NoRow \notin Data \cup {Refused} /\ Refused \notin Data

Ids == 1..MaxId

EmptyDatabase ==
    [sites |-> [id \in {} |-> NoRow], channels |-> {}, credentials |-> {}, setting |-> NoRow]

SitesOf(db) == DOMAIN db.sites

(* What a statement leaves, what it returns, and whether it wrote a row.   *)
Returns(db, answer) == [db |-> db, answer |-> answer, wrote |-> FALSE]
Writes(db, answer) == [db |-> db, answer |-> answer, wrote |-> TRUE]

(* A bug: the connection is opened without the pragma. *)
ForeignKeysOff == FALSE

(* SqliteDatabase::open() sets foreign_keys, which SQLite leaves off. *)
ForeignKeysOn == TRUE

(* INTEGER PRIMARY KEY: one more than the largest, so that the id of a     *)
(* site that was removed may be given again.                               *)
NextId(db) == 1 + CHOOSE n \in 0..MaxId : 
                      /\ n \in SitesOf(db) \cup {0}
                      /\ \A id \in SitesOf(db) : id <= n

WithSite(db, id, data) ==
    [db EXCEPT !.sites =
        [i \in SitesOf(db) \cup {id} |-> IF i = id THEN data ELSE db.sites[i]]]

Create(db, data) ==
    IF data = Blank THEN Returns(db, Refused)
                    ELSE Writes(WithSite(db, NextId(db), data), NextId(db))

FindById(db, id) ==
    Returns(db, IF id \in SitesOf(db) THEN db.sites[id] ELSE NoRow)

List(db) == Returns(db, db.sites)

Update(db, id, data) ==
    IF id \notin SitesOf(db) THEN Returns(db, FALSE)
    ELSE IF data = Blank THEN Returns(db, Refused)
    ELSE Writes(WithSite(db, id, data), TRUE)

Remove(db, id) ==
    IF id \notin SitesOf(db) THEN Returns(db, FALSE)
    ELSE IF ForeignKeysOn /\ id \in db.channels THEN Returns(db, Refused)
    ELSE Writes([db EXCEPT
                    !.sites = [i \in SitesOf(db) \ {id} |-> db.sites[i]],
                    !.credentials = IF ForeignKeysOn THEN @ \ {id} ELSE @], TRUE)

Upsert(db, data) == Writes([db EXCEPT !.setting = data], TRUE)

FindSetting(db) == Returns(db, db.setting)

RemoveSetting(db) ==
    IF db.setting = NoRow THEN Returns(db, TRUE)
                          ELSE Writes([db EXCEPT !.setting = NoRow], TRUE)

(* INSERT INTO channels and credentials with a site_id.  Nothing but the   *)
(* tests inserts rows there; a channel's own credential is left out.       *)
AddChannel(db, id) ==
    IF ForeignKeysOn /\ id \notin SitesOf(db) THEN Returns(db, Refused)
    ELSE Writes([db EXCEPT !.channels = @ \cup {id}], TRUE)

AddCredential(db, id) ==
    IF ForeignKeysOn /\ id \notin SitesOf(db) THEN Returns(db, Refused)
    ELSE Writes([db EXCEPT !.credentials = @ \cup {id}], TRUE)

-----------------------------------------------------------------------------

(* A call of the persistence interface, by the context it puts in errors.  *)
Call(name, id, data) == [name |-> name, id |-> id, data |-> data]

Readers == {"sites.find_by_id", "sites.list", "app_settings.find"}

Reads(call) == call.name \in Readers

Calls ==
    {Call(name, 0, data) : name \in {"sites.create", "app_settings.upsert"}, data \in Data}
    \cup {Call(name, id, NoRow) :
             name \in {"sites.find_by_id", "sites.remove", "channels.insert",
                       "credentials.insert"}, id \in Ids}
    \cup {Call("sites.update", id, data) : id \in Ids, data \in Data}
    \cup {Call(name, 0, NoRow) :
             name \in {"sites.list", "app_settings.find", "app_settings.remove"}}

Effect(db, call) ==
    CASE call.name = "sites.create" -> Create(db, call.data)
      [] call.name = "sites.find_by_id" -> FindById(db, call.id)
      [] call.name = "sites.list" -> List(db)
      [] call.name = "sites.update" -> Update(db, call.id, call.data)
      [] call.name = "sites.remove" -> Remove(db, call.id)
      [] call.name = "app_settings.upsert" -> Upsert(db, call.data)
      [] call.name = "app_settings.find" -> FindSetting(db)
      [] call.name = "app_settings.remove" -> RemoveSetting(db)
      [] call.name = "channels.insert" -> AddChannel(db, call.id)
      [] call.name = "credentials.insert" -> AddCredential(db, call.id)

(* MaxId: there is an id left for the next site. *)
Fits(db, call) == call.name = "sites.create" => NextId(db) \in Ids
=============================================================================
