----------------------------- MODULE MCDatabase -----------------------------
(* Instances of Database for TLC. *)
EXTENDS DatabaseProperties

CONSTANTS c1, c2, a

(* Of the sites there may be, the calls name the first. *)
Workload(names, savers, most) ==
    [calls |-> {call \in Calls : call.name \in names /\ call.id <= 1},
     savers |-> savers, commits |-> most]

(* Sites with what refers to them; the rows themselves; a setting; backups *)
(* while others commit.                                                    *)
SomeWorkloads ==
    {Workload({"sites.create", "sites.remove", "channels.insert", "credentials.insert"},
              {}, 3),
     Workload({"sites.create", "sites.find_by_id", "sites.list", "sites.update",
               "sites.remove"}, {}, 2),
     Workload({"app_settings.upsert", "app_settings.find", "app_settings.remove"}, {}, 2),
     [calls |-> {Call("app_settings.upsert", 0, a), Call("app_settings.find", 0, NoRow)},
      savers |-> {c1}, commits |-> 2]}
=============================================================================
