---------------------------- MODULE MCMigration ----------------------------
(* Instances of Migration for TLC. *)
EXTENDS MigrationProperties, TLC

CONSTANTS r1, r2, r3, m1, m2, x1, x2

(* A release, the one before it, and one whose migrations were changed.    *)
Diverging == r1 :> <<m1, m2>> @@ r2 :> <<m1>> @@ r3 :> <<x1, x2>>

(* Two gateways of one release. *)
SameRelease == r1 :> <<m1, m2>> @@ r2 :> <<m1, m2>>
=============================================================================
