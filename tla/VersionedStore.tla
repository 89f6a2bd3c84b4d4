--------------------------- MODULE VersionedStore ---------------------------
(***************************************************************************)
(* What the gateways promise of modelharbor.db (docs/DATABASE_SCHEMA.md,   *)
(* sections 2 and 4): it only ever holds a release's migrations from the   *)
(* first one on, it goes forward by one migration at a time, and the       *)
(* version number goes with the contents.  A power failure may take back   *)
(* migrations, the last ones first.                                        *)
(***************************************************************************)
EXTENDS Naturals, Sequences

CONSTANT Releases   \* the lists of migrations of the releases there are

VARIABLES installed, version

Init == installed = <<>> /\ version = 0

Advance ==
    \E release \in Releases :
        /\ Len(installed) < Len(release)
        /\ installed = SubSeq(release, 1, Len(installed))
        /\ installed' = SubSeq(release, 1, Len(installed) + 1)
        /\ version' = Len(installed) + 1

LoseSome ==
    \E n \in 0..Len(installed) :
        installed' = SubSeq(installed, 1, n) /\ version' = n

Spec == Init /\ [][Advance \/ LoseSome]_<<installed, version>>
=============================================================================
