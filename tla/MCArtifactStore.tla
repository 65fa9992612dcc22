-------------------------- MODULE MCArtifactStore --------------------------
(***************************************************************************)
(* An instance of ArtifactStore for TLC.  A run of it checks a temporal    *)
(* property, so no symmetry is used.                                       *)
(***************************************************************************)
EXTENDS ArtifactStore, TLC

CONSTANTS p1, p2, d1, d2, t1, t2, t3

TwoImporters == {p1, p2}
TwoDocs == {d1, d2}
ThreeDirs == {t1, t2, t3}
=============================================================================
