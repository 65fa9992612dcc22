---------------------------- MODULE MCStepLedger ----------------------------
(***************************************************************************)
(* Instances of StepLedger for TLC.                                        *)
(***************************************************************************)
EXTENDS StepLedger, TLC

\* Steps are interchangeable.
Symmetry == Permutations(Steps)
=============================================================================
