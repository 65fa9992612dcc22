---------------------------- MODULE MCServerJobs ----------------------------
(***************************************************************************)
(* Instances of ServerJobs for TLC.  The runs check temporal properties, so *)
(* no symmetry is used.                                                    *)
(***************************************************************************)
EXTENDS ServerJobs
=============================================================================
