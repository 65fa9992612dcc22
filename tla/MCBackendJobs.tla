--------------------------- MODULE MCBackendJobs ----------------------------
(***************************************************************************)
(* An instance of BackendJobs for TLC: one read, any backend.              *)
(***************************************************************************)
EXTENDS BackendJobs
=============================================================================
