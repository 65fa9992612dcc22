---------------------------- MODULE MCImportJobs ----------------------------
(***************************************************************************)
(* Instances of ImportJobs for TLC.                                        *)
(***************************************************************************)
EXTENDS ImportJobs, TLC

CONSTANTS c1, c2, j1, j2, s1, s2

TwoClients == {c1, c2}
OneClient == {c1}
NoJob == {}
OneJob == {j1}
TwoJobs == {j1, j2}
TwoSources == {s1, s2}
OneSource == {s1}

\* Clients and sources are interchangeable, and so are job identifiers.
Symmetry == Permutations(Clients) \cup Permutations(Jobs) \cup Permutations(Sources)
==============================================================================
