-------------------------- MODULE MCParallelRace --------------------------
(***************************************************************************)
(* Instances of ParallelRace for TLC: a slow primary and its hedge.        *)
(***************************************************************************)
EXTENDS ParallelRace

Stall == {[n |-> 2, hedged |-> {2}, shadows |-> {}, composite |-> {},
           onWin |-> "cancel", ledger |-> "armed"]}
=============================================================================
