--------------------------- MODULE MCStrategyWalk ---------------------------
(***************************************************************************)
(* An instance of StrategyWalk for TLC, on the strategies of WalkTrees.    *)
(***************************************************************************)
EXTENDS StrategyWalk, WalkTrees

GivenTrees == MCTrees(Nil)
=============================================================================
