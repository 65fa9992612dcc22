------------------------- MODULE MCResumeIdentity -------------------------
(***************************************************************************)
(* Instances of ResumeIdentity for TLC: a rung before a `use:` of a tree   *)
(* whose rungs are reordered between two processes of a run.               *)
(***************************************************************************)
EXTENDS ResumeIdentity

All == {"a", "b", "c"}
OneName == {"tree"}
OneRoot == {<<"a", "tree">>}
TwoBodies == {<<"a", "b">>, <<"b", "c">>}
AllOnly == {All}
=============================================================================
