---------------------------- MODULE LedgerSteps ----------------------------
(***************************************************************************)
(* The steps of a run, what can come of them (ledger/step.py), and what    *)
(* can happen to the processes that take them.                             *)
(***************************************************************************)
EXTENDS Naturals

CONSTANTS
    Steps,          \* the (step_path, step_seq) keys of the run
    Tears,          \* what a crash may leave of the line it interrupts
    PowerLosses,    \* "yes": a machine may fail, "no": only processes die
    MaxStarts,      \* bound: the first process and the resumes
    None            \* no step, no outcome

\* Outcomes of a call to a backend, and those decided without one.
CallOutcomes == {"ok", "failed", "cancelled"}
Outcomes == CallOutcomes \cup {"skipped", "refused"}

ASSUME LedgerAssumption ==
    /\ None \notin Steps \cup Outcomes
    /\ Tears \subseteq {"prefix", "whole", "split"}
    /\ PowerLosses \in {"yes", "no"}
    /\ MaxStarts \in Nat
=============================================================================
