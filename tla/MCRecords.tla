----------------------------- MODULE MCRecords -----------------------------
(***************************************************************************)
(* What is on record, for TLC: the status files of import jobs, which      *)
(* clients and supervisors write, the ledger of a run, which processes     *)
(* that die append to, and the cache of results that the reads of a server *)
(* share.  They share no state: `part` says which one a behaviour is       *)
(* about, and the others stay as they begin.                               *)
(***************************************************************************)
EXTENDS ImportJobs, StepLedger, PlanExecutor, TLC

\* Backends that answer at once, in pages, by a second call, or not without credentials.
Everything == {"docling", "aws_textract", "nuextract", "pulse"}
NoCredentials == {"docling"}
FullChain == <<"docling", "aws_textract", "nuextract">>
MCChains == {FullChain, <<"pulse">>}
MCScopes == {Everything, Everything \ {"nuextract"}}

VARIABLE part

\* One read, whichever, may try everything; another is kept from the last backend, or has
\* a chain of its own.
Full(r) == chain[r] = FullChain /\ scope[r] = Everything
WideRead == CHOOSE r \in Reads : TRUE

RecordsInit ==
    /\ part \in {"jobs", "ledger", "reads"}
    /\ Init /\ LedgerInit /\ PlanInit
    /\ IF part = "reads" THEN Full(WideRead) /\ \A r \in Reads \ {WideRead} : ~Full(r)
       ELSE \A r \in Reads : Full(r)
    /\ \A r \in Reads : chain[r] = FullChain \/ scope[r] = Everything

\* A run is over when nothing may resume it, and the reads when each has ended.
RunIsOver == starts = MaxStarts
ReadsAreOver == \A r \in Reads : at[r] \in {"answered", "exhausted", "refused"}

RecordsNext ==
    /\ part' = part
    /\ \/ part = "jobs" /\ Next /\ UNCHANGED <<ledgerVars, allVars>>
       \/ part = "ledger" /\ LedgerNext /\ UNCHANGED <<vars, allVars>>
       \/ part = "reads" /\ PlanNext /\ UNCHANGED <<vars, ledgerVars>>
       \/ /\ (part = "ledger" /\ RunIsOver) \/ (part = "reads" /\ ReadsAreOver)
          /\ UNCHANGED <<vars, ledgerVars, allVars>>

RecordsSpec == RecordsInit /\ [][RecordsNext]_<<part, vars, ledgerVars, allVars>>

\* Clients, job identifiers and steps are interchangeable.
Symmetry ==
    Permutations(Clients) \cup Permutations(Jobs) \cup Permutations(Steps)
=============================================================================
