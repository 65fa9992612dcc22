---------------------------- MODULE ImportPromise ----------------------------
(***************************************************************************)
(* What the import-job tools promise an MCP client, with no processes, no  *)
(* locks and no files: a bounded set of pending jobs, one for each source, *)
(* each of which is resolved at most once and never after that.  ImportJobs *)
(* is the implementation; it refines this module through the mapping given *)
(* there.                                                                  *)
(***************************************************************************)
EXTENDS Naturals, FiniteSets

CONSTANTS
    Jobs,           \* job identifiers
    Sources,        \* relative paths below the input grant
    MaxActiveJobs,  \* admission bound of one input grant
    NoSource        \* the source of a job that was never accepted

VARIABLES
    outcome,        \* outcome[j]: what a client can be told about job j
    source,         \* source[j]: the path the job was accepted for
    retained        \* the jobs whose own extraction reached the store

vars == <<outcome, source, retained>>

Outcomes == {"unknown", "pending", "succeeded", "failed", "cancelled"}

Pending == {j \in Jobs : outcome[j] = "pending"}

TypeOK ==
    /\ outcome \in [Jobs -> Outcomes]
    /\ source \in [Jobs -> Sources \cup {NoSource}]
    /\ retained \subseteq Jobs

Init ==
    /\ outcome = [j \in Jobs |-> "unknown"]
    /\ source = [j \in Jobs |-> NoSource]
    /\ retained = {}

\* A job is accepted for a source no pending job holds, below the bound.
Accept(j, s) ==
    /\ outcome[j] = "unknown"
    /\ Cardinality(Pending) < MaxActiveJobs
    /\ \A k \in Pending : source[k] # s
    /\ outcome' = [outcome EXCEPT ![j] = "pending"]
    /\ source' = [source EXCEPT ![j] = s]
    /\ UNCHANGED retained

\* A launch that fails leaves no trace of the job.
Withdraw(j) ==
    /\ outcome[j] = "pending"
    /\ j \notin retained
    /\ outcome' = [outcome EXCEPT ![j] = "unknown"]
    /\ source' = [source EXCEPT ![j] = NoSource]
    /\ UNCHANGED retained

\* The extraction of a pending job becomes visible in the store.
Retain(j) ==
    /\ outcome[j] = "pending"
    /\ retained' = retained \cup {j}
    /\ UNCHANGED <<outcome, source>>

\* A pending job ends.  Only a job that put nothing in the store is reported
\* as cancelled: publication wins a cancellation race.
Resolve(j, o) ==
    /\ outcome[j] = "pending"
    /\ o = "cancelled" => j \notin retained
    /\ outcome' = [outcome EXCEPT ![j] = o]
    /\ UNCHANGED <<source, retained>>

Next ==
    \E j \in Jobs :
        \/ \E s \in Sources : Accept(j, s)
        \/ Withdraw(j)
        \/ Retain(j)
        \/ \E o \in {"succeeded", "failed", "cancelled"} : Resolve(j, o)

Spec == Init /\ [][Next]_vars
==============================================================================
