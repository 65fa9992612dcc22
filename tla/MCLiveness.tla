----------------------------- MODULE MCLiveness -----------------------------
(***************************************************************************)
(* What must come about, for TLC: the jobs a server drives, the parser     *)
(* worker an importer keeps, a run that is interrupted and resumed, an     *)
(* import by a remote parser.  They share no state, so their product says  *)
(* no more than each of them alone: `part` says which one a behaviour is   *)
(* about, and the others stay as they begin.                               *)
(***************************************************************************)
EXTENDS ImportJobs, WarmWorker

VARIABLES
    part,
    process, starts, exec, heard, missing, changed, journal, tail, nextSeq, blobs, settled,
    unreadable,
    post, owner, held, mode, terminal, answer, locked, old, faults, due, get, at, backend,
    deleted, told

runVars == <<process, starts, exec, heard, missing, changed, journal, tail, nextSeq, blobs,
             settled, unreadable>>
serverVars == <<post, owner, held, mode, terminal, answer, locked, old, faults, due, get,
                at, backend, deleted, told>>
parts == <<vars, serverVars, workerVars, runVars>>

RunSteps == {"s1", "s2"}

Run == INSTANCE StepLedger WITH
    Steps <- RunSteps, Tears <- {"prefix", "whole"}, PowerLosses <- "yes",
    MaxStarts <- 2, None <- Nobody, told <- heard

Posts == {"j1", "j2"}
Getters == {"g1", "g2"}

Server == INSTANCE ServerJobs WITH
    Jobs <- Posts, Strategies <- {"j2"}, Principals <- {"p1"}, MaxJobs <- 1,
    MaxPerPrincipal <- 1, MaxSubmits <- 2, MaxFaults <- 1, None <- Nobody, pc <- get

\* Where a part may begin in several ways, only a behaviour about it does.
LiveInit ==
    /\ part \in {"server", "worker", "run", "import"}
    /\ Init /\ Server!Init /\ WorkerInit /\ Run!LedgerInit
    /\ part = "run" \/ missing \cup changed = {}

LiveNext ==
    /\ part' = part
    /\ \/ /\ part = "server" /\ Server!Next
          /\ UNCHANGED <<vars, workerVars, runVars>>
       \/ /\ part = "worker" /\ WorkerNext
          /\ UNCHANGED <<vars, serverVars, runVars>>
       \/ /\ part = "run" /\ Run!LedgerNext
          /\ UNCHANGED <<vars, serverVars, workerVars>>
       \/ /\ part = "import" /\ Next
          /\ UNCHANGED <<serverVars, workerVars, runVars>>

\* What each part assumes of its actions, which only its own behaviours take.
ServerIs == part = "server"
WorkerIs == part = "worker"
RunIs == part = "run"
ImportIs == part = "import"

LiveFairness ==
    /\ WF_serverVars(ServerIs /\ Server!Sweep)
    /\ \A g \in Getters : /\ WF_serverVars(ServerIs /\ Server!Polling(g))
                          /\ WF_serverVars(ServerIs /\ Server!FinishDrive(g))
                          /\ WF_serverVars(ServerIs /\ Server!SliceExpires(g))
    /\ \A j \in Posts :
        /\ SF_serverVars(ServerIs /\ \E g \in Getters : Server!StartDrive(g, j))
        /\ WF_serverVars(ServerIs /\ \E result \in {"good", "bad", "failed"} :
                                      Server!BackendEnds(j, result))
        /\ WF_serverVars(ServerIs /\ Server!BecomeDue(j))
        /\ WF_serverVars(ServerIs /\ Server!Age(j))
    /\ WF_workerVars(WorkerIs /\ (Send \/ Read \/ Handle))
    /\ \A r \in Runs : /\ WF_workerVars(WorkerIs /\ Fire(r))
                              /\ WF_workerVars(WorkerIs /\ Idle(r))
    /\ \A g \in Gens :
         /\ WF_workerVars(WorkerIs /\ TakesJob(g))
         /\ WF_workerVars(WorkerIs /\ Returns(g))
         /\ WF_workerVars(WorkerIs /\ (Stage(g) \/ Answer(g)))
    /\ \A s \in RunSteps : WF_runVars(RunIs /\ Run!Exec(s))
    /\ WF_runVars(RunIs /\ Run!StartProcess)
    /\ \A c \in Clients : WF_vars(ImportIs /\ ClientStep(c))
    /\ \A i \in Jobs : /\ WF_vars(ImportIs /\ SupervisorStep(i))
                       /\ SF_vars(ImportIs /\ Admit(i))
                       /\ WF_vars(ImportIs /\ GraceExpires(i))
                       /\ SF_vars(ImportIs /\ \E c \in Clients : Get(c, i, "get"))

LiveSpec == LiveInit /\ [][LiveNext]_<<part, parts>> /\ LiveFairness

-----------------------------------------------------------------------------
(* The properties of the parts, by their own names.                        *)

IdleWorkersEnd == WorkerIs => WorkersEnd
RunCompletes == RunIs => Run!RunCompletes
PolledJobsEnd == ServerIs => Server!PolledJobsEnd
=============================================================================
