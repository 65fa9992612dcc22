----------------------------- MODULE ImportJobs -----------------------------
(***************************************************************************)
(* Detached import jobs of one input grant (artifacts/jobs.py).            *)
(*                                                                         *)
(* MCP client processes start, poll and cancel jobs; every job runs in a   *)
(* supervisor process of its own that may outlive its launcher.  The       *)
(* processes share nothing but files and three kinds of advisory lock: the *)
(* grant's admission lock, one supervisor lock for each job, and the       *)
(* store's import lock.  An operating-system lock is dropped when its      *)
(* holder dies, a file is not.                                             *)
(*                                                                         *)
(* One action is one durable step: a file replaced, a lock taken, a        *)
(* process started, or a read whose result is used later.                  *)
(***************************************************************************)
EXTENDS Naturals, FiniteSets

CONSTANTS
    Clients,        \* MCP client processes on this grant
    Jobs,           \* job identifiers
    Sources,        \* relative paths a client can ask for
    MaxActiveJobs,  \* MAX_ACTIVE_JOBS
    Remote,         \* jobs that carry an ImportExecution (a remote parse)
    MaxCrashes,     \* bound: process deaths the environment can cause
    Nobody,         \* the owner of a free lock
    NoSource,       \* request.json is absent
    Child           \* the owner of a supervisor lock held by its supervisor

ASSUME ClientsAssumption == IsFiniteSet(Clients) /\ IsFiniteSet(Jobs)
ASSUME BoundAssumption == MaxActiveJobs \in Nat \ {0} /\ MaxCrashes \in Nat
ASSUME ModeAssumption == Remote \subseteq Jobs
ASSUME OwnersAssumption ==
    /\ Nobody \notin Clients \cup Jobs
    /\ Child \notin Clients /\ Child # Nobody
    /\ NoSource \notin Sources

VARIABLES
    (* Files below jobs/<grant>/<job>. *)
    status,         \* "absent", "empty" (no status.json yet), or the state in it
    request,        \* path in request.json, or NoSource
    identity,       \* process.json names the supervisor and can be read
    cancelled,      \* the cancel file exists, or the stop signal arrived
    graceOver,      \* sixty seconds have passed since request.json's start
    (* The artifact store and the remote parser. *)
    retained,       \* jobs whose artifact directory was renamed into documents
    stage,          \* the last stage an external import reported
    submissions,    \* uploads handed to the remote parser, per job
    (* Locks. *)
    admission,      \* .admission-<grant>.lock
    supervisorLock, \* supervisorLock[j]: jobs/<grant>/<j>/supervisor.lock
    importLock,     \* .import.lock
    (* Processes. *)
    supervisor,     \* control state of each job's supervisor
    pidReused,      \* jobs whose dead supervisor's PID names another process
    crashes,        \* process deaths so far
    (* Local variables of each client's current call. *)
    pc,             \* its control state
    op,             \* "start", "get" or "cancel"
    cur,            \* the job being observed, cancelled or launched
    src,            \* the path being started
    todo,           \* records the scan has not reached
    active          \* records it has counted as active

clientVars == <<pc, op, cur, src, todo, active>>
storeVars == <<retained, stage, submissions>>
vars == <<status, request, identity, cancelled, graceOver, retained, stage,
          submissions, admission, supervisorLock, importLock, supervisor,
          pidReused, crashes, pc, op, cur, src, todo, active>>

Terminal == {"succeeded", "failed", "cancelled"}
Nonterminal == {"queued", "running"}

\* A supervisor between taking its job's lock and exiting.
Working == {"ready", "loop", "remote", "retain", "importing", "committing",
            "published", "succeeding", "failing", "cancelling"}
HoldsSupervisorLock == {"locked"} \cup Working
Live == {"spawned"} \cup HoldsSupervisorLock
HoldsImportLock == {"importing", "committing", "published"}

\* A client holding the admission lock; Launch is the part inside _start.
Launch == {"made", "recorded", "requested", "launched"}
HoldsAdmission == {"scan", "look", "probe", "recover"} \cup Launch

TypeOK ==
    /\ status \in [Jobs -> {"absent", "empty"} \cup Nonterminal \cup Terminal]
    /\ request \in [Jobs -> Sources \cup {NoSource}]
    /\ identity \in [Jobs -> BOOLEAN]
    /\ cancelled \in [Jobs -> BOOLEAN]
    /\ graceOver \in [Jobs -> BOOLEAN]
    /\ retained \subseteq Jobs
    /\ stage \in [Jobs -> {"queued", "uploading", "retaining"}]
    /\ submissions \in [Jobs -> Nat]
    /\ admission \in Clients \cup {Nobody}
    /\ supervisorLock \in [Jobs -> Clients \cup {Child, Nobody}]
    /\ importLock \in Jobs \cup {Nobody}
    /\ supervisor \in [Jobs -> {"none", "dead"} \cup Live]
    /\ pidReused \subseteq Jobs
    /\ crashes \in 0..MaxCrashes
    /\ pc \in [Clients -> {"idle", "cancel", "again"} \cup HoldsAdmission]
    /\ op \in [Clients -> {"start", "get", "cancel"}]
    /\ cur \in [Clients -> Jobs \cup {Nobody}]
    /\ src \in [Clients -> Sources \cup {NoSource}]
    /\ todo \in [Clients -> SUBSET Jobs]
    /\ active \in [Clients -> SUBSET Jobs]

Init ==
    /\ status = [j \in Jobs |-> "absent"]
    /\ request = [j \in Jobs |-> NoSource]
    /\ identity = [j \in Jobs |-> FALSE]
    /\ cancelled = [j \in Jobs |-> FALSE]
    /\ graceOver = [j \in Jobs |-> FALSE]
    /\ retained = {}
    /\ stage = [j \in Jobs |-> "queued"]
    /\ submissions = [j \in Jobs |-> 0]
    /\ admission = Nobody
    /\ supervisorLock = [j \in Jobs |-> Nobody]
    /\ importLock = Nobody
    /\ supervisor = [j \in Jobs |-> "none"]
    /\ pidReused = {}
    /\ crashes = 0
    /\ pc = [c \in Clients |-> "idle"]
    /\ op = [c \in Clients |-> "get"]
    /\ cur = [c \in Clients |-> Nobody]
    /\ src = [c \in Clients |-> NoSource]
    /\ todo = [c \in Clients |-> {}]
    /\ active = [c \in Clients |-> {}]

-----------------------------------------------------------------------------
(* Clients: entering and leaving a call                                    *)

Take(c) ==
    /\ admission = Nobody
    /\ admission' = c

\* The call ends, with a value or an error.  Its local variables are gone.
Forget(c) ==
    /\ pc' = [pc EXCEPT ![c] = "idle"]
    /\ op' = [op EXCEPT ![c] = "get"]
    /\ cur' = [cur EXCEPT ![c] = Nobody]
    /\ src' = [src EXCEPT ![c] = NoSource]
    /\ todo' = [todo EXCEPT ![c] = {}]
    /\ active' = [active EXCEPT ![c] = {}]

Return(c) == Forget(c) /\ admission' = Nobody

\* start(path) scans every record under the admission lock.  Identifiers are
\* random and never run out; in a model with finitely many of them a start
\* needs one that is left.
Start(c, s) ==
    /\ pc[c] = "idle"
    /\ \E j \in Jobs : status[j] = "absent"
    /\ Take(c)
    /\ pc' = [pc EXCEPT ![c] = "scan"]
    /\ op' = [op EXCEPT ![c] = "start"]
    /\ src' = [src EXCEPT ![c] = s]
    /\ todo' = [todo EXCEPT ![c] = {j \in Jobs : status[j] # "absent"}]
    /\ UNCHANGED <<status, request, identity, cancelled, graceOver, storeVars,
                   supervisorLock, importLock, supervisor, pidReused, crashes,
                   cur, active>>

\* get(job), or the get that cancel(job) begins with.  list calls get for
\* each job of its page.
Get(c, j, o) ==
    /\ pc[c] = "idle"
    /\ status[j] # "absent"
    /\ Take(c)
    /\ pc' = [pc EXCEPT ![c] = "scan"]
    /\ op' = [op EXCEPT ![c] = o]
    /\ todo' = [todo EXCEPT ![c] = {j}]
    /\ UNCHANGED <<status, request, identity, cancelled, graceOver, storeVars,
                   supervisorLock, importLock, supervisor, pidReused, crashes,
                   cur, src, active>>

\* cancel(job), once its first get said "not terminal", writes the cancel
\* file without any lock ...
WriteCancel(c) ==
    /\ pc[c] = "cancel"
    /\ cancelled' = [cancelled EXCEPT ![cur[c]] = TRUE]
    /\ pc' = [pc EXCEPT ![c] = "again"]
    /\ UNCHANGED <<status, request, identity, graceOver, storeVars, admission,
                   supervisorLock, importLock, supervisor, pidReused, crashes,
                   op, cur, src, todo, active>>

\* ... and then runs get once more.
GetAgain(c) ==
    /\ pc[c] = "again"
    /\ Take(c)
    /\ pc' = [pc EXCEPT ![c] = "scan"]
    /\ op' = [op EXCEPT ![c] = "get"]
    /\ todo' = [todo EXCEPT ![c] = {cur[c]}]
    /\ UNCHANGED <<status, request, identity, cancelled, graceOver, storeVars,
                   supervisorLock, importLock, supervisor, pidReused, crashes,
                   cur, src, active>>

-----------------------------------------------------------------------------
(* Clients: _observe, always under the admission lock                      *)

\* A start counts active job j and answers "busy" on its own source or at the
\* bound.
RefusedAboveBound(c, j) ==                                    \* mutant
    \/ request[j] = src[c]
    \/ Cardinality(active[c] \cup {j}) > MaxActiveJobs
RefusedAtBoundOnly(c, j) ==                                   \* mutant
    Cardinality(active[c] \cup {j}) >= MaxActiveJobs
Refused(c, j) ==
    \/ request[j] = src[c]
    \/ Cardinality(active[c] \cup {j}) >= MaxActiveJobs

\* The observation found the job active.
StillActive(c, j) ==
    \/ /\ op[c] = "start" /\ ~Refused(c, j)
       /\ active' = [active EXCEPT ![c] = @ \cup {j}]
       /\ pc' = [pc EXCEPT ![c] = "scan"]
       /\ UNCHANGED <<admission, op, cur, src, todo>>
    \/ /\ op[c] = "start" /\ Refused(c, j)
       /\ Return(c)
    \/ /\ op[c] = "get"
       /\ Return(c)
    \/ /\ op[c] = "cancel"
       /\ pc' = [pc EXCEPT ![c] = "cancel"]
       /\ admission' = Nobody
       /\ UNCHANGED <<op, cur, src, todo, active>>

\* The observation found the job finished: a start goes on to the next record.
Finished(c) ==
    \/ /\ op[c] = "start"
       /\ pc' = [pc EXCEPT ![c] = "scan"]
       /\ UNCHANGED <<admission, op, cur, src, todo, active>>
    \/ /\ op[c] # "start"
       /\ Return(c)

\* Reads status.json, and request.json unless the status is terminal.  An
\* unreadable record ends the call: busy for start, an error for get.
ObserveStatus(c, j) ==
    /\ pc[c] = "scan"
    /\ j \in todo[c]
    /\ \/ /\ status[j] \in Terminal /\ op[c] = "start"
          /\ todo' = [todo EXCEPT ![c] = @ \ {j}]
          /\ UNCHANGED <<admission, pc, op, cur, src, active>>
       \/ /\ status[j] \in Terminal /\ op[c] # "start"
          /\ Return(c)
       \/ /\ status[j] = "empty" \/ request[j] = NoSource
          /\ Return(c)
       \/ /\ status[j] \in Nonterminal /\ request[j] # NoSource
          /\ pc' = [pc EXCEPT ![c] = "look"]
          /\ cur' = [cur EXCEPT ![c] = j]
          /\ todo' = [todo EXCEPT ![c] = @ \ {j}]
          /\ UNCHANGED <<admission, op, src, active>>
    /\ UNCHANGED <<status, request, identity, cancelled, graceOver, storeVars,
                   supervisorLock, importLock, supervisor, pidReused, crashes>>

\* What the process table says of the PID in process.json.
ProcessOf(j) == IF supervisor[j] \in Live THEN "supervisor"
                ELSE IF j \in pidReused THEN "stranger"
                ELSE "none"

\* The recorded creation time tells the supervisor from a stranger.
AliveByPid(j) == identity[j] /\ ProcessOf(j) # "none"          \* mutant
Alive(j) == identity[j] /\ ProcessOf(j) = "supervisor"

\* Reads process.json and the process table.  An identity that cannot be read
\* counts as alive until the grace period is over.
ObserveOwner(c) ==
    LET j == cur[c]
        assumed == ~identity[j] /\ ~graceOver[j]
    IN  /\ pc[c] = "look"
        /\ \/ /\ Alive(j) \/ assumed
              /\ StillActive(c, j)
           \/ /\ ~(Alive(j) \/ assumed)
              /\ pc' = [pc EXCEPT ![c] = "probe"]
              /\ UNCHANGED <<admission, op, cur, src, todo, active>>
        /\ UNCHANGED <<status, request, identity, cancelled, graceOver,
                       storeVars, supervisorLock, importLock, supervisor,
                       pidReused, crashes>>

\* Nobody holds the job's supervisor lock.
AbandonedUnprobed(j) == TRUE                                  \* mutant
Abandoned(j) == supervisorLock[j] = Nobody

\* Tries the job's supervisor lock without waiting for it.
Probe(c) ==
    LET j == cur[c]
    IN  /\ pc[c] = "probe"
        /\ \/ /\ Abandoned(j)
              /\ supervisorLock' = [supervisorLock EXCEPT ![j] = c]
              /\ pc' = [pc EXCEPT ![c] = "recover"]
              /\ UNCHANGED <<admission, op, cur, src, todo, active>>
           \/ /\ ~Abandoned(j)
              /\ StillActive(c, j)
              /\ UNCHANGED supervisorLock
        /\ UNCHANGED <<status, request, identity, cancelled, graceOver,
                       storeVars, importLock, supervisor, pidReused, crashes>>

\* What _stopped leaves in a record whose status now reads s: the supervisor
\* may have written its result after the first read and before it died.
StoppedStale(s) == "failed"                                   \* mutant
Stopped(s) == IF s \in Terminal THEN s ELSE "failed"

\* _stopped, with the supervisor lock held.
Recover(c) ==
    LET j == cur[c]
    IN  /\ pc[c] = "recover"
        /\ status' = [status EXCEPT ![j] = Stopped(@)]
        /\ supervisorLock' = [supervisorLock EXCEPT ![j] = Nobody]
        /\ Finished(c)
        /\ UNCHANGED <<request, identity, cancelled, graceOver, storeVars,
                       importLock, supervisor, pidReused, crashes>>

-----------------------------------------------------------------------------
(* Clients: _start, still under the admission lock                         *)

MakeDirectory(c, j) ==
    /\ pc[c] = "scan" /\ op[c] = "start" /\ todo[c] = {}
    /\ status[j] = "absent"
    /\ status' = [status EXCEPT ![j] = "empty"]
    /\ pc' = [pc EXCEPT ![c] = "made"]
    /\ cur' = [cur EXCEPT ![c] = j]
    /\ UNCHANGED <<request, identity, cancelled, graceOver, storeVars,
                   admission, supervisorLock, importLock, supervisor,
                   pidReused, crashes, op, src, todo, active>>

WriteStatus(c) ==
    /\ pc[c] = "made"
    /\ status' = [status EXCEPT ![cur[c]] = "queued"]
    /\ pc' = [pc EXCEPT ![c] = "recorded"]
    /\ UNCHANGED <<request, identity, cancelled, graceOver, storeVars,
                   admission, supervisorLock, importLock, supervisor,
                   pidReused, crashes, op, cur, src, todo, active>>

WriteRequest(c) ==
    /\ pc[c] = "recorded"
    /\ request' = [request EXCEPT ![cur[c]] = src[c]]
    /\ pc' = [pc EXCEPT ![c] = "requested"]
    /\ UNCHANGED <<status, identity, cancelled, graceOver, storeVars,
                   admission, supervisorLock, importLock, supervisor,
                   pidReused, crashes, op, cur, src, todo, active>>

Popen(c) ==
    /\ pc[c] = "requested"
    /\ supervisor' = [supervisor EXCEPT ![cur[c]] = "spawned"]
    /\ pc' = [pc EXCEPT ![c] = "launched"]
    /\ UNCHANGED <<status, request, identity, cancelled, graceOver, storeVars,
                   admission, supervisorLock, importLock, pidReused, crashes,
                   op, cur, src, todo, active>>

\* Writes process.json and returns the job.
PublishIdentity(c) ==
    /\ pc[c] = "launched"
    /\ identity' = [identity EXCEPT ![cur[c]] = TRUE]
    /\ Return(c)
    /\ UNCHANGED <<status, request, cancelled, graceOver, storeVars,
                   supervisorLock, importLock, supervisor, pidReused, crashes>>

\* Any step of _start raises: terminate and reap the child, remove the record.
LaunchFails(c) ==
    LET j == cur[c]
    IN  /\ pc[c] \in Launch
        /\ supervisor' = [supervisor EXCEPT ![j] = "none"]
        /\ supervisorLock' = [supervisorLock EXCEPT ![j] = Nobody]
        /\ status' = [status EXCEPT ![j] = "absent"]
        /\ request' = [request EXCEPT ![j] = NoSource]
        /\ graceOver' = [graceOver EXCEPT ![j] = FALSE]
        /\ pidReused' = pidReused \ {j}
        /\ Return(c)
        /\ UNCHANGED <<identity, cancelled, storeVars, importLock, crashes>>

-----------------------------------------------------------------------------
(* Supervisors: run and _run                                               *)

SupervisorUnchanged ==
    UNCHANGED <<request, graceOver, admission, pidReused, crashes, clientVars>>

Move(j, from, to) ==
    /\ supervisor[j] = from
    /\ supervisor' = [supervisor EXCEPT ![j] = to]

\* The lock is tried once; a supervisor that does not get it exits.
TakeSupervisorLock(j) ==
    /\ \/ /\ supervisorLock[j] = Nobody
          /\ Move(j, "spawned", "locked")
          /\ supervisorLock' = [supervisorLock EXCEPT ![j] = Child]
       \/ /\ supervisorLock[j] # Nobody
          /\ Move(j, "spawned", "dead")
          /\ UNCHANGED supervisorLock
    /\ UNCHANGED <<status, identity, cancelled, importLock, storeVars>>
    /\ SupervisorUnchanged

\* A record that was resolved while its supervisor was starting.
ResolvedIgnored(j) == FALSE                                   \* mutant
Resolved(j) == status[j] \in Terminal

\* Waits for the admission lock; a record that became terminal ends the run,
\* otherwise the supervisor publishes its own identity.
Admit(j) ==
    /\ admission = Nobody
    /\ \/ /\ Resolved(j)
          /\ Move(j, "locked", "dead")
          /\ supervisorLock' = [supervisorLock EXCEPT ![j] = Nobody]
          /\ UNCHANGED identity
       \/ /\ ~Resolved(j)
          /\ Move(j, "locked", "ready")
          /\ identity' = [identity EXCEPT ![j] = TRUE]
          /\ UNCHANGED supervisorLock
    /\ UNCHANGED <<status, cancelled, importLock, storeVars>>
    /\ SupervisorUnchanged

\* The service is built and the signal handlers are installed.
BuildService(j) ==
    /\ Move(j, "ready", "loop")
    /\ UNCHANGED <<status, identity, cancelled, supervisorLock, importLock,
                   storeVars>>
    /\ SupervisorUnchanged

\* The loop, and every check inside import_document up to the last one before
\* the rename, ends the import when a cancellation is visible.
CancellableLate ==                                            \* mutant
    {"loop", "remote", "retain", "importing", "published"}
Cancellable == {"loop", "remote", "retain", "importing"}

SeeCancellation(j) ==
    /\ cancelled[j]
    /\ \E from \in Cancellable : Move(j, from, "cancelling")
    /\ importLock' = IF importLock = j THEN Nobody ELSE importLock
    /\ UNCHANGED <<status, identity, cancelled, supervisorLock, storeVars>>
    /\ SupervisorUnchanged

\* import_document takes the store's lock; while it is busy the loop sleeps.
BeginImport(j) ==
    /\ importLock = Nobody
    /\ importLock' = j
    /\ \/ j \notin Remote /\ ~cancelled[j] /\ Move(j, "loop", "importing")
       \/ Move(j, "retain", "importing")
    /\ status' = [status EXCEPT ![j] = "running"]
    /\ UNCHANGED <<identity, cancelled, supervisorLock, storeVars>>
    /\ SupervisorUnchanged

\* External service: stage("uploading"), then the bytes leave the machine.
\* A service that already holds a result goes straight to retaining it.
Submit(j) ==
    /\ j \in Remote /\ ~cancelled[j]
    /\ stage[j] # "retaining" /\ submissions[j] < 2
    /\ Move(j, "loop", "remote")
    /\ status' = [status EXCEPT ![j] = "running"]
    /\ stage' = [stage EXCEPT ![j] = "uploading"]
    /\ submissions' = [submissions EXCEPT ![j] = @ + 1]
    /\ UNCHANGED <<identity, cancelled, supervisorLock, importLock, retained>>
    /\ SupervisorUnchanged

ReceiveResult(j) ==
    /\ \/ Move(j, "remote", "retain")
       \/ /\ stage[j] = "retaining" /\ ~cancelled[j]
          /\ Move(j, "loop", "retain")
    /\ stage' = [stage EXCEPT ![j] = "retaining"]
    /\ UNCHANGED <<status, identity, cancelled, supervisorLock, importLock,
                   retained, submissions>>
    /\ SupervisorUnchanged

\* import_document raises "busy".  Before the result is in hand that is the
\* end of an external job, because trying again would submit it again.
AfterBusyRetry(j) == "loop"                                   \* mutant
AfterBusy(j) == IF stage[j] = "uploading" THEN "failing" ELSE "loop"

Busy(j) ==
    /\ \/ Move(j, "remote", AfterBusy(j))
       \/ importLock # Nobody /\ Move(j, "retain", AfterBusy(j))
    /\ UNCHANGED <<status, identity, cancelled, supervisorLock, importLock,
                   storeVars>>
    /\ SupervisorUnchanged

\* The artifact this extraction would have is already retained.
Reuse(j) ==
    /\ retained # {}
    /\ Move(j, "importing", "succeeding")
    /\ importLock' = Nobody
    /\ UNCHANGED <<status, identity, cancelled, supervisorLock, storeVars>>
    /\ SupervisorUnchanged

\* Extraction is complete and the last cancellation check has passed.
Convert(j) ==
    /\ ~cancelled[j]
    /\ Move(j, "importing", "committing")
    /\ UNCHANGED <<status, identity, cancelled, supervisorLock, importLock,
                   storeVars>>
    /\ SupervisorUnchanged

\* os.rename into documents: the artifact is visible from here on.
Publish(j) ==
    /\ Move(j, "committing", "published")
    /\ retained' = retained \cup {j}
    /\ UNCHANGED <<status, identity, cancelled, supervisorLock, importLock,
                   stage, submissions>>
    /\ SupervisorUnchanged

ReturnReceipt(j) ==
    /\ Move(j, "published", "succeeding")
    /\ importLock' = Nobody
    /\ UNCHANGED <<status, identity, cancelled, supervisorLock, storeVars>>
    /\ SupervisorUnchanged

\* import_document raises anything else: a deadline, a parser error, a full
\* disk before the rename, or a failing fsync after it.
ImportFails(j) ==
    /\ \E from \in {"loop", "remote", "retain", "importing", "committing",
                    "published"} : Move(j, from, "failing")
    /\ importLock' = IF importLock = j THEN Nobody ELSE importLock
    /\ UNCHANGED <<status, identity, cancelled, supervisorLock, storeVars>>
    /\ SupervisorUnchanged

Outcome == [succeeding |-> "succeeded", failing |-> "failed",
            cancelling |-> "cancelled"]

\* The final status write, the release of the lock and the exit.
FinalWrite(j) ==
    /\ supervisor[j] \in DOMAIN Outcome
    /\ status' = [status EXCEPT ![j] = Outcome[supervisor[j]]]
    /\ supervisor' = [supervisor EXCEPT ![j] = "dead"]
    /\ supervisorLock' = [supervisorLock EXCEPT ![j] = Nobody]
    /\ UNCHANGED <<identity, cancelled, importLock, storeVars>>
    /\ SupervisorUnchanged

-----------------------------------------------------------------------------
(* Environment                                                             *)

\* A client process is killed: its locks are dropped, its files stay.
ClientDies(c) ==
    /\ pc[c] # "idle"
    /\ crashes < MaxCrashes
    /\ crashes' = crashes + 1
    /\ admission' = IF admission = c THEN Nobody ELSE admission
    /\ supervisorLock' = [j \in Jobs |-> IF supervisorLock[j] = c THEN Nobody
                                         ELSE supervisorLock[j]]
    /\ Forget(c)
    /\ UNCHANGED <<status, request, identity, cancelled, graceOver, storeVars,
                   importLock, supervisor, pidReused>>

\* A supervisor ends without its final write: it is killed, its factory
\* raises, or closing the service does.
SupervisorDies(j) ==
    /\ supervisor[j] \in Live
    /\ crashes < MaxCrashes
    /\ crashes' = crashes + 1
    /\ supervisor' = [supervisor EXCEPT ![j] = "dead"]
    /\ supervisorLock' = [supervisorLock EXCEPT ![j] = IF @ = Child THEN Nobody
                                                       ELSE @]
    /\ importLock' = IF importLock = j THEN Nobody ELSE importLock
    /\ UNCHANGED <<status, request, identity, cancelled, graceOver, storeVars,
                   admission, pidReused, clientVars>>

\* SIGINT or SIGTERM reaches a supervisor whose handlers are installed.
StopSignal(j) ==
    /\ supervisor[j] \in Working \ {"ready"}
    /\ cancelled' = [cancelled EXCEPT ![j] = TRUE]
    /\ UNCHANGED <<status, request, identity, graceOver, storeVars, admission,
                   supervisorLock, importLock, supervisor, pidReused, crashes,
                   clientVars>>

\* The environment touches what observations read only while the record is
\* unresolved: no call reads the identity or the age of a terminal record.
GraceExpires(j) ==
    /\ request[j] # NoSource /\ status[j] \in Nonterminal
    /\ graceOver' = [graceOver EXCEPT ![j] = TRUE]
    /\ UNCHANGED <<status, request, identity, cancelled, storeVars, admission,
                   supervisorLock, importLock, supervisor, pidReused, crashes,
                   clientVars>>

\* The operating system gives a dead supervisor's PID to another process.
ReusePid(j) ==
    /\ supervisor[j] = "dead" /\ status[j] \in Nonterminal
    /\ pidReused' = pidReused \cup {j}
    /\ UNCHANGED <<status, request, identity, cancelled, graceOver, storeVars,
                   admission, supervisorLock, importLock, supervisor, crashes,
                   clientVars>>

\* process.json becomes unreadable.
LoseIdentity(j) ==
    /\ identity[j] /\ status[j] \in Nonterminal
    /\ identity' = [identity EXCEPT ![j] = FALSE]
    /\ UNCHANGED <<status, request, cancelled, graceOver, storeVars, admission,
                   supervisorLock, importLock, supervisor, pidReused, crashes,
                   clientVars>>

-----------------------------------------------------------------------------
(* The next-state relation                                                 *)

ClientStep(c) ==
    \/ WriteCancel(c)
    \/ GetAgain(c)
    \/ \E j \in Jobs : ObserveStatus(c, j) \/ MakeDirectory(c, j)
    \/ ObserveOwner(c)
    \/ Probe(c)
    \/ Recover(c)
    \/ WriteStatus(c)
    \/ WriteRequest(c)
    \/ Popen(c)
    \/ PublishIdentity(c)

ClientCall(c) ==
    \/ \E s \in Sources : Start(c, s)
    \/ \E j \in Jobs, o \in {"get", "cancel"} : Get(c, j, o)

SupervisorStep(j) ==
    \/ TakeSupervisorLock(j)
    \/ BuildService(j)
    \/ SeeCancellation(j)
    \/ BeginImport(j)
    \/ Submit(j)
    \/ ReceiveResult(j)
    \/ Busy(j)
    \/ Reuse(j)
    \/ Convert(j)
    \/ Publish(j)
    \/ ReturnReceipt(j)
    \/ ImportFails(j)
    \/ FinalWrite(j)

Environment ==
    \/ \E c \in Clients : LaunchFails(c) \/ ClientDies(c)
    \/ \E j \in Jobs : \/ SupervisorDies(j)
                       \/ StopSignal(j)
                       \/ GraceExpires(j)
                       \/ ReusePid(j)
                       \/ LoseIdentity(j)

Next ==
    \/ \E c \in Clients : ClientCall(c) \/ ClientStep(c)
    \/ \E j \in Jobs : Admit(j) \/ SupervisorStep(j)
    \/ Environment

Spec == Init /\ [][Next]_vars

\* A call that has begun goes on; so does a supervisor, whose conversion is
\* under a deadline.  A process waiting in flock gets the lock if it is freed
\* again and again.  Some client keeps polling every job it knows.
Fairness ==
    /\ \A c \in Clients : WF_vars(ClientStep(c))
    /\ \A j \in Jobs :
           /\ WF_vars(SupervisorStep(j))
           /\ SF_vars(Admit(j))
           /\ WF_vars(GraceExpires(j))
           /\ SF_vars(\E c \in Clients : Get(c, j, "get"))

FairSpec == Spec /\ Fairness

-----------------------------------------------------------------------------
(* Properties                                                              *)

\* Admission holds for processes, not only for records: however launchers and
\* supervisors die, at most MAX_ACTIVE_JOBS supervisors ever work at a time
\* and at most that many records are unresolved.
AdmissionBound ==
    /\ Cardinality({j \in Jobs : supervisor[j] \in Working}) <= MaxActiveJobs
    /\ Cardinality({j \in Jobs : status[j] \in Nonterminal}) <= MaxActiveJobs

\* One job per source reference: two supervisors never import the same path,
\* not even one whose record a client has given up on.
OneImportPerSource ==
    \A j, k \in Jobs :
        /\ j # k
        /\ request[j] # NoSource
        /\ request[j] = request[k]
        => /\ ~(supervisor[j] \in Working /\ supervisor[k] \in Working)
           /\ ~(status[j] \in Nonterminal /\ status[k] \in Nonterminal)

\* Recovery never takes the record of a supervisor that is still working, so
\* a slow start, unreadable metadata or a reused PID cannot free its slot.
NeverDisowned ==
    \A j \in Jobs : supervisor[j] \in Working => status[j] \in Nonterminal

\* What a record says agrees with the store: a job reported cancelled left
\* nothing there, and one reported succeeded has an artifact to point at.
OutcomeMatchesStore ==
    \A j \in Jobs :
        /\ status[j] = "cancelled" => j \notin retained
        /\ status[j] = "succeeded" => retained # {}

\* A billable remote parse is submitted at most once for a job, through every
\* retry, cancellation, crash and recovery.
SubmittedOnce == \A j \in Jobs : submissions[j] <= 1

\* A terminal status is never rewritten, by a recovering client or by the
\* supervisor it raced.
TerminalIsFinal ==
    [][\A j \in Jobs : status[j] \in Terminal => status'[j] = status[j]]_vars

\* Every accepted job reaches a terminal status although its launcher and its
\* supervisor may die at any point, its PID be reused and process.json be lost.
EveryJobEnds ==
    \A j \in Jobs : request[j] # NoSource /\ status[j] \in Nonterminal
                        ~> status[j] \in Terminal \/ status[j] = "absent"

\* The module docstring: "a launcher crash before identity publication no
\* longer blocks every later import".  A record that start cannot get past is
\* resolved or removed in the end.
NoRecordBlocksForever ==
    \A j \in Jobs : status[j] \in {"empty"} \cup Nonterminal
                        ~> status[j] \in Terminal \/ status[j] = "absent"

\* What a client can be told of a job: it is pending from the moment its
\* request is on disk until its status is terminal.
Told ==
    [j \in Jobs |-> IF status[j] \in Terminal THEN status[j]
                    ELSE IF request[j] # NoSource THEN "pending"
                    ELSE "unknown"]

Promise == INSTANCE ImportPromise WITH outcome <- Told, source <- request

\* The implementation keeps the promise of ImportPromise.
KeepsPromise == Promise!Spec

-----------------------------------------------------------------------------
(* The inductive invariant behind the safety properties                    *)

Unresolved == {j \in Jobs : status[j] \in {"empty"} \cup Nonterminal}

\* The control state of a call fixes which lock it holds and what it knows.
CallInv ==
    \A c \in Clients :
        /\ pc[c] \in HoldsAdmission <=> admission = c
        /\ pc[c] \in {"look", "probe", "recover", "cancel", "again"} \cup Launch
               => cur[c] \in Jobs
        /\ op[c] = "start" => src[c] \in Sources
        /\ op[c] # "start" => active[c] = {}
        /\ pc[c] = "idle" => op[c] = "get"
        /\ pc[c] \in {"cancel", "again"} => op[c] = "cancel"
        /\ pc[c] \in Launch => op[c] = "start"

\* A supervisor lock is held by the job's supervisor or by one recovering
\* client, and by nobody else.
LockInv ==
    \A j \in Jobs :
        /\ supervisorLock[j] = Child <=> supervisor[j] \in HoldsSupervisorLock
        /\ \A c \in Clients :
               supervisorLock[j] = c <=> pc[c] = "recover" /\ cur[c] = j

\* A record is written in order: directory, status, request, process.
RecordInv ==
    \A j \in Jobs :
        /\ status[j] \in {"absent", "empty"} => request[j] = NoSource
        /\ request[j] = NoSource => supervisor[j] = "none"

\* The record a launcher is writing is where its control state says.
LaunchInv ==
    \A c \in Clients :
        /\ pc[c] = "made" => status[cur[c]] = "empty"
        /\ pc[c] \in {"recorded", "requested", "launched"}
               => status[cur[c]] = "queued"
        /\ pc[c] \in {"made", "recorded"} => request[cur[c]] = NoSource
        /\ pc[c] \in {"requested", "launched"} => request[cur[c]] = src[c]
        /\ pc[c] \in {"made", "recorded", "requested"}
               => supervisor[cur[c]] = "none"
        /\ pc[c] \in Launch =>
               /\ supervisor[cur[c]] \notin Working
               /\ cur[c] \notin retained
               /\ stage[cur[c]] = "queued"

\* A record under observation was complete when it was read, and only the
\* holder of admission could remove it.
ObserveInv ==
    \A c \in Clients :
        pc[c] \in {"look", "probe", "recover"} => request[cur[c]] # NoSource

\* A start that holds admission has counted every unresolved record except
\* those it has still to visit and the one at hand.
ScanInv ==
    \A c \in Clients :
        op[c] = "start" /\ admission = c =>
            /\ Unresolved \subseteq todo[c] \cup active[c] \cup
                   (IF pc[c] = "scan" THEN {} ELSE {cur[c]})
            /\ Cardinality(active[c]) < MaxActiveJobs
            /\ \A j \in active[c] : /\ request[j] # src[c]
                                    /\ request[j] # NoSource
            /\ pc[c] \in Launch => todo[c] = {} /\ cur[c] \notin active[c]

\* A job's extraction reaches the store only through its own supervisor, after
\* the last point at which the supervisor can turn to "cancelled".
RetainInv ==
    /\ \A j \in Jobs :
           /\ j \in retained =>
                  supervisor[j] \in {"published", "succeeding", "failing", "dead"}
           /\ supervisor[j] = "published" => j \in retained
           /\ supervisor[j] = "succeeding" => retained # {}

\* A supervisor is never back in its loop between an upload and its result.
StageInv ==
    \A j \in Jobs :
        /\ stage[j] = "queued" => submissions[j] = 0
        /\ supervisor[j] = "loop" => stage[j] # "uploading"
        /\ supervisor[j] \in {"none", "spawned", "locked", "ready"}
               => stage[j] = "queued"

IInv ==
    /\ TypeOK
    /\ CallInv
    /\ LockInv
    /\ RecordInv
    /\ LaunchInv
    /\ ObserveInv
    /\ ScanInv
    /\ Cardinality(Unresolved) <= MaxActiveJobs
    /\ OneImportPerSource
    /\ NeverDisowned
    /\ RetainInv
    /\ OutcomeMatchesStore
    /\ StageInv
    /\ SubmittedOnce
==============================================================================
