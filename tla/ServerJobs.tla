----------------------------- MODULE ServerJobs -----------------------------
(***************************************************************************)
(* The asynchronous jobs of `openreading serve` (server/app.py): POST, GET *)
(* and DELETE on /v1/jobs and the webhook endpoint, over one in-memory     *)
(* store and the event loop of one process.                                *)
(*                                                                         *)
(* A handler runs without interruption between two awaits, so one action   *)
(* is what it does up to its next await.  The awaits are the body and the  *)
(* adapter's submission (POST) and the drive of a poll job, which runs in a *)
(* worker thread and changes the shared Job object in place (GET).         *)
(*                                                                         *)
(* The backend's answer decides whether a finished job can be normalized:  *)
(* metering the same payload twice gives the same outcome.                 *)
(***************************************************************************)
EXTENDS Naturals, FiniteSets

CONSTANTS
    Jobs,           \* POST requests; each makes at most one job
    Strategies,     \* those that name a strategy, whose walk ends in the POST
    Principals,     \* API keys
    Getters,        \* GET requests that can be in flight at once
    MaxJobs,        \* OPENREADING_MAX_ASYNC_JOBS
    MaxPerPrincipal,\* OPENREADING_MAX_JOBS_PER_PRINCIPAL
    MaxSubmits,     \* bound: POST requests past their admission check at once
    MaxFaults,      \* MAX_CONSECUTIVE_FAULTS
    None            \* no job, no principal

ASSUME JobsAssumption ==
    IsFiniteSet(Jobs) /\ Strategies \subseteq Jobs /\ None \notin Jobs \cup Principals
ASSUME CapsAssumption ==
    /\ {MaxJobs, MaxPerPrincipal, MaxSubmits} \subseteq Nat \ {0}
    /\ MaxFaults \in Nat

VARIABLES
    (* The POST request of each job. *)
    post,           \* "none", "admitted", "sent" (submitted, not stored), "over"
    owner,          \* the principal that sent it
    (* The job store and its records. *)
    held,           \* the keys of `jobs`
    mode,           \* wait_mode, "poll" or "webhook" ("inline" ends at submission)
    terminal,       \* jobs whose Job.is_terminal()
    answer,         \* "none", or which of rec.response and rec.error is set
    locked,         \* jobs whose drive_lock is held
    old,            \* jobs created more than the TTL ago
    (* The Job object's polling state. *)
    faults,         \* attempts: consecutive faults so far
    due,            \* jobs whose next_poll_at lies within the next drive slice
    (* GET requests. *)
    pc,             \* "idle", "fresh" (no poll yet), "polled" or "ended"
    at,             \* the job being driven
    (* The outside world. *)
    backend,        \* "none", "working", or how the remote job ended
    deleted,        \* jobs their owner deleted
    told            \* the last final state reported to the owner, or "nothing"

vars == <<post, owner, held, mode, terminal, answer, locked, old, faults, due,
          pc, at, backend, deleted, told>>

recordVars == <<mode, terminal, answer, locked, faults, due>>
getVars == <<pc, at>>

TypeOK ==
    /\ post \in [Jobs -> {"none", "admitted", "sent", "over"}]
    /\ owner \in [Jobs -> Principals \cup {None}]
    /\ held \subseteq Jobs
    /\ mode \in [Jobs -> {"inline", "poll", "webhook"}]
    /\ terminal \subseteq Jobs
    /\ answer \in [Jobs -> {"none", "response", "error"}]
    /\ locked \subseteq Jobs
    /\ old \subseteq Jobs
    /\ faults \in [Jobs -> 0..MaxFaults]
    /\ due \subseteq Jobs
    /\ pc \in [Getters -> {"idle", "fresh", "polled", "ended"}]
    /\ at \in [Getters -> Jobs \cup {None}]
    /\ backend \in [Jobs -> {"none", "working", "good", "bad", "failed"}]
    /\ deleted \subseteq Jobs
    /\ told \in [Jobs -> {"nothing", "succeeded", "failed"}]

Init ==
    /\ post = [j \in Jobs |-> "none"]
    /\ owner = [j \in Jobs |-> None]
    /\ held = {}
    /\ mode = [j \in Jobs |-> "inline"]
    /\ terminal = {}
    /\ answer = [j \in Jobs |-> "none"]
    /\ locked = {}
    /\ old = {}
    /\ faults = [j \in Jobs |-> 0]
    /\ due = Jobs
    /\ pc = [g \in Getters |-> "idle"]
    /\ at = [g \in Getters |-> None]
    /\ backend = [j \in Jobs |-> "none"]
    /\ deleted = {}
    /\ told = [j \in Jobs |-> "nothing"]

-----------------------------------------------------------------------------
(* The store                                                               *)

ExpiredRunning == held \cap old                                 \* mutant

\* What a sweep removes: terminal records past their age.
Expired == held \cap terminal \cap old

Kept == held \ Expired

\* What metering a terminal job sets: normalize accepts the payload or not.
Metered(j) == IF backend[j] = "good" THEN "response" ELSE "error"

\* The state a report gives a record with answer a; a running job is no news.
Report(j, a) ==
    told' = CASE a = "response" -> [told EXCEPT ![j] = "succeeded"]
              [] a = "error" -> [told EXCEPT ![j] = "failed"]
              [] OTHER -> told

\* Time passes: the record's age exceeds the TTL.
Age(j) ==
    /\ j \in held \ old
    /\ old' = old \cup {j}
    /\ UNCHANGED <<post, owner, held, recordVars, getVars, backend, deleted, told>>

\* A GET of an unknown job or a refused POST: all it does is sweep.
Sweep ==
    /\ Expired # {}
    /\ held' = Kept
    /\ UNCHANGED <<post, owner, recordVars, old, getVars, backend, deleted, told>>

-----------------------------------------------------------------------------
(* POST /v1/jobs                                                           *)

InFlight == {j \in Jobs : post[j] \in {"admitted", "sent"}}

HeldBy(p) == {j \in Kept : owner[j] = p}

HasRoomAtCap(p) ==                                              \* mutant
    /\ Cardinality(Kept) <= MaxJobs
    /\ Cardinality(HeldBy(p)) <= MaxPerPrincipal

HasRoom(p) ==
    /\ Cardinality(Kept) < MaxJobs
    /\ Cardinality(HeldBy(p)) < MaxPerPrincipal

\* The caps are read here, three awaits before the record is stored.
Admit(j, p) ==
    /\ post[j] = "none"
    /\ Cardinality(InFlight) < MaxSubmits
    /\ HasRoom(p)
    /\ held' = Kept
    /\ post' = [post EXCEPT ![j] = "admitted"]
    /\ owner' = [owner EXCEPT ![j] = p]
    /\ UNCHANGED <<recordVars, old, getVars, backend, deleted, told>>

\* The request is refused later, or adapter.submit raises: no record is made.
Reject(j) ==
    /\ post[j] = "admitted"
    /\ post' = [post EXCEPT ![j] = "over"]
    /\ UNCHANGED <<owner, held, recordVars, old, getVars, backend, deleted, told>>

\* adapter.submit returns an unfinished job: the backend is working on it.
SubmitRemote(j, m) ==
    /\ post[j] = "admitted"
    /\ j \notin Strategies
    /\ post' = [post EXCEPT ![j] = "sent"]
    /\ mode' = [mode EXCEPT ![j] = m]
    /\ backend' = [backend EXCEPT ![j] = "working"]
    /\ UNCHANGED <<owner, held, terminal, answer, locked, faults, due, old,
                   getVars, deleted, told>>

\* adapter.submit returns a finished job, or a strategy's walk a response.
SubmitInline(j, result) ==
    /\ post[j] = "admitted"
    /\ j \in Strategies => result = "good"
    /\ post' = [post EXCEPT ![j] = "sent"]
    /\ terminal' = terminal \cup {j}
    /\ backend' = [backend EXCEPT ![j] = result]
    /\ UNCHANGED <<owner, held, mode, answer, locked, faults, due, old,
                   getVars, deleted, told>>

\* Back on the event loop: meter a finished job, store the record, report it.
Store(j) ==
    LET a == IF j \in terminal THEN Metered(j) ELSE "none" IN
    /\ post[j] = "sent"
    /\ post' = [post EXCEPT ![j] = "over"]
    /\ held' = held \cup {j}
    /\ answer' = [answer EXCEPT ![j] = a]
    /\ Report(j, a)
    /\ UNCHANGED <<owner, mode, terminal, locked, faults, due, old, getVars,
                   backend, deleted>>

-----------------------------------------------------------------------------
(* GET /v1/jobs/{job_id}                                                   *)

PendingFailed(j) == answer[j] # "response" /\ j \notin terminal \* mutant

Pending(j) == answer[j] = "none" /\ j \notin terminal

MayDriveUnlocked(j) == Pending(j) /\ mode[j] # "webhook"        \* mutant

MayDrive(j) == Pending(j) /\ mode[j] # "webhook" /\ j \notin locked

\* A GET that starts no drive reports the record as it is.
Read(j) ==
    /\ j \in Kept
    /\ ~MayDrive(j)
    /\ held' = Kept
    /\ Report(j, answer[j])
    /\ UNCHANGED <<post, owner, recordVars, old, getVars, backend, deleted>>

\* A GET takes drive_lock and hands the job to a worker thread.
StartDrive(g, j) ==
    /\ pc[g] = "idle"
    /\ j \in Kept
    /\ MayDrive(j)
    /\ held' = Kept
    /\ locked' = locked \cup {j}
    /\ pc' = [pc EXCEPT ![g] = "fresh"]
    /\ at' = [at EXCEPT ![g] = j]
    /\ UNCHANGED <<post, owner, mode, terminal, answer, faults, due, old,
                   backend, deleted, told>>

\* A drive ends: the lock is released and the record as it now is reported.
EndDrive(g, a) ==
    LET j == at[g] IN
    /\ answer' = [answer EXCEPT ![j] = a]
    /\ locked' = locked \ {j}
    /\ Report(j, a)
    /\ pc' = [pc EXCEPT ![g] = "idle"]
    /\ at' = [at EXCEPT ![g] = None]

Driving(g) == pc[g] \in {"fresh", "polled"} /\ at[g] \notin terminal

\* The next poll is made: next_poll_at has come, or comes within the slice.
MayPoll(g) == Driving(g) /\ at[g] \in due

\* A healthy poll of a job that still runs ends the streak of faults and
\* schedules the next poll, perhaps beyond the slice.
PollRunning(g) ==
    /\ MayPoll(g)
    /\ backend[at[g]] = "working"
    /\ faults' = [faults EXCEPT ![at[g]] = 0]
    /\ due' \in {due, due \ {at[g]}}
    /\ pc' = [pc EXCEPT ![g] = "polled"]
    /\ UNCHANGED <<post, owner, held, mode, terminal, answer, locked, old, at,
                   backend, deleted, told>>

\* The poll finds the result: the thread makes the shared Job terminal.
PollDone(g) ==
    /\ MayPoll(g)
    /\ backend[at[g]] \in {"good", "bad"}
    /\ terminal' = terminal \cup {at[g]}
    /\ pc' = [pc EXCEPT ![g] = "ended"]
    /\ UNCHANGED <<post, owner, held, mode, answer, locked, faults, due, old,
                   at, backend, deleted, told>>


BudgetLeft(j) == faults[j] < MaxFaults

\* A retryable fault within the budget; backoff schedules the next poll.
PollFaults(g) ==
    /\ MayPoll(g)
    /\ BudgetLeft(at[g])
    /\ faults' = [faults EXCEPT ![at[g]] = @ + 1]
    /\ due' \in {due, due \ {at[g]}}
    /\ pc' = [pc EXCEPT ![g] = "polled"]
    /\ UNCHANGED <<post, owner, held, mode, terminal, answer, locked, old, at,
                   backend, deleted, told>>

\* The drive raises for good: its context cannot be built, the budget is spent,
\* or the poll met a terminal error (the remote job failed, the key was
\* refused).  The Job stays as it was.
DriveRaises(g) ==
    /\ Driving(g)
    /\ pc[g] = "fresh" \/ at[g] \in due
    /\ EndDrive(g, "error")
    /\ UNCHANGED <<post, owner, held, mode, terminal, faults, due, old,
                   backend, deleted>>

SliceOverStale(g) == TRUE                                       \* mutant

\* A slice is measured from the drive's own start, so it is not over before the
\* first poll unless that poll is scheduled beyond it.
SliceOver(g) == pc[g] = "polled" \/ at[g] \notin due

\* The slice is over: the lock is released and the job still runs.
SliceExpires(g) ==
    /\ Driving(g)
    /\ SliceOver(g)
    /\ EndDrive(g, answer[at[g]])
    /\ UNCHANGED <<post, owner, held, mode, terminal, faults, due, old,
                   backend, deleted>>

\* Back on the event loop with a terminal job.
FinishDrive(g) ==
    /\ pc[g] = "ended"
    /\ EndDrive(g, Metered(at[g]))
    /\ UNCHANGED <<post, owner, held, mode, terminal, faults, due, old,
                   backend, deleted>>

\* Time passes: the scheduled poll comes within reach of the next slice.
BecomeDue(j) ==
    /\ j \notin due
    /\ due' = due \cup {j}
    /\ UNCHANGED <<post, owner, held, mode, terminal, answer, locked, faults,
                   old, getVars, backend, deleted, told>>

-----------------------------------------------------------------------------
(* DELETE /v1/jobs/{job_id}, webhooks and the backend                      *)

\* The record is dropped whatever its state; nothing else is told to stop.
Delete(j) ==
    /\ j \in held
    /\ held' = held \ {j}
    /\ deleted' = deleted \cup {j}
    /\ UNCHANGED <<post, owner, recordVars, old, getVars, backend, told>>

\* A first or repeated delivery.  One that arrives when no record is held is
\* answered 404 and changes nothing.  The reply goes to the backend.
Webhook(j) ==
    /\ j \in held
    /\ mode[j] = "webhook"
    /\ backend[j] \in {"good", "bad"}
    /\ terminal' = terminal \cup {j}
    /\ answer' = IF answer[j] = "response" THEN answer
                 ELSE [answer EXCEPT ![j] = Metered(j)]
    /\ UNCHANGED <<post, owner, held, mode, locked, faults, due, old, getVars,
                   backend, deleted, told>>

\* The remote job ends: with a result normalize accepts, with one it does
\* not, or failed, which a poll raises as a terminal error.
BackendEnds(j, result) ==
    /\ backend[j] = "working"
    /\ backend' = [backend EXCEPT ![j] = result]
    /\ UNCHANGED <<post, owner, held, recordVars, old, getVars, deleted, told>>

-----------------------------------------------------------------------------
Posting(j) ==
    \/ \E p \in Principals : Admit(j, p)
    \/ Reject(j)
    \/ \E m \in {"poll", "webhook"} : SubmitRemote(j, m)
    \/ \E result \in {"good", "bad"} : SubmitInline(j, result)
    \/ Store(j)

Polling(g) ==
    PollRunning(g) \/ PollDone(g) \/ PollFaults(g) \/ DriveRaises(g)

Getting(g) ==
    \/ \E j \in Jobs : StartDrive(g, j)
    \/ Polling(g)
    \/ SliceExpires(g)
    \/ FinishDrive(g)

Outside(j) ==
    \/ \E result \in {"good", "bad", "failed"} : BackendEnds(j, result)
    \/ Webhook(j)

Next ==
    \/ Sweep
    \/ \E g \in Getters : Getting(g)
    \/ \E j \in Jobs :
        Posting(j) \/ Read(j) \/ Delete(j) \/ Outside(j) \/ Age(j) \/ BecomeDue(j)

Spec == Init /\ [][Next]_vars

(* The event loop serves handlers and worker threads run; the backend ends  *)
(* its work and time passes.  That the owner of a job keeps asking for it   *)
(* is the protocol of the endpoint: nothing else drives a poll job.  A poll *)
(* may always fail, so no fairness is assumed of its outcome.               *)
Fairness ==
    /\ WF_vars(Sweep)
    /\ \A g \in Getters : /\ WF_vars(Polling(g))
                          /\ WF_vars(FinishDrive(g))
                          /\ WF_vars(SliceExpires(g))
    /\ \A j \in Jobs :
        /\ SF_vars(\E g \in Getters : StartDrive(g, j))
        /\ WF_vars(\E result \in {"good", "bad", "failed"} : BackendEnds(j, result))
        /\ WF_vars(BecomeDue(j))
        /\ WF_vars(Age(j))

FairSpec == Spec /\ Fairness

-----------------------------------------------------------------------------
(* Properties                                                              *)

\* The caps are checked before the awaits of a submission and the record is
\* stored after them, so what bounds the store, and each principal's share of
\* it, is the cap and the other submissions in flight.
StoreBound ==
    /\ Cardinality(held) + Cardinality(InFlight) < MaxJobs + MaxSubmits
    /\ \A p \in Principals :
        Cardinality({j \in held \cup InFlight : owner[j] = p})
            < MaxPerPrincipal + MaxSubmits

\* Two requests never poll one job at once: the Job object is not
\* thread-safe, and a backend may bill each poll (app.py, drive_lock).
OneDrive ==
    \A g, h \in Getters :
        pc[g] # "idle" /\ pc[h] # "idle" /\ at[g] = at[h] => g = h

\* What the owner of a job was told of its end is never taken back, however
\* polls, repeated webhooks and reads interleave.
OutcomeSticks ==
    [][\A j \in Jobs : told[j] # "nothing" => told'[j] = told[j]]_vars

\* A job that is driven by polling is not swept before its owner has heard,
\* or is about to hear, how it ended: a running job is never reaped, and a
\* finished one was finished by the request that reports it.
NotSweptUnheard ==
    \A j \in Jobs :
        post[j] = "over" /\ backend[j] # "none" /\ mode[j] = "poll" =>
            \/ j \in held \cup deleted
            \/ told[j] # "nothing"
            \/ \E g \in Getters : pc[g] = "ended" /\ at[g] = j

\* A poll job whose owner keeps asking comes to an end, however long the gaps
\* between the requests are: each one drives the job for a slice of its own.
PolledJobsEnd ==
    \A j \in Jobs :
        j \in held /\ mode[j] = "poll" ~> told[j] # "nothing" \/ j \in deleted

\* A job the server reports as failed is removed once its age exceeds the
\* TTL and requests keep arriving (CHANGELOG.md, "A finished job is swept").
FailedJobsExpire ==
    \A j \in Jobs : j \in held /\ answer[j] = "error" ~> j \notin held
=============================================================================
