----------------------------- MODULE WarmWorker -----------------------------
(***************************************************************************)
(* The warm parser process an importer keeps between documents             *)
(* (artifacts/supervisor.py) and the process itself (artifacts/worker.py): *)
(* one generation at a time, each in a process group of its own, its jobs  *)
(* written to its stdin and its lines read from a control pipe.            *)
(*                                                                         *)
(* `run` holds the lock from beginning to end and takes it without waiting: *)
(* a second caller is told "busy" and changes nothing, so callers need no   *)
(* names here.  The idle timer and `close` wait for the lock.  A stop is    *)
(* one action: it is done under the lock and nobody else kills.            *)
(*                                                                         *)
(* A parser is native code.  It may print a line of its own (Stray), which *)
(* carries the identifier of a job it already had or none, leave an OCR    *)
(* child behind, or exit; it never guesses the identifier of the job it is *)
(* about to be given, which is a fresh UUID.                               *)
(***************************************************************************)
EXTENDS Naturals, Sequences

CONSTANTS
    MaxGens,        \* bound: generations
    MaxRuns,        \* bound: jobs given to a worker
    MaxPages,       \* pages of a document
    MaxMishaps       \* bound: stray lines, crashes and refused signals

ASSUME WorkerAssumption ==
    MaxGens \in Nat /\ MaxRuns \in Nat /\ MaxPages \in Nat /\ MaxMishaps \in Nat

VARIABLES
    call,           \* of the caller in `run`: "begun" or "reading"; "free" if none
    job,            \* the identifier of the run under way, or of the last one
    parsing,        \* last_stage of the run under way
    pages,          \* last_pages of the run under way
    pending,        \* lines read from the pipe, not yet handled
    gen,            \* the current generation, or 0
    leader,         \* per generation: "unborn", "ready", "busy" or "gone"
    child,          \* generations whose OCR child is alive
    stdin,          \* per generation: the job written and not yet taken, or 0
    open,           \* generations whose stdin is open
    doing,          \* per generation: the last job its worker took
    step,           \* per generation: stages of it announced so far
    pipe,           \* per generation: lines in the control pipe
    token,          \* _idle_token: the run after which the worker idles, or 0
    timer,          \* per run: "off", "armed" or "fired"
    (* What really happened. *)
    completed,      \* jobs their worker completed
    accepted,       \* runs that returned
    refused,        \* generations the OS refused to kill
    mishaps         \* stray lines, crashes and refused signals so far

callVars == <<call, job, parsing, pages, pending>>
procVars == <<leader, child, stdin, open, doing, step, pipe>>
workerVars == <<callVars, procVars, gen, token, timer, completed, accepted, refused, mishaps>>

Gens == 1..MaxGens
Runs == 1..MaxRuns
Pages == 1..MaxPages
NoJob == 0
Stages == 1..3                  \* preflight, conversion, writing
Conversion == 2

\* A line is what the reader tells apart: whose it is, what it says and, for a
\* stage or an observation of pages, which.
Lines == [id : Runs \cup {NoJob}, says : {"stage", "pages", "rejection", "error", "ok"},
          n : Nat]
Line(r, what, n) == [id |-> r, says |-> what, n |-> n]

WorkerTypeOK ==
    /\ call \in {"free", "begun", "reading"}
    /\ job \in Runs \cup {NoJob} /\ token \in Runs \cup {NoJob}
    /\ parsing \in Stages \cup {0} /\ pages \in Pages \cup {0}
    /\ gen \in Gens \cup {0}
    /\ leader \in [Gens -> {"unborn", "ready", "busy", "gone"}]
    /\ child \subseteq Gens /\ open \subseteq Gens /\ refused \subseteq Gens
    /\ stdin \in [Gens -> Runs \cup {NoJob}] /\ doing \in [Gens -> Runs \cup {NoJob}]
    /\ step \in [Gens -> Stages \cup {0}]
    /\ pipe \in [Gens -> Seq(Lines)] /\ pending \in Seq(Lines)
    /\ timer \in [Runs -> {"off", "armed", "fired"}]
    /\ completed \subseteq Runs /\ accepted \subseteq Runs
    /\ mishaps \in 0..MaxMishaps

WorkerInit ==
    /\ call = "free"
    /\ job = NoJob /\ parsing = 0 /\ pages = 0 /\ pending = <<>>
    /\ gen = 0
    /\ leader = [g \in Gens |-> "unborn"]
    /\ child = {} /\ open = {} /\ refused = {}
    /\ stdin = [g \in Gens |-> NoJob]
    /\ doing = [g \in Gens |-> NoJob]
    /\ step = [g \in Gens |-> 0]
    /\ pipe = [g \in Gens |-> <<>>]
    /\ token = NoJob
    /\ timer = [r \in Runs |-> "off"]
    /\ completed = {} /\ accepted = {} /\ mishaps = 0

IsAlive(g) == leader[g] \in {"ready", "busy"}

-----------------------------------------------------------------------------
(* Stopping a generation                                                   *)

\* A process that is gone takes nothing and does nothing.
Ends(g) ==
    /\ leader' = [leader EXCEPT ![g] = "gone"]
    /\ stdin' = [stdin EXCEPT ![g] = NoJob]
    /\ doing' = [doing EXCEPT ![g] = NoJob]
    /\ step' = [step EXCEPT ![g] = 0]

KillsLeaderOnly(g) ==                                           \* mutant
    /\ Ends(g)
    /\ child' = IF IsAlive(g) THEN child \ {g} ELSE child
    /\ UNCHANGED <<refused, mishaps>>

\* The group is killed even if its leader exited and left a child; the leader is
\* reaped.
KillsGroup(g) ==
    /\ Ends(g)
    /\ child' = child \ {g}
    /\ UNCHANGED <<refused, mishaps>>

\* The OS refuses the signal and the leader still runs after the second poll.
IsRefused(g) ==
    /\ IsAlive(g) /\ mishaps < MaxMishaps
    /\ refused' = refused \cup {g}
    /\ mishaps' = mishaps + 1
    /\ UNCHANGED <<leader, child, stdin, doing, step>>

\* The generation is forgotten, its group killed, its stdin and the pipe closed
\* whether or not the kill was allowed; killed tells which it was.
StopGeneration(killed) ==
    /\ token' = NoJob
    /\ gen' = 0
    /\ IF gen = 0
       THEN killed /\ UNCHANGED <<procVars, refused, mishaps>>
       ELSE /\ IF killed THEN KillsGroup(gen) ELSE IsRefused(gen)
            /\ open' = open \ {gen}
            /\ pipe' = [pipe EXCEPT ![gen] = <<>>]

\* Timer.cancel: a timer that fired already is past it.
Disarmed == [r \in Runs |-> IF timer[r] = "armed" THEN "off" ELSE timer[r]]

Stop(killed) ==
    /\ timer' = Disarmed
    /\ StopGeneration(killed)
    /\ UNCHANGED <<completed, accepted>>

-----------------------------------------------------------------------------
(* run                                                                     *)

Leave ==
    /\ call' = "free"
    /\ pending' = <<>> /\ parsing' = 0 /\ pages' = 0
    /\ UNCHANGED job

\* Any exception but a clean rejection stops the generation before the lock is
\* released.
Fail ==
    /\ \E killed \in BOOLEAN : Stop(killed)
    /\ Leave

\* check() passes, the idle timer is disarmed, and a worker that exited is stopped
\* (its group too) and replaced.
Begin ==
    /\ call = "free"
    /\ call' = "begun"
    /\ job + 1 \in Runs
    /\ job' = job + 1 /\ parsing' = 0 /\ pages' = 0 /\ pending' = <<>>
    /\ token' = NoJob
    /\ timer' = Disarmed
    /\ IF gen # 0 /\ IsAlive(gen)
       THEN UNCHANGED <<gen, leader, child, refused, open, pipe>>
       ELSE \E g \in Gens :
            /\ leader[g] = "unborn" /\ \A h \in Gens : h < g => leader[h] # "unborn"
            /\ gen' = g
            /\ leader' = [leader EXCEPT ![g] = "ready"]
            /\ child' = child \ {gen}
            /\ open' = (open \ {gen}) \cup {g}
            /\ pipe' = [h \in Gens |-> IF h = gen THEN <<>> ELSE pipe[h]]
            /\ UNCHANGED refused
    /\ UNCHANGED <<stdin, doing, step, completed, accepted, mishaps>>

\* The job goes to the worker's stdin; a worker that exited breaks the pipe.
Send ==
    /\ call = "begun"
    /\ IF IsAlive(gen)
       THEN /\ stdin' = [stdin EXCEPT ![gen] = job]
            /\ call' = "reading"
            /\ UNCHANGED <<job, parsing, pages, pending, leader, child, open, doing,
                           step, pipe, gen, token, timer, completed, accepted, refused,
                           mishaps>>
       ELSE Fail

\* check() raises (cancelled, out of time), the caller's progress callback does, or
\* the resident set is over its limit or cannot be read.
Abort ==
    /\ call # "free"
    /\ Fail

\* One read takes what the pipe holds; the end of the pipe is a failure.
Read ==
    /\ call = "reading" /\ pending = <<>>
    /\ \/ /\ pipe[gen] # <<>>
          /\ pending' = pipe[gen]
          /\ pipe' = [pipe EXCEPT ![gen] = <<>>]
          /\ UNCHANGED <<call, job, parsing, pages, leader, child, stdin, open,
                         doing, step, gen, token, timer, completed, accepted, refused,
                         mishaps>>
       \/ /\ pipe[gen] = <<>> /\ ~IsAlive(gen)
          /\ Fail

OthersToo(l) == TRUE                                            \* mutant

\* A line of another job is never an answer to this one.
Own(l) == l.id = job

GrowingStage(l) == l.says = "stage" /\ l.n > parsing

GrowingPages(l) == l.says = "pages" /\ parsing = Conversion /\ l.n > pages

\* The last line of a job must be the last one read.
Final(l, what) == l.says = what /\ Len(pending) = 1

ArmUnstarted ==                                                 \* mutant
    /\ token' = job
    /\ timer' = timer

ArmIdle ==
    /\ token' = job
    /\ timer' = [timer EXCEPT ![job] = "armed"]

\* The worker stays, and is timed, after a success and after a clean rejection.
Kept(how) ==
    /\ ArmIdle
    /\ Leave
    /\ accepted' = IF how = "ok" THEN accepted \cup {job} ELSE accepted
    /\ UNCHANGED <<procVars, gen, completed, refused, mishaps>>

Handle ==
    /\ call = "reading" /\ pending # <<>>
    /\ LET l == Head(pending) IN
       \/ /\ Own(l) /\ (GrowingStage(l) \/ GrowingPages(l))
          /\ pending' = Tail(pending)
          /\ parsing' = IF l.says = "stage" THEN l.n ELSE parsing
          /\ pages' = IF l.says = "pages" THEN l.n ELSE pages
          /\ UNCHANGED <<call, job, procVars, gen, token, timer, completed,
                         accepted, refused, mishaps>>
       \/ Own(l) /\ Final(l, "ok") /\ Kept("ok")
       \/ Own(l) /\ Final(l, "rejection") /\ Kept("rejected")
       \/ /\ ~(Own(l) /\ (GrowingStage(l) \/ GrowingPages(l) \/ Final(l, "ok")
                          \/ Final(l, "rejection")))
          /\ Fail

-----------------------------------------------------------------------------
(* The timer and close                                                     *)

Fire(r) ==
    /\ timer[r] = "armed"
    /\ timer' = [timer EXCEPT ![r] = "fired"]
    /\ UNCHANGED <<callVars, procVars, gen, token, completed, accepted, refused, mishaps>>

AnyToken(r) == TRUE                                             \* mutant
IdlesSince(r) == token = r

\* The timer's thread waited for the lock: the worker may have been used since.
Idle(r) ==
    /\ timer[r] = "fired" /\ call = "free"
    /\ IF IdlesSince(r)
       THEN \E killed \in BOOLEAN : StopGeneration(killed)
       ELSE UNCHANGED <<procVars, refused, gen, token, mishaps>>
    /\ timer' = [timer EXCEPT ![r] = "off"]
    /\ UNCHANGED <<callVars, completed, accepted>>

\* The import service closes the worker after a failure of its own, and at the end.
Close ==
    /\ call = "free" /\ gen # 0
    /\ \E killed \in BOOLEAN : Stop(killed)
    /\ UNCHANGED callVars

-----------------------------------------------------------------------------
(* The worker process                                                      *)

Tell(g, l) == pipe' = [pipe EXCEPT ![g] = IF g = gen THEN Append(@, l) ELSE @]

Works(g) ==
    UNCHANGED <<callVars, open, gen, token, timer, accepted, refused, mishaps>> /\ g \in Gens

\* serve_worker reads its next job; at the end of its stdin it returns.
TakesJob(g) ==
    /\ leader[g] = "ready" /\ stdin[g] # NoJob
    /\ leader' = [leader EXCEPT ![g] = "busy"]
    /\ doing' = [doing EXCEPT ![g] = stdin[g]]
    /\ stdin' = [stdin EXCEPT ![g] = NoJob]
    /\ step' = [step EXCEPT ![g] = 0]
    /\ Works(g) /\ UNCHANGED <<child, pipe, completed>>

Returns(g) ==
    /\ leader[g] = "ready" /\ stdin[g] = NoJob /\ g \notin open
    /\ Ends(g)
    /\ Works(g) /\ UNCHANGED <<child, pipe, completed>>

\* extract announces its three stages; conversion may run OCR in a child.
Stage(g) ==
    /\ leader[g] = "busy" /\ step[g] + 1 \in Stages
    /\ step' = [step EXCEPT ![g] = @ + 1]
    /\ Tell(g, Line(doing[g], "stage", step[g] + 1))
    /\ child' \in IF step[g] + 1 = Conversion THEN {child, child \cup {g}} ELSE {child \ {g}}
    /\ Works(g) /\ UNCHANGED <<leader, doing, stdin, completed>>

\* Pages are counted during conversion, each count larger than the one before.
Observe(g) ==
    /\ leader[g] = "busy" /\ step[g] = Conversion
    /\ \E n \in Pages :
         /\ \A k \in DOMAIN pipe[g] : pipe[g][k].says = "pages" => pipe[g][k].n < n
         /\ Tell(g, Line(doing[g], "pages", n))
    /\ Works(g) /\ UNCHANGED <<leader, child, doing, stdin, step, completed>>

\* The job ends: the result is written and ok sent, or an error is.
Answer(g) ==
    /\ leader[g] = "busy"
    /\ \/ /\ step[g] = 3
          /\ completed' = completed \cup {doing[g]}
          /\ Tell(g, Line(doing[g], "ok", 0))
       \/ /\ \E what \in {"rejection", "error"} : Tell(g, Line(doing[g], what, 0))
          /\ UNCHANGED completed
    /\ leader' = [leader EXCEPT ![g] = "ready"]
    /\ doing' = [doing EXCEPT ![g] = NoJob]
    /\ step' = [step EXCEPT ![g] = 0]
    /\ child' = child \ {g}
    /\ Works(g) /\ UNCHANGED stdin

\* A line nobody expects, from a thread of an earlier job or from native code.
Stray ==
    /\ gen # 0 /\ IsAlive(gen) /\ mishaps < MaxMishaps
    /\ \E r \in 0..job, what \in {"stage", "ok"} :
         /\ r = job => what = "stage" /\ doing[gen] = job
         /\ Tell(gen, Line(r, what, 1))
    /\ mishaps' = mishaps + 1
    /\ UNCHANGED <<callVars, leader, child, stdin, open, doing, step, gen, token, timer,
                   completed, accepted, refused>>

\* The leader crashes; its child does not.
Crash(g) ==
    /\ IsAlive(g) /\ mishaps < MaxMishaps
    /\ Ends(g)
    /\ mishaps' = mishaps + 1
    /\ UNCHANGED <<callVars, child, open, pipe, gen, token, timer, completed, accepted,
                   refused>>

-----------------------------------------------------------------------------
WorkerStep(g) == TakesJob(g) \/ Returns(g) \/ Stage(g) \/ Observe(g) \/ Answer(g)

CallerStep == Begin \/ Send \/ Read \/ Handle

WorkerNext ==
    \/ CallerStep \/ Abort
    \/ \E r \in Runs : Fire(r) \/ Idle(r)
    \/ Close \/ Stray
    \/ \E g \in Gens : WorkerStep(g) \/ Crash(g)

\* Threads and processes are scheduled, timers expire, an extraction ends; nothing
\* has to fail and no caller has to come.
WorkerFairness ==
    /\ WF_workerVars(Send \/ Read \/ Handle)
    /\ \A r \in Runs : WF_workerVars(Fire(r)) /\ WF_workerVars(Idle(r))
    /\ \A g \in Gens : /\ WF_workerVars(TakesJob(g))
                       /\ WF_workerVars(Returns(g))
                       /\ WF_workerVars(Stage(g) \/ Answer(g))

WorkerSpec == WorkerInit /\ [][WorkerNext]_workerVars /\ WorkerFairness

-----------------------------------------------------------------------------
(* Properties                                                              *)

\* A run that returns was completed by a worker: an answer left in the pipe by an
\* earlier job, or printed late by one of its threads, is never taken for its own.
AcceptedIsCompleted == accepted \subseteq completed

\* Every generation but the current one is dead, its children too, unless the OS
\* refused the signal: no failure, timer or crash leaves a parser writing into a
\* staging directory.
NoOrphans == \A g \in Gens \ {gen} : leader[g] = "unborn"
                 \/ (leader[g] = "gone" /\ g \notin child) \/ g \in refused

\* A timer that fired only stops a worker nobody was given since it was armed.
TimerStopsOnlyIdle ==
    [][\A r \in Runs : (timer[r] = "fired" /\ timer'[r] = "off" /\ gen' # gen) => r = job]_workerVars

\* A worker left idle is used again or stopped, and one the OS refused to kill reads
\* the end of its stdin and leaves: it never stays that somebody should have gone.
WorkersEnd == []<>(token = NoJob /\ \A g \in refused : leader[g] = "gone")
=============================================================================
