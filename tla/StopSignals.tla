---------------------------- MODULE StopSignals ----------------------------
(***************************************************************************)
(* SIGTERM and SIGINT at any moment of an `openreading parse` or `resume`  *)
(* (cli/app.py): the handler that turns one into the other, asyncio.Runner *)
(* under it, and what a stopped run leaves in its journal.  A signal finds *)
(* the main thread in some frame; an interrupt raised there unwinds it.    *)
(***************************************************************************)
EXTENDS Naturals, FiniteSets

CONSTANTS
    Commands,       \* what may be run: [verb, by, pool]
    Rungs,          \* steps of the cascade a strategy is
    Docs,           \* documents of a batch
    MaxSignals,     \* bound: signals sent
    MaxResumes,     \* bound: resumes
    Unset           \* nothing yet

ASSUME SignalsAssumption ==
    /\ Rungs \in Nat \ {0} /\ Docs \in Nat \ {0} /\ MaxSignals \in Nat /\ MaxResumes \in Nat
    /\ Commands \subseteq [verb : {"parse", "batch"}, by : {"walk", "plan"}, pool : BOOLEAN]
    /\ Unset \notin {"TERM", "INT", "claimed", "taken", "answer", "exhausted", "cancelled"}
    /\ Unset \notin Nat

Frames == {"verb", "armed", "plan", "setup", "loop", "over", "cleanup", "unmarked",
           "closing", "pool", "joining", "print", "exit"}

VARIABLES
    command,
    ledger,         \* OPENREADING_LEDGER is set
    frame,          \* where the main thread is
    raised,         \* a KeyboardInterrupt unwinds it
    stranded,       \* a loop is left marked as running
    onInt,          \* who holds SIGINT
    fired,          \* the stop the handler claimed, or Unset
    handling,       \* where the handler is: Unset, "claimed" or "taken"
    counted,        \* the runner's count of interrupts
    cancelled,      \* the main task is asked to stop
    ended,          \* the task's
    step, flying,   \* the step it is at, and whether its call is in flight
    notes,          \* what is on record of each step of the run
    called,         \* how often it was called, ever
    header,         \* the run is armed on disk
    armed,          \* its id was told to the command
    begun, failed,  \* documents of a batch
    exit,           \* exit code
    signals, resumes,
    first,          \* the first stop signal of this process that was not ignored
    pressed,        \* how many SIGINTs came to the runner's handler
    torn,           \* a stop came in a frame that is not safe from it
    rough           \* a process before this one was shielded, or hit like that

processVars == <<frame, raised, stranded, onInt, fired, handling, counted, cancelled, ended,
                 step, flying, armed, begun, failed, exit, first, pressed, torn>>
signalVars == <<command, ledger, processVars, notes, called, header, signals, resumes, rough>>

SignalsTypeOK ==
    /\ command \in [verb : {"parse", "batch", "resume"}, by : {"walk", "plan"}, pool : BOOLEAN]
    /\ ledger \in BOOLEAN /\ header \in BOOLEAN /\ armed \in BOOLEAN /\ rough \in BOOLEAN
    /\ frame \in Frames /\ raised \in BOOLEAN /\ stranded \in BOOLEAN /\ torn \in BOOLEAN
    /\ onInt \in {"default", "ignored", "runner", "dropped"}
    /\ fired \in {Unset, "TERM", "INT"} /\ first \in {Unset, "TERM", "INT"}
    /\ handling \in {Unset, "claimed", "taken"}
    /\ counted \in Nat /\ pressed \in Nat /\ cancelled \in BOOLEAN
    /\ ended \in {Unset, "answer", "exhausted", "cancelled"}
    /\ step \in 1..Rungs /\ flying \in BOOLEAN
    /\ notes \in [1..Rungs -> {"none", "attempted", "ok", "failed", "cancelled"}]
    /\ called \in [1..Rungs -> Nat]
    /\ begun \in 1..Docs /\ failed \in Nat
    /\ exit \in {Unset, 0, 1, 3, 4, 6, 130, 143}
    /\ signals \in 0..MaxSignals /\ resumes \in 0..MaxResumes

\* A parent may have left SIGINT ignored; SIGTERM, if it is, is left alone.
SignalsInit ==
    /\ command \in Commands /\ ledger \in BOOLEAN
    /\ frame = "verb" /\ raised = FALSE /\ stranded = FALSE
    /\ onInt \in {"default", "ignored"} /\ fired = Unset /\ handling = Unset
    /\ counted = 0 /\ cancelled = FALSE /\ ended = Unset /\ step = 1 /\ flying = FALSE
    /\ armed = FALSE /\ begun = 1 /\ failed = 0 /\ exit = Unset
    /\ first = Unset /\ pressed = 0 /\ torn = FALSE
    /\ notes = [r \in 1..Rungs |-> "none"] /\ called = [r \in 1..Rungs |-> 0]
    /\ header = FALSE /\ signals = 0 /\ resumes = 0 /\ rough = FALSE

Batch == command.verb = "batch"
\* The runs of a batch have journals too; here only a single one is resumed.
Journals == ledger /\ command.by = "walk" /\ ~Batch
Runs == handling = Unset /\ exit = Unset

-----------------------------------------------------------------------------
(* How a command ends                                                      *)

\* main: an interrupt no command caught is the signal's own exit.
Escapes(claim) == IF claim = "TERM" THEN 143 ELSE 130

\* Only a parse catches it, in cmd_parse while it runs and in a batch always.
Interrupted(claim) ==
    IF (Batch /\ ledger) \/ (command.verb = "parse" /\ armed) THEN 6 ELSE Escapes(claim)

Exits(code) == frame' = "exit" /\ exit' = code

\* An interrupt in frame f.  Where the loop is being marked or unmarked it leaves it
\* marked, and what comes of closing it takes the interrupt's place; a loop that is
\* torn down sets up and cleans up once more.
Strands(f) ==
    CASE f \in {"setup", "cleanup"} -> {TRUE} [] f = "closing" -> BOOLEAN [] OTHER -> {FALSE}

NextDoc ==
    IF begun < Docs
    THEN frame' = "verb" /\ begun' = begun + 1 /\ exit' = exit
    ELSE frame' = "print" /\ UNCHANGED <<begun, exit>>

\* A document of a batch that got no answer.
Fails(fails) == failed' = IF fails THEN failed + 1 ELSE failed

Unwinds(f, claim, strands) ==
    \/ /\ strands /\ ~Batch
       /\ Exits(1)
       /\ UNCHANGED <<raised, begun, failed, notes, flying>>
    \/ /\ strands /\ Batch
       /\ NextDoc /\ failed' = failed + 1 /\ raised' = FALSE
       /\ UNCHANGED <<notes, flying>>
    \/ /\ ~strands /\ f \in {"loop", "over", "unmarked"}
       /\ frame' = "closing" /\ raised' = TRUE /\ flying' = FALSE
       /\ \E left \in {"attempted", "cancelled"} :
            notes' = IF Journals /\ flying THEN [notes EXCEPT ![step] = left] ELSE notes
       /\ UNCHANGED <<begun, failed, exit>>
    \/ /\ ~strands /\ f = "pool"
       /\ frame' = "joining" /\ raised' = TRUE
       /\ UNCHANGED <<begun, failed, exit, notes, flying>>
    \/ /\ ~strands /\ f \notin {"loop", "over", "unmarked", "pool"}
       /\ Exits(IF f = "print" THEN Escapes(claim) ELSE Interrupted(claim))
       /\ UNCHANGED <<raised, begun, failed, notes, flying>>

Interrupt(f, claim) ==
    \E strands \in Strands(f) :
        stranded' = (stranded \/ strands) /\ Unwinds(f, claim, strands)

-----------------------------------------------------------------------------
(* Signals                                                                 *)

TaskDone == frame \notin {"setup", "loop"}

\* The frames in which asyncio does not survive an interrupt; its own handler, where
\* it is installed, keeps one out of the first.
Unsafe == {"cleanup", "closing"} \cup IF onInt = "runner" THEN {} ELSE {"setup"}

Arrives(s) ==
    /\ exit = Unset /\ signals < MaxSignals /\ signals' = signals + 1
    /\ first' = IF first = Unset THEN s ELSE first
    /\ torn' = (torn \/ frame \in Unsafe)

\* default_int_handler raises; asyncio's handler cancels the task, the first time and
\* while there is one.
Sigint ==
    /\ onInt \in {"default", "runner"} /\ Arrives("INT")
    /\ IF onInt = "runner"
       THEN counted' = counted + 1 /\ pressed' = pressed + 1
       ELSE UNCHANGED <<counted, pressed>>
    /\ \/ /\ onInt = "runner" /\ counted = 0 /\ ~TaskDone
          /\ cancelled' = TRUE
          /\ UNCHANGED <<frame, raised, stranded, handling, flying, notes, begun,
                         failed, exit>>
       \/ /\ ~(onInt = "runner" /\ counted = 0 /\ ~TaskDone)
          /\ Interrupt(frame, fired) /\ handling' = Unset
          /\ UNCHANGED cancelled
    /\ UNCHANGED <<command, ledger, onInt, fired, ended, step, armed, called, header,
                   resumes, rough>>

\* _already_stopping, or a parent's shield.
SigintDropped ==
    /\ onInt \in {"dropped", "ignored"} /\ exit = Unset /\ signals < MaxSignals
    /\ signals' = signals + 1
    /\ UNCHANGED <<command, ledger, processVars, notes, called, header, resumes, rough>>

\* _raise: the first one is claimed, and handed to asyncio if that holds SIGINT.
Sigterm ==
    /\ fired = Unset /\ Arrives("TERM") /\ fired' = "TERM"
    /\ \/ /\ onInt = "runner" /\ handling' = "claimed"
          /\ UNCHANGED <<frame, raised, stranded, flying, notes, begun, failed, exit>>
       \/ /\ onInt # "runner" /\ Interrupt(frame, "TERM") /\ UNCHANGED handling
    /\ UNCHANGED <<command, ledger, onInt, counted, cancelled, ended, step, armed,
                   pressed, called, header, resumes, rough>>

SigtermAgain ==
    /\ fired # Unset /\ exit = Unset /\ signals < MaxSignals
    /\ signals' = signals + 1
    /\ UNCHANGED <<command, ledger, processVars, notes, called, header, resumes, rough>>

TakeOver ==
    /\ handling = "claimed"
    /\ handling' = "taken" /\ onInt' = "dropped"
    /\ UNCHANGED <<command, ledger, frame, raised, stranded, fired, counted, cancelled,
                   ended, step, flying, armed, begun, failed, exit, first, pressed,
                   torn, notes, called, header, signals, resumes, rough>>

\* _asyncio_sigint_verdict, and the call of its handler, which only "cancel" reaches.
VerdictHanded == IF counted > 0 THEN "stopping" ELSE "cancel"                     \* mutant
Verdict ==
    CASE counted > 0 -> "stopping" [] ~TaskDone -> "cancel" [] OTHER -> "declines"

Delegate ==
    /\ handling = "taken" /\ handling' = Unset
    /\ CASE Verdict = "stopping" ->
              /\ fired' = "INT"
              /\ UNCHANGED <<frame, raised, stranded, counted, cancelled, flying,
                             notes, begun, failed, exit>>
         [] Verdict = "cancel" ->
              /\ counted' = 1 /\ cancelled' = TRUE
              /\ UNCHANGED <<frame, raised, stranded, fired, flying, notes, begun,
                             failed, exit>>
         [] OTHER -> Interrupt(frame, fired) /\ UNCHANGED <<fired, counted, cancelled>>
    /\ UNCHANGED <<command, ledger, onInt, ended, step, armed, first, pressed, torn,
                   called, header, signals, resumes, rough>>

-----------------------------------------------------------------------------
(* The command                                                             *)

Enters(f) ==
    /\ frame' = f
    /\ UNCHANGED <<command, ledger, raised, stranded, fired, handling, failed, exit,
                   first, pressed, torn, called, signals, resumes, rough>>

\* A strategy arms its run and tells the id; a chain or a named backend submits.
Arm ==
    /\ Runs /\ frame = "verb" /\ Journals /\ ~header
    /\ Enters("armed") /\ header' = TRUE
    /\ UNCHANGED <<onInt, counted, cancelled, ended, step, flying, armed, begun,
                   notes>>

Tell ==
    /\ Runs /\ frame = "armed" /\ ~armed
    /\ Enters("armed") /\ armed' = TRUE
    /\ UNCHANGED <<onInt, counted, cancelled, ended, step, flying, begun, notes,
                   header>>

SubmitDirect ==
    /\ Runs /\ frame = "verb" /\ command.by = "plan" /\ ~command.pool
    /\ Enters("plan")
    /\ UNCHANGED <<onInt, counted, cancelled, ended, step, flying, armed, begun,
                   notes, header>>

\* Runner.run: it takes SIGINT if that is still the default one.
AsyncioRun ==
    /\ Runs /\ ~stranded
    /\ \/ frame = "verb" /\ command.by = "walk" /\ ~command.pool /\ (Journals => header)
       \/ frame = "armed" /\ armed
       \/ frame = "plan"
    /\ Enters("setup")
    /\ onInt' = IF onInt = "default" THEN "runner" ELSE onInt
    /\ counted' = 0 /\ cancelled' = FALSE /\ ended' = Unset /\ step' = 1 /\ flying' = FALSE
    /\ UNCHANGED <<armed, begun, notes, header>>

\* A loop that is still marked refuses every later run of a batch.
RunRefused ==
    /\ Runs /\ stranded /\ frame \in {"verb", "plan"}
    /\ NextDoc /\ failed' = failed + 1
    /\ UNCHANGED <<command, ledger, raised, stranded, onInt, fired, handling, counted,
                   cancelled, ended, step, flying, armed, first, pressed, torn, notes,
                   called, header, signals, resumes, rough>>

LoopStarts ==
    /\ Runs /\ frame = "setup" /\ Enters("loop")
    /\ UNCHANGED <<onInt, counted, cancelled, ended, step, flying, armed, begun,
                   notes, header>>

Walks(r, flies, ends) ==
    /\ Runs /\ frame = "loop" /\ ended = Unset
    /\ step' = r /\ flying' = flies /\ ended' = ends
    /\ UNCHANGED <<command, ledger, frame, raised, stranded, onInt, fired, handling,
                   counted, cancelled, armed, begun, failed, exit, first, pressed, torn,
                   header, signals, resumes, rough>>

Notes(r, status) == IF Journals THEN [notes EXCEPT ![r] = status] ELSE notes

\* The next step of the cascade, or its end.
Steps(r) == IF r = Rungs THEN Walks(r, FALSE, "exhausted") ELSE Walks(r + 1, FALSE, Unset)

\* A step on record is not called: an answer ends the walk, a failure or a
\* cancellation goes on to the next.
Replay ==
    /\ ~flying /\ ~cancelled /\ notes[step] \in {"ok", "failed", "cancelled"}
    /\ IF notes[step] = "ok" THEN Walks(step, FALSE, "answer") ELSE Steps(step)
    /\ UNCHANGED <<notes, called>>

\* A task asked to stop in its own code may still come as far as its next await.
Call ==
    /\ ~flying /\ notes[step] \in {"none", "attempted"}
    /\ Walks(step, TRUE, Unset)
    /\ notes' = Notes(step, "attempted")
    /\ called' = [called EXCEPT ![step] = @ + 1]

CallReturns(status) ==
    /\ flying /\ ~cancelled
    /\ IF status = "ok" THEN Walks(step, FALSE, "answer") ELSE Steps(step)
    /\ notes' = Notes(step, status)
    /\ UNCHANGED called

\* The wait for a call is cancelled, and exec records that; the thread goes on.
CancelledNoNote == notes                                                \* mutant
CancelledNote == Notes(step, "cancelled")
CancelWait ==
    /\ flying /\ cancelled
    /\ Walks(step, FALSE, "cancelled")
    /\ notes' = CancelledNote
    /\ UNCHANGED called

TaskOver ==
    /\ Runs /\ frame = "loop" /\ ~flying
    /\ ended # Unset \/ cancelled
    /\ Enters("over")
    /\ ended' = IF cancelled THEN "cancelled" ELSE ended
    /\ UNCHANGED <<onInt, counted, cancelled, step, flying, armed, begun, notes,
                   header>>

LeaveLoop ==
    /\ Runs
    /\ \/ frame = "over" /\ Enters("cleanup")
       \/ frame = "cleanup" /\ Enters("unmarked")
    /\ UNCHANGED <<onInt, counted, cancelled, ended, step, flying, armed, begun,
                   notes, header>>

\* Runner.run raises for a cancelled task and gives SIGINT back if it still has it;
\* its close then waits for the threads.
RunReturns ==
    /\ Runs /\ frame = "unmarked"
    /\ frame' = "closing" /\ raised' = (ended = "cancelled")
    /\ onInt' = IF onInt = "runner" THEN "default" ELSE onInt
    /\ UNCHANGED <<command, ledger, stranded, fired, handling, counted, cancelled,
                   ended, step, flying, armed, begun, failed, exit, first, pressed,
                   torn, notes, called, header, signals, resumes, rough>>

Closed ==
    /\ Runs /\ frame = "closing"
    /\ CASE raised -> Exits(Interrupted(fired)) /\ UNCHANGED <<begun, failed>>
         [] ~raised /\ Batch -> NextDoc /\ Fails(ended = "exhausted")
         [] ~raised /\ ~Batch /\ ended = "answer" ->
              frame' = "print" /\ UNCHANGED <<begun, failed, exit>>
         [] OTHER -> Exits(3) /\ UNCHANGED <<begun, failed>>
    /\ UNCHANGED <<command, ledger, raised, stranded, onInt, fired, handling, counted,
                   cancelled, ended, step, flying, armed, first, pressed, torn, notes,
                   called, header, signals, resumes, rough>>

\* A batch with several workers runs its documents in threads.  Its pool is left only
\* when all of them are done, by an interrupt too.
PoolBegins ==
    /\ Runs /\ frame = "verb" /\ command.pool
    /\ Enters("pool")
    /\ UNCHANGED <<onInt, counted, cancelled, ended, step, flying, armed, begun,
                   notes, header>>

PoolGoesOn ==
    /\ Runs
    /\ \/ /\ frame \in {"pool", "joining"} /\ begun < Docs
          /\ begun' = begun + 1 /\ UNCHANGED <<frame, exit>>
       \/ frame = "pool" /\ begun = Docs /\ NextDoc
    /\ \E fails \in BOOLEAN : Fails(fails)
    /\ UNCHANGED <<command, ledger, raised, stranded, onInt, fired, handling, counted,
                   cancelled, ended, step, flying, armed, first, pressed, torn, notes,
                   called, header, signals, resumes, rough>>

Joined ==
    /\ Runs /\ frame = "joining" /\ begun = Docs
    /\ Exits(Interrupted(fired))
    /\ UNCHANGED <<command, ledger, raised, stranded, onInt, fired, handling, counted,
                   cancelled, ended, step, flying, armed, begun, failed, first, pressed,
                   torn, notes, called, header, signals, resumes, rough>>

\* What a command that nothing stopped says: a batch may be partial.
Reports ==
    /\ Runs /\ frame = "print"
    /\ Exits(CASE failed = 0 -> 0 [] failed = Docs -> 1 [] OTHER -> 4)
    /\ UNCHANGED <<command, ledger, raised, stranded, onInt, fired, handling, counted,
                   cancelled, ended, step, flying, armed, begun, failed, first, pressed,
                   torn, notes, called, header, signals, resumes, rough>>

\* What asyncio does not survive: a stop in such a frame, and two Ctrl-Cs that both
\* reach its handler.
Fragile == torn \/ pressed > 1

\* The run is resumed from another process.
Resume ==
    /\ exit # Unset /\ header /\ resumes < MaxResumes
    /\ command' = [command EXCEPT !.verb = "resume"]
    /\ frame' = "verb" /\ raised' = FALSE /\ stranded' = FALSE
    /\ onInt' \in {"default", "ignored"} /\ fired' = Unset /\ handling' = Unset
    /\ counted' = 0 /\ cancelled' = FALSE /\ ended' = Unset /\ step' = 1 /\ flying' = FALSE
    /\ armed' = FALSE /\ begun' = 1 /\ failed' = 0 /\ exit' = Unset
    /\ first' = Unset /\ pressed' = 0 /\ torn' = FALSE
    /\ resumes' = resumes + 1
    /\ rough' = (rough \/ Fragile \/ onInt = "ignored")
    /\ UNCHANGED <<ledger, notes, called, header, signals>>

SignalsNext ==
    \/ Sigint \/ SigintDropped \/ Sigterm \/ SigtermAgain \/ TakeOver \/ Delegate
    \/ Arm \/ Tell \/ SubmitDirect \/ AsyncioRun \/ RunRefused \/ LoopStarts
    \/ Replay \/ Call \/ (\E status \in {"ok", "failed"} : CallReturns(status)) \/ CancelWait
    \/ TaskOver \/ LeaveLoop \/ RunReturns \/ Closed
    \/ PoolBegins \/ PoolGoesOn \/ Joined \/ Reports \/ Resume

SignalsSpec == SignalsInit /\ [][SignalsNext]_signalVars

-----------------------------------------------------------------------------
(* Properties                                                              *)

\* A stop is never lost and never reported as something else: a command that was sent
\* one ends interrupted, with the exit code of a stop, however often the signals came and
\* in whatever frame but those in which the code has no protection (Fragile).
StopsAreObeyed ==
    exit # Unset /\ first # Unset /\ ~Fragile => exit \in {6, 130, 143}

\* What a stop interrupts is on record before the process ends, so that a resumed run
\* does not call it, and pay for it, a second time.
StoppedCallsAreNotRepeated ==
    Journals /\ ~rough => \A r \in 1..Rungs : called[r] <= 1
=============================================================================
