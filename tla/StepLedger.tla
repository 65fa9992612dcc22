----------------------------- MODULE StepLedger -----------------------------
(***************************************************************************)
(* The run ledger: how a strategy run that died is resumed without paying  *)
(* for a backend call twice (ledger/jsonl.py, inline.py, localfs.py and    *)
(* api.resume_run).                                                        *)
(*                                                                         *)
(* A process drives the steps of one run, several at a time.  Every step   *)
(* goes through InlineExecutor.exec: it replays a recorded outcome, or     *)
(* journals an attempt, calls the backend, stores the payload as a blob    *)
(* and journals the outcome.  The journal is a file of lines; a crash in   *)
(* the middle of an append leaves part of a line without its newline, and  *)
(* the next append continues that line.                                    *)
(***************************************************************************)
EXTENDS LedgerSteps, Naturals, Sequences, FiniteSets

VARIABLES
    process,        \* is a process driving the run?
    starts,         \* processes started so far
    exec,             \* where exec is, for each step
    told,           \* what exec returned or raised in this process
    missing,        \* steps whose credentials are not configured
    changed,        \* steps whose backend is not what the header pinned
    journal,        \* the lines of <run_id>.jsonl
    tail,           \* does the last line end in a newline?
    nextSeq,        \* _seq_by_run of this process
    blobs,          \* what is on disk of each step's payload
    settled,        \* the outcome whose append last returned, in any process
    unreadable      \* a resume failed because the journal could not be read

fileVars == <<journal, tail, blobs>>
worldVars == <<missing, changed>>
ledgerVars == <<process, starts, exec, told, worldVars, fileVars, nextSeq, settled,
          unreadable>>

\* Lines.  A refusal is written with status failed.  An unfinished line is no
\* JSON; when it ends inside a character it is no UTF-8 either.
Record(s, status, seq) == [step |-> s, status |-> status, seq |-> seq]
Garbage == Record(None, "garbage", 0)
Split == Record(None, "split", 0)
Records == [step : Steps, status : {"attempted"} \cup Outcomes, seq : Nat]
Lines == Records \cup {Garbage, Split}

InFlight == {"running", "returned", "stored"}

LedgerTypeOK ==
    /\ process \in {"up", "down"}
    /\ starts \in 0..MaxStarts
    /\ exec \in [Steps -> {"todo", "done"} \cup InFlight]
    /\ told \in [Steps -> Outcomes \cup {"payload_missing", None}]
    /\ missing \subseteq Steps /\ changed \subseteq Steps
    /\ journal \in Seq(Lines)
    /\ tail \in {"complete", "torn"}
    /\ nextSeq \in Nat
    /\ blobs \in [Steps -> {"absent", "partial", "written"}]
    /\ settled \in [Steps -> Outcomes \cup {None}]
    /\ unreadable \in {"yes", "no"}

LedgerInit ==
    /\ process = "down" /\ starts = 0
    /\ exec = [s \in Steps |-> "todo"]
    /\ told = [s \in Steps |-> None]
    /\ missing = {} /\ changed = {}
    /\ journal = <<>> /\ tail = "complete"
    /\ nextSeq = 0
    /\ blobs = [s \in Steps |-> "absent"]
    /\ settled = [s \in Steps |-> None]
    /\ unreadable = "no"

-----------------------------------------------------------------------------
(* The journal                                                             *)

\* Lines that do not parse are skipped, whatever put them there.
Readable(line) == line.step # None

TerminalNoCancelled == {"ok", "skipped", "refused", "failed"}  \* mutant
TerminalStatuses == Outcomes

\* Where the journal has an outcome of step s; get keeps append order and
\* exec takes the first.
EndsOfAny(s) ==                                               \* mutant
    {i \in DOMAIN journal : journal[i].status \in TerminalStatuses}
Ends(s) == {i \in DOMAIN journal :
              journal[i].step = s /\ journal[i].status \in TerminalStatuses}
First(s, i) == i \in Ends(s) /\ \A j \in Ends(s) : i <= j

\* Records already numbered when a journal is opened.
Counted == Cardinality({i \in DOMAIN journal : Readable(journal[i])})

\* A file that is not UTF-8 raises UnicodeDecodeError out of every read.
DecodesStrict == \A i \in DOMAIN journal : Readable(journal[i])  \* mutant
Decodes == \A i \in DOMAIN journal : journal[i] # Split

\* Bytes reach the end of the file.  An append never looks at what is there:
\* after an unfinished line they become part of that line.
Put(line, end) ==
    /\ journal' = IF tail = "complete" THEN Append(journal, line)
                  ELSE [journal EXCEPT ![Len(journal)] =
                          IF line = Split THEN Split ELSE Garbage]
    /\ tail' = end

\* append: number the record, write it, flush, fsync.
AppendRecord(s, status) ==
    /\ Put(Record(s, status, nextSeq), "complete")
    /\ nextSeq' = nextSeq + 1

-----------------------------------------------------------------------------
(* One call of exec                                                        *)

\* exec ends and tells its caller the outcome.
Tell(s, outcome) ==
    /\ exec' = [exec EXCEPT ![s] = "done"]
    /\ told' = [told EXCEPT ![s] = outcome]

Settle(s, outcome) ==
    /\ AppendRecord(s, outcome)
    /\ settled' = [settled EXCEPT ![s] = outcome]
    /\ Tell(s, outcome)

Called(s) == process = "up" /\ exec[s] = "todo"
Unsettled(s) == Called(s) /\ Ends(s) = {}

\* Both gates come after the lookup.
GatesFirst(s) == Called(s)                                    \* mutant
Gated(s) == Unsettled(s)

\* A recorded outcome is served back; an ok one needs its payload.
Replay(s) ==
    /\ Called(s)
    /\ \E i \in DOMAIN journal :
         /\ First(s, i)
         /\ Tell(s, IF journal[i].status = "ok" /\ blobs[s] # "written"
                    THEN "payload_missing" ELSE journal[i].status)
    /\ UNCHANGED <<process, starts, worldVars, fileVars, nextSeq, settled,
                   unreadable>>

\* The gate knows the pinned set only in a resumed process.
IsRefused(s) == starts > 1 /\ s \in changed

Refuse(s) ==
    /\ Gated(s) /\ IsRefused(s)
    /\ Settle(s, "refused")
    /\ UNCHANGED <<process, starts, worldVars, blobs, unreadable>>

Skip(s) ==
    /\ Gated(s) /\ ~IsRefused(s) /\ s \in missing
    /\ Settle(s, "skipped")
    /\ UNCHANGED <<process, starts, worldVars, blobs, unreadable>>

\* The attempt is journalled and the call leaves for its thread.
Dispatch(s) ==
    /\ Unsettled(s) /\ ~IsRefused(s) /\ s \notin missing
    /\ AppendRecord(s, "attempted")
    /\ exec' = [exec EXCEPT ![s] = "running"]
    /\ UNCHANGED <<process, starts, told, worldVars, blobs, settled, unreadable>>

\* The call raises, or the task that waits for it is cancelled.
Fail(s) ==
    /\ process = "up" /\ exec[s] = "running"
    /\ \E outcome \in {"failed", "cancelled"} : Settle(s, outcome)
    /\ UNCHANGED <<process, starts, worldVars, blobs, unreadable>>

\* write_bytes truncates the blob and then fills it.
ReturnCall(s) ==
    /\ process = "up" /\ exec[s] = "running"
    /\ exec' = [exec EXCEPT ![s] = "returned"]
    /\ blobs' = [blobs EXCEPT ![s] = "partial"]
    /\ UNCHANGED <<process, starts, told, worldVars, journal, tail, nextSeq,
                   settled, unreadable>>

StoreBlob(s) ==
    /\ process = "up" /\ exec[s] = "returned"
    /\ exec' = [exec EXCEPT ![s] = "stored"]
    /\ blobs' = [blobs EXCEPT ![s] = "written"]
    /\ UNCHANGED <<process, starts, told, worldVars, journal, tail, nextSeq,
                   settled, unreadable>>

\* The record is written when the payload is: "stored".
OkBeforePayload == "returned"                                 \* mutant
OkAfter == "stored"

Succeed(s) ==
    /\ process = "up" /\ exec[s] = OkAfter
    /\ Settle(s, "ok")
    /\ UNCHANGED <<process, starts, worldVars, blobs, unreadable>>

Exec(s) ==
    \/ Replay(s) \/ Refuse(s) \/ Skip(s) \/ Dispatch(s)
    \/ Fail(s) \/ ReturnCall(s) \/ StoreBlob(s) \/ Succeed(s)

-----------------------------------------------------------------------------
(* Processes and their deaths                                              *)

\* A first run or a resume: the journal is opened and counted.  Credentials
\* and backends may have changed since the last process.
StartProcess ==
    /\ process = "down" /\ starts < MaxStarts /\ Decodes
    /\ process' = "up"
    /\ starts' = starts + 1
    /\ exec' = [s \in Steps |-> "todo"]
    /\ told' = [s \in Steps |-> None]
    /\ missing' \in SUBSET Steps
    /\ changed' \in SUBSET Steps
    /\ nextSeq' = Counted
    /\ UNCHANGED <<fileVars, settled, unreadable>>

\* The journal's constructor raises and resume_run with it.
StartFails ==
    /\ process = "down" /\ starts < MaxStarts /\ ~Decodes
    /\ starts' = starts + 1
    /\ unreadable' = "yes"
    /\ UNCHANGED <<process, exec, told, worldVars, fileVars, nextSeq, settled>>

\* Kills are bounded with the starts: the last process is not killed.
Dies ==
    /\ process = "up" /\ starts < MaxStarts
    /\ process' = "down"
    /\ UNCHANGED <<starts, exec, told, worldVars, nextSeq, settled, unreadable>>

\* What the machine may take with the process: appends are fsynced, blobs are not.
Unsynced == {s \in Steps : PowerLosses = "yes" /\ blobs[s] = "written"}

Kill ==
    /\ Dies
    /\ \E lost \in SUBSET Unsynced :
         blobs' = [s \in Steps |-> IF s \in lost THEN "partial" ELSE blobs[s]]
    /\ UNCHANGED <<journal, tail>>

\* What exec appends next for step s.
Appending(s) ==
    IF exec[s] = "todo" /\ Ends(s) = {}
    THEN IF IsRefused(s) THEN {"refused"}
         ELSE IF s \in missing THEN {"skipped"} ELSE {"attempted"}
    ELSE IF exec[s] = "running" THEN {"failed", "cancelled"}
    ELSE IF exec[s] = OkAfter THEN {"ok"} ELSE {}

\* The process dies in the middle of an append: a part of the line is there,
\* or all of it but the newline.
KillWhileAppending ==
    /\ Dies
    /\ \E s \in Steps : \E status \in Appending(s) : \E tear \in Tears :
         Put(CASE tear = "prefix" -> Garbage
               [] tear = "split" -> Split
               [] tear = "whole" -> Record(s, status, nextSeq), "torn")
    /\ UNCHANGED blobs

LedgerNext ==
    \/ \E s \in Steps : Exec(s)
    \/ StartProcess \/ StartFails
    \/ Kill \/ KillWhileAppending

LedgerSpec == LedgerInit /\ [][LedgerNext]_ledgerVars

\* A step in hand goes on (calls end, by the run's deadline), and an
\* interrupted run is resumed.
LedgerFairness ==
    /\ \A s \in Steps : WF_ledgerVars(Exec(s))
    /\ WF_ledgerVars(StartProcess)

LedgerFairSpec == LedgerSpec /\ LedgerFairness

-----------------------------------------------------------------------------
(* What the ledger promises                                                *)

\* A call whose outcome was acknowledged is never made again, whatever dies
\* and however often the run is resumed (inline.py 234-253): its own attempt
\* was appended before it, so its record never lands on an unfinished line.
SettledCallsNeverRepeat ==
    [][\A s \in Steps : exec[s] = "todo" /\ exec'[s] = "running"
         => settled[s] \notin CallOutcomes]_ledgerVars

\* What exec says of a step whose call was settled is what was settled, in
\* this process and in every later one: a resume takes the branches the
\* original run took (api.py 984-1008).
SettledIsTold ==
    \A s \in Steps : settled[s] \in CallOutcomes /\ told[s] # None
        => told[s] = settled[s]

\* A step has at most one outcome that can be read, although the journal is
\* append-only, tears destroy records and steps are called again.
OneOutcome ==
    \A s \in Steps : \A i, j \in DOMAIN journal :
        /\ journal[i].step = s /\ journal[i].status \in Outcomes
        /\ journal[j].step = s /\ journal[j].status \in Outcomes
        => i = j

\* A journal that says ok has the payload: as long as only processes die, a
\* replay never finds it missing (inline.py 356-379).
OkHasPayload ==
    \A i \in DOMAIN journal :
        journal[i].status = "ok" => blobs[journal[i].step] = "written"

\* A run that is resumed after every crash gets an outcome for every step:
\* no unfinished line keeps it from being read (jsonl.py 50-53).
RunCompletes == <>[](\A s \in Steps : told[s] # None)

-----------------------------------------------------------------------------
(* What the code says of itself and does not do                            *)

\* jsonl.py 51-53: a truncated trailing line is skipped, not fatal.
TornTailIsNotFatal == unreadable = "no"

=============================================================================
