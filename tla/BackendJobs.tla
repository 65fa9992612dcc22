---------------------------- MODULE BackendJobs -----------------------------
(***************************************************************************)
(* Reads of a document by a backend: the adapters' submit, poll, cancel    *)
(* and resolve_webhook (adapters/*/adapter.py) and the loop that polls     *)
(* them (router/driver.py).  Each read has one Job.  An adapter is what    *)
(* its code tells apart of the vendor's answers: a status table, and the   *)
(* few calls in which it differs from the others.                          *)
(*                                                                         *)
(* The vendors themselves are outside the repository: a remote job works   *)
(* and ends in a status its adapter names or in one it does not, any call  *)
(* may fail, and an event may be delivered whenever a job has ended.       *)
(***************************************************************************)
EXTENDS Naturals, Sequences

CONSTANTS
    Reads,          \* reads under way
    MaxPages,       \* pages of the result
    MaxFaults,      \* MAX_CONSECUTIVE_FAULTS
    MaxTries,       \* bound: calls to a vendor, and readings of its answer, that fail
    Nil             \* no vendor, no raw payload

VARIABLES
    vendor,         \* the adapter of the read's job, or None
    state,          \* job.state: "none", "running", "succeeded" or "cancelled"
    raw,            \* job.raw: the pages in it
    items,          \* poll_handle["items"] (Textract)
    attempts,       \* job.attempts
    out,            \* how await_result left: "driving", "ok" or a class of error
    remote,         \* the vendor's job: "none", "working", or the status it ended in
    tries           \* those that failed so far

jobVars == <<vendor, state, raw, items, attempts, out, remote, tries>>

Inline == {"anthropic_claude", "docling", "docling_local", "google_document_ai",
           "google_gemini", "liteparse", "mistral_ocr", "pymupdf", "qwen_vl", "tesseract"}
Polled == {"aws_textract", "azure_document_intelligence", "chunkr", "llamaparse",
           "nuextract", "open_ocr", "pulse", "reducto"}
WithWebhook == {"chunkr", "open_ocr", "reducto"}
Vendors == Inline \cup Polled

\* What a finished task holds, and the body of one that failed: no page of it.
Result == [k \in 1..MaxPages |-> k]
Failure == <<0>>

BackendAssumption ==
    /\ {MaxPages, MaxFaults, MaxTries} \subseteq Nat
    /\ Nil \notin Vendors /\ Nil # Result

BackendTypeOK ==
    /\ vendor \in [Reads -> Vendors \cup {Nil}]
    /\ state \in [Reads -> {"none", "running", "succeeded", "cancelled"}]
    /\ raw \in [Reads -> {Nil} \cup Seq(0..MaxPages)]
    /\ items \in [Reads -> Seq(1..MaxPages)]
    /\ attempts \in [Reads -> 0..(MaxFaults + 1)]
    /\ out \in [Reads -> {"driving", "ok", "retryable", "terminal"}]
    /\ remote \in [Reads -> {"none", "working", "done", "failed", "cancelled", "odd"}]
    /\ tries \in 0..MaxTries

JobOf(r, v) ==
    /\ vendor' = [vendor EXCEPT ![r] = v]
    /\ items' = [items EXCEPT ![r] = <<>>]
    /\ attempts' = [attempts EXCEPT ![r] = 0]

BackendInit ==
    /\ vendor = [r \in Reads |-> Nil]
    /\ state = [r \in Reads |-> "none"]
    /\ raw = [r \in Reads |-> Nil]
    /\ items = [r \in Reads |-> <<>>]
    /\ attempts = [r \in Reads |-> 0]
    /\ out = [r \in Reads |-> "driving"]
    /\ remote = [r \in Reads |-> "none"]
    /\ tries = 0

-----------------------------------------------------------------------------
(* What the adapters make of an answer                                     *)

\* A call that fails is worth another try or it is not.
ErrorForStatus ==
    [auth |-> "terminal", too_large |-> "terminal", busy |-> "retryable",
     other |-> "terminal"]

\* Each _map_error passes on what the client classified; the rest is terminal.
MapError(reply) == IF reply \in DOMAIN ErrorForStatus THEN ErrorForStatus[reply] ELSE "terminal"

Fault(reply) == tries < MaxTries /\ tries' = tries + 1 /\ reply \in {"busy", "other"}

\* The statuses that end a poll with an error, and with a result; the rest waits.
Reading(bad, good) ==
    [s \in {"working", "done", "failed", "cancelled", "odd"} |->
        IF s \in bad THEN "terminal" ELSE IF s \in good THEN "result" ELSE "wait"]

\* Three adapters take every status they do not name for success.
UnknownIsResult == {"done", "cancelled", "odd"}
TakesUnknown == {"aws_textract", "azure_document_intelligence", "reducto"}

ChunkrPoll == Reading({"failed", "cancelled"}, {"done"})
OpenOcrPoll == Reading({"failed", "cancelled"}, {"done"})
NuExtractPoll == Reading({"failed", "cancelled"}, {"done"})
PulsePoll == Reading({"failed", "cancelled"}, {"done"})
LlamaParsePoll == Reading({"failed", "cancelled", "odd"}, {"done"})
ReductoPoll == Reading({"failed"}, UnknownIsResult)
AzurePoll == Reading({"failed"}, UnknownIsResult)
TextractPollAny == Reading({}, UnknownIsResult \cup {"failed"}) \* mutant
TextractPoll == Reading({"failed"}, UnknownIsResult)

PollTable ==
    [aws_textract |-> TextractPoll, azure_document_intelligence |-> AzurePoll,
     chunkr |-> ChunkrPoll, llamaparse |-> LlamaParsePoll, nuextract |-> NuExtractPoll,
     open_ocr |-> OpenOcrPoll, pulse |-> PulsePoll, reducto |-> ReductoPoll]

\* What a vendor's job ends in; "odd" stands for any status that no adapter names.
EndStatuses == {"done", "failed", "cancelled", "odd"}

Body(s) == IF s = "done" THEN Result ELSE Failure

-----------------------------------------------------------------------------
(* submit                                                                  *)

\* The call raised: there is no Job.
SubmitFails(r, v, class) ==
    /\ JobOf(r, v)
    /\ \E reply \in {"busy", "other"} : Fault(reply) /\ class = MapError(reply)
    /\ out' = [out EXCEPT ![r] = class]
    /\ state' = [state EXCEPT ![r] = "none"]
    /\ raw' = [raw EXCEPT ![r] = Nil]
    /\ remote' = [remote EXCEPT ![r] = "none"]

\* The result came with the call.
SubmitInline(r, v) ==
    /\ v \in Inline \cup {"reducto", "pulse", "aws_textract", "open_ocr", "chunkr"}
    /\ JobOf(r, v)
    /\ state' = [state EXCEPT ![r] = "succeeded"]
    /\ raw' = [raw EXCEPT ![r] = Result]
    /\ remote' = [remote EXCEPT ![r] = "done"]
    /\ out' = [out EXCEPT ![r] = "driving"]
    /\ UNCHANGED tries

\* The vendor accepted a job, to be polled or to call back.
SubmitPolled(r, v) ==
    /\ v \in Polled
    /\ JobOf(r, v)
    /\ state' = [state EXCEPT ![r] = "running"]
    /\ raw' = [raw EXCEPT ![r] = Nil]
    /\ remote' = [remote EXCEPT ![r] = "working"]
    /\ out' = [out EXCEPT ![r] = "driving"]
    /\ UNCHANGED tries

SubmitTo(r, v) ==
    \/ SubmitInline(r, v) \/ SubmitPolled(r, v)
    \/ \E class \in {"retryable", "terminal"} : SubmitFails(r, v, class)

RemoteEnds(r) ==
    /\ remote[r] = "working"
    /\ \E s \in EndStatuses : remote' = [remote EXCEPT ![r] = s]
    /\ UNCHANGED <<vendor, state, raw, items, attempts, out, tries>>

-----------------------------------------------------------------------------
(* poll, by await_result                                                   *)

Driven(r) == out[r] = "driving" /\ state[r] # "none"
Polling(r) == Driven(r) /\ state[r] = "running"

Leaves(r, class) == out' = [out EXCEPT ![r] = class]

\* A retryable fault counts; one more than the budget is raised.
Faulted(r) ==
    /\ attempts' = [attempts EXCEPT ![r] = @ + 1]
    /\ IF attempts[r] + 1 > MaxFaults THEN Leaves(r, "retryable") ELSE UNCHANGED out

\* A poll that answered without ending the job clears the count.
Healthy(r) == attempts' = [attempts EXCEPT ![r] = 0]

PollFails(r) ==
    /\ Polling(r)
    /\ \E reply \in {"busy", "other"} :
         /\ Fault(reply)
         /\ IF MapError(reply) = "retryable" THEN Faulted(r)
            ELSE Leaves(r, "terminal") /\ UNCHANGED attempts
    /\ UNCHANGED <<vendor, state, raw, items, remote>>

Verdict(r) == PollTable[vendor[r]][remote[r]]

PollWaits(r) ==
    /\ Polling(r) /\ Verdict(r) = "wait"
    /\ Healthy(r)
    /\ UNCHANGED <<vendor, state, raw, items, out, remote, tries>>

PollTerminal(r) ==
    /\ Polling(r) /\ Verdict(r) = "terminal"
    /\ Leaves(r, "terminal")
    /\ UNCHANGED <<vendor, state, raw, items, attempts, remote, tries>>

NextPage(r) == Append(items[r], Len(items[r]) + 1)

\* Textract gives its result in pages; the handle keeps those read.
PollPage(r) ==
    /\ Polling(r) /\ Verdict(r) = "result" /\ vendor[r] = "aws_textract"
    /\ Len(items[r]) + 1 < MaxPages
    /\ items' = [items EXCEPT ![r] = NextPage(r)]
    /\ Healthy(r)
    /\ UNCHANGED <<vendor, state, raw, out, remote, tries>>

Finish(r, payload) ==
    /\ state' = [state EXCEPT ![r] = "succeeded"]
    /\ raw' = [raw EXCEPT ![r] = payload]

\* Textract's answer without a further token ends it: a job that was done has then given
\* every page, another whatever pages it has.
TextractPages(r) ==
    {pages \in {items[r], NextPage(r)} :
        IF remote[r] = "done" THEN Len(pages) = MaxPages ELSE Len(pages) <= MaxPages}

Payloads(r) == IF vendor[r] = "aws_textract" THEN TextractPages(r) ELSE {Body(remote[r])}

PollResult(r) ==
    /\ Polling(r) /\ Verdict(r) = "result"
    /\ \E payload \in Payloads(r) : Finish(r, payload)
    /\ UNCHANGED <<vendor, items, attempts, out, remote, tries>>

\* The result is a second call, and it fails.  NuExtract's job is still running and
\* will be polled again; Pulse's is SUCCEEDED already, without its payload, and the
\* loop does not poll a terminal job again.
FetchFails(r) ==
    /\ Polling(r) /\ Verdict(r) = "result"
    /\ vendor[r] \in {"nuextract", "pulse"}
    /\ state' = IF vendor[r] = "pulse" THEN [state EXCEPT ![r] = "succeeded"] ELSE state
    /\ \E reply \in {"busy", "other"} :
         /\ Fault(reply)
         /\ IF MapError(reply) = "retryable" THEN Faulted(r)
            ELSE Leaves(r, "terminal") /\ UNCHANGED attempts
    /\ UNCHANGED <<vendor, raw, items, remote>>

\* The loop ends with a terminal job.
DriveEnds(r) ==
    /\ Driven(r) /\ state[r] \in {"succeeded", "cancelled"}
    /\ Leaves(r, "ok")
    /\ UNCHANGED <<vendor, state, raw, items, attempts, remote, tries>>

\* The deadline passed; the error is a retryable one.
DriveExpires(r) ==
    /\ Polling(r)
    /\ Leaves(r, "retryable")
    /\ UNCHANGED <<vendor, state, raw, items, attempts, remote, tries>>

Drive(r) ==
    \/ PollFails(r) \/ PollWaits(r) \/ PollTerminal(r) \/ PollPage(r) \/ PollResult(r)
    \/ FetchFails(r) \/ DriveEnds(r) \/ DriveExpires(r)

-----------------------------------------------------------------------------
(* Between polls                                                           *)

\* cancel: the vendor is asked, where it has a call for it, and a refusal is
\* raised.  Chunkr tolerates that its task is past cancelling.
Cancel(r) ==
    /\ state[r] = "running"
    /\ \/ state' = [state EXCEPT ![r] = "cancelled"] /\ UNCHANGED tries
       \/ vendor[r] \notin {"aws_textract", "azure_document_intelligence", "open_ocr"}
          /\ Fault("other") /\ UNCHANGED state
    /\ UNCHANGED <<vendor, raw, items, attempts, out, remote>>

\* resolve_webhook: an event of this job, with a result or with its handle only,
\* finishes it; whether the task failed is not looked at.
ResolveWebhook(r) ==
    /\ vendor[r] \in WithWebhook /\ state[r] = "running"
    /\ remote[r] # "working"
    /\ Finish(r, Body(remote[r]))
    /\ UNCHANGED <<vendor, items, attempts, out, remote, tries>>

\* A named job of the server: one drive after another, until it is over.
NextSlice(r) ==
    /\ out[r] = "retryable" /\ state[r] = "running"
    /\ Leaves(r, "driving")
    /\ UNCHANGED <<vendor, state, raw, items, attempts, remote, tries>>

BackendNext ==
    \E r \in Reads :
        \/ vendor[r] = Nil /\ \E v \in Vendors : SubmitTo(r, v)
        \/ RemoteEnds(r) \/ Drive(r) \/ NextSlice(r) \/ Cancel(r) \/ ResolveWebhook(r)

BackendSpec == BackendInit /\ [][BackendNext]_jobVars

-----------------------------------------------------------------------------
(* Properties                                                              *)

\* What the type of a Job says of its payload: "populated on SUCCEEDED"
\* (types/job.py 23).
SuccessHasPayload ==
    \A r \in Reads : state[r] = "succeeded" => raw[r] # Nil
=============================================================================
