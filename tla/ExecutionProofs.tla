-------------------------- MODULE ExecutionProofs ---------------------------
(***************************************************************************)
(* Proofs about what the reading of a document leaves behind: the ledger   *)
(* of a run (StepLedger), for every set of steps, every way a crash can    *)
(* tear a line and any number of crashes and resumes; and the answers of a *)
(* plan (PlanExecutor), for any chains, scopes and number of reads, and a  *)
(* cache of any size.                                                      *)
(*                                                                         *)
(* The ledger: only the last line of the journal can be destroyed, and     *)
(* only while it has no newline (PutEffect).  A call that is under way has *)
(* appended its attempt in this process, so the last line is complete when *)
(* its outcome is appended (TailInv), and that record stays (KeptInv).     *)
(* It is also the only outcome of its step (OneOutcome), because whoever   *)
(* appends one has looked the step up first (InFlightInv).                 *)
(*                                                                         *)
(* The plan: a job that succeeded holds the whole result, or is Pulse's    *)
(* and lost it, or ended in a status that its adapter does not name and    *)
(* takes for success (JobInv).  A read that is driving a job drives that   *)
(* of the backend it is at, submitted after it was given its key, and what *)
(* it has passed over is its trail (ReadInv).  So what is cached is        *)
(* genuine under its key (CacheInv), and a replay is as good as the read   *)
(* it takes the place of.                                                  *)
(***************************************************************************)
EXTENDS StepLedger, PlanExecutor, TLAPS, FiniteSetTheorems, SequenceTheorems

-----------------------------------------------------------------------------
(* The inductive invariant                                                 *)

\* Lines no append can touch.
Stable(i) == i \in DOMAIN journal /\ (i < Len(journal) \/ tail = "complete")

\* A torn line is there.
JournalInv == tail = "torn" => Len(journal) > 0

\* Whoever is in the middle of a call has completed the last line.
TailInv ==
    process = "up" /\ tail = "torn" => \A s \in Steps : exec[s] \in {"todo", "done"}

\* A step whose call is under way has no recorded outcome.
InFlightInv ==
    process = "up" => \A s \in Steps : exec[s] \in InFlight => Ends(s) = {}

\* The outcome of a call, once acknowledged, is in a line no append can touch.
KeptInv ==
    \A s \in Steps : settled[s] \in CallOutcomes =>
        \E i \in Ends(s) : Stable(i) /\ journal[i].status = settled[s]

\* The payload is complete before the record that refers to it.
PayloadInv ==
    PowerLosses = "no" =>
        /\ OkHasPayload
        /\ process = "up" => \A s \in Steps : exec[s] = "stored" => blobs[s] = "written"

ToldInv == PowerLosses = "no" => SettledIsTold

IInv == LedgerTypeOK /\ JournalInv /\ TailInv /\ InFlightInv /\ KeptInv
        /\ OneOutcome /\ PayloadInv /\ ToldInv

-----------------------------------------------------------------------------
(* The journal                                                             *)

\* An append adds a line or spoils the unfinished one; every other line stays
\* what and where it is.
LEMMA PutEffect ==
    ASSUME LedgerTypeOK, JournalInv, NEW line \in Lines, NEW end \in {"complete", "torn"},
           Put(line, end)
    PROVE  /\ journal' \in Seq(Lines) /\ Len(journal') > 0
           /\ \A i \in DOMAIN journal' :
                i < Len(journal') => i \in DOMAIN journal /\ journal'[i] = journal[i]
           /\ \A i : Stable(i) => i \in DOMAIN journal' /\ i < Len(journal')
           /\ journal'[Len(journal')] \in {line, Garbage, Split}
           /\ tail = "complete" => journal'[Len(journal')] = line
<1> DEFINE spoilt == IF line = Split THEN Split ELSE Garbage
<1>0. journal \in Seq(Lines) /\ spoilt \in Lines /\ spoilt \in {Garbage, Split}
  BY DEF LedgerTypeOK, Lines
<1>1. CASE tail = "complete"
  <2>1. journal' = Append(journal, line)
    BY <1>1 DEF Put
  <2>2. QED  BY <1>0, <1>1, <2>1 DEF Stable
<1>2. CASE tail = "torn"
  <2> HIDE DEF spoilt
  <2>1. journal' = [journal EXCEPT ![Len(journal)] = spoilt]
    BY <1>2 DEF Put, spoilt
  <2>2. Len(journal) \in DOMAIN journal
    BY <1>0, <1>2 DEF JournalInv
  <2>3. /\ journal' \in Seq(Lines) /\ Len(journal') = Len(journal)
        /\ DOMAIN journal' = DOMAIN journal
        /\ journal'[Len(journal)] = spoilt
        /\ \A i \in DOMAIN journal : i # Len(journal) => journal'[i] = journal[i]
    BY <1>0, <2>1, <2>2
  <2>4. QED  BY <1>0, <1>2, <2>2, <2>3 DEF Stable
<1>3. QED  BY <1>1, <1>2 DEF LedgerTypeOK

\* What an append for step s leaves true of the outcomes in the journal.
LEMMA OutcomesAfterPut ==
    ASSUME LedgerTypeOK, JournalInv, OneOutcome, NEW s \in Steps, NEW line \in Lines,
           NEW end \in {"complete", "torn"}, Put(line, end),
           line \in Records => line.step = s,
           line.status \in Outcomes => Ends(s) = {}
    PROVE  /\ JournalInv' /\ OneOutcome'
           /\ \A r \in Steps : \A i \in Ends(r) :
                Stable(i) => i \in Ends(r)' /\ Stable(i)' /\ journal'[i] = journal[i]
           /\ \A r \in Steps \ {s} : Ends(r) = {} => Ends(r)' = {}
           /\ line.status \notin Outcomes => (Ends(s) = {} => Ends(s)' = {})
<1> USE DEF Ends, TerminalStatuses
<1> DEFINE last == Len(journal')
<1>1. /\ journal' \in Seq(Lines) /\ last > 0 /\ last \in DOMAIN journal'
      /\ \A i \in DOMAIN journal' :
           i < last => i \in DOMAIN journal /\ journal'[i] = journal[i]
      /\ \A i : Stable(i) => i \in DOMAIN journal' /\ i < last
      /\ journal'[last] \in {line, Garbage, Split}
  BY PutEffect
<1>2. \A i \in DOMAIN journal' : i = last \/ i < last
  BY <1>1
<1>3. \A r \in Steps : \A i \in Ends(r)' :
         \/ i \in Ends(r) /\ i < last
         \/ i = last /\ r = s /\ Ends(s) = {} /\ line.status \in Outcomes
  <2> SUFFICES ASSUME NEW r \in Steps, NEW i \in Ends(r)', i = last
               PROVE  r = s /\ line.status \in Outcomes
    BY <1>1, <1>2
  <2>1. journal'[i].step = r /\ journal'[i].status \in Outcomes
    OBVIOUS
  <2>2. journal'[i] = line
    BY <1>1, <2>1, LedgerAssumption DEF Garbage, Split, Record
  <2>3. line \in Records
    BY <2>1, <2>2, LedgerAssumption DEF Lines, Garbage, Split, Record
  <2>4. QED  BY <2>1, <2>2, <2>3
<1>4. OneOutcome'
  <2> SUFFICES ASSUME NEW r \in Steps, NEW i \in Ends(r)', NEW j \in Ends(r)'
               PROVE  i = j
    BY DEF OneOutcome
  <2>1. CASE i \in Ends(r) /\ j \in Ends(r)
    BY <2>1 DEF OneOutcome
  <2>2. QED  BY <1>3, <2>1
<1>5. \A r \in Steps : \A i \in Ends(r) :
         Stable(i) => i \in Ends(r)' /\ Stable(i)' /\ journal'[i] = journal[i]
  BY <1>1 DEF Stable
<1>6. JournalInv'
  BY <1>1 DEF JournalInv
<1>7. QED  BY <1>3, <1>4, <1>5, <1>6

-----------------------------------------------------------------------------
(* Every step keeps the invariant                                          *)

\* Outcomes kept in lines no append can touch stay there when step s settles.
LEMMA SettleKeeps ==
    ASSUME IInv, NEW s \in Steps, NEW outcome \in Outcomes, Settle(s, outcome),
           process = "up", Ends(s) = {},
           outcome \in CallOutcomes => tail = "complete",
           outcome = "ok" /\ PowerLosses = "no" => blobs[s] = "written",
           UNCHANGED <<process, starts, worldVars, blobs, unreadable>>
    PROVE  IInv'
<1> DEFINE record == Record(s, outcome, nextSeq)
<1>1. record \in Records /\ record \in Lines /\ record.step = s /\ record.status = outcome
  BY DEF IInv, LedgerTypeOK, Record, Records, Lines
<1>2. Put(record, "complete") /\ tail' = "complete" /\ nextSeq' = nextSeq + 1
  BY DEF Settle, AppendRecord, Put
<1> HIDE DEF record
<1>3. /\ JournalInv' /\ OneOutcome'
      /\ \A r \in Steps : \A i \in Ends(r) :
           Stable(i) => i \in Ends(r)' /\ Stable(i)' /\ journal'[i] = journal[i]
      /\ \A r \in Steps \ {s} : Ends(r) = {} => Ends(r)' = {}
  BY <1>1, <1>2, OutcomesAfterPut DEF IInv
<1>4. /\ journal' \in Seq(Lines) /\ Len(journal') > 0
      /\ \A i \in DOMAIN journal' :
           i < Len(journal') => i \in DOMAIN journal /\ journal'[i] = journal[i]
      /\ journal'[Len(journal')] \in {record, Garbage, Split}
      /\ tail = "complete" => journal'[Len(journal')] = record
  BY <1>1, <1>2, PutEffect DEF IInv
<1>5. /\ exec' = [exec EXCEPT ![s] = "done"] /\ told' = [told EXCEPT ![s] = outcome]
      /\ settled' = [settled EXCEPT ![s] = outcome]
  BY DEF Settle, Tell
<1>6. LedgerTypeOK'
  BY <1>2, <1>4, <1>5 DEF IInv, LedgerTypeOK, worldVars
<1>7. TailInv'
  BY <1>2 DEF TailInv
<1>8. InFlightInv'
  BY <1>3, <1>5 DEF IInv, LedgerTypeOK, InFlightInv, InFlight
<1>9. KeptInv'
  <2> SUFFICES ASSUME NEW r \in Steps, settled'[r] \in CallOutcomes
               PROVE  \E i \in Ends(r)' : Stable(i)' /\ journal'[i].status = settled'[r]
    BY DEF KeptInv
  <2>1. CASE r # s
    BY <1>3, <1>5, <2>1 DEF IInv, LedgerTypeOK, KeptInv
  <2>2. CASE r = s
    <3>1. settled'[s] = outcome /\ outcome \in CallOutcomes
      BY <1>5, <2>2 DEF IInv, LedgerTypeOK
    <3>2. journal'[Len(journal')] = record /\ Len(journal') \in DOMAIN journal'
      BY <1>4, <3>1
    <3>3. QED
      BY <1>1, <1>2, <2>2, <3>1, <3>2 DEF Ends, TerminalStatuses, Stable, Outcomes
  <2>3. QED  BY <2>1, <2>2
<1>10. PayloadInv'
  <2> SUFFICES ASSUME PowerLosses = "no"
               PROVE  /\ OkHasPayload'
                      /\ \A r \in Steps : exec'[r] = "stored" => blobs'[r] = "written"
    BY DEF PayloadInv
  <2>1. ASSUME NEW i \in DOMAIN journal', journal'[i].status = "ok"
        PROVE  blobs'[journal'[i].step] = "written"
    <3>1. CASE i < Len(journal')
      BY <1>4, <2>1, <3>1 DEF IInv, PayloadInv, OkHasPayload
    <3>2. CASE i = Len(journal')
      <4>1. journal'[i] = record
        BY <1>4, <2>1, <3>2 DEF Garbage, Split, Record
      <4>2. QED  BY <1>1, <2>1, <4>1
    <3>3. QED  BY <1>4, <3>1, <3>2
  <2>2. \A r \in Steps : exec'[r] = "stored" => blobs'[r] = "written"
    BY <1>5 DEF IInv, LedgerTypeOK, PayloadInv
  <2>3. QED  BY <2>1, <2>2 DEF OkHasPayload
<1>11. ToldInv'
  BY <1>5 DEF IInv, LedgerTypeOK, ToldInv, SettledIsTold
<1>12. QED  BY <1>3, <1>6, <1>7, <1>8, <1>9, <1>10, <1>11 DEF IInv

\* A line that records no outcome, or an outcome nobody acknowledges because
\* the process dies, spoils nothing that was acknowledged.
LEMMA PutKeeps ==
    ASSUME IInv, NEW s \in Steps, NEW line \in Lines, NEW end \in {"complete", "torn"},
           Put(line, end), line \in Records => line.step = s,
           line.status \in Outcomes => Ends(s) = {} /\ process' = "down",
           line.status = "ok" /\ PowerLosses = "no" => blobs[s] = "written",
           UNCHANGED <<settled, blobs>>
    PROVE  /\ journal' \in Seq(Lines) /\ tail' = end
           /\ JournalInv' /\ KeptInv' /\ OneOutcome'
           /\ PowerLosses = "no" => OkHasPayload'
           /\ \A r \in Steps \ {s} : Ends(r) = {} => Ends(r)' = {}
           /\ process' = "up" => (Ends(s) = {} => Ends(s)' = {})
<1>1. /\ JournalInv' /\ OneOutcome'
      /\ \A r \in Steps : \A i \in Ends(r) :
           Stable(i) => i \in Ends(r)' /\ Stable(i)' /\ journal'[i] = journal[i]
      /\ \A r \in Steps \ {s} : Ends(r) = {} => Ends(r)' = {}
      /\ line.status \notin Outcomes => (Ends(s) = {} => Ends(s)' = {})
  BY OutcomesAfterPut DEF IInv
<1>2. /\ journal' \in Seq(Lines) /\ Len(journal') > 0
      /\ \A i \in DOMAIN journal' :
           i < Len(journal') => i \in DOMAIN journal /\ journal'[i] = journal[i]
      /\ journal'[Len(journal')] \in {line, Garbage, Split}
  BY PutEffect DEF IInv
<1>3. KeptInv'
  BY <1>1 DEF IInv, KeptInv
<1>4. ASSUME PowerLosses = "no", NEW i \in DOMAIN journal', journal'[i].status = "ok"
      PROVE  blobs'[journal'[i].step] = "written"
  <2>1. CASE i < Len(journal')
    BY <1>2, <1>4, <2>1 DEF IInv, PayloadInv, OkHasPayload
  <2>2. CASE i = Len(journal')
    <3>1. journal'[i] = line
      BY <1>2, <1>4, <2>2 DEF Garbage, Split, Record
    <3>2. line \in Records /\ line.step = s
      BY <1>4, <3>1 DEF Lines, Garbage, Split, Record
    <3>3. QED  BY <1>4, <3>1, <3>2
  <2>3. QED  BY <1>2, <2>1, <2>2
<1>5. tail' = end
  BY DEF Put
<1>6. QED  BY <1>1, <1>2, <1>3, <1>4, <1>5 DEF OkHasPayload

\* Serving a recorded outcome back tells what the journal says and writes nothing.
LEMMA ReplayKeeps ==
    ASSUME IInv, NEW s \in Steps, Replay(s)
    PROVE  IInv'
<1>1. PICK i \in DOMAIN journal :
        /\ First(s, i)
        /\ Tell(s, IF journal[i].status = "ok" /\ blobs[s] # "written"
                   THEN "payload_missing" ELSE journal[i].status)
  BY DEF Replay
<1>2. i \in Ends(s) /\ journal[i].step = s /\ journal[i].status \in Outcomes
  BY <1>1 DEF First, Ends, TerminalStatuses
<1>3. UNCHANGED <<process, starts, worldVars, fileVars, nextSeq, settled, unreadable>>
  BY DEF Replay
<1>4. exec' = [exec EXCEPT ![s] = "done"] /\ told'[s] \in Outcomes \cup {"payload_missing"}
      /\ told' = [told EXCEPT ![s] = told'[s]]
  BY <1>1, <1>2 DEF Tell, IInv, LedgerTypeOK
<1>5. LedgerTypeOK'
  BY <1>3, <1>4 DEF IInv, LedgerTypeOK, worldVars, fileVars
<1>6. JournalInv' /\ TailInv' /\ InFlightInv' /\ KeptInv' /\ OneOutcome'
  BY <1>3, <1>4
  DEF IInv, LedgerTypeOK, fileVars, JournalInv, TailInv, InFlightInv, InFlight, KeptInv,
      OneOutcome, Ends, Stable
<1>7. PayloadInv'
  BY <1>3, <1>4 DEF IInv, LedgerTypeOK, fileVars, PayloadInv, OkHasPayload
<1>8. ToldInv'
  <2> SUFFICES ASSUME PowerLosses = "no", NEW r \in Steps,
                      settled[r] \in CallOutcomes, told'[r] # None
               PROVE  told'[r] = settled[r]
    BY <1>3 DEF ToldInv, SettledIsTold
  <2>1. CASE r # s
    BY <1>4, <2>1 DEF IInv, LedgerTypeOK, ToldInv, SettledIsTold
  <2>2. CASE r = s
    <3>1. PICK k \in Ends(s) : journal[k].status = settled[s]
      BY <2>2 DEF IInv, KeptInv
    <3>2. k = i
      BY <1>2, <3>1 DEF IInv, OneOutcome, Ends, TerminalStatuses
    <3>3. journal[i].status = "ok" => blobs[s] = "written"
      BY <1>2 DEF IInv, PayloadInv, OkHasPayload
    <3>4. told'[s] = journal[i].status
      BY <1>1, <3>3 DEF Tell, IInv, LedgerTypeOK
    <3>5. QED  BY <2>2, <3>1, <3>2, <3>4
  <2>3. QED  BY <2>1, <2>2
<1>9. QED  BY <1>5, <1>6, <1>7, <1>8 DEF IInv

\* Journalling an attempt and sending the call keeps the invariant.
LEMMA DispatchKeeps ==
    ASSUME IInv, NEW s \in Steps, Dispatch(s)
    PROVE  IInv'
<1> DEFINE record == Record(s, "attempted", nextSeq)
<1>1. record \in Lines /\ record.step = s /\ record.status = "attempted"
  BY DEF IInv, LedgerTypeOK, Record, Records, Lines
<1>2. /\ Put(record, "complete") /\ nextSeq' = nextSeq + 1
      /\ exec' = [exec EXCEPT ![s] = "running"] /\ process = "up" /\ Ends(s) = {}
      /\ UNCHANGED <<process, starts, told, worldVars, blobs, settled,
                     unreadable>>
  BY DEF Dispatch, AppendRecord, Unsettled, Called
<1> HIDE DEF record
<1>3. /\ journal' \in Seq(Lines) /\ tail' = "complete"
      /\ JournalInv' /\ KeptInv' /\ OneOutcome'
      /\ PowerLosses = "no" => OkHasPayload'
      /\ \A r \in Steps \ {s} : Ends(r) = {} => Ends(r)' = {}
      /\ process' = "up" => (Ends(s) = {} => Ends(s)' = {})
  BY <1>1, <1>2, PutKeeps DEF Outcomes, CallOutcomes
<1>4. LedgerTypeOK'
  BY <1>2, <1>3 DEF IInv, LedgerTypeOK, worldVars, InFlight
<1>5. TailInv' /\ PayloadInv'
  BY <1>2, <1>3 DEF IInv, LedgerTypeOK, TailInv, PayloadInv
<1>6. InFlightInv'
  BY <1>2, <1>3 DEF IInv, LedgerTypeOK, InFlightInv, InFlight
<1>7. ToldInv'
  BY <1>2 DEF IInv, ToldInv, SettledIsTold
<1>8. QED  BY <1>3, <1>4, <1>5, <1>6, <1>7 DEF IInv

\* Each action of the ledger's executions keeps the invariant.
LEMMA ExecKeeps ==
    ASSUME IInv, NEW s \in Steps, Exec(s)
    PROVE  IInv'
<1>1. CASE Replay(s)
  BY <1>1, ReplayKeeps
<1>2. CASE Dispatch(s)
  BY <1>2, DispatchKeeps
<1>3. CASE Refuse(s)
  BY <1>3, SettleKeeps
  DEF Refuse, Gated, Unsettled, Called, Outcomes, CallOutcomes
<1>4. CASE Skip(s)
  BY <1>4, SettleKeeps
  DEF Skip, Gated, Unsettled, Called, Outcomes, CallOutcomes
<1>5. CASE Fail(s)
  <2>1. Ends(s) = {} /\ tail = "complete"
    BY <1>5 DEF Fail, IInv, LedgerTypeOK, InFlightInv, InFlight, TailInv
  <2>2. QED  BY <1>5, <2>1, SettleKeeps DEF Fail, Outcomes, CallOutcomes
<1>6. CASE Succeed(s)
  <2>1. Ends(s) = {} /\ tail = "complete" /\ (PowerLosses = "no" => blobs[s] = "written")
    BY <1>6 DEF Succeed, OkAfter, IInv, LedgerTypeOK, InFlightInv, InFlight, TailInv, PayloadInv
  <2>2. QED  BY <1>6, <2>1, SettleKeeps DEF Succeed, Outcomes, CallOutcomes
<1>7. CASE ReturnCall(s) \/ StoreBlob(s)
  <2>1. Ends(s) = {} /\ tail = "complete"
    BY <1>7 DEF ReturnCall, StoreBlob, IInv, LedgerTypeOK, InFlightInv, InFlight, TailInv
  <2>2. LedgerTypeOK' /\ JournalInv' /\ TailInv' /\ InFlightInv' /\ KeptInv' /\ OneOutcome'
    BY <1>7, <2>1
    DEF ReturnCall, StoreBlob, IInv, LedgerTypeOK, worldVars, JournalInv, TailInv, InFlightInv,
        InFlight, KeptInv, OneOutcome, Ends, Stable
  <2>3. \A i \in DOMAIN journal : journal[i].status = "ok" =>
            journal[i].step # s /\ journal[i].step \in Steps
    <3>1. \A i \in DOMAIN journal : journal[i] \in Lines
      BY DEF IInv, LedgerTypeOK
    <3>2. QED
      BY <2>1, <3>1
      DEF Ends, TerminalStatuses, Outcomes, CallOutcomes, Lines, Records, Garbage, Split, Record
  <2>4. PayloadInv'
    BY <1>7, <2>3 DEF ReturnCall, StoreBlob, IInv, LedgerTypeOK, PayloadInv, OkHasPayload
  <2>5. ToldInv'
    BY <1>7 DEF ReturnCall, StoreBlob, IInv, ToldInv, SettledIsTold
  <2>6. QED  BY <2>2, <2>4, <2>5 DEF IInv
<1>8. QED  BY <1>1, <1>2, <1>3, <1>4, <1>5, <1>6, <1>7 DEF Exec

\* A new process starts over; what the journal holds is all it knows.
LEMMA StartKeeps ==
    ASSUME IInv, StartProcess \/ StartFails
    PROVE  IInv'
<1>1. Counted \in Nat
  <2> DEFINE readable == {i \in DOMAIN journal : Readable(journal[i])}
  <2>1. IsFiniteSet(1..Len(journal)) /\ DOMAIN journal = 1..Len(journal)
    BY FS_Interval DEF IInv, LedgerTypeOK
  <2>2. IsFiniteSet(readable)
    BY <2>1, FS_Subset
  <2>3. QED  BY <2>2, FS_CardinalityType DEF Counted
<1>2. LedgerTypeOK'
  BY <1>1, LedgerAssumption DEF StartProcess, StartFails, IInv, LedgerTypeOK, worldVars, fileVars
<1>3. JournalInv' /\ TailInv' /\ InFlightInv' /\ KeptInv' /\ OneOutcome'
  BY DEF StartProcess, StartFails, fileVars, IInv, JournalInv, TailInv, InFlightInv,
         InFlight, KeptInv, OneOutcome, Ends, Stable
<1>4. PayloadInv' /\ ToldInv'
  BY DEF StartProcess, StartFails, fileVars, IInv, PayloadInv, OkHasPayload, ToldInv,
         SettledIsTold
<1>5. QED  BY <1>2, <1>3, <1>4 DEF IInv

\* A killed process may lose unsynced blobs and tear the line it was appending, and nothing
\* else.
LEMMA DeathKeeps ==
    ASSUME IInv, Kill \/ KillWhileAppending
    PROVE  IInv'
<1>1. /\ process' = "down"
      /\ UNCHANGED <<starts, exec, told, worldVars, nextSeq, settled,
                     unreadable>>
  BY DEF Kill, KillWhileAppending, Dies
<1>2. /\ journal' \in Seq(Lines) /\ tail' \in {"complete", "torn"}
      /\ blobs' \in [Steps -> {"absent", "partial", "written"}]
      /\ JournalInv' /\ KeptInv' /\ OneOutcome'
      /\ PowerLosses = "no" => OkHasPayload'
  <2>1. CASE Kill
    <3>0. PICK lost \in SUBSET Unsynced :
            blobs' = [s \in Steps |-> IF s \in lost THEN "partial" ELSE blobs[s]]
      BY <2>1 DEF Kill
    <3>1. UNCHANGED <<journal, tail>> /\ (PowerLosses = "no" => UNCHANGED blobs)
          /\ blobs' \in [Steps -> {"absent", "partial", "written"}]
      BY <2>1, <3>0 DEF Kill, Unsynced, IInv, LedgerTypeOK
    <3>2. QED
      BY <1>1, <3>1
      DEF IInv, LedgerTypeOK, JournalInv, KeptInv, OneOutcome, PayloadInv, OkHasPayload, Ends,
          Stable
  <2>2. CASE KillWhileAppending
    <3>0. PICK s \in Steps : \E status \in Appending(s) : \E tear \in Tears :
            Put(CASE tear = "prefix" -> Garbage
                  [] tear = "split" -> Split
                  [] tear = "whole" -> Record(s, status, nextSeq), "torn")
      BY <2>2 DEF KillWhileAppending
    <3>1. PICK status \in Appending(s), tear \in Tears :
            Put(CASE tear = "prefix" -> Garbage
                  [] tear = "split" -> Split
                  [] tear = "whole" -> Record(s, status, nextSeq), "torn")
      BY <3>0
    <3> DEFINE line == CASE tear = "prefix" -> Garbage
                         [] tear = "split" -> Split
                         [] tear = "whole" -> Record(s, status, nextSeq)
    <3>2. UNCHANGED <<blobs, settled>> /\ process = "up"
      BY <2>2 DEF KillWhileAppending, Dies
    <3>3. line \in {Garbage, Split, Record(s, status, nextSeq)}
      BY LedgerAssumption
    <3>4. /\ status \in {"attempted"} \cup Outcomes
          /\ status \in Outcomes => Ends(s) = {}
          /\ status = "ok" /\ PowerLosses = "no" => blobs[s] = "written"
      BY <3>2
      DEF Appending, OkAfter, Outcomes, CallOutcomes, IInv, LedgerTypeOK, InFlightInv, InFlight,
          PayloadInv
    <3>5. /\ line \in Lines /\ (line \in Records => line.step = s)
          /\ line.status \in Outcomes => Ends(s) = {}
          /\ line.status = "ok" /\ PowerLosses = "no" => blobs[s] = "written"
      BY <3>3, <3>4, LedgerAssumption
      DEF Lines, Records, Record, Garbage, Split, Outcomes, CallOutcomes, IInv, LedgerTypeOK
    <3>6. Put(line, "torn")
      BY <3>1
    <3> HIDE DEF line
    <3>7. QED
      BY <1>1, <3>2, <3>5, <3>6, PutKeeps DEF IInv, LedgerTypeOK
  <2>3. QED  BY <2>1, <2>2
<1>3. LedgerTypeOK'
  BY <1>1, <1>2 DEF IInv, LedgerTypeOK, worldVars
<1>4. TailInv' /\ InFlightInv' /\ PayloadInv' /\ ToldInv'
  BY <1>1, <1>2 DEF IInv, TailInv, InFlightInv, PayloadInv, ToldInv, SettledIsTold
<1>5. QED  BY <1>2, <1>3, <1>4 DEF IInv

\* A step that leaves the ledger alone keeps the invariant.
LEMMA StutterKeeps == IInv /\ UNCHANGED ledgerVars => IInv'
  BY DEF ledgerVars, worldVars, fileVars, IInv, LedgerTypeOK, JournalInv, TailInv, InFlightInv,
         InFlight, KeptInv, OneOutcome, PayloadInv, OkHasPayload, ToldInv, SettledIsTold,
         Ends, Stable

\* Every step of the ledger keeps the invariant.
LEMMA NextKeeps == IInv /\ [LedgerNext]_ledgerVars => IInv'
  BY ExecKeeps, StartKeeps, DeathKeeps, StutterKeeps DEF LedgerNext

\* A run that has not started has nothing on record and nothing told.
LEMMA InitEstablishes == LedgerInit => IInv
<1>1. LedgerInit => LedgerTypeOK
  BY LedgerAssumption DEF LedgerInit, LedgerTypeOK
<1>2. QED
  BY <1>1, LedgerAssumption
  DEF LedgerInit, IInv, JournalInv, TailInv, InFlightInv, InFlight, KeptInv, OneOutcome,
      PayloadInv, OkHasPayload, ToldInv, SettledIsTold, Ends, Outcomes

-----------------------------------------------------------------------------
(* The theorems                                                            *)

\* The inductive invariant of the ledger holds in every reachable state.
THEOREM Invariance == LedgerSpec => []IInv
  BY InitEstablishes, NextKeeps, PTL DEF LedgerSpec

\* Every reachable state of the ledger is well typed.
THEOREM LedgerTypeCorrect == LedgerSpec => []LedgerTypeOK
<1>1. IInv => LedgerTypeOK
  BY DEF IInv
<1>2. QED  BY <1>1, Invariance, PTL

\* Tears, resumes and repeated calls never leave two readable outcomes of one
\* step in the journal.
THEOREM OutcomesAreUnique == LedgerSpec => []OneOutcome
<1>1. IInv => OneOutcome
  BY DEF IInv
<1>2. QED  BY <1>1, Invariance, PTL

\* As long as only processes die, a record that says ok has its payload.
THEOREM OkRecordsHavePayloads ==
    ASSUME PowerLosses = "no"
    PROVE  LedgerSpec => []OkHasPayload
<1>1. IInv => OkHasPayload
  BY DEF IInv, PayloadInv
<1>2. QED  BY <1>1, Invariance, PTL

\* As long as only processes die, every process of the run is told the outcome
\* that was settled for a call.
THEOREM SettledOutcomesAreTold ==
    ASSUME PowerLosses = "no"
    PROVE  LedgerSpec => []SettledIsTold
<1>1. IInv => SettledIsTold
  BY DEF IInv, ToldInv
<1>2. QED  BY <1>1, Invariance, PTL

\* A call with an acknowledged outcome is never made again, whatever crashes
\* tear and even if power losses take its payload.
THEOREM CallsAreNotRepeated == LedgerSpec => SettledCallsNeverRepeat
<1>1. IInv /\ [LedgerNext]_ledgerVars =>
        [\A s \in Steps : exec[s] = "todo" /\ exec'[s] = "running"
           => settled[s] \notin CallOutcomes]_ledgerVars
  <2> SUFFICES ASSUME IInv, LedgerNext, NEW s \in Steps, exec[s] = "todo", exec'[s] = "running"
               PROVE  settled[s] \notin CallOutcomes
    OBVIOUS
  <2>1. Dispatch(s)
    <3>1. PICK r \in Steps : Exec(r)
      BY DEF LedgerNext, StartProcess, StartFails, Kill, KillWhileAppending, Dies, IInv,
             LedgerTypeOK
    <3>2. Dispatch(r) /\ r = s
      BY <3>1
      DEF Exec, Replay, Refuse, Skip, Dispatch, Fail, ReturnCall, StoreBlob, Succeed, Settle,
          Tell, IInv, LedgerTypeOK
    <3>3. QED  BY <3>2
  <2>2. Ends(s) = {}
    BY <2>1 DEF Dispatch, Unsettled
  <2>3. QED  BY <2>2 DEF IInv, KeptInv
<1>2. QED  BY <1>1, Invariance, PTL DEF LedgerSpec, SettledCallsNeverRepeat

-----------------------------------------------------------------------------
(* The reads of a plan: the inductive invariant                            *)

\* A job that succeeded holds the whole result, unless Pulse lost it, or unless its adapter
\* took a status it does not name for success: then the first pages, or a body without any.
PayloadOK(r) ==
    \/ raw[r] = Result
    \/ raw[r] = Nil /\ vendor[r] = "pulse"
    \/ /\ vendor[r] \in TakesUnknown /\ remote[r] # "done"
       /\ \/ raw[r] = Failure
          \/ raw[r] \in Seq(1..MaxPages) /\ \A k \in DOMAIN raw[r] : raw[r][k] = k

\* A job that is polled is one a vendor works at or has ended, one that succeeded did not
\* fail at its vendor; pages come in order.
JobOK(r) ==
    /\ state[r] # "cancelled"
    /\ state[r] = "running" => vendor[r] \in Polled /\ remote[r] # "none"
    /\ \A k \in DOMAIN items[r] : items[r][k] = k
    /\ state[r] = "succeeded" => remote[r] \in EndStatuses \ {"failed"} /\ PayloadOK(r)
    /\ state[r] = "running" => raw[r] = Nil
    /\ out[r] = "ok" => state[r] = "succeeded"
    /\ out[r] = "driving" => attempts[r] <= MaxFaults

JobInv == \A r \in Reads : JobOK(r)

\* What is in the cache was answered under its key.
Genuine(entry) ==
    /\ WholeOrExcepted(entry.value)
    /\ entry.value.by = entry.key[1]
    /\ entry.value.ver >= entry.key[2]
    /\ entry.value.notes = <<>>

Kept == {entry \in Entries : Genuine(entry)}

CacheInv == entries \in Seq(Kept)

\* The trail is the part of the chain that was passed over.
TrailOK(r) ==
    /\ Len(trail[r]) = pos[r] - 1 /\ pos[r] - 1 <= Len(chain[r])
    /\ \A k \in 1..(pos[r] - 1) : trail[r][k][1] = chain[r][k]
    /\ at[r] = "exhausted" => pos[r] > Len(chain[r])

\* From its key on, a read is at a backend it may reach, and what it drives was read
\* from a file no older than that.
AttemptOK(r) ==
    /\ at[r] \in {"looking", "calling", "driving", "answered"} =>
         /\ pos[r] <= Len(chain[r])
         /\ Backend(r) \in scope[r] \ Uncredentialed
         /\ key[r] \in Keys /\ key[r][1] = Backend(r)
    /\ at[r] \in {"looking", "calling"} => key[r][2] <= file
    /\ at[r] = "driving" => vendor[r] = Backend(r) /\ key[r][2] <= version[r]

AnswerOK(r) ==
    IF at[r] = "answered"
    THEN /\ WholeOrExcepted(answer[r])
         /\ answer[r].by = Backend(r) /\ answer[r].ver >= key[r][2]
         /\ answer[r].notes = trail[r]
    ELSE answer[r] = Nil

ReadInv == \A r \in Reads : TrailOK(r) /\ AttemptOK(r) /\ AnswerOK(r)

PlanInv == PlanTypeOK /\ JobInv /\ CacheInv /\ ReadInv

-----------------------------------------------------------------------------
(* The jobs                                                                *)

\* A job that failed gives no result, and one that ended in a status its adapter does not
\* name gives one to three adapters only.
LEMMA ResultsAreTaken ==
    ASSUME NEW v \in Polled, NEW s \in {"working"} \cup EndStatuses,
           PollTable[v][s] = "result"
    PROVE  s = "done" \/ (v \in TakesUnknown /\ s \in {"cancelled", "odd"})
<1>1. s \in {"working", "done", "failed", "cancelled", "odd"}
  BY DEF EndStatuses
<1>2. CASE v \in {"chunkr", "open_ocr", "nuextract", "pulse"}
  <2>1. PollTable[v] = Reading({"failed", "cancelled"}, {"done"})
    BY <1>2 DEF PollTable, ChunkrPoll, OpenOcrPoll, NuExtractPoll, PulsePoll
  <2>2. QED  BY <1>1, <2>1 DEF Reading
<1>3. CASE v = "llamaparse"
  <2>1. PollTable[v] = Reading({"failed", "cancelled", "odd"}, {"done"})
    BY <1>3 DEF PollTable, LlamaParsePoll
  <2>2. QED  BY <1>1, <2>1 DEF Reading
<1>4. CASE v \in TakesUnknown
  <2>1. PollTable[v] = Reading({"failed"}, UnknownIsResult)
    BY <1>4 DEF PollTable, ReductoPoll, AzurePoll, TextractPoll, TakesUnknown
  <2>2. QED  BY <1>1, <1>4, <2>1 DEF Reading, UnknownIsResult
<1>5. QED  BY <1>2, <1>3, <1>4 DEF Polled, TakesUnknown

\* What is so of a job stays so while nothing of it changes.
LEMMA JobStays ==
    ASSUME NEW q \in Reads, JobOK(q), vendor'[q] = vendor[q], state'[q] = state[q],
           raw'[q] = raw[q], items'[q] = items[q], attempts'[q] = attempts[q],
           out'[q] = out[q], remote'[q] = remote[q]
    PROVE  JobOK(q)'
BY DEF JobOK, PayloadOK

\* Submitting a read gives it a job at that vendor and leaves the other reads alone.
LEMMA SubmitKeepsJobs ==
    ASSUME BackendTypeOK, JobInv, NEW r \in Reads, NEW v \in Vendors, SubmitTo(r, v)
    PROVE  /\ BackendTypeOK' /\ JobInv'
           /\ vendor'[r] = v /\ \A q \in Reads \ {r} : vendor'[q] = vendor[q]
<1> USE PlanAssumption DEF BackendAssumption
<1>1. Result \in Seq(0..MaxPages) /\ <<>> \in Seq(1..MaxPages)
  BY DEF Result
<1>2. CASE SubmitInline(r, v)
  <2>1. BackendTypeOK'
    BY <1>1, <1>2 DEF SubmitInline, JobOf, BackendTypeOK
  <2>2. JobInv'
    <3> SUFFICES ASSUME NEW q \in Reads PROVE JobOK(q)'
      BY DEF JobInv
    <3>1. CASE q = r
      BY <1>2, <3>1 DEF SubmitInline, JobOf, BackendTypeOK, JobOK, PayloadOK, EndStatuses
    <3>2. CASE q # r
      BY <1>2, <3>2, JobStays DEF SubmitInline, JobOf, BackendTypeOK, JobInv
    <3>3. QED  BY <3>1, <3>2
  <2>3. QED  BY <1>2, <2>1, <2>2 DEF SubmitInline, JobOf, BackendTypeOK
<1>3. CASE SubmitPolled(r, v)
  <2>1. BackendTypeOK'
    BY <1>1, <1>3 DEF SubmitPolled, JobOf, BackendTypeOK
  <2>2. JobInv'
    BY <1>3 DEF SubmitPolled, JobOf, BackendTypeOK, JobInv, JobOK, PayloadOK
  <2>3. QED  BY <1>3, <2>1, <2>2 DEF SubmitPolled, JobOf, BackendTypeOK
<1>4. ASSUME NEW class \in {"retryable", "terminal"}, SubmitFails(r, v, class)
      PROVE  /\ BackendTypeOK' /\ JobInv'
             /\ vendor'[r] = v /\ \A q \in Reads \ {r} : vendor'[q] = vendor[q]
  <2>1. BackendTypeOK'
    BY <1>1, <1>4 DEF SubmitFails, JobOf, Fault, BackendTypeOK
  <2>2. JobInv'
    BY <1>4 DEF SubmitFails, JobOf, BackendTypeOK, JobInv, JobOK, PayloadOK
  <2>3. QED  BY <1>4, <2>1, <2>2 DEF SubmitFails, JobOf, BackendTypeOK
<1>5. QED  BY <1>2, <1>3, <1>4 DEF SubmitTo

\* The vendor ending its job changes no read's vendor.
LEMMA RemoteKeepsJobs ==
    ASSUME BackendTypeOK, JobInv, NEW r \in Reads, RemoteEnds(r)
    PROVE  BackendTypeOK' /\ JobInv' /\ vendor' = vendor
<1> USE PlanAssumption DEF BackendAssumption
<1>1. PICK s \in EndStatuses : remote' = [remote EXCEPT ![r] = s]
  BY DEF RemoteEnds
<1>2. s \in {"done", "failed", "cancelled", "odd"}
  BY DEF EndStatuses
<1>3. BackendTypeOK'
  BY <1>1, <1>2 DEF RemoteEnds, BackendTypeOK
<1>4. JobInv'
  <2> SUFFICES ASSUME NEW q \in Reads PROVE JobOK(q)'
    BY DEF JobInv
  <2>1. CASE q = r
    BY <1>1, <1>2, <2>1 DEF RemoteEnds, BackendTypeOK, JobInv, JobOK, EndStatuses
  <2>2. CASE q # r
    BY <1>1, <2>2, JobStays DEF RemoteEnds, BackendTypeOK, JobInv
  <2>3. QED  BY <2>1, <2>2
<1>5. QED  BY <1>3, <1>4 DEF RemoteEnds

\* A poll that answers appends the page that is due.
LEMMA PagesFollow ==
    ASSUME BackendTypeOK, JobInv, NEW r \in Reads, Len(items[r]) + 1 <= MaxPages
    PROVE  /\ NextPage(r) \in Seq(1..MaxPages) /\ Len(NextPage(r)) = Len(items[r]) + 1
           /\ \A k \in DOMAIN NextPage(r) : NextPage(r)[k] = k
<1> USE PlanAssumption DEF BackendAssumption
<1>1. items[r] \in Seq(1..MaxPages) /\ \A k \in DOMAIN items[r] : items[r][k] = k
  BY DEF BackendTypeOK, JobInv, JobOK, PayloadOK
<1>2. Len(items[r]) + 1 \in 1..MaxPages
  BY <1>1
<1>3. QED  BY <1>1, <1>2 DEF NextPage

\* A fault of a poll is counted up to the bound, past which the read fails as retryable.
LEMMA FaultsKeepTypes ==
    ASSUME BackendTypeOK, JobInv, NEW r \in Reads, out[r] = "driving", Faulted(r)
    PROVE  /\ attempts' \in [Reads -> 0..(MaxFaults + 1)]
           /\ out' \in [Reads -> {"driving", "ok", "retryable", "terminal"}]
           /\ out'[r] \in {"driving", "retryable"}
           /\ out'[r] = "driving" => attempts'[r] <= MaxFaults
           /\ \A q \in Reads \ {r} : out'[q] = out[q] /\ attempts'[q] = attempts[q]
<1> USE PlanAssumption DEF BackendAssumption
<1>1. attempts[r] + 1 \in 0..(MaxFaults + 1)
  BY DEF BackendTypeOK, JobInv, JobOK, PayloadOK
<1>2. QED  BY <1>1 DEF Faulted, Leaves, BackendTypeOK

\* Each action of the driver keeps the jobs' types and their bookkeeping.
LEMMA DriveKeepsJobs ==
    ASSUME BackendTypeOK, JobInv, NEW r \in Reads, Drive(r)
    PROVE  BackendTypeOK' /\ JobInv' /\ vendor' = vendor
<1> USE PlanAssumption DEF BackendAssumption
<1>1. Polling(r) => vendor[r] \in Polled /\ remote[r] \in {"working"} \cup EndStatuses
  BY DEF Polling, JobInv, JobOK, BackendTypeOK, EndStatuses
<1>2. Result \in Seq(0..MaxPages)
  BY DEF Result
<1>3. CASE PollFails(r)
  <2>1. PICK reply \in {"busy", "other"} :
          Fault(reply) /\ IF MapError(reply) = "retryable" THEN Faulted(r)
                          ELSE Leaves(r, "terminal") /\ UNCHANGED attempts
    BY <1>3 DEF PollFails
  <2>2. CASE Faulted(r)
    <3>1. out[r] = "driving" /\ state[r] = "running"
      BY <1>3 DEF PollFails, Polling, Driven
    <3>2. BackendTypeOK'
      BY <1>3, <2>1, <2>2, <3>1, FaultsKeepTypes DEF PollFails, Fault, BackendTypeOK
    <3>3. JobInv'
      <4> SUFFICES ASSUME NEW q \in Reads PROVE JobOK(q)'
        BY DEF JobInv
      <4>1. CASE q = r
        BY <1>3, <2>2, <3>1, <4>1, FaultsKeepTypes DEF PollFails, BackendTypeOK, JobInv, JobOK
      <4>2. CASE q # r
        BY <1>3, <2>2, <3>1, <4>2, FaultsKeepTypes, JobStays
        DEF PollFails, BackendTypeOK, JobInv
      <4>3. QED  BY <4>1, <4>2
    <3>4. QED  BY <1>3, <3>2, <3>3 DEF PollFails
  <2>3. CASE Leaves(r, "terminal") /\ UNCHANGED attempts
    BY <1>3, <2>1, <2>3 DEF PollFails, Fault, Leaves, BackendTypeOK, JobInv, JobOK, PayloadOK
  <2>4. QED  BY <2>1, <2>2, <2>3
<1>4. CASE PollWaits(r)
  BY <1>4 DEF PollWaits, Healthy, BackendTypeOK, JobInv, JobOK, PayloadOK
<1>5. CASE PollTerminal(r)
  BY <1>5 DEF PollTerminal, Leaves, BackendTypeOK, JobInv, JobOK, PayloadOK
<1>6. CASE PollPage(r)
  <2>1. Len(items[r]) + 1 <= MaxPages
    BY <1>6 DEF PollPage, BackendTypeOK
  <2>2. /\ items' = [items EXCEPT ![r] = NextPage(r)]
        /\ attempts' = [attempts EXCEPT ![r] = 0]
        /\ UNCHANGED <<vendor, state, raw, out, remote, tries>>
    BY <1>6 DEF PollPage, Healthy
  <2>3. /\ NextPage(r) \in Seq(1..MaxPages)
        /\ \A k \in DOMAIN NextPage(r) : NextPage(r)[k] = k
    BY <2>1, PagesFollow, Zenon
  <2>4. BackendTypeOK'
    BY <2>2, <2>3 DEF BackendTypeOK
  <2>5. ASSUME NEW q \in Reads PROVE JobOK(q)'
    <3>1. items'[q] = (IF q = r THEN NextPage(r) ELSE items[q])
          /\ attempts'[q] = (IF q = r THEN 0 ELSE attempts[q])
      BY <2>2 DEF BackendTypeOK
    <3>2. JobOK(q)
      BY DEF JobInv
    <3>3. QED  BY <2>2, <2>3, <3>1, <3>2 DEF JobOK, PayloadOK
  <2>6. QED  BY <2>2, <2>4, <2>5 DEF JobInv
<1>7. CASE PollResult(r)
  <2>1. PICK payload \in Payloads(r) :
          state' = [state EXCEPT ![r] = "succeeded"] /\ raw' = [raw EXCEPT ![r] = payload]
    BY <1>7 DEF PollResult, Finish
  <2>2. /\ vendor[r] \in Polled /\ remote[r] \in {"done", "cancelled", "odd"}
        /\ remote[r] = "done" \/ vendor[r] \in TakesUnknown
    BY <1>1, <1>7, ResultsAreTaken DEF PollResult, Verdict
  <2> DEFINE fits ==
               /\ payload \in Seq(0..MaxPages)
               /\ \/ payload = Result
                  \/ /\ vendor[r] \in TakesUnknown /\ remote[r] # "done"
                     /\ \/ payload = Failure
                        \/ /\ payload \in Seq(1..MaxPages)
                           /\ \A k \in DOMAIN payload : payload[k] = k
  <2>3. ASSUME vendor[r] = "aws_textract" PROVE fits
    <3>1. /\ payload \in {items[r], NextPage(r)}
          /\ IF remote[r] = "done" THEN Len(payload) = MaxPages ELSE Len(payload) <= MaxPages
      BY <2>1, <2>3 DEF Payloads, TextractPages
    <3>2. payload \in Seq(1..MaxPages) /\ \A k \in DOMAIN payload : payload[k] = k
      <4>1. CASE payload = items[r]
        BY <4>1 DEF BackendTypeOK, JobInv, JobOK
      <4>2. CASE payload = NextPage(r)
        <5>1. Len(items[r]) + 1 <= MaxPages
          BY <3>1, <4>2 DEF NextPage, BackendTypeOK
        <5>2. QED  BY <4>2, <5>1, PagesFollow
      <4>3. QED  BY <3>1, <4>1, <4>2
    <3>3. payload \in Seq(0..MaxPages)
      BY <3>2
    <3>4. remote[r] = "done" => payload = Result
      BY <3>1, <3>2 DEF Result
    <3>5. QED  BY <2>2, <2>3, <3>2, <3>3, <3>4 DEF TakesUnknown
  <2>4. ASSUME vendor[r] # "aws_textract" PROVE fits
    <3>1. payload = Result \/ (payload = Failure /\ remote[r] # "done")
      BY <2>1, <2>4 DEF Payloads, Body
    <3>2. Failure \in Seq(0..MaxPages)
      BY DEF Failure
    <3>3. QED  BY <1>2, <2>2, <3>1, <3>2
  <2>5. fits
    BY <2>3, <2>4
  <2>6. BackendTypeOK'
    BY <1>7, <2>1, <2>5 DEF PollResult, BackendTypeOK
  <2>7. ASSUME NEW q \in Reads PROVE JobOK(q)'
    <3>1. JobOK(q) /\ JobOK(r)
      BY DEF JobInv
    <3>2. /\ state'[q] = (IF q = r THEN "succeeded" ELSE state[q])
          /\ raw'[q] = (IF q = r THEN payload ELSE raw[q])
          /\ UNCHANGED <<vendor, items, attempts, out, remote>>
      BY <1>7, <2>1 DEF PollResult, BackendTypeOK
    <3>3. CASE q = r
      <4>1. out[r] = "driving"
        BY <1>7 DEF PollResult, Polling, Driven
      <4>2. PayloadOK(r)'
        BY <2>5, <3>2, <3>3 DEF PayloadOK
      <4>3. QED  BY <2>2, <3>1, <3>2, <3>3, <4>1, <4>2 DEF JobOK, EndStatuses
    <3>4. CASE q # r
      BY <3>1, <3>2, <3>4 DEF JobOK, PayloadOK
    <3>5. QED  BY <3>3, <3>4
  <2>8. QED  BY <1>7, <2>6, <2>7 DEF PollResult, JobInv
<1>8. CASE FetchFails(r)
  <2>1. PICK reply \in {"busy", "other"} :
          Fault(reply) /\ IF MapError(reply) = "retryable" THEN Faulted(r)
                          ELSE Leaves(r, "terminal") /\ UNCHANGED attempts
    BY <1>8 DEF FetchFails
  <2>2. raw[r] = Nil /\ state[r] = "running" /\ out[r] = "driving"
    BY <1>8 DEF FetchFails, Polling, Driven, JobInv, JobOK
  <2>3. state' \in [Reads -> {"none", "running", "succeeded", "cancelled"}]
    BY <1>8 DEF FetchFails, BackendTypeOK
  <2>7. vendor[r] = "pulse" => remote[r] = "done"
    <3>1. vendor[r] \in {"nuextract", "pulse"} /\ vendor[r] \notin TakesUnknown
      BY <1>8 DEF FetchFails, TakesUnknown
    <3>2. QED  BY <1>1, <1>8, <3>1, ResultsAreTaken DEF FetchFails, Verdict
  <2>4. CASE Faulted(r)
    <3>1. BackendTypeOK'
      BY <1>8, <2>1, <2>2, <2>3, <2>4, FaultsKeepTypes DEF FetchFails, Fault, BackendTypeOK
    <3>2. JobInv'
      <4> SUFFICES ASSUME NEW q \in Reads PROVE JobOK(q)'
        BY DEF JobInv
      <4>1. CASE q = r
        BY <1>1, <1>8, <2>2, <2>7, <2>4, <4>1, FaultsKeepTypes
        DEF FetchFails, BackendTypeOK, JobInv, JobOK, PayloadOK, EndStatuses
      <4>2. CASE q # r
        BY <1>8, <2>2, <2>4, <4>2, JobStays, FaultsKeepTypes DEF FetchFails, BackendTypeOK, JobInv
      <4>3. QED  BY <4>1, <4>2
    <3>3. QED  BY <1>8, <3>1, <3>2 DEF FetchFails
  <2>5. CASE Leaves(r, "terminal") /\ UNCHANGED attempts
    <3>1. BackendTypeOK'
      BY <1>8, <2>1, <2>3, <2>5 DEF FetchFails, Fault, Leaves, BackendTypeOK
    <3>2. JobInv'
      <4> SUFFICES ASSUME NEW q \in Reads PROVE JobOK(q)'
        BY DEF JobInv
      <4>1. CASE q = r
        BY <1>1, <1>8, <2>2, <2>7, <2>5, <4>1
        DEF FetchFails, Leaves, BackendTypeOK, JobInv, JobOK, PayloadOK, EndStatuses
      <4>2. CASE q # r
        BY <1>8, <2>2, <2>5, <4>2, JobStays DEF FetchFails, Leaves, BackendTypeOK, JobInv
      <4>3. QED  BY <4>1, <4>2
    <3>3. QED  BY <1>8, <3>1, <3>2 DEF FetchFails
  <2>6. QED  BY <2>1, <2>4, <2>5
<1>9. CASE DriveEnds(r)
  BY <1>9 DEF DriveEnds, Driven, Leaves, BackendTypeOK, JobInv, JobOK, PayloadOK
<1>10. CASE DriveExpires(r)
  BY <1>10 DEF DriveExpires, Leaves, BackendTypeOK, JobInv, JobOK, PayloadOK
<1>11. QED
  BY <1>3, <1>4, <1>5, <1>6, <1>7, <1>8, <1>9, <1>10 DEF Drive

-----------------------------------------------------------------------------
(* The cache                                                               *)

\* Taking one element out of a sequence leaves a sequence shorter by one.
LEMMA OneIsRemoved ==
    ASSUME NEW S, NEW s \in Seq(S), NEW n \in DOMAIN s
    PROVE  /\ SubSeq(s, 1, n - 1) \o SubSeq(s, n + 1, Len(s)) \in Seq(S)
           /\ Len(SubSeq(s, 1, n - 1) \o SubSeq(s, n + 1, Len(s))) = Len(s) - 1
<1> DEFINE before == SubSeq(s, 1, n - 1)
           after == SubSeq(s, n + 1, Len(s))
<1>1. n \in 1..Len(s) /\ Len(s) \in Nat
  OBVIOUS
<1>2. before \in Seq(S) /\ Len(before) = n - 1
  BY <1>1
<1>3. after \in Seq(S) /\ Len(after) = Len(s) - n
  BY <1>1
<1> HIDE DEF before, after
<1>4. before \o after \in Seq(S) /\ Len(before \o after) = Len(before) + Len(after)
  BY <1>2, <1>3, ConcatProperties, Zenon
<1>5. before \o after \in Seq(S) /\ Len(before \o after) = Len(s) - 1
  BY <1>1, <1>2, <1>3, <1>4
<1>6. QED  BY <1>5 DEF before, after

\* What the cache keeps are entries.
LEMMA KeptAreEntries == Seq(Kept) \subseteq Seq(Entries)
BY DEF Kept

\* Storing evicts the oldest when the cache is full, so it stays within its bound.
LEMMA StoreKeepsCache ==
    ASSUME PlanTypeOK, CacheInv, NEW k \in Keys, NEW value \in Responses, Store(k, value),
           Genuine([key |-> k, value |-> value, fresh |-> TRUE])
    PROVE  entries' \in Seq(Kept) /\ Len(entries') <= MaxEntries
<1> DEFINE entry == [key |-> k, value |-> value, fresh |-> TRUE]
<1>1. entry \in Kept
  BY DEF Kept, Entries
<1>2. /\ entries \in Seq(Kept) /\ Len(entries) <= MaxEntries /\ MaxEntries \in Nat \ {0}
  BY PlanAssumption DEF CacheInv, PlanTypeOK
<1> HIDE DEF entry
<1>3. CASE entries' = Bounded(Append(entries, entry))
  <2>1. Append(entries, entry) \in Seq(Kept) /\ Len(Append(entries, entry)) = Len(entries) + 1
    BY <1>1, <1>2
  <2>2. Tail(Append(entries, entry)) \in Seq(Kept)
        /\ Len(Tail(Append(entries, entry))) = Len(entries)
    BY <2>1
  <2>3. QED  BY <1>2, <1>3, <2>1, <2>2 DEF Bounded
<1>4. ASSUME NEW n \in Having(k), entries' = Append(Without(n), entry)
      PROVE  entries' \in Seq(Kept) /\ Len(entries') <= MaxEntries
  <2>1. Without(n) \in Seq(Kept) /\ Len(Without(n)) = Len(entries) - 1
    BY <1>2, OneIsRemoved DEF Without, Having
  <2>2. QED  BY <1>1, <1>2, <1>4, <2>1
<1>5. QED  BY <1>3, <1>4 DEF Store, entry

\* A hit moves its entry to the young end, and drops an expired one.
LEMMA GotKeepsCache ==
    ASSUME PlanTypeOK, CacheInv, NEW n \in DOMAIN entries, Got(n)
    PROVE  entries' \in Seq(Kept) /\ Len(entries') <= MaxEntries
<1>1. entries \in Seq(Kept) /\ Len(entries) <= MaxEntries /\ MaxEntries \in Nat
  BY PlanAssumption DEF CacheInv, PlanTypeOK
<1>2. Without(n) \in Seq(Kept) /\ Len(Without(n)) = Len(entries) - 1
  BY <1>1, OneIsRemoved DEF Without
<1>3. entries[n] \in Kept
  BY <1>1
<1>4. QED  BY <1>1, <1>2, <1>3 DEF Got

-----------------------------------------------------------------------------
(* The steps of a plan                                                     *)

\* A read that does not move is still all right when the others do, and when the file is
\* edited.
LEMMA OthersStand ==
    ASSUME PlanTypeOK, ReadInv, NEW q \in Reads, chain' = chain, scope' = scope,
           pos'[q] = pos[q], at'[q] = at[q], trail'[q] = trail[q], key'[q] = key[q],
           version'[q] = version[q], answer'[q] = answer[q], vendor'[q] = vendor[q],
           file' \in Nat, file <= file'
    PROVE  (TrailOK(q) /\ AttemptOK(q) /\ AnswerOK(q))'
<1>1. TrailOK(q) /\ AttemptOK(q) /\ AnswerOK(q)
  BY DEF ReadInv
<1>2. Backend(q)' = Backend(q)
  BY DEF Backend
<1>3. TrailOK(q)'
  BY <1>1 DEF TrailOK
<1>4. AttemptOK(q)'
  <2>1. key[q] \in Keys => key[q][2] \in Nat
    BY PlanAssumption DEF Keys
  <2>2. file \in Nat
    BY PlanAssumption DEF PlanTypeOK
  <2>3. QED  BY <1>1, <1>2, <2>1, <2>2 DEF AttemptOK
<1>5. AnswerOK(q)'
  BY <1>1, <1>2 DEF AnswerOK, WholeOrExcepted
<1>6. QED  BY <1>3, <1>4, <1>5

\* A backend that was passed over is the next of the trail.
LEMMA AdvanceKeeps ==
    ASSUME PlanTypeOK, ReadInv, NEW r \in Reads, NEW category \in {"skipped", "retryable", "terminal"},
           pos[r] <= Len(chain[r]), at[r] \in {"next", "driving"},
           Advances(r, category), UNCHANGED <<chain, scope, answer>>
    PROVE  /\ trail' \in [Reads -> Trails] /\ pos' \in [Reads -> Nat \ {0}]
           /\ at' = [at EXCEPT ![r] = "next"]
           /\ (TrailOK(r) /\ AttemptOK(r) /\ AnswerOK(r))'
           /\ \A q \in Reads \ {r} : pos'[q] = pos[q] /\ at'[q] = at[q] /\ trail'[q] = trail[q]
<1>1. chain[r] \in Seq(Vendors) /\ pos[r] \in Nat \ {0} /\ trail[r] \in Trails
  BY PlanAssumption DEF PlanTypeOK
<1>2. Backend(r) \in Vendors
  BY <1>1 DEF Backend
<1>3. TrailOK(r) /\ AnswerOK(r)
  BY DEF ReadInv
<1>4. /\ trail' = [trail EXCEPT ![r] = Append(trail[r], <<Backend(r), category>>)]
      /\ pos' = [pos EXCEPT ![r] = pos[r] + 1]
      /\ at' = [at EXCEPT ![r] = "next"]
  BY DEF Advances, Recorded, Goes
<1>5. <<Backend(r), category>> \in Vendors \X {"skipped", "retryable", "terminal"}
  BY <1>2
<1>6. /\ Append(trail[r], <<Backend(r), category>>) \in Trails
      /\ Len(trail'[r]) = pos[r] /\ pos'[r] = pos[r] + 1 /\ at'[r] = "next"
      /\ \A k \in 1..(pos[r] - 1) : trail'[r][k] = trail[r][k]
      /\ trail'[r][pos[r]] = <<Backend(r), category>>
  BY <1>1, <1>3, <1>4, <1>5 DEF Trails, TrailOK, PlanTypeOK
<1>7. TrailOK(r)'
  <2>1. \A k \in 1..pos[r] : trail'[r][k][1] = chain[r][k]
    <3> SUFFICES ASSUME NEW k \in 1..pos[r]
                 PROVE  trail'[r][k][1] = chain[r][k]
      OBVIOUS
    <3>1. CASE k = pos[r]
      BY <1>6, <3>1 DEF Backend
    <3>2. CASE k \in 1..(pos[r] - 1)
      BY <1>3, <1>6, <3>2 DEF TrailOK
    <3>3. QED  BY <1>1, <3>1, <3>2
  <2>2. QED  BY <1>1, <1>6, <2>1 DEF TrailOK
<1>8. AttemptOK(r)' /\ AnswerOK(r)'
  BY <1>3, <1>6 DEF AttemptOK, AnswerOK
<1>9. QED  BY <1>1, <1>4, <1>6, <1>7, <1>8 DEF PlanTypeOK

\* Steps that leave the jobs alone.
LEMMA JobsStand ==
    ASSUME BackendTypeOK, JobInv, UNCHANGED jobVars
    PROVE  BackendTypeOK' /\ JobInv' /\ vendor' = vendor
BY DEF BackendTypeOK, JobInv, JobOK, PayloadOK, jobVars

\* Reads that have not begun, over an empty cache, satisfy the invariant.
LEMMA PlanInitEstablishes == PlanInit => PlanInv
<1> SUFFICES ASSUME PlanInit PROVE PlanInv
  OBVIOUS
<1> USE PlanAssumption DEF BackendAssumption
<1>1. BackendTypeOK /\ JobInv
  BY DEF PlanInit, BackendInit, BackendTypeOK, JobInv, JobOK, PayloadOK
<1>2. PlanTypeOK
  BY <1>1 DEF PlanInit, PlanTypeOK, Trails
<1>3. CacheInv
  BY DEF PlanInit, CacheInv
<1>4. ReadInv
  <2> SUFFICES ASSUME NEW r \in Reads
               PROVE  TrailOK(r) /\ AttemptOK(r) /\ AnswerOK(r)
    BY DEF ReadInv
  <2>1. chain[r] \in Seq(Vendors)
    BY DEF PlanInit
  <2>2. pos[r] = 1 /\ at[r] = "next" /\ trail[r] = <<>> /\ answer[r] = Nil
    BY DEF PlanInit
  <2>3. QED  BY <2>1, <2>2 DEF TrailOK, AttemptOK, AnswerOK
<1>5. QED  BY <1>1, <1>2, <1>3, <1>4 DEF PlanInv

\* Choosing the backend of a read keeps the invariant.
LEMMA ConsiderKeeps ==
    ASSUME PlanInv, NEW r \in Reads, Consider(r)
    PROVE  PlanInv'
<1> USE PlanAssumption DEF BackendAssumption
<1> USE DEF PlanInv
<1>1. chain[r] \in Seq(Vendors) /\ pos[r] \in 1..Len(chain[r]) /\ file \in 0..MaxEdits
  BY DEF Consider, PlanTypeOK
<1>2. Backend(r) \in Vendors
  BY <1>1 DEF Backend
<1>3. BackendTypeOK' /\ JobInv' /\ vendor' = vendor
  BY JobsStand DEF Consider, PlanTypeOK
<1>4. CacheInv'
  BY DEF Consider, CacheInv
<1>5. TrailOK(r) /\ AttemptOK(r) /\ AnswerOK(r) /\ at[r] = "next"
  BY DEF ReadInv, Consider
<1>6. CASE ~InScope(r)
  <2>1. at' = [at EXCEPT ![r] = "refused"] /\ UNCHANGED <<pos, trail, key>>
    BY <1>6 DEF Consider, Goes
  <2>2. PlanTypeOK'
    BY <1>3, <2>1 DEF Consider, PlanTypeOK
  <2>3. ReadInv'
    <3> SUFFICES ASSUME NEW q \in Reads
                 PROVE  (TrailOK(q) /\ AttemptOK(q) /\ AnswerOK(q))'
      BY DEF ReadInv
    <3>1. CASE q = r
      BY <1>5, <2>1, <3>1 DEF Consider, PlanTypeOK, TrailOK, AttemptOK, AnswerOK
    <3>2. CASE q # r
      <4>1. /\ UNCHANGED <<chain, scope, pos, trail, key, version, answer>>
            /\ file' \in Nat /\ file <= file'
        BY <1>1, <2>1 DEF Consider
      <4>2. at'[q] = at[q]
        BY <2>1, <3>2 DEF PlanTypeOK
      <4>3. QED  BY <1>3, <4>1, <4>2, OthersStand
    <3>3. QED  BY <3>1, <3>2
  <2>4. QED  BY <1>3, <1>4, <2>2, <2>3
<1>7. CASE InScope(r) /\ Backend(r) \in Uncredentialed
  <2>1. Advances(r, "skipped") /\ UNCHANGED key
    BY <1>7 DEF Consider
  <2>2. /\ trail' \in [Reads -> Trails] /\ pos' \in [Reads -> Nat \ {0}]
        /\ at' = [at EXCEPT ![r] = "next"]
        /\ (TrailOK(r) /\ AttemptOK(r) /\ AnswerOK(r))'
        /\ \A q \in Reads \ {r} : pos'[q] = pos[q] /\ at'[q] = at[q] /\ trail'[q] = trail[q]
    BY <1>1, <1>5, <2>1, AdvanceKeeps DEF Consider
  <2>3. PlanTypeOK'
    BY <1>3, <2>1, <2>2 DEF Consider, PlanTypeOK
  <2>4. ReadInv'
    <3> SUFFICES ASSUME NEW q \in Reads \ {r}
                 PROVE  (TrailOK(q) /\ AttemptOK(q) /\ AnswerOK(q))'
      BY <2>2 DEF ReadInv
    <3>1. QED  BY <1>1, <1>3, <2>1, <2>2, OthersStand DEF Consider
  <2>5. QED  BY <1>3, <1>4, <2>3, <2>4
<1>8. CASE InScope(r) /\ Backend(r) \notin Uncredentialed
  <2>1. /\ key' = [key EXCEPT ![r] = <<Backend(r), file>>]
        /\ at' = [at EXCEPT ![r] = "looking"] /\ UNCHANGED <<pos, trail>>
    BY <1>8 DEF Consider, Goes
  <2>2. <<Backend(r), file>> \in Keys
    BY <1>1, <1>2 DEF Keys
  <2>3. PlanTypeOK'
    BY <1>3, <2>1, <2>2 DEF Consider, PlanTypeOK
  <2>4. key'[r] = <<Backend(r), file>> /\ at'[r] = "looking" /\ Backend(r)' = Backend(r)
    BY <2>1 DEF PlanTypeOK, Backend, Consider
  <2>5. ReadInv'
    <3> SUFFICES ASSUME NEW q \in Reads
                 PROVE  (TrailOK(q) /\ AttemptOK(q) /\ AnswerOK(q))'
      BY DEF ReadInv
    <3>1. CASE q = r
      <4>1. TrailOK(r)' /\ AnswerOK(r)'
        BY <1>5, <2>1, <2>4 DEF Consider, TrailOK, AnswerOK
      <4>2. AttemptOK(r)'
        <5>1. pos' = pos /\ chain' = chain /\ scope' = scope /\ file' = file
              /\ pos[r] <= Len(chain[r])
          BY <2>1 DEF Consider
        <5>2. Backend(r) \in scope[r] \ Uncredentialed
          BY <1>8 DEF InScope
        <5>3. key'[r][1] = Backend(r) /\ key'[r][2] = file /\ key'[r] \in Keys
          BY <2>2, <2>4
        <5>4. key'[r][2] <= file'
          BY <1>1, <5>1, <5>3
        <5>5. QED  BY <2>4, <5>1, <5>2, <5>3, <5>4 DEF AttemptOK
      <4>3. QED  BY <3>1, <4>1, <4>2
    <3>2. CASE q # r
      <4>1. /\ UNCHANGED <<chain, scope, pos, trail, version, answer>>
            /\ file' \in Nat /\ file <= file'
        BY <1>1, <2>1 DEF Consider
      <4>2. at'[q] = at[q] /\ key'[q] = key[q]
        BY <2>1, <3>2 DEF PlanTypeOK
      <4>3. QED  BY <1>3, <4>1, <4>2, OthersStand
    <3>3. QED  BY <3>1, <3>2
  <2>6. QED  BY <1>3, <1>4, <2>3, <2>5
<1>9. QED  BY <1>6, <1>7, <1>8

\* What is told of an answer is the trail of the read that gives it.
LEMMA AnswerStands ==
    ASSUME PlanTypeOK, ReadInv, NEW r \in Reads, NEW response \in Responses,
           at[r] \in {"looking", "driving"}, WholeOrExcepted(response),
           response.by = Backend(r), response.ver >= key[r][2], response.notes = <<>>,
           Answers(r, response), UNCHANGED <<chain, scope, pos, trail, key>>
    PROVE  /\ answer' \in [Reads -> {Nil} \cup Responses]
           /\ at' = [at EXCEPT ![r] = "answered"]
           /\ (TrailOK(r) /\ AttemptOK(r) /\ AnswerOK(r))'
           /\ \A q \in Reads \ {r} : at'[q] = at[q] /\ answer'[q] = answer[q]
<1> DEFINE given == [response EXCEPT !.notes = response.notes \o trail[r]]
<1>1. trail[r] \in Trails /\ response.notes \o trail[r] = trail[r]
  BY DEF PlanTypeOK, Trails
<1>2. given \in Responses /\ given.pages = response.pages /\ given.by = response.by
      /\ given.ver = response.ver /\ given.notes = trail[r] /\ given.ended = response.ended
  BY <1>1 DEF Responses
<1>3. answer' = [answer EXCEPT ![r] = given] /\ at' = [at EXCEPT ![r] = "answered"]
  BY DEF Answers, Goes
<1> HIDE DEF given
<1>4. answer'[r] = given /\ at'[r] = "answered" /\ Backend(r)' = Backend(r)
  BY <1>3 DEF PlanTypeOK, Backend
<1>5. TrailOK(r) /\ AttemptOK(r)
  BY DEF ReadInv
<1>6. TrailOK(r)' /\ AttemptOK(r)'
  BY <1>4, <1>5 DEF TrailOK, AttemptOK
<1>7. AnswerOK(r)'
  BY <1>2, <1>4 DEF AnswerOK, WholeOrExcepted
<1>8. QED  BY <1>2, <1>3, <1>6, <1>7 DEF PlanTypeOK

\* Looking a read up in the cache keeps the invariant.
LEMMA LookKeeps ==
    ASSUME PlanInv, NEW r \in Reads, Look(r)
    PROVE  PlanInv'
<1> USE PlanAssumption DEF BackendAssumption
<1> USE DEF PlanInv
<1>1. BackendTypeOK' /\ JobInv' /\ vendor' = vendor
  BY JobsStand DEF Look, PlanTypeOK
<1>2. TrailOK(r) /\ AttemptOK(r) /\ AnswerOK(r) /\ at[r] = "looking"
  BY DEF ReadInv, Look
<1>3. entries' \in Seq(Kept) /\ entries' \in Seq(Entries) /\ Len(entries') <= MaxEntries
  <2>1. ASSUME NEW n \in Having(key[r]), Got(n)
        PROVE  entries' \in Seq(Kept) /\ Len(entries') <= MaxEntries
    BY <2>1, GotKeepsCache DEF Having
  <2>2. CASE UNCHANGED entries
    BY <2>2 DEF CacheInv, PlanTypeOK
  <2>3. QED  BY <2>1, <2>2, KeptAreEntries DEF Look
<1>4. CASE at' = [at EXCEPT ![r] = "calling"] /\ UNCHANGED answer
  <2>1. PlanTypeOK'
    BY <1>1, <1>3, <1>4 DEF Look, PlanTypeOK
  <2>2. ReadInv'
    <3> SUFFICES ASSUME NEW q \in Reads
                 PROVE  (TrailOK(q) /\ AttemptOK(q) /\ AnswerOK(q))'
      BY DEF ReadInv
    <3>1. CASE q = r
      BY <1>2, <1>4, <3>1
      DEF Look, PlanTypeOK, TrailOK, AttemptOK, AnswerOK, Backend
    <3>2. CASE q # r
      <4>1. /\ UNCHANGED <<chain, scope, pos, trail, key, version, answer>>
            /\ file' = file /\ vendor' = vendor
        BY <1>1, <1>4 DEF Look
      <4>2. file' \in Nat /\ file <= file'
        BY <4>1 DEF PlanTypeOK
      <4>3. at'[q] = at[q]
        BY <1>4, <3>2 DEF PlanTypeOK
      <4>4. QED  BY <4>1, <4>2, <4>3, OthersStand
    <3>3. QED  BY <3>1, <3>2
  <2>3. QED  BY <1>1, <1>3, <2>1, <2>2 DEF CacheInv
<1>5. ASSUME NEW n \in Hits(key[r]),
             Answers(r, [entries[n].value EXCEPT !.replayed = TRUE])
      PROVE  PlanInv'
  <2> DEFINE response == [entries[n].value EXCEPT !.replayed = TRUE]
  <2>1. n \in DOMAIN entries /\ entries[n].key = key[r] /\ entries[n] \in Kept
    BY DEF Hits, Having, CacheInv
  <2>2. /\ response \in Responses /\ WholeOrExcepted(response)
        /\ response.by = entries[n].key[1] /\ response.ver >= entries[n].key[2]
        /\ response.notes = <<>>
    BY <2>1 DEF Kept, Entries, Responses, Genuine, WholeOrExcepted
  <2>3. response.by = Backend(r) /\ response.ver >= key[r][2]
    BY <1>2, <2>1, <2>2 DEF AttemptOK
  <2> HIDE DEF response
  <2>4. Answers(r, response)
    BY <1>5 DEF response
  <2>5. /\ answer' \in [Reads -> {Nil} \cup Responses]
        /\ at' = [at EXCEPT ![r] = "answered"]
        /\ (TrailOK(r) /\ AttemptOK(r) /\ AnswerOK(r))'
        /\ \A q \in Reads \ {r} : at'[q] = at[q] /\ answer'[q] = answer[q]
    BY <1>2, <2>2, <2>3, <2>4, AnswerStands DEF Look
  <2>6. PlanTypeOK'
    BY <1>1, <1>3, <2>5 DEF Look, PlanTypeOK
  <2>7. ReadInv'
    <3> SUFFICES ASSUME NEW q \in Reads \ {r}
                 PROVE  (TrailOK(q) /\ AttemptOK(q) /\ AnswerOK(q))'
      BY <2>5 DEF ReadInv
    <3>1. /\ UNCHANGED <<chain, scope, pos, trail, key, version>>
          /\ file' = file /\ vendor' = vendor
      BY <1>1 DEF Look
    <3>2. file' \in Nat /\ file <= file'
      BY <3>1 DEF PlanTypeOK
    <3>3. QED  BY <2>5, <3>1, <3>2, OthersStand
  <2>8. QED  BY <1>1, <1>3, <2>6, <2>7 DEF CacheInv
<1>6. QED  BY <1>4, <1>5 DEF Look, Goes

\* Calling a backend, and keeping its answer, keeps the invariant.
LEMMA CallKeeps ==
    ASSUME PlanInv, NEW r \in Reads, Call(r)
    PROVE  PlanInv'
<1> USE PlanAssumption DEF BackendAssumption
<1> USE DEF PlanInv
<1>1. TrailOK(r) /\ AttemptOK(r) /\ AnswerOK(r) /\ at[r] = "calling"
  BY DEF ReadInv, Call
<1>2. Backend(r) \in Vendors
  BY <1>1 DEF AttemptOK, Keys
<1>3. /\ BackendTypeOK' /\ JobInv'
      /\ vendor'[r] = Backend(r) /\ \A q \in Reads \ {r} : vendor'[q] = vendor[q]
  BY <1>2, SubmitKeepsJobs DEF Call, PlanTypeOK
<1>4. version' = [version EXCEPT ![r] = file] /\ at' = [at EXCEPT ![r] = "driving"]
  BY DEF Call, Goes
<1>5. PlanTypeOK' /\ CacheInv'
  BY <1>3, <1>4 DEF Call, PlanTypeOK, CacheInv
<1>6. ReadInv'
  <2> SUFFICES ASSUME NEW q \in Reads
               PROVE  (TrailOK(q) /\ AttemptOK(q) /\ AnswerOK(q))'
    BY DEF ReadInv
  <2>1. CASE q = r
    <3>1. version'[r] = file /\ at'[r] = "driving" /\ Backend(r)' = Backend(r)
      BY <1>4 DEF Call, PlanTypeOK, Backend
    <3>2. QED
      BY <1>1, <1>3, <2>1, <3>1 DEF Call, PlanTypeOK, TrailOK, AttemptOK, AnswerOK
  <2>2. CASE q # r
    <3>1. /\ UNCHANGED <<chain, scope, pos, trail, key, answer>> /\ file' = file
      BY DEF Call
    <3>2. file' \in Nat /\ file <= file'
      BY <3>1 DEF PlanTypeOK
    <3>3. at'[q] = at[q] /\ version'[q] = version[q] /\ vendor'[q] = vendor[q]
      BY <1>3, <1>4, <2>2 DEF PlanTypeOK
    <3>4. QED  BY <3>1, <3>2, <3>3, OthersStand
  <2>3. QED  BY <2>1, <2>2
<1>7. QED  BY <1>3, <1>5, <1>6

\* While jobs move, the reads stay where they are.
LEMMA JobsMove ==
    ASSUME PlanInv, BackendTypeOK', JobInv', vendor' = vendor,
           UNCHANGED <<planVars, file, entries>>
    PROVE  PlanInv'
<1> USE DEF PlanInv
<1>1. PlanTypeOK' /\ CacheInv'
  BY DEF planVars, PlanTypeOK, CacheInv
<1>2. file' \in Nat /\ file <= file'
  BY PlanAssumption DEF PlanTypeOK
<1>3. ReadInv'
  BY <1>2, OthersStand DEF planVars, ReadInv
<1>4. QED  BY <1>1, <1>3

\* Going on to the next backend of the plan keeps the invariant, whether the job of this
\* one failed or what it gave could not be normalized.
LEMMA FallbackKeeps ==
    ASSUME PlanInv, NEW r \in Reads, Fallback(r) \/ NormalizeFails(r)
    PROVE  PlanInv'
<1> USE DEF PlanInv
<1>1. BackendTypeOK' /\ JobInv' /\ vendor' = vendor
  <2>1. CASE Fallback(r)
    BY <2>1, JobsStand DEF Fallback, PlanTypeOK
  <2>2. CASE NormalizeFails(r)
    <3>1. /\ UNCHANGED <<vendor, state, raw, items, attempts, out, remote>>
          /\ tries' \in 0..MaxTries
      BY <2>2, PlanAssumption
      DEF NormalizeFails, Fault, BackendAssumption, PlanTypeOK, BackendTypeOK
    <3>2. QED  BY <3>1, JobStays DEF PlanTypeOK, BackendTypeOK, JobInv
  <2>3. QED  BY <2>1, <2>2
<1>2. AttemptOK(r) /\ at[r] = "driving"
  BY DEF ReadInv, Fallback, NormalizeFails
<1>3. PICK category \in {"retryable", "terminal"} :
        Advances(r, category) /\ UNCHANGED <<chain, scope, key, version, answer, file, entries>>
  BY DEF Fallback, NormalizeFails
<1>4. /\ trail' \in [Reads -> Trails] /\ pos' \in [Reads -> Nat \ {0}]
      /\ at' = [at EXCEPT ![r] = "next"]
      /\ (TrailOK(r) /\ AttemptOK(r) /\ AnswerOK(r))'
      /\ \A q \in Reads \ {r} : pos'[q] = pos[q] /\ at'[q] = at[q] /\ trail'[q] = trail[q]
  BY <1>2, <1>3, AdvanceKeeps DEF AttemptOK
<1>5. PlanTypeOK' /\ CacheInv'
  BY <1>1, <1>3, <1>4 DEF PlanTypeOK, CacheInv
<1>6. file' \in Nat /\ file <= file'
  BY <1>3, PlanAssumption DEF PlanTypeOK
<1>7. ReadInv'
  <2> SUFFICES ASSUME NEW q \in Reads \ {r}
               PROVE  (TrailOK(q) /\ AttemptOK(q) /\ AnswerOK(q))'
    BY <1>4 DEF ReadInv
  <2>1. QED  BY <1>1, <1>3, <1>4, <1>6, OthersStand
<1>8. QED  BY <1>1, <1>5, <1>7

\* Returning a read's answer keeps the invariant.
LEMMA ReturnsKeeps ==
    ASSUME PlanInv, NEW r \in Reads, Returns(r)
    PROVE  PlanInv'
<1> USE PlanAssumption DEF BackendAssumption
<1> USE DEF PlanInv
<1> DEFINE pages == Pages(r)
           ended == remote[r]
           response == Response(pages, Backend(r), version[r], ended, <<>>, FALSE)
<1>1. BackendTypeOK' /\ JobInv' /\ vendor' = vendor
  BY JobsStand DEF Returns, PlanTypeOK
<1>2. AttemptOK(r) /\ at[r] = "driving" /\ out[r] = "ok" /\ JobOK(r)
  BY DEF ReadInv, JobInv, Returns
<1>3. /\ key[r] \in Keys /\ key[r][1] = Backend(r) /\ Backend(r) \in Vendors
      /\ vendor[r] = Backend(r) /\ version[r] \in 0..MaxEdits /\ version[r] >= key[r][2]
  BY <1>2 DEF AttemptOK, Keys, PlanTypeOK
<1>13. Result \in Seq(1..MaxPages) /\ Result # Failure /\ Result # Nil
  <2>1. Result \in Seq(1..MaxPages) /\ \A k \in DOMAIN Result : Result[k] = k
    BY DEF Result
  <2>2. DOMAIN Failure = {1} /\ Failure[1] = 0
    BY DEF Failure
  <2>3. QED  BY <2>1, <2>2
<1>4. /\ pages \in Seq(1..MaxPages) /\ ended \in EndStatuses \ {"failed"}
      /\ \/ pages = Result
         \/ pages = <<>> /\ Backend(r) = "pulse"
         \/ /\ Backend(r) \in TakesUnknown /\ ended # "done"
            /\ \A k \in DOMAIN pages : pages[k] = k
  <2>1. ended \in EndStatuses \ {"failed"} /\ PayloadOK(r)
    BY <1>2 DEF JobOK
  <2>2. pages = IF raw[r] = Nil \/ raw[r] = Failure THEN <<>> ELSE raw[r]
    BY DEF Pages
  <2>3. <<>> \in Seq(1..MaxPages) /\ DOMAIN <<>> = {}
    OBVIOUS
  <2>4. ended = remote[r]
    OBVIOUS
  <2> HIDE DEF pages, ended
  <2>5. CASE raw[r] = Result
    BY <1>13, <2>1, <2>2, <2>5
  <2>6. CASE raw[r] = Nil /\ vendor[r] = "pulse"
    BY <1>3, <2>1, <2>2, <2>3, <2>6
  <2>7. CASE /\ vendor[r] \in TakesUnknown /\ remote[r] # "done"
             /\ \/ raw[r] = Failure
                \/ raw[r] \in Seq(1..MaxPages) /\ \A k \in DOMAIN raw[r] : raw[r][k] = k
    <3>1. pages = <<>> \/ (pages = raw[r] /\ raw[r] # Failure)
      BY <2>2
    <3>2. pages \in Seq(1..MaxPages) /\ \A k \in DOMAIN pages : pages[k] = k
      <4>1. CASE pages = <<>>
        BY <2>3, <4>1
      <4>2. CASE pages = raw[r] /\ raw[r] # Failure
        BY <2>7, <4>2
      <4>3. QED  BY <3>1, <4>1, <4>2
    <3>3. QED  BY <1>3, <2>1, <2>4, <2>7, <3>2
  <2>8. QED  BY <2>1, <2>5, <2>6, <2>7 DEF PayloadOK
<1> HIDE DEF pages, ended
<1>5. /\ response \in Responses /\ WholeOrExcepted(response) /\ response.by = Backend(r)
      /\ response.ver = version[r] /\ response.notes = <<>>
  BY <1>3, <1>4 DEF Response, Responses, WholeOrExcepted, Trails
<1>6. Store(key[r], response) /\ Answers(r, response)
  BY DEF Returns, KeyedBefore, pages, ended
<1> HIDE DEF response
<1>7. Genuine([key |-> key[r], value |-> response, fresh |-> TRUE])
  BY <1>3, <1>5 DEF Genuine
<1>8. entries' \in Seq(Kept) /\ entries' \in Seq(Entries) /\ Len(entries') <= MaxEntries
  BY <1>3, <1>5, <1>6, <1>7, StoreKeepsCache, KeptAreEntries
<1>9. /\ answer' \in [Reads -> {Nil} \cup Responses]
      /\ at' = [at EXCEPT ![r] = "answered"]
      /\ (TrailOK(r) /\ AttemptOK(r) /\ AnswerOK(r))'
      /\ \A q \in Reads \ {r} : at'[q] = at[q] /\ answer'[q] = answer[q]
  BY <1>2, <1>3, <1>5, <1>6, AnswerStands DEF Returns
<1>10. PlanTypeOK' /\ CacheInv'
  BY <1>1, <1>8, <1>9 DEF Returns, PlanTypeOK, CacheInv
<1>11. ReadInv'
  <2> SUFFICES ASSUME NEW q \in Reads \ {r}
               PROVE  (TrailOK(q) /\ AttemptOK(q) /\ AnswerOK(q))'
    BY <1>9 DEF ReadInv
  <2>1. /\ UNCHANGED <<chain, scope, pos, trail, key, version>>
        /\ file' = file /\ vendor' = vendor
    BY <1>1 DEF Returns
  <2>2. file' \in Nat /\ file <= file'
    BY <2>1 DEF PlanTypeOK
  <2>3. QED  BY <1>9, <2>1, <2>2, OthersStand
<1>12. QED  BY <1>1, <1>10, <1>11

\* Running out of backends keeps the invariant.
LEMMA ExhaustKeeps ==
    ASSUME PlanInv, NEW r \in Reads, Exhaust(r)
    PROVE  PlanInv'
<1> USE PlanAssumption DEF PlanInv
<1>1. BackendTypeOK' /\ JobInv' /\ vendor' = vendor
  BY JobsStand DEF Exhaust, PlanTypeOK
<1>2. TrailOK(r) /\ AttemptOK(r) /\ AnswerOK(r) /\ at' = [at EXCEPT ![r] = "exhausted"]
  BY DEF ReadInv, Exhaust, Goes
<1>3. PlanTypeOK' /\ CacheInv'
  BY <1>1, <1>2 DEF Exhaust, PlanTypeOK, CacheInv
<1>4. ReadInv'
  <2> SUFFICES ASSUME NEW q \in Reads
               PROVE  (TrailOK(q) /\ AttemptOK(q) /\ AnswerOK(q))'
    BY DEF ReadInv
  <2>1. CASE q = r
    BY <1>2, <2>1 DEF Exhaust, PlanTypeOK, TrailOK, AttemptOK, AnswerOK
  <2>2. CASE q # r
    BY <1>1, <1>2, <2>2, OthersStand DEF Exhaust, PlanTypeOK
  <2>3. QED  BY <2>1, <2>2
<1>5. QED  BY <1>1, <1>3, <1>4

\* An entry that expires, and a file that is edited, keep the invariant.
LEMMA TimeKeeps ==
    ASSUME PlanInv, EntryExpires \/ Edit
    PROVE  PlanInv'
<1> USE PlanAssumption DEF PlanInv
<1>1. BackendTypeOK' /\ JobInv' /\ vendor' = vendor
  BY JobsStand DEF EntryExpires, Edit, PlanTypeOK
<1>2. /\ UNCHANGED planVars /\ file' \in 0..MaxEdits /\ file <= file'
  BY DEF EntryExpires, Edit, PlanTypeOK
<1>3. ReadInv'
  BY <1>1, <1>2, OthersStand DEF planVars, ReadInv
<1>4. entries' \in Seq(Kept) /\ Len(entries') = Len(entries)
  <2>1. CASE UNCHANGED entries
    BY <2>1 DEF CacheInv
  <2>2. ASSUME NEW n \in DOMAIN entries, entries' = [entries EXCEPT ![n].fresh = FALSE]
        PROVE  entries' \in Seq(Kept) /\ Len(entries') = Len(entries)
    <3>1. entries[n] \in Kept
      BY DEF CacheInv
    <3>2. [entries[n] EXCEPT !.fresh = FALSE] \in Kept
      BY <3>1 DEF Kept, Entries, Genuine, WholeOrExcepted
    <3>3. QED  BY <2>2, <3>2 DEF CacheInv
  <2>3. QED  BY <2>1, <2>2 DEF EntryExpires, Edit
<1>5. PlanTypeOK' /\ CacheInv'
  BY <1>1, <1>2, <1>4, KeptAreEntries DEF planVars, PlanTypeOK, CacheInv
<1>6. QED  BY <1>1, <1>3, <1>5

\* Every step of the plans keeps the invariant.
LEMMA PlanNextKeeps == PlanInv /\ [PlanNext]_allVars => PlanInv'
<1> SUFFICES ASSUME PlanInv, [PlanNext]_allVars
             PROVE  PlanInv'
  OBVIOUS
<1>1. ASSUME NEW r \in Reads, DriveOn(r)
      PROVE  PlanInv'
  BY <1>1, DriveKeepsJobs, JobsMove DEF DriveOn, PlanInv, PlanTypeOK
<1>2. ASSUME NEW r \in Reads, RemoteEnds(r) /\ UNCHANGED <<planVars, file, entries>>
      PROVE  PlanInv'
  BY <1>2, RemoteKeepsJobs, JobsMove DEF PlanInv, PlanTypeOK
<1>3. CASE UNCHANGED allVars
  BY <1>3, JobsStand, JobsMove DEF allVars, PlanInv, PlanTypeOK
<1>4. QED
  BY <1>1, <1>2, <1>3, ConsiderKeeps, LookKeeps, CallKeeps, FallbackKeeps, ReturnsKeeps,
     ExhaustKeeps, TimeKeeps
  DEF PlanNext

\* What the invariant says of the answers.
LEMMA PlanInvImplies == PlanInv => AnswersAreResults
<1> SUFFICES ASSUME PlanInv, NEW r \in Reads
             PROVE  /\ answer[r] # Nil =>
                         /\ WholeOrExcepted(answer[r])
                         /\ answer[r].by = Backend(r)
                         /\ Backend(r) \in scope[r] \ Uncredentialed
                         /\ answer[r].ver >= key[r][2]
                         /\ answer[r].notes = trail[r]
                    /\ [k \in DOMAIN trail[r] |-> trail[r][k][1]]
                         = SubSeq(chain[r], 1, pos[r] - 1)
                    /\ at[r] = "exhausted" => Len(trail[r]) = Len(chain[r])
  BY DEF AnswersAreResults
<1> USE PlanAssumption DEF PlanInv
<1>1. TrailOK(r) /\ AttemptOK(r) /\ AnswerOK(r)
  BY DEF ReadInv
<1>2. trail[r] \in Trails /\ chain[r] \in Seq(Vendors) /\ pos[r] \in Nat \ {0}
  BY DEF PlanTypeOK
<1>3. [k \in DOMAIN trail[r] |-> trail[r][k][1]] = SubSeq(chain[r], 1, pos[r] - 1)
  <2>1. DOMAIN trail[r] = 1..(pos[r] - 1)
    BY <1>1, <1>2 DEF TrailOK, Trails
  <2>2. SubSeq(chain[r], 1, pos[r] - 1) = [k \in 1..(pos[r] - 1) |-> chain[r][k]]
    BY <1>1, <1>2 DEF TrailOK
  <2>3. QED  BY <1>1, <2>1, <2>2 DEF TrailOK
<1>4. QED  BY <1>1, <1>2, <1>3 DEF TrailOK, AttemptOK, AnswerOK

-----------------------------------------------------------------------------
(* The theorems about a plan                                               *)

\* The inductive invariant of the plans and their cache holds in every reachable state.
THEOREM PlanInvariance == PlanSpec => []PlanInv
  BY PlanInitEstablishes, PlanNextKeeps, PTL DEF PlanSpec

\* Every reachable state of the reads and their cache is well typed; the cache never
\* holds more than its bound.
THEOREM PlanTypeCorrect == PlanSpec => []PlanTypeOK
<1>1. PlanInv => PlanTypeOK
  BY DEF PlanInv
<1>2. QED  BY <1>1, PlanInvariance, PTL

\* Whatever the chains, the scopes and the order of reads, edits, failures, hits and
\* evictions, and whatever a vendor's job ends in, an answer is of a job that did not
\* fail, by the backend its read had come to, of a file no older than the one it asked
\* about, with that read's own trail; and it is the whole result but for what Pulse lost
\* and what three adapters take for a success.
THEOREM AnswersAreOwn == PlanSpec => []AnswersAreResults
  BY PlanInvImplies, PlanInvariance, PTL
=============================================================================
