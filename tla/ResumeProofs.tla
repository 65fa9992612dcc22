---------------------------- MODULE ResumeProofs ----------------------------
(***************************************************************************)
(* Proofs about runs that are stopped and resumed: the signals that stop a *)
(* command (StopSignals), for any commands and any number of steps,        *)
(* documents, signals and resumes; and the identity a resume goes by       *)
(* (ResumeIdentity), for any strategies, policies, allow-lists, edits and  *)
(* number of processes.                                                    *)
(*                                                                         *)
(* The handler and asyncio share SIGINT by a protocol (HandlerInv): who    *)
(* holds it in which frame, and what was counted.  As long as no stop came *)
(* in a frame asyncio does not survive, a stop that was received is on its *)
(* way (Stopping) in every frame until the exit (ObeyInv).  And a call that *)
(* is on record as attempted is in flight, or its process ends in a way    *)
(* that the property excepts (CallsInv).                                   *)
(*                                                                         *)
(* A resume compiles for every backend, so its places differ from those of *)
(* the first process behind a rung its caller may not reach.  But it never *)
(* passes such a rung (WalkInv): up to where it stands its places are the  *)
(* caller's (NextStands), and so are those of every record (RecordInv).    *)
(***************************************************************************)
EXTENDS StopSignals, ResumeIdentity, TLAPS, FiniteSetTheorems, SequenceTheorems

-----------------------------------------------------------------------------
(* The signals.                                                            *)

\* Who holds SIGINT, and when.
HandlerInv ==
    /\ frame = "exit" <=> exit # Unset
    /\ handling # Unset => fired # Unset /\ exit = Unset
    /\ handling = "claimed" => onInt = "runner"
    /\ handling = "taken" => onInt = "dropped"
    /\ onInt = "dropped" => fired # Unset
    /\ frame \in {"setup", "loop", "over", "cleanup", "unmarked"} => onInt # "default"
    /\ onInt = "runner" /\ counted > 0 => pressed >= 1
    /\ flying => frame = "loop"
    /\ header => Journals

\* A stop is on its way: the task is asked, was cancelled, or its interrupt unwinds.
Stopping ==
    \/ frame \in {"setup", "loop"} /\ cancelled
    \/ frame \in {"over", "cleanup", "unmarked"} /\ ended = "cancelled"
    \/ frame \in {"closing", "joining"} /\ raised

\* A stop that came is handled, on its way, or was obeyed.
ObeyInv ==
    ~Fragile =>
        /\ ~stranded
        /\ handling # Unset => frame \notin {"cleanup", "closing"}
        /\ exit = Unset /\ counted > 0 => Stopping
        /\ exit = Unset /\ first # Unset /\ handling = Unset => Stopping
        /\ exit # Unset /\ first # Unset => exit \in {6, 130, 143}

\* A process that the resumes after it cannot rely on, and that calls nothing any more.
EndsRough ==
    /\ Fragile \/ onInt = "ignored"
    /\ frame = "exit" \/ (frame = "closing" /\ raised)

\* A step called once is on record, and is not on record as attempted once its call ends.
CallsInv ==
    Journals /\ ~rough =>
        \A r \in 1..Rungs :
            /\ called[r] <= 1
            /\ notes[r] = "none" => called[r] = 0
            /\ notes[r] = "attempted" => (flying /\ step = r) \/ EndsRough

SignalsInv == SignalsTypeOK /\ HandlerInv /\ ObeyInv /\ CallsInv

\* The mark for nothing yet is no signal, no state of the handler, no result and no code.
LEMMA UnsetIsNew ==
  /\ Unset \notin {"TERM", "INT", "claimed", "taken", "answer", "exhausted", "cancelled"}
  /\ \A code \in Nat : code # Unset
BY SignalsAssumption

\* The invariant holds at the start.
LEMMA SignalsInitInv == SignalsInit => SignalsInv
<1> SUFFICES ASSUME SignalsInit PROVE SignalsInv
  OBVIOUS
<1> USE SignalsAssumption, UnsetIsNew DEF SignalsInit
<1>1. SignalsTypeOK
  <2>1. /\ frame \in Frames /\ raised \in BOOLEAN /\ stranded \in BOOLEAN /\ torn \in BOOLEAN
        /\ ledger \in BOOLEAN /\ header \in BOOLEAN /\ armed \in BOOLEAN /\ rough \in BOOLEAN
        /\ cancelled \in BOOLEAN /\ flying \in BOOLEAN
    BY DEF Frames
  <2>2. /\ command \in [verb : {"parse", "batch", "resume"}, by : {"walk", "plan"}, pool : BOOLEAN]
        /\ onInt \in {"default", "ignored", "runner", "dropped"}
        /\ fired = Unset /\ first = Unset /\ handling = Unset /\ ended = Unset /\ exit = Unset
    OBVIOUS
  <2>3. /\ counted \in Nat /\ pressed \in Nat /\ step \in 1..Rungs
        /\ begun \in 1..Docs /\ failed \in Nat
        /\ signals \in 0..MaxSignals /\ resumes \in 0..MaxResumes
    OBVIOUS
  <2>4. /\ notes \in [1..Rungs -> {"none", "attempted", "ok", "failed", "cancelled"}]
        /\ called \in [1..Rungs -> Nat]
    OBVIOUS
  <2> QED
    BY <2>1, <2>2, <2>3, <2>4 DEF SignalsTypeOK
<1>2. HandlerInv /\ ObeyInv
  BY DEF HandlerInv, ObeyInv, Fragile
<1>3. CallsInv
  BY DEF CallsInv
<1> QED
  BY <1>1, <1>2, <1>3 DEF SignalsInv

\* What an interrupt does, by the frame it finds. Its loop stays marked, and the command
\* ends with an error, or goes on with the next document or the summary:
StrandsOne(f) ==
    /\ f \in {"setup", "cleanup", "closing"} /\ ~Batch
    /\ stranded' = TRUE /\ frame' = "exit" /\ exit' = 1
    /\ raised' = raised /\ begun' = begun /\ failed' = failed
    /\ notes' = notes /\ flying' = flying

StrandsNext(f) ==
    /\ f \in {"setup", "cleanup", "closing"} /\ Batch
    /\ stranded' = TRUE /\ frame' = "verb" /\ begun < Docs /\ begun' = begun + 1
    /\ failed' = failed + 1 /\ raised' = FALSE
    /\ exit' = exit /\ notes' = notes /\ flying' = flying

StrandsLast(f) ==
    /\ f \in {"setup", "cleanup", "closing"} /\ Batch
    /\ stranded' = TRUE /\ frame' = "print" /\ begun' = begun
    /\ failed' = failed + 1 /\ raised' = FALSE
    /\ exit' = exit /\ notes' = notes /\ flying' = flying

\* it unwinds the loop, or the pool;
UnwindsLoop(f) ==
    /\ f \in {"loop", "over", "unmarked"}
    /\ stranded' = stranded /\ frame' = "closing" /\ raised' = TRUE /\ flying' = FALSE
    /\ \/ notes' = notes
       \/ /\ Journals /\ flying
          /\ \E left \in {"attempted", "cancelled"} : notes' = [notes EXCEPT ![step] = left]
    /\ begun' = begun /\ failed' = failed /\ exit' = exit

UnwindsPool(f) ==
    /\ f = "pool"
    /\ stranded' = stranded /\ frame' = "joining" /\ raised' = TRUE
    /\ begun' = begun /\ failed' = failed /\ exit' = exit
    /\ notes' = notes /\ flying' = flying

\* or it ends the command with the code of a stop.
StopsCommand(f) ==
    /\ f \notin {"loop", "over", "unmarked", "pool", "setup", "cleanup"}
    /\ stranded' = stranded /\ frame' = "exit" /\ exit' \in {6, 130, 143}
    /\ raised' = raised /\ begun' = begun /\ failed' = failed
    /\ notes' = notes /\ flying' = flying

\* There is no other way.
LEMMA InterruptCases ==
  ASSUME SignalsTypeOK, NEW f, NEW claim, Interrupt(f, claim)
  PROVE  \/ StrandsOne(f) \/ StrandsNext(f) \/ StrandsLast(f)
         \/ UnwindsLoop(f) \/ UnwindsPool(f) \/ StopsCommand(f)
<1>1. PICK strands \in Strands(f) : stranded' = (stranded \/ strands) /\ Unwinds(f, claim, strands)
  BY DEF Interrupt
<1>2. strands \in BOOLEAN /\ (strands => f \in {"setup", "cleanup", "closing"})
      /\ (f \in {"setup", "cleanup"} => strands)
  BY DEF Strands
<1>3. Interrupted(claim) \in {6, 130, 143} /\ Escapes(claim) \in {6, 130, 143}
  BY DEF Interrupted, Escapes
<1>4. CASE strands
  <2>1. stranded' = TRUE /\ f \in {"setup", "cleanup", "closing"}
    BY <1>1, <1>2, <1>4
  <2>2. CASE ~Batch
    BY <1>1, <1>4, <2>1, <2>2 DEF Unwinds, Exits, StrandsOne
  <2>3. CASE Batch
    BY <1>1, <1>4, <2>1, <2>3 DEF Unwinds, NextDoc, StrandsNext, StrandsLast
  <2> QED
    BY <2>2, <2>3
<1>5. CASE ~strands
  <2>1. stranded \in BOOLEAN
    BY DEF SignalsTypeOK
  <2>2. stranded' = stranded
    BY <1>1, <1>5, <2>1
  <2>3. CASE f \in {"loop", "over", "unmarked"}
    BY <1>1, <1>5, <2>2, <2>3 DEF Unwinds, UnwindsLoop
  <2>4. CASE f = "pool"
    BY <1>1, <1>5, <2>2, <2>4 DEF Unwinds, UnwindsPool
  <2>5. CASE f \notin {"loop", "over", "unmarked", "pool"}
    BY <1>1, <1>2, <1>3, <1>5, <2>2, <2>5 DEF Unwinds, Exits, StopsCommand
  <2> QED
    BY <2>3, <2>4, <2>5
<1> QED
  BY <1>2, <1>4, <1>5

\* An interrupt keeps the types of what it changes.
LEMMA InterruptTypes ==
  ASSUME SignalsTypeOK, NEW f, NEW claim, Interrupt(f, claim)
  PROVE  /\ frame' \in Frames /\ raised' \in BOOLEAN /\ stranded' \in BOOLEAN
         /\ flying' \in BOOLEAN
         /\ notes' \in [1..Rungs -> {"none", "attempted", "ok", "failed", "cancelled"}]
         /\ begun' \in 1..Docs /\ failed' \in Nat
         /\ exit' \in {Unset, 0, 1, 3, 4, 6, 130, 143}
<1>1. /\ raised \in BOOLEAN /\ stranded \in BOOLEAN /\ flying \in BOOLEAN
      /\ notes \in [1..Rungs -> {"none", "attempted", "ok", "failed", "cancelled"}]
      /\ begun \in 1..Docs /\ failed \in Nat
      /\ exit \in {Unset, 0, 1, 3, 4, 6, 130, 143}
  BY DEF SignalsTypeOK
<1>2. \A left \in {"attempted", "cancelled"} :
        [notes EXCEPT ![step] = left]
          \in [1..Rungs -> {"none", "attempted", "ok", "failed", "cancelled"}]
  BY <1>1
<1>3. begun < Docs => begun + 1 \in 1..Docs
  BY <1>1, SignalsAssumption
<1>4. {"exit", "verb", "print", "closing", "joining"} \subseteq Frames
  BY DEF Frames
<1>5. CASE StrandsOne(f)
  BY <1>1, <1>4, <1>5 DEF StrandsOne
<1>6. CASE StrandsNext(f)
  <2>1. frame' \in Frames /\ begun' \in 1..Docs /\ failed' \in Nat
    BY <1>1, <1>3, <1>4, <1>6 DEF StrandsNext
  <2>2. raised' \in BOOLEAN /\ stranded' \in BOOLEAN /\ flying' \in BOOLEAN
    BY <1>1, <1>6 DEF StrandsNext
  <2>3. /\ notes' \in [1..Rungs -> {"none", "attempted", "ok", "failed", "cancelled"}]
        /\ exit' \in {Unset, 0, 1, 3, 4, 6, 130, 143}
    BY <1>1, <1>6 DEF StrandsNext
  <2> QED
    BY <2>1, <2>2, <2>3
<1>7. CASE StrandsLast(f)
  <2>1. frame' \in Frames /\ begun' \in 1..Docs /\ failed' \in Nat
    BY <1>1, <1>4, <1>7 DEF StrandsLast
  <2>2. raised' \in BOOLEAN /\ stranded' \in BOOLEAN /\ flying' \in BOOLEAN
    BY <1>1, <1>7 DEF StrandsLast
  <2>3. /\ notes' \in [1..Rungs -> {"none", "attempted", "ok", "failed", "cancelled"}]
        /\ exit' \in {Unset, 0, 1, 3, 4, 6, 130, 143}
    BY <1>1, <1>7 DEF StrandsLast
  <2> QED
    BY <2>1, <2>2, <2>3
<1>8. CASE UnwindsLoop(f)
  <2>1. frame' \in Frames /\ begun' \in 1..Docs /\ failed' \in Nat
    BY <1>1, <1>4, <1>8 DEF UnwindsLoop
  <2>2. raised' \in BOOLEAN /\ stranded' \in BOOLEAN /\ flying' \in BOOLEAN
    BY <1>1, <1>8 DEF UnwindsLoop
  <2>3. /\ notes' \in [1..Rungs -> {"none", "attempted", "ok", "failed", "cancelled"}]
        /\ exit' \in {Unset, 0, 1, 3, 4, 6, 130, 143}
    BY <1>1, <1>2, <1>8 DEF UnwindsLoop
  <2> QED
    BY <2>1, <2>2, <2>3
<1>9. CASE UnwindsPool(f)
  BY <1>1, <1>4, <1>9 DEF UnwindsPool
<1>10. CASE StopsCommand(f)
  BY <1>1, <1>4, <1>10 DEF StopsCommand
<1> QED
  BY <1>5, <1>6, <1>7, <1>8, <1>9, <1>10, InterruptCases

\* Where an interrupt leaves a command that was running, and its journal.
LEMMA InterruptEnds ==
  ASSUME SignalsTypeOK, HandlerInv, exit = Unset, NEW claim, Interrupt(frame, claim)
  PROVE  /\ frame' \in {"exit", "verb", "print", "closing", "joining"}
         /\ frame' = "exit" <=> exit' # Unset
         /\ ~flying'
         /\ frame \notin {"setup", "cleanup", "closing"} =>
              /\ stranded' = stranded
              /\ exit' # Unset => exit' \in {6, 130, 143}
              /\ exit' = Unset => frame' \in {"closing", "joining"} /\ raised'
         /\ frame = "closing" /\ ~Batch => frame' = "exit"
         /\ frame = "loop" => frame' = "closing" /\ raised'
         /\ notes' # notes =>
              /\ flying /\ frame = "loop" /\ frame' = "closing" /\ raised'
              /\ \E left \in {"attempted", "cancelled"} : notes' = [notes EXCEPT ![step] = left]
<1>1. /\ \A code \in {1, 6, 130, 143} : code # Unset
      /\ (flying => frame = "loop") /\ frame # "exit"
      /\ flying \in BOOLEAN
  BY UnsetIsNew DEF SignalsTypeOK, HandlerInv
<1>2. CASE StrandsOne(frame)
  BY <1>1, <1>2 DEF StrandsOne
<1>3. CASE StrandsNext(frame)
  BY <1>1, <1>3 DEF StrandsNext
<1>4. CASE StrandsLast(frame)
  BY <1>1, <1>4 DEF StrandsLast
<1>5. CASE UnwindsLoop(frame)
  BY <1>1, <1>5 DEF UnwindsLoop
<1>6. CASE UnwindsPool(frame)
  BY <1>1, <1>6 DEF UnwindsPool
<1>7. CASE StopsCommand(frame)
  BY <1>1, <1>7 DEF StopsCommand
<1> QED
  BY <1>2, <1>3, <1>4, <1>5, <1>6, <1>7, InterruptCases

\* How a loop that closes leaves its command: with the code of a stop; with the next
\* document, or the summary, of a batch; or with its one answer, or without one.
LEMMA ClosedCases ==
  ASSUME SignalsTypeOK, Closed
  PROVE  /\ frame = "closing" /\ exit = Unset /\ handling = Unset
         /\ \/ /\ raised /\ frame' = "exit" /\ exit' \in {6, 130, 143}
               /\ begun' = begun /\ failed' = failed
            \/ /\ ~raised /\ frame' = "verb" /\ begun < Docs /\ begun' = begun + 1
               /\ failed' \in {failed, failed + 1} /\ exit' = exit
            \/ /\ ~raised /\ frame' = "print" /\ begun' = begun
               /\ failed' \in {failed, failed + 1} /\ exit' = exit
            \/ ~raised /\ frame' = "exit" /\ exit' = 3 /\ begun' = begun /\ failed' = failed
<1>1. CASE raised
  <2>1. Interrupted(fired) \in {6, 130, 143}
    BY DEF Interrupted, Escapes
  <2> QED
    BY <1>1, <2>1 DEF Closed, Exits, Runs
<1>2. CASE ~raised /\ Batch
  <2>1. NextDoc /\ Fails(ended = "exhausted") /\ frame = "closing" /\ Runs
    BY <1>2 DEF Closed
  <2>2. failed' \in {failed, failed + 1}
    BY <2>1 DEF Fails
  <2>3. \/ frame' = "verb" /\ begun < Docs /\ begun' = begun + 1 /\ exit' = exit
        \/ frame' = "print" /\ begun' = begun /\ exit' = exit
    BY <2>1 DEF NextDoc
  <2> QED
    BY <1>2, <2>1, <2>2, <2>3 DEF Runs
<1>3. CASE ~raised /\ ~Batch
  BY <1>3 DEF Closed, Exits, Runs
<1> QED
  BY <1>1, <1>2, <1>3 DEF SignalsTypeOK

\* Each step keeps the types.
LEMMA SignalsTypeStep ==
  SignalsTypeOK /\ [SignalsNext]_signalVars => SignalsTypeOK'
<1> SUFFICES ASSUME SignalsTypeOK, [SignalsNext]_signalVars PROVE SignalsTypeOK'
  OBVIOUS
<1> USE SignalsAssumption, UnsetIsNew DEF SignalsTypeOK, Frames, processVars, Runs
<1>1. CASE Sigint
  <2>1. signals' \in 0..MaxSignals /\ first' \in {Unset, "TERM", "INT"}
    BY <1>1 DEF Sigint, Arrives
  <2>2. torn' \in BOOLEAN
    BY <1>1 DEF Sigint, Arrives
  <2>3. counted' \in Nat /\ pressed' \in Nat
    BY <1>1 DEF Sigint
  <2>4. /\ frame' \in Frames /\ raised' \in BOOLEAN /\ stranded' \in BOOLEAN
        /\ flying' \in BOOLEAN
        /\ notes' \in [1..Rungs -> {"none", "attempted", "ok", "failed", "cancelled"}]
        /\ begun' \in 1..Docs /\ failed' \in Nat
        /\ exit' \in {Unset, 0, 1, 3, 4, 6, 130, 143}
    <3>1. CASE Interrupt(frame, fired)
      BY <3>1, InterruptTypes
    <3>2. CASE UNCHANGED <<frame, raised, stranded, flying, notes, begun, failed, exit>>
      BY <3>2
    <3> QED
      BY <1>1, <3>1, <3>2 DEF Sigint
  <2>5. handling' \in {Unset, "claimed", "taken"} /\ cancelled' \in BOOLEAN
    BY <1>1, Zenon DEF Sigint
  <2>6. UNCHANGED <<command, ledger, onInt, fired, ended, step, armed, called, header,
                    resumes, rough>>
    BY <1>1 DEF Sigint
  <2> HIDE DEF Frames
  <2> QED
    BY <2>1, <2>2, <2>3, <2>4, <2>5, <2>6
<1>2. CASE SigintDropped
  BY <1>2 DEF SigintDropped
<1>3. CASE Sigterm
  <2>1. signals' \in 0..MaxSignals /\ first' \in {Unset, "TERM", "INT"} /\ fired' = "TERM"
    BY <1>3 DEF Sigterm, Arrives
  <2>2. torn' \in BOOLEAN
    BY <1>3 DEF Sigterm, Arrives
  <2>3. /\ frame' \in Frames /\ raised' \in BOOLEAN /\ stranded' \in BOOLEAN
        /\ flying' \in BOOLEAN
        /\ notes' \in [1..Rungs -> {"none", "attempted", "ok", "failed", "cancelled"}]
        /\ begun' \in 1..Docs /\ failed' \in Nat
        /\ exit' \in {Unset, 0, 1, 3, 4, 6, 130, 143}
    <3>1. CASE Interrupt(frame, "TERM")
      BY <3>1, InterruptTypes
    <3>2. CASE UNCHANGED <<frame, raised, stranded, flying, notes, begun, failed, exit>>
      BY <3>2
    <3> QED
      BY <1>3, <3>1, <3>2 DEF Sigterm
  <2>4. handling' \in {Unset, "claimed", "taken"}
    BY <1>3 DEF Sigterm
  <2>5. UNCHANGED <<command, ledger, onInt, counted, cancelled, ended, step, armed, pressed,
                    called, header, resumes, rough>>
    BY <1>3 DEF Sigterm
  <2> HIDE DEF Frames
  <2> QED
    BY <2>1, <2>2, <2>3, <2>4, <2>5
<1>4. CASE SigtermAgain
  BY <1>4 DEF SigtermAgain
<1>5. CASE TakeOver
  BY <1>5 DEF TakeOver
<1>6. CASE Delegate
  <2>1. /\ frame' \in Frames /\ raised' \in BOOLEAN /\ stranded' \in BOOLEAN
        /\ flying' \in BOOLEAN
        /\ notes' \in [1..Rungs -> {"none", "attempted", "ok", "failed", "cancelled"}]
        /\ begun' \in 1..Docs /\ failed' \in Nat
        /\ exit' \in {Unset, 0, 1, 3, 4, 6, 130, 143}
    <3>1. CASE Interrupt(frame, fired)
      BY <3>1, InterruptTypes
    <3>2. CASE UNCHANGED <<frame, raised, stranded, flying, notes, begun, failed, exit>>
      BY <3>2
    <3> QED
      BY <1>6, <3>1, <3>2 DEF Delegate
  <2>2. handling' = Unset /\ fired' \in {fired, "INT"} /\ counted' \in {counted, 1}
    BY <1>6 DEF Delegate
  <2>3. cancelled' \in BOOLEAN
    BY <1>6 DEF Delegate
  <2>4. UNCHANGED <<command, ledger, onInt, ended, step, armed, first, pressed, torn, called,
                    header, signals, resumes, rough>>
    BY <1>6 DEF Delegate
  <2> HIDE DEF Frames
  <2> QED
    BY <2>1, <2>2, <2>3, <2>4
<1>7. CASE Arm
  BY <1>7 DEF Arm, Enters
<1>8. CASE Tell
  BY <1>8 DEF Tell, Enters
<1>9. CASE SubmitDirect
  BY <1>9 DEF SubmitDirect, Enters
<1>10. CASE AsyncioRun
  <2>1. /\ frame' \in Frames /\ onInt' \in {"default", "ignored", "runner", "dropped"}
        /\ counted' = 0 /\ cancelled' = FALSE /\ ended' = Unset /\ step' = 1 /\ flying' = FALSE
    BY <1>10 DEF AsyncioRun, Enters
  <2>2. UNCHANGED <<command, ledger, raised, stranded, fired, handling, armed, begun, failed,
                    exit, first, pressed, torn, notes, called, header, signals, resumes, rough>>
    BY <1>10 DEF AsyncioRun, Enters
  <2> HIDE DEF Frames
  <2>3. cancelled' \in BOOLEAN /\ flying' \in BOOLEAN
    BY <2>1
  <2>4. step' \in 1..Rungs /\ counted' \in Nat
    BY <2>1
  <2> QED
    BY <2>1, <2>2, <2>3, <2>4
<1>11. CASE RunRefused
  BY <1>11 DEF RunRefused, NextDoc
<1>12. CASE LoopStarts
  BY <1>12 DEF LoopStarts, Enters
<1>13. CASE Replay
  <2>1. step' \in 1..Rungs /\ ended' \in {Unset, "answer", "exhausted", "cancelled"}
        /\ flying' = FALSE
    <3>1. CASE notes[step] = "ok"
      BY <1>13, <3>1 DEF Replay, Walks
    <3>2. CASE notes[step] # "ok" /\ step = Rungs
      BY <1>13, <3>2 DEF Replay, Steps, Walks
    <3>3. CASE notes[step] # "ok" /\ step # Rungs
      BY <1>13, <3>3 DEF Replay, Steps, Walks
    <3> QED
      BY <3>1, <3>2, <3>3
  <2>2. UNCHANGED <<notes, called>>
    BY <1>13 DEF Replay, CancelledNote, Notes
  <2>3. UNCHANGED <<command, ledger, frame, raised, stranded, onInt, fired, handling, counted,
                    cancelled, armed, begun, failed, exit, first, pressed, torn, header,
                    signals, resumes, rough>>
    BY <1>13 DEF Replay, Steps, Walks
  <2> HIDE DEF Frames
  <2>4. flying' \in BOOLEAN
    BY <2>1
  <2> QED
    BY <2>1, <2>2, <2>3, <2>4
<1>14. CASE Call
  BY <1>14 DEF Call, Walks, Notes
<1>15. ASSUME NEW status \in {"ok", "failed"}, CallReturns(status) PROVE SignalsTypeOK'
  <2>1. step' \in 1..Rungs /\ ended' \in {Unset, "answer", "exhausted", "cancelled"}
        /\ flying' = FALSE
    <3>1. CASE status = "ok"
      BY <1>15, <3>1 DEF CallReturns, Walks
    <3>2. CASE status # "ok" /\ step = Rungs
      BY <1>15, <3>2 DEF CallReturns, Steps, Walks
    <3>3. CASE status # "ok" /\ step # Rungs
      BY <1>15, <3>3 DEF CallReturns, Steps, Walks
    <3> QED
      BY <3>1, <3>2, <3>3
  <2>2. notes' \in [1..Rungs -> {"none", "attempted", "ok", "failed", "cancelled"}] /\ called' = called
    BY <1>15 DEF CallReturns, CancelledNote, Notes
  <2>3. UNCHANGED <<command, ledger, frame, raised, stranded, onInt, fired, handling, counted,
                    cancelled, armed, begun, failed, exit, first, pressed, torn, header,
                    signals, resumes, rough>>
    BY <1>15 DEF CallReturns, Steps, Walks
  <2> HIDE DEF Frames
  <2>4. flying' \in BOOLEAN
    BY <2>1
  <2> QED
    BY <2>1, <2>2, <2>3, <2>4
<1>16. CASE CancelWait
  <2>1. step' \in 1..Rungs /\ ended' \in {Unset, "answer", "exhausted", "cancelled"}
        /\ flying' = FALSE
    BY <1>16 DEF CancelWait, Steps, Walks
  <2>2. notes' \in [1..Rungs -> {"none", "attempted", "ok", "failed", "cancelled"}] /\ called' = called
    BY <1>16 DEF CancelWait, CancelledNote, Notes
  <2>3. UNCHANGED <<command, ledger, frame, raised, stranded, onInt, fired, handling, counted,
                    cancelled, armed, begun, failed, exit, first, pressed, torn, header,
                    signals, resumes, rough>>
    BY <1>16 DEF CancelWait, Steps, Walks
  <2> HIDE DEF Frames
  <2>4. flying' \in BOOLEAN
    BY <2>1
  <2> QED
    BY <2>1, <2>2, <2>3, <2>4
<1>17. CASE TaskOver
  BY <1>17 DEF TaskOver, Enters
<1>18. CASE LeaveLoop
  BY <1>18 DEF LeaveLoop, Enters
<1>19. CASE RunReturns
  BY <1>19 DEF RunReturns
<1>20. CASE Closed
  <2>1. frame' \in {"exit", "verb", "print"} /\ exit' \in {Unset, 3, 6, 130, 143}
    BY <1>20, ClosedCases
  <2>2. begun' = begun \/ (begun < Docs /\ begun' = begun + 1)
    BY <1>20, ClosedCases
  <2>3. failed' \in {failed, failed + 1}
    BY <1>20, ClosedCases
  <2>4. UNCHANGED <<command, ledger, raised, stranded, onInt, fired, handling, counted,
                    cancelled, ended, step, flying, armed, first, pressed, torn, notes,
                    called, header, signals, resumes, rough>>
    BY <1>20 DEF Closed
  <2>5. frame' \in Frames /\ begun' \in 1..Docs /\ failed' \in Nat
    BY <2>1, <2>2, <2>3
  <2> HIDE DEF Frames
  <2> QED
    BY <2>1, <2>4, <2>5
<1>21. CASE PoolBegins
  BY <1>21 DEF PoolBegins, Enters
<1>22. CASE PoolGoesOn
  BY <1>22 DEF PoolGoesOn, NextDoc, Fails
<1>23. CASE Joined
  BY <1>23 DEF Joined, Exits, Interrupted, Escapes
<1>24. CASE Reports
  BY <1>24 DEF Reports, Exits
<1>25. CASE Resume
  <2>1. /\ command' \in [verb : {"parse", "batch", "resume"}, by : {"walk", "plan"},
                         pool : BOOLEAN]
        /\ frame' \in Frames
    BY <1>25 DEF Resume
  <2>2. /\ raised' = FALSE /\ stranded' = FALSE /\ cancelled' = FALSE /\ flying' = FALSE
        /\ armed' = FALSE /\ torn' = FALSE
        /\ onInt' \in {"default", "ignored"} /\ fired' = Unset /\ handling' = Unset
        /\ ended' = Unset /\ exit' = Unset /\ first' = Unset
    BY <1>25 DEF Resume
  <2>3. /\ counted' = 0 /\ step' \in 1..Rungs /\ begun' \in 1..Docs /\ failed' = 0
        /\ pressed' = 0 /\ resumes' \in 0..MaxResumes
    <3>1. counted' = 0 /\ failed' = 0 /\ pressed' = 0
      BY <1>25 DEF Resume
    <3>2. step' = 1 /\ begun' = 1
      BY <1>25 DEF Resume
    <3>3. resumes' = resumes + 1 /\ resumes < MaxResumes
      BY <1>25 DEF Resume
    <3> QED
      BY <3>1, <3>2, <3>3
  <2>4. rough' \in BOOLEAN
    BY <1>25 DEF Resume
  <2>5. UNCHANGED <<ledger, notes, called, header, signals>>
    BY <1>25 DEF Resume
  <2> HIDE DEF Frames
  <2>6. /\ raised' \in BOOLEAN /\ stranded' \in BOOLEAN /\ cancelled' \in BOOLEAN
        /\ flying' \in BOOLEAN /\ armed' \in BOOLEAN /\ torn' \in BOOLEAN
    BY <2>2
  <2> QED
    BY <2>1, <2>2, <2>3, <2>4, <2>5, <2>6
<1>26. CASE UNCHANGED signalVars
  BY <1>26 DEF signalVars
<1> QED
  BY <1>1, <1>2, <1>3, <1>4, <1>5, <1>6, <1>7, <1>8, <1>9, <1>10, <1>11, <1>12, <1>13, <1>14, <1>15, <1>16, <1>17, <1>18, <1>19, <1>20, <1>21, <1>22, <1>23, <1>24, <1>25, <1>26, Zenon
  DEF SignalsNext

\* Each step keeps to the protocol between the handler and asyncio.
LEMMA HandlerStep ==
  SignalsTypeOK /\ HandlerInv /\ [SignalsNext]_signalVars => HandlerInv'
<1> SUFFICES ASSUME SignalsTypeOK, HandlerInv, [SignalsNext]_signalVars PROVE HandlerInv'
  OBVIOUS
<1> USE SignalsAssumption, UnsetIsNew DEF SignalsTypeOK, HandlerInv, Journals, Batch, processVars, Runs
<1>1. CASE Sigint
  BY <1>1, InterruptEnds DEF Sigint, Arrives
<1>2. CASE SigintDropped
  BY <1>2 DEF SigintDropped
<1>3. CASE Sigterm
  BY <1>3, InterruptEnds DEF Sigterm, Arrives
<1>4. CASE SigtermAgain
  BY <1>4 DEF SigtermAgain
<1>5. CASE TakeOver
  BY <1>5 DEF TakeOver
<1>6. CASE Delegate
  <2>1. handling = "taken" /\ onInt = "dropped" /\ exit = Unset /\ handling' = Unset
        /\ fired # Unset
    BY <1>6 DEF Delegate
  <2>2. CASE Interrupt(frame, fired) /\ UNCHANGED <<fired, counted>>
    BY <1>6, <2>1, <2>2, InterruptEnds DEF Delegate
  <2>3. CASE /\ UNCHANGED <<frame, flying, exit>> /\ fired' \in {fired, "INT"}
    BY <1>6, <2>1, <2>3 DEF Delegate
  <2> QED
    BY <1>6, <2>2, <2>3 DEF Delegate
<1>7. CASE Arm
  BY <1>7 DEF Arm, Enters
<1>8. CASE Tell
  BY <1>8 DEF Tell, Enters
<1>9. CASE SubmitDirect
  BY <1>9 DEF SubmitDirect, Enters
<1>10. CASE AsyncioRun
  BY <1>10 DEF AsyncioRun, Enters
<1>11. CASE RunRefused
  BY <1>11 DEF RunRefused, NextDoc
<1>12. CASE LoopStarts
  BY <1>12 DEF LoopStarts, Enters
<1>13. CASE Replay
  <2>1. /\ flying' = FALSE /\ frame' = frame /\ exit' = exit /\ handling' = handling
        /\ fired' = fired /\ onInt' = onInt /\ counted' = counted /\ pressed' = pressed
        /\ header' = header /\ command' = command /\ ledger' = ledger
    BY <1>13 DEF Replay, Steps, Walks
  <2> QED
    BY <2>1
<1>14. CASE Call
  BY <1>14 DEF Call, Walks, Notes
<1>15. ASSUME NEW status \in {"ok", "failed"}, CallReturns(status) PROVE HandlerInv'
  <2>1. /\ flying' = FALSE /\ frame' = frame /\ exit' = exit /\ handling' = handling
        /\ fired' = fired /\ onInt' = onInt /\ counted' = counted /\ pressed' = pressed
        /\ header' = header /\ command' = command /\ ledger' = ledger
    BY <1>15 DEF CallReturns, Steps, Walks
  <2> QED
    BY <2>1
<1>16. CASE CancelWait
  BY <1>16 DEF CancelWait, Walks, CancelledNote, Notes
<1>17. CASE TaskOver
  BY <1>17 DEF TaskOver, Enters
<1>18. CASE LeaveLoop
  BY <1>18 DEF LeaveLoop, Enters
<1>19. CASE RunReturns
  BY <1>19 DEF RunReturns
<1>20. CASE Closed
  <2>1. frame = "closing" /\ frame' \in {"exit", "verb", "print"} /\ exit = Unset
        /\ handling = Unset
    BY <1>20, ClosedCases
  <2>2. frame' = "exit" <=> exit' # Unset
    BY <1>20, ClosedCases
  <2>3. /\ flying' = flying /\ handling' = handling /\ fired' = fired /\ onInt' = onInt
        /\ counted' = counted /\ pressed' = pressed /\ header' = header
        /\ command' = command /\ ledger' = ledger
    BY <1>20 DEF Closed
  <2> QED
    BY <2>1, <2>2, <2>3
<1>21. CASE PoolBegins
  BY <1>21 DEF PoolBegins, Enters
<1>22. CASE PoolGoesOn
  BY <1>22 DEF PoolGoesOn, NextDoc, Fails
<1>23. CASE Joined
  BY <1>23 DEF Joined, Exits, Interrupted, Escapes
<1>24. CASE Reports
  BY <1>24 DEF Reports, Exits
<1>25. CASE Resume
  BY <1>25 DEF Resume
<1>26. CASE UNCHANGED signalVars
  BY <1>26 DEF signalVars
<1> QED
  BY <1>1, <1>2, <1>3, <1>4, <1>5, <1>6, <1>7, <1>8, <1>9, <1>10, <1>11, <1>12, <1>13, <1>14, <1>15, <1>16, <1>17, <1>18, <1>19, <1>20, <1>21, <1>22, <1>23, <1>24, <1>25, <1>26
  DEF SignalsNext

\* Each step takes a stop that came further, as long as asyncio survives it.
LEMMA ObeyStep ==
  SignalsTypeOK /\ HandlerInv /\ ObeyInv /\ [SignalsNext]_signalVars => ObeyInv'
<1> SUFFICES ASSUME SignalsTypeOK, HandlerInv, ObeyInv, [SignalsNext]_signalVars PROVE ObeyInv'
  OBVIOUS
<1> USE SignalsAssumption, UnsetIsNew DEF SignalsTypeOK, HandlerInv, ObeyInv, Stopping, Fragile, processVars, Runs
<1>1. CASE Sigint
  <2>1. SUFFICES ASSUME ~Fragile' PROVE ObeyInv'
    BY DEF ObeyInv
  <2>2. /\ exit = Unset /\ onInt \in {"default", "runner"} /\ ~Fragile
        /\ frame \notin {"cleanup", "closing"} /\ (frame = "setup" => onInt = "runner")
        /\ (onInt = "runner" => counted = 0)
        /\ UNCHANGED <<onInt, ended>>
    <3>1. exit = Unset /\ onInt \in {"default", "runner"} /\ UNCHANGED <<onInt, ended>>
      BY <1>1 DEF Sigint, Arrives
    <3>2. ~torn /\ frame \notin Unsafe
      BY <1>1, <2>1 DEF Sigint, Arrives
    <3>3. pressed' <= 1 /\ (onInt = "runner" => pressed' = pressed + 1)
          /\ (onInt # "runner" => pressed' = pressed)
      BY <1>1, <2>1 DEF Sigint
    <3>4. pressed <= 1 /\ (onInt = "runner" => pressed = 0)
      BY <3>3
    <3>5. onInt = "runner" => counted = 0
      BY <3>4
    <3> QED
      BY <3>1, <3>2, <3>4, <3>5 DEF Unsafe
  <2>3. CASE /\ onInt = "runner" /\ counted = 0 /\ ~TaskDone /\ cancelled' = TRUE
             /\ UNCHANGED <<frame, raised, stranded, handling, flying, notes, begun, failed, exit>>
    <3>1. Stopping'
      BY <2>3 DEF TaskDone
    <3> QED
      BY <2>2, <2>3, <3>1
  <2>4. CASE /\ ~(onInt = "runner" /\ counted = 0 /\ ~TaskDone)
             /\ Interrupt(frame, fired) /\ handling' = Unset
    <3>1. frame # "setup"
      BY <2>2, <2>4 DEF TaskDone
    <3> QED
      BY <2>2, <2>4, <3>1, InterruptEnds
  <2> QED
    BY <1>1, <2>3, <2>4 DEF Sigint
<1>2. CASE SigintDropped
  BY <1>2 DEF SigintDropped
<1>3. CASE Sigterm
  <2>1. SUFFICES ASSUME ~Fragile' PROVE ObeyInv'
    BY DEF ObeyInv
  <2>2. /\ exit = Unset /\ ~Fragile /\ fired = Unset
        /\ frame \notin {"cleanup", "closing"} /\ (frame = "setup" => onInt = "runner")
        /\ UNCHANGED <<onInt, ended, counted, cancelled>>
    BY <1>3, <2>1 DEF Sigterm, Arrives, Unsafe
  <2>3. CASE /\ handling' = "claimed"
             /\ UNCHANGED <<frame, raised, stranded, flying, notes, begun, failed, exit>>
    BY <2>2, <2>3
  <2>4. CASE /\ onInt # "runner" /\ Interrupt(frame, "TERM") /\ UNCHANGED handling
    <3>1. handling = Unset
      BY <2>2
    <3> QED
      BY <2>2, <2>4, <3>1, InterruptEnds
  <2> QED
    BY <1>3, <2>3, <2>4 DEF Sigterm
<1>4. CASE SigtermAgain
  BY <1>4 DEF SigtermAgain
<1>5. CASE TakeOver
  BY <1>5 DEF TakeOver
<1>6. CASE Delegate
  <2>1. /\ handling = "taken" /\ exit = Unset /\ fired # Unset /\ handling' = Unset
        /\ UNCHANGED <<onInt, ended, torn, pressed, first>>
    BY <1>6 DEF Delegate
  <2>2. CASE Verdict = "stopping"
    <3>1. /\ counted > 0
          /\ UNCHANGED <<frame, raised, stranded, counted, cancelled, exit>>
      BY <1>6, <2>2 DEF Delegate, Verdict
    <3> QED
      BY <2>1, <3>1
  <2>3. CASE Verdict = "cancel"
    <3>1. /\ frame \in {"setup", "loop"} /\ cancelled' = TRUE
          /\ UNCHANGED <<frame, raised, stranded, exit>>
      BY <1>6, <2>3 DEF Delegate, Verdict, TaskDone
    <3> QED
      BY <2>1, <3>1
  <2>4. CASE Verdict \notin {"stopping", "cancel"}
    <3>1. /\ ~(counted > 0) /\ frame \notin {"setup", "loop"} /\ Interrupt(frame, fired)
          /\ UNCHANGED <<counted, cancelled>>
      BY <1>6, <2>4 DEF Delegate, Verdict, TaskDone
    <3> QED
      BY <2>1, <3>1, InterruptEnds
  <2> QED
    BY <2>2, <2>3, <2>4
<1>7. CASE Arm
  BY <1>7 DEF Arm, Enters
<1>8. CASE Tell
  BY <1>8 DEF Tell, Enters
<1>9. CASE SubmitDirect
  BY <1>9 DEF SubmitDirect, Enters
<1>10. CASE AsyncioRun
  BY <1>10 DEF AsyncioRun, Enters
<1>11. CASE RunRefused
  BY <1>11 DEF RunRefused, NextDoc
<1>12. CASE LoopStarts
  BY <1>12 DEF LoopStarts, Enters
<1>13. CASE Replay
  <2>1. /\ frame = "loop" /\ ~cancelled
        /\ UNCHANGED <<frame, raised, stranded, handling, counted, cancelled, exit, torn,
                       pressed, first>>
    BY <1>13 DEF Replay, Steps, Walks
  <2> QED
    BY <2>1
<1>14. CASE Call
  BY <1>14 DEF Call, Walks, Notes
<1>15. ASSUME NEW status \in {"ok", "failed"}, CallReturns(status) PROVE ObeyInv'
  <2>1. /\ frame = "loop" /\ ~cancelled
        /\ UNCHANGED <<frame, raised, stranded, handling, counted, cancelled, exit, torn,
                       pressed, first>>
    BY <1>15 DEF CallReturns, Steps, Walks
  <2> QED
    BY <2>1
<1>16. CASE CancelWait
  BY <1>16 DEF CancelWait, Walks, CancelledNote, Notes
<1>17. CASE TaskOver
  BY <1>17 DEF TaskOver, Enters
<1>18. CASE LeaveLoop
  BY <1>18 DEF LeaveLoop, Enters
<1>19. CASE RunReturns
  BY <1>19 DEF RunReturns
<1>20. CASE Closed
  <2>1. UNCHANGED <<torn, pressed, stranded, handling, counted, first, raised>>
    BY <1>20 DEF Closed
  <2>2. frame = "closing" /\ exit = Unset /\ handling = Unset
    BY <1>20, ClosedCases
  <2>3. /\ raised => exit' \in {6, 130, 143}
        /\ ~raised => frame' \in {"exit", "verb", "print"}
    BY <1>20, ClosedCases
  <2>4. ~raised => ~Stopping
    BY <2>2
  <2>5. exit' # Unset /\ raised => exit' \in {6, 130, 143}
    BY <2>3
  <2>6. exit' = Unset => ~raised
    BY <2>3
  <2> QED
    BY <2>1, <2>2, <2>3, <2>4, <2>5, <2>6
<1>21. CASE PoolBegins
  BY <1>21 DEF PoolBegins, Enters
<1>22. CASE PoolGoesOn
  BY <1>22 DEF PoolGoesOn, NextDoc, Fails
<1>23. CASE Joined
  BY <1>23 DEF Joined, Exits, Interrupted, Escapes
<1>24. CASE Reports
  BY <1>24 DEF Reports, Exits
<1>25. CASE Resume
  BY <1>25 DEF Resume
<1>26. CASE UNCHANGED signalVars
  BY <1>26 DEF signalVars
<1> QED
  BY <1>1, <1>2, <1>3, <1>4, <1>5, <1>6, <1>7, <1>8, <1>9, <1>10, <1>11, <1>12, <1>13, <1>14, <1>15, <1>16, <1>17, <1>18, <1>19, <1>20, <1>21, <1>22, <1>23, <1>24, <1>25, <1>26
  DEF SignalsNext

\* Each step calls only what is not on record.
LEMMA CallsStep ==
  SignalsTypeOK /\ HandlerInv /\ CallsInv /\ [SignalsNext]_signalVars => CallsInv'
<1> SUFFICES ASSUME SignalsTypeOK, HandlerInv, CallsInv, [SignalsNext]_signalVars PROVE CallsInv'
  OBVIOUS
<1> USE SignalsAssumption, UnsetIsNew DEF SignalsTypeOK, HandlerInv, CallsInv, EndsRough, Fragile, Journals, Batch, processVars, Runs
<1>1. CASE Sigint
  <2>1. SUFFICES ASSUME Journals', ~rough', NEW r \in 1..Rungs
                 PROVE  /\ called'[r] <= 1
                        /\ notes'[r] = "none" => called'[r] = 0
                        /\ notes'[r] = "attempted" => (flying' /\ step' = r) \/ EndsRough'
    BY DEF CallsInv
  <2>2. /\ Journals /\ ~rough /\ ~Batch /\ exit = Unset
        /\ UNCHANGED <<onInt, called, step>> /\ (Fragile => Fragile')
    BY <1>1, <2>1 DEF Sigint, Arrives
  <2>3. /\ called[r] <= 1 /\ (notes[r] = "none" => called[r] = 0)
        /\ notes[r] = "attempted" => (flying /\ step = r) \/ EndsRough
    BY <2>2
  <2>4. CASE UNCHANGED <<frame, raised, flying, notes>>
    BY <2>2, <2>3, <2>4
  <2>5. CASE Interrupt(frame, fired) /\ ~(onInt = "runner" /\ counted = 0 /\ ~TaskDone)
    <3>1. frame = "loop" => (Fragile' \/ onInt = "ignored")
      BY <1>1, <2>2, <2>5 DEF Sigint, Arrives, TaskDone
    <3>2. frame = "loop" => EndsRough'
      BY <2>2, <2>5, <3>1, InterruptEnds
    <3>3. frame = "closing" => frame' = "exit"
      BY <2>2, <2>5, InterruptEnds
    <3>4. CASE notes' = notes
      BY <2>2, <2>3, <3>2, <3>3, <3>4
    <3>5. CASE notes' # notes
      <4>1. /\ frame = "loop" /\ flying
            /\ \E left \in {"attempted", "cancelled"} : notes' = [notes EXCEPT ![step] = left]
        BY <2>2, <2>5, <3>5, InterruptEnds
      <4>2. EndsRough'
        BY <3>2, <4>1
      <4>3. notes'[r] = "none" => notes[r] = "none"
        BY <4>1
      <4> QED
        BY <2>2, <2>3, <4>2, <4>3
    <3> QED
      BY <3>4, <3>5
  <2> QED
    BY <1>1, <2>4, <2>5 DEF Sigint
<1>2. CASE SigintDropped
  BY <1>2 DEF SigintDropped
<1>3. CASE Sigterm
  <2>1. SUFFICES ASSUME Journals', ~rough', NEW r \in 1..Rungs
                 PROVE  /\ called'[r] <= 1
                        /\ notes'[r] = "none" => called'[r] = 0
                        /\ notes'[r] = "attempted" => (flying' /\ step' = r) \/ EndsRough'
    BY DEF CallsInv
  <2>2. /\ Journals /\ ~rough /\ ~Batch /\ exit = Unset
        /\ UNCHANGED <<onInt, called, step>> /\ (Fragile => Fragile')
    BY <1>3, <2>1 DEF Sigterm, Arrives
  <2>3. /\ called[r] <= 1 /\ (notes[r] = "none" => called[r] = 0)
        /\ notes[r] = "attempted" => (flying /\ step = r) \/ EndsRough
    BY <2>2
  <2>4. CASE UNCHANGED <<frame, raised, flying, notes>>
    BY <2>2, <2>3, <2>4
  <2>5. CASE Interrupt(frame, "TERM") /\ onInt # "runner"
    <3>1. frame = "loop" => (Fragile' \/ onInt = "ignored")
      BY <1>3, <2>2, <2>5 DEF Sigterm, Arrives, TaskDone
    <3>2. frame = "loop" => EndsRough'
      BY <2>2, <2>5, <3>1, InterruptEnds
    <3>3. frame = "closing" => frame' = "exit"
      BY <2>2, <2>5, InterruptEnds
    <3>4. CASE notes' = notes
      BY <2>2, <2>3, <3>2, <3>3, <3>4
    <3>5. CASE notes' # notes
      <4>1. /\ frame = "loop" /\ flying
            /\ \E left \in {"attempted", "cancelled"} : notes' = [notes EXCEPT ![step] = left]
        BY <2>2, <2>5, <3>5, InterruptEnds
      <4>2. EndsRough'
        BY <3>2, <4>1
      <4>3. notes'[r] = "none" => notes[r] = "none"
        BY <4>1
      <4> QED
        BY <2>2, <2>3, <4>2, <4>3
    <3> QED
      BY <3>4, <3>5
  <2> QED
    BY <1>3, <2>4, <2>5 DEF Sigterm
<1>4. CASE SigtermAgain
  BY <1>4 DEF SigtermAgain
<1>5. CASE TakeOver
  BY <1>5 DEF TakeOver
<1>6. CASE Delegate
  <2>1. /\ handling = "taken" /\ exit = Unset /\ frame # "exit"
        /\ UNCHANGED <<command, ledger, onInt, called, step, torn, pressed, rough>>
    BY <1>6 DEF Delegate
  <2>2. CASE UNCHANGED <<frame, raised, flying, notes>>
    BY <2>1, <2>2
  <2>3. CASE Interrupt(frame, fired) /\ frame # "loop"
    <3>1. notes' = notes /\ ~flying /\ (frame = "closing" /\ ~Batch => frame' = "exit")
      BY <2>1, <2>3, InterruptEnds
    <3>2. Journals => (EndsRough => EndsRough')
      BY <2>1, <3>1
    <3> QED
      BY <2>1, <3>1, <3>2
  <2>4. CASE Verdict = "stopping" \/ Verdict = "cancel"
    BY <1>6, <2>2, <2>4 DEF Delegate
  <2>5. CASE ~(Verdict = "stopping" \/ Verdict = "cancel")
    <3>1. Interrupt(frame, fired)
      BY <1>6, <2>5 DEF Delegate
    <3>2. frame # "loop"
      BY <2>5 DEF Verdict, TaskDone
    <3> QED
      BY <2>3, <3>1, <3>2
  <2> QED
    BY <2>4, <2>5
<1>7. CASE Arm
  BY <1>7 DEF Arm, Enters
<1>8. CASE Tell
  BY <1>8 DEF Tell, Enters
<1>9. CASE SubmitDirect
  BY <1>9 DEF SubmitDirect, Enters
<1>10. CASE AsyncioRun
  BY <1>10 DEF AsyncioRun, Enters
<1>11. CASE RunRefused
  BY <1>11 DEF RunRefused, NextDoc
<1>12. CASE LoopStarts
  BY <1>12 DEF LoopStarts, Enters
<1>13. CASE Replay
  <2>1. /\ ~flying /\ frame = "loop" /\ UNCHANGED <<notes, called, command, ledger, rough>>
    BY <1>13 DEF Replay, Steps, Walks
  <2>2. ~EndsRough
    BY <2>1
  <2> QED
    BY <2>1, <2>2
<1>14. CASE Call
  BY <1>14 DEF Call, Walks, Notes
<1>15. ASSUME NEW status \in {"ok", "failed"}, CallReturns(status) PROVE CallsInv'
  <2>1. /\ flying /\ frame = "loop" /\ called' = called
        /\ notes' = IF Journals THEN [notes EXCEPT ![step] = status] ELSE notes
    BY <1>15 DEF CallReturns, Steps, Walks, Notes
  <2>2. UNCHANGED <<command, ledger, rough>>
    BY <1>15 DEF CallReturns, Steps, Walks
  <2> SUFFICES ASSUME Journals, ~rough, NEW r \in 1..Rungs
               PROVE  called[r] <= 1 /\ (notes'[r] = "none" => called[r] = 0) /\ notes'[r] # "attempted"
    BY <2>1, <2>2
  <2>3. /\ called[r] <= 1 /\ (notes[r] = "none" => called[r] = 0)
        /\ notes[r] = "attempted" => step = r
    BY <2>1
  <2>4. notes'[r] = IF r = step THEN status ELSE notes[r]
    BY <2>1
  <2> QED
    BY <2>3, <2>4
<1>16. CASE CancelWait
  BY <1>16 DEF CancelWait, Walks, CancelledNote, Notes
<1>17. CASE TaskOver
  BY <1>17 DEF TaskOver, Enters
<1>18. CASE LeaveLoop
  <2>1. /\ frame \in {"over", "cleanup"}
        /\ UNCHANGED <<notes, called, command, ledger, rough>>
    BY <1>18 DEF LeaveLoop, Enters
  <2>2. ~flying /\ ~EndsRough
    BY <2>1
  <2> QED
    BY <2>1, <2>2
<1>19. CASE RunReturns
  BY <1>19 DEF RunReturns
<1>20. CASE Closed
  <2>1. UNCHANGED <<torn, pressed, raised, onInt, flying, notes, called, step, command,
                    ledger, rough>>
    BY <1>20 DEF Closed
  <2>2. frame = "closing" /\ (raised => frame' = "exit")
    BY <1>20, ClosedCases
  <2> QED
    BY <2>1, <2>2
<1>21. CASE PoolBegins
  BY <1>21 DEF PoolBegins, Enters
<1>22. CASE PoolGoesOn
  BY <1>22 DEF PoolGoesOn, NextDoc, Fails
<1>23. CASE Joined
  BY <1>23 DEF Joined, Exits, Interrupted, Escapes
<1>24. CASE Reports
  BY <1>24 DEF Reports, Exits
<1>25. CASE Resume
  <2>1. /\ exit # Unset /\ frame = "exit" /\ ~flying
        /\ UNCHANGED <<ledger, notes, called>> /\ header
    BY <1>25 DEF Resume
  <2>2. ~rough' => ~rough /\ ~EndsRough
    BY <1>25 DEF Resume
  <2>3. Journals
    BY <2>1
  <2> QED
    BY <2>1, <2>2, <2>3
<1>26. CASE UNCHANGED signalVars
  BY <1>26 DEF signalVars
<1> QED
  BY <1>1, <1>2, <1>3, <1>4, <1>5, <1>6, <1>7, <1>8, <1>9, <1>10, <1>11, <1>12, <1>13, <1>14, <1>15, <1>16, <1>17, <1>18, <1>19, <1>20, <1>21, <1>22, <1>23, <1>24, <1>25, <1>26
  DEF SignalsNext

\* The invariant holds in every reachable state, and with it the types.
THEOREM SignalsTypeCorrect == SignalsSpec => []SignalsInv
<1>1. SignalsInit => SignalsInv
  BY SignalsInitInv
<1>2. SignalsInv /\ [SignalsNext]_signalVars => SignalsInv'
  BY SignalsTypeStep, HandlerStep, ObeyStep, CallsStep DEF SignalsInv
<1> QED
  BY <1>1, <1>2, PTL DEF SignalsSpec

\* A command that was sent a stop ends with the code of one, in whatever frames any
\* number of signals find it, but for those asyncio does not survive (cli/app.py, main
\* and _terminate_as_interrupt).
THEOREM StopsEndCommands == SignalsSpec => []StopsAreObeyed
<1>1. SignalsInv => StopsAreObeyed
  BY DEF SignalsInv, ObeyInv, StopsAreObeyed
<1> QED
  BY <1>1, SignalsTypeCorrect, PTL

\* However often a run is stopped and resumed, no step of it is called a second time
\* (strategies/engine.py, what exec records of a cancelled wait).
THEOREM NoStepIsCalledTwice == SignalsSpec => []StoppedCallsAreNotRepeated
<1>1. SignalsInv => StoppedCallsAreNotRepeated
  BY DEF SignalsInv, CallsInv, StoppedCallsAreNotRepeated
<1> QED
  BY <1>1, SignalsTypeCorrect, PTL

-----------------------------------------------------------------------------
(* The identity of a run.                                                  *)

\* Before a run is armed nothing is on record; its header is that of the configuration
\* it was armed with, compiled for its caller.
HeaderInv ==
    /\ runs = 0 => identity.is = "none" /\ process.at = "none"
    /\ process.at = "arming" =>
         identity.is = "none" /\ process.plan = Compiled(process.conf, caller)
    /\ identity.is # "whole" => outcomes = {} /\ reached = {}
    /\ identity.is = "whole" => identity = HeaderOf(original, Compiled(original, caller))

\* A walk is of the first process, with its caller's plan, or of a resume that prunes
\* for nobody and may call what the header has pinned; its root is that of the header,
\* and it has passed only leaves that it may call.
WalkInv ==
    process.at = "walk" =>
        /\ process = [Walking(process.plan, process.allow, process.pinned, process.conf)
                        EXCEPT !.left = process.left]
        /\ identity.is = "whole"
        /\ process.plan.root = identity.plan
        /\ \A s \in StepsOf(process.plan) : s \in process.left \/ Permitted(s)
        /\ process.left \subseteq StepsOf(process.plan)
        /\ \/ process.conf = original /\ process.plan = Compiled(original, caller)
           \/ /\ process.plan = Compiled(process.conf, Registry)
              /\ process.allow = DOMAIN identity.pinned /\ process.pinned = identity.pinned

\* The leaf at a place of the plan the run was armed with, whose named strategies are
\* these.
StandsAt(place, backend, trees) ==
    \E x \in KeptOf(original.root, caller) :
        /\ x.place = place[1]
        /\ IF x.rung \in Names
           THEN [place |-> place[2], rung |-> backend] \in KeptOf(trees[x.rung], caller)
           ELSE backend = x.rung

\* Whoever wrote it, a record is about the leaf at its place as a process pruned for the
\* caller would have it.
RecordInv == \A r \in outcomes : StandsAt(r.place, r.backend, r.trees)

IdentityInv ==
    IdentityTypeOK /\ HeaderInv /\ WalkInv /\ RecordInv /\ NothingWiderIsReached

\* Places are numbers that grow along the rungs.
LEMMA PlacesGrow ==
    ASSUME NEW S, NEW rungs \in Seq(S), NEW may, NEW i \in DOMAIN rungs
    PROVE  /\ PlaceOf(rungs, may, i) \in Nat
           /\ \A j \in KeptAt(rungs, may) :
                 i < j => PlaceOf(rungs, may, i) < PlaceOf(rungs, may, j)
<1> DEFINE at == KeptAt(rungs, may)
<1>1. DOMAIN rungs = 1..Len(rungs) /\ Len(rungs) \in Nat
  BY LenProperties
<1>2. \A k \in 1..Len(rungs) : IsFiniteSet(at \cap 1..k) /\ Cardinality(at \cap 1..k) \in Nat
  <2> SUFFICES ASSUME NEW k \in 1..Len(rungs)
               PROVE  IsFiniteSet(at \cap 1..k) /\ Cardinality(at \cap 1..k) \in Nat
    OBVIOUS
  <2>1. IsFiniteSet(1..k)
    BY FS_Interval
  <2> QED
    BY <2>1, FS_Subset, FS_CardinalityType
<1>3. ASSUME NEW j \in at, i < j PROVE PlaceOf(rungs, may, i) < PlaceOf(rungs, may, j)
  <2>1. i \in Nat /\ j \in 1..Len(rungs)
    BY <1>1 DEF KeptAt
  <2>2. at \cap 1..i \subseteq at \cap 1..j /\ j \in at \cap 1..j /\ j \notin at \cap 1..i
    BY <1>3, <2>1
  <2> HIDE DEF at
  <2>3. /\ Cardinality(at \cap 1..i) <= Cardinality(at \cap 1..j)
        /\ Cardinality(at \cap 1..i) # Cardinality(at \cap 1..j)
    BY <1>2, <2>1, <2>2, FS_Subset
  <2>4. Cardinality(at \cap 1..i) \in Nat /\ Cardinality(at \cap 1..j) \in Nat
    BY <1>1, <1>2, <2>1
  <2> QED
    BY <2>3, <2>4 DEF PlaceOf, at
<1> QED
  BY <1>1, <1>2, <1>3 DEF PlaceOf

\* The place of a step that was kept is a number.
LEMMA PlacesCount ==
    ASSUME NEW S, NEW rungs \in Seq(S), NEW may, NEW e \in KeptOf(rungs, may)
    PROVE  e.place \in Nat
<1>1. PICK k \in KeptAt(rungs, may) : e.place = PlaceOf(rungs, may, k)
  BY DEF KeptOf
<1>2. k \in DOMAIN rungs
  BY <1>1 DEF KeptAt
<1> QED
  BY <1>1, <1>2, PlacesGrow

\* A place is that of one rung.
LEMMA PlaceIsOnce ==
    ASSUME NEW S, NEW rungs \in Seq(S), NEW may,
           NEW x \in KeptOf(rungs, may), NEW y \in KeptOf(rungs, may), x.place = y.place
    PROVE  x = y
<1>1. PICK i \in KeptAt(rungs, may) :
         x = [place |-> PlaceOf(rungs, may, i), rung |-> rungs[i]]
  BY DEF KeptOf
<1>2. PICK j \in KeptAt(rungs, may) :
         y = [place |-> PlaceOf(rungs, may, j), rung |-> rungs[j]]
  BY DEF KeptOf
<1>3. PlaceOf(rungs, may, i) = PlaceOf(rungs, may, j)
  BY <1>1, <1>2
<1>4. i \in DOMAIN rungs /\ j \in DOMAIN rungs /\ i \in Nat /\ j \in Nat
  BY LenProperties DEF KeptAt
<1>5. ~(i < j) /\ ~(j < i)
  BY <1>3, <1>4, PlacesGrow
<1> QED
  BY <1>1, <1>2, <1>4, <1>5

\* Where nothing that a narrower set prunes comes before a rung, its place is the same.
LEMMA PlaceIsSame ==
    ASSUME NEW rungs, NEW wide, NEW narrow, narrow \subseteq wide,
           NEW j \in KeptAt(rungs, wide),
           \A i \in KeptAt(rungs, wide) : i <= j => rungs[i] \in narrow \cup Names,
           DOMAIN rungs \subseteq Nat
    PROVE  [place |-> PlaceOf(rungs, wide, j), rung |-> rungs[j]] \in KeptOf(rungs, narrow)
<1>1. j \in DOMAIN rungs /\ j \in Nat /\ j \in KeptAt(rungs, narrow)
  BY DEF KeptAt
<1>2. KeptAt(rungs, wide) \cap 1..j = KeptAt(rungs, narrow) \cap 1..j
  BY <1>1 DEF KeptAt
<1> QED
  BY <1>1, <1>2 DEF PlaceOf, KeptOf

\* What a plan may be made of.
LEMMA ConfTypes ==
    ASSUME NEW c \in Conf
    PROVE  /\ c.root \in Seq(Registry \cup Names)
           /\ \A n \in Names : c.trees[n] \in Seq(Registry)
           /\ c.trees \in [Names -> Bodies]
BY IdentityAssumption DEF IdentityAssumption, Conf

\* The leaves of a plan, one by one.
LEMMA LeafOfPlan ==
    ASSUME NEW plan, NEW s
    PROVE  s \in StepsOf(plan) <=>
              \E x \in plan.root :
                 \/ x.rung \notin Names /\ s = [place |-> <<x.place, 0>>, backend |-> x.rung]
                 \/ /\ x.rung \in Names
                    /\ \E e \in plan.trees[x.rung] :
                          s = [place |-> <<x.place, e.place>>, backend |-> e.rung]
BY DEF StepsOf, OwnLeaves, UsedLeaves

\* A plan reaches only what its strategy names and it was compiled for.
LEMMA PlanIsWithin ==
    ASSUME NEW c \in Conf, NEW allow \in SUBSET Registry, NEW s \in StepsOf(Compiled(c, allow))
    PROVE  s.backend \in NamedBy(c) \cap allow
<1> DEFINE plan == Compiled(c, allow)
<1>1. plan.root = KeptOf(c.root, allow) /\ \A n \in Names : plan.trees[n] = KeptOf(c.trees[n], allow)
  BY DEF Compiled
<1> HIDE DEF plan
<1>2. PICK x \in plan.root :
         \/ x.rung \notin Names /\ s = [place |-> <<x.place, 0>>, backend |-> x.rung]
         \/ /\ x.rung \in Names
            /\ \E e \in plan.trees[x.rung] :
                  s = [place |-> <<x.place, e.place>>, backend |-> e.rung]
  BY LeafOfPlan DEF plan
<1>3. PICK i \in KeptAt(c.root, allow) : x.rung = c.root[i]
  BY <1>1, <1>2 DEF KeptOf
<1>4. i \in DOMAIN c.root /\ c.root[i] \in allow \cup Names
  BY <1>3 DEF KeptAt
<1>5. CASE x.rung \notin Names
  <2>1. s.backend = c.root[i] /\ c.root[i] \in allow
    BY <1>2, <1>3, <1>4, <1>5
  <2> QED
    BY <1>4, <2>1 DEF NamedBy
<1>6. CASE x.rung \in Names
  <2>0. PICK e \in plan.trees[x.rung] : s = [place |-> <<x.place, e.place>>, backend |-> e.rung]
    BY <1>2, <1>6
  <2>1. e \in KeptOf(c.trees[x.rung], allow) /\ s.backend = e.rung
    BY <1>1, <1>6, <2>0
  <2>2. PICK k \in KeptAt(c.trees[x.rung], allow) : e.rung = c.trees[x.rung][k]
    BY <2>1 DEF KeptOf
  <2>3. c.trees[x.rung] \in Seq(Registry) /\ k \in DOMAIN c.trees[x.rung]
    BY <1>6, <2>2, ConfTypes DEF KeptAt
  <2>4. c.trees[x.rung][k] \in Registry
    BY <2>3, LenProperties, ElementOfSeq
  <2>5. s.backend \in allow
    BY <2>1, <2>2, <2>4, IdentityAssumption DEF KeptAt, IdentityAssumption
  <2>6. s.backend \in NamedBy(c)
    <3>1. c.root[i] \in Names /\ s.backend = c.trees[c.root[i]][k] /\ k \in DOMAIN c.trees[c.root[i]]
      BY <1>3, <1>6, <2>1, <2>2, <2>3
    <3>2. s.backend \in Registry
      BY <2>1, <2>2, <2>4
    <3> QED
      BY <1>4, <3>1, <3>2 DEF NamedBy
  <2> QED
    BY <2>5, <2>6
<1> QED
  BY <1>5, <1>6

\* A leaf the walk may take is one the strategy named and the caller allowed, and stands
\* where a process pruned for the caller has it: nothing that its caller may not reach
\* was passed before it.
LEMMA NextStands ==
    ASSUME IdentityTypeOK, HeaderInv, WalkInv, NEW s, IsNext(s), Permitted(s)
    PROVE  /\ StandsAt(s.place, s.backend, process.conf.trees)
           /\ s.backend \in NamedBy(original) \cap caller
           /\ GateOpens(s) => process.conf.digest[s.backend] = original.digest[s.backend]
<1> DEFINE by == process.conf
           plan == process.plan
<1>1. by \in Conf /\ original \in Conf /\ caller \subseteq Registry
  <2>1. caller \subseteq Registry
    BY IdentityAssumption DEF IdentityAssumption, IdentityTypeOK
  <2> QED
    BY <2>1 DEF IsNext, WalkInv, IdentityTypeOK
<1>2. /\ identity = HeaderOf(original, Compiled(original, caller))
      /\ plan.root = KeptOf(original.root, caller) /\ s \in StepsOf(plan)
      /\ identity.pinned = Described(original, Dispatchable(Compiled(original, caller)))
  <2>1. identity.is = "whole" /\ plan.root = identity.plan /\ s \in StepsOf(plan)
    BY DEF IsNext, WalkInv
  <2> QED
    BY <2>1 DEF HeaderInv, HeaderOf, PlanHash, Compiled
<1>3. /\ DOMAIN identity.pinned \subseteq NamedBy(original) \cap caller
      /\ \A b \in DOMAIN identity.pinned : identity.pinned[b] = original.digest[b]
  <2>1. Dispatchable(Compiled(original, caller)) \subseteq NamedBy(original) \cap caller
    BY <1>1, PlanIsWithin DEF Dispatchable
  <2> QED
    BY <1>2, <2>1 DEF Described
<1>4. \/ by = original /\ plan = Compiled(original, caller)
      \/ /\ plan = Compiled(by, Registry)
         /\ process.allow = DOMAIN identity.pinned /\ process.pinned = identity.pinned
  BY DEF IsNext, WalkInv
<1>5. /\ s.backend \in NamedBy(original) \cap caller
      /\ GateOpens(s) => by.digest[s.backend] = original.digest[s.backend]
  <2>1. CASE by = original /\ plan = Compiled(original, caller)
    <3>1. s.backend \in NamedBy(original) \cap caller
      BY <1>1, <1>2, <2>1, PlanIsWithin
    <3> QED
      BY <2>1, <3>1
  <2>2. CASE process.allow = DOMAIN identity.pinned /\ process.pinned = identity.pinned
    BY <1>3, <2>2 DEF Permitted, GateOpens
  <2> QED
    BY <1>4, <2>1, <2>2
<1>6. PICK x \in plan.root :
         \/ x.rung \notin Names /\ s = [place |-> <<x.place, 0>>, backend |-> x.rung]
         \/ /\ x.rung \in Names
            /\ \E e \in plan.trees[x.rung] :
                  s = [place |-> <<x.place, e.place>>, backend |-> e.rung]
  BY <1>2, LeafOfPlan
<1>7. CASE x.rung \notin Names
  BY <1>2, <1>5, <1>6, <1>7 DEF StandsAt
<1>8. CASE x.rung \in Names
  <2> DEFINE n == x.rung
             rungs == by.trees[n]
  <2>1. PICK e \in plan.trees[n] : s = [place |-> <<x.place, e.place>>, backend |-> e.rung]
    BY <1>6, <1>8
  <2>2. rungs \in Seq(Registry) /\ DOMAIN rungs = 1..Len(rungs) /\ DOMAIN rungs \subseteq Nat
    <3>1. rungs \in Seq(Registry)
      BY <1>1, <1>8, ConfTypes
    <3> QED
      BY <3>1, LenProperties
  <2>3. [place |-> e.place, rung |-> e.rung] \in KeptOf(rungs, caller)
    <3>1. CASE by = original /\ plan = Compiled(original, caller)
      <4>1. e \in KeptOf(rungs, caller)
        BY <1>1, <1>8, <2>1, <3>1 DEF Compiled
      <4>2. e = [place |-> e.place, rung |-> e.rung]
        BY <4>1 DEF KeptOf
      <4> QED
        BY <4>1, <4>2
    <3>2. CASE plan = Compiled(by, Registry) /\ process.allow = DOMAIN identity.pinned
      <4>1. plan.trees[n] = KeptOf(rungs, Registry)
        BY <1>8, <3>2 DEF Compiled
      <4>2. PICK j \in KeptAt(rungs, Registry) :
              e = [place |-> PlaceOf(rungs, Registry, j), rung |-> rungs[j]]
        BY <2>1, <4>1 DEF KeptOf
      <4>3. ASSUME NEW i \in KeptAt(rungs, Registry), i <= j PROVE rungs[i] \in caller
        <5> DEFINE t == [place |-> <<x.place, PlaceOf(rungs, Registry, i)>>, backend |-> rungs[i]]
        <5>1. CASE i = j
          BY <1>5, <2>1, <4>2, <5>1
        <5>2. CASE i # j
          <6>1. i \in DOMAIN rungs /\ j \in DOMAIN rungs /\ i < j
            BY <2>2, <4>3, <5>2 DEF KeptAt
          <6>2. /\ PlaceOf(rungs, Registry, i) \in Nat /\ PlaceOf(rungs, Registry, j) \in Nat
                /\ PlaceOf(rungs, Registry, i) < PlaceOf(rungs, Registry, j)
            BY <2>2, <6>1, PlacesGrow
          <6>3. t \in StepsOf(plan)
            <7>1. [place |-> PlaceOf(rungs, Registry, i), rung |-> rungs[i]] \in plan.trees[n]
              BY <4>1 DEF KeptOf
            <7> QED
              BY <1>8, <7>1, LeafOfPlan
          <6>4. t # s /\ ~Before(s.place, t.place)
            <7>1. s.place = <<x.place, PlaceOf(rungs, Registry, j)>>
              BY <2>1, <4>2
            <7>2. t.place = <<x.place, PlaceOf(rungs, Registry, i)>>
              OBVIOUS
            <7>3. x.place \in Nat
              <8>1. x \in KeptOf(original.root, caller)
                BY <1>2
              <8>2. original.root \in Seq(Registry \cup Names)
                BY <1>1, ConfTypes
              <8> QED
                BY <8>1, <8>2, PlacesCount
            <7> HIDE DEF t
            <7> QED
              BY <6>2, <7>1, <7>2, <7>3 DEF Before
          <6> HIDE DEF t
          <6>5. t \notin process.left
            BY <6>4 DEF IsNext
          <6>6. Permitted(t)
            BY <6>3, <6>5 DEF IsNext, WalkInv
          <6>7. t.backend = rungs[i]
            BY DEF t
          <6> QED
            BY <1>3, <3>2, <6>6, <6>7 DEF Permitted
        <5> QED
          BY <5>1, <5>2
      <4>4. caller \subseteq Registry
        BY <1>1
      <4> HIDE DEF rungs
      <4>5. [place |-> PlaceOf(rungs, Registry, j), rung |-> rungs[j]] \in KeptOf(rungs, caller)
        BY <2>2, <4>3, <4>4, PlaceIsSame
      <4> QED
        BY <4>2, <4>5
    <3> QED
      BY <1>4, <3>1, <3>2
  <2> QED
    BY <1>2, <1>5, <1>8, <2>1, <2>3 DEF StandsAt
<1> QED
  BY <1>5, <1>7, <1>8

\* The initial state satisfies the invariant.
LEMMA IdentityInitInv == IdentityInit => IdentityInv
<1> SUFFICES ASSUME IdentityInit PROVE IdentityInv
  OBVIOUS
<1> USE DEF IdentityInit
<1>1. IdentityTypeOK
  BY IdentityAssumption DEF IdentityAssumption, IdentityTypeOK, NoHeader, Idle
<1>2. HeaderInv /\ WalkInv /\ RecordInv /\ NothingWiderIsReached
  BY DEF HeaderInv, WalkInv, RecordInv, NothingWiderIsReached, NoHeader, Idle
<1> QED
  BY <1>1, <1>2 DEF IdentityInv

\* An edit gives another configuration.
LEMMA EditedConf == IdentityTypeOK /\ EditConf => conf' \in Conf
<1> SUFFICES ASSUME IdentityTypeOK, EditConf PROVE conf' \in Conf
  OBVIOUS
<1>1. conf \in Conf
  BY DEF IdentityTypeOK
<1>2. ASSUME NEW n \in Names, NEW b \in Bodies, conf' = [conf EXCEPT !.trees[n] = b]
      PROVE  conf' \in Conf
  <2>1. [conf.trees EXCEPT ![n] = b] \in [Names -> Bodies]
    BY <1>1, <1>2 DEF Conf
  <2> QED
    BY <1>1, <1>2, <2>1 DEF Conf
<1>3. ASSUME NEW b \in Registry, conf' = [conf EXCEPT !.digest[b] = 1] PROVE conf' \in Conf
  <2>1. [conf.digest EXCEPT ![b] = 1] \in [Registry -> {0, 1}]
    BY <1>1, <1>3 DEF Conf
  <2> QED
    BY <1>1, <1>3, <2>1 DEF Conf
<1> QED
  BY <1>1, <1>2, <1>3 DEF EditConf, Conf

\* An outcome ends the walk, or the walk goes on without its leaf.
LEMMA WalkGoesOn ==
    ASSUME WalkInv, NEW s \in NextLeaves, NEW outcome, GoesOn(s, outcome)
    PROVE  \/ process' = Idle /\ ending' = "answered"
           \/ /\ process' = [at |-> "walk", plan |-> process.plan, left |-> process.left \ {s},
                             allow |-> process.allow, pinned |-> process.pinned,
                             conf |-> process.conf]
              /\ UNCHANGED ending
<1>1. process.at = "walk"
  BY DEF NextLeaves
<1>2. process = [at |-> "walk", plan |-> process.plan, left |-> process.left,
                 allow |-> process.allow, pinned |-> process.pinned, conf |-> process.conf]
  BY <1>1 DEF WalkInv, Walking
<1>3. CASE outcome = "ok"
  BY <1>3 DEF GoesOn
<1>4. CASE outcome # "ok"
  <2>1. process' = [process EXCEPT !.left = process.left \ {s}] /\ UNCHANGED ending
    BY <1>4 DEF GoesOn
  <2> QED
    BY <1>2, <2>1
<1> QED
  BY <1>3, <1>4

\* Every step keeps the types.
LEMMA IdentityTypeStep ==
    IdentityTypeOK /\ WalkInv /\ [IdentityNext]_identityVars => IdentityTypeOK'
<1> SUFFICES ASSUME IdentityTypeOK, WalkInv, [IdentityNext]_identityVars
             PROVE  IdentityTypeOK'
  OBVIOUS
<1> USE IdentityAssumption DEF IdentityAssumption, IdentityTypeOK
<1>1. CASE StartRun
  BY <1>1 DEF StartRun
<1>2. CASE ArmRun
  BY <1>2 DEF ArmRun, HeaderOf, Walking
<1>3. CASE KillRun
  BY <1>3 DEF KillRun, Idle, NoHeader
<1>4. CASE RefuseLeaf \/ ExhaustRun
  BY <1>4 DEF RefuseLeaf, ExhaustRun, EndsBy, Idle
<1>5. CASE ReplayLeaf \/ CallLeaf
  <2>1. PICK s \in NextLeaves : \E outcome : GoesOn(s, outcome)
    BY <1>5 DEF ReplayLeaf, CallLeaf
  <2>2. process.at = "walk"
    BY <2>1 DEF NextLeaves
  <2>3. UNCHANGED <<conf, original, caller, retained, identity, changes, runs>>
    BY <1>5 DEF ReplayLeaf, CallLeaf
  <2>4. /\ process'.at \in {"none", "walk"} /\ (process'.at # "none" => process'.conf = process.conf)
        /\ ending' \in {"answered", ending}
    <3>1. PICK outcome : GoesOn(s, outcome)
      BY <2>1
    <3> QED
      BY <3>1, WalkGoesOn DEF Idle
  <2> QED
    BY <2>2, <2>3, <2>4
<1>6. CASE ResumeRun
  BY <1>6 DEF ResumeRun, Walking
<1>7. CASE EditConf
  BY <1>7, EditedConf DEF EditConf
<1>8. CASE UNCHANGED identityVars
  BY <1>8 DEF identityVars
<1> QED
  BY <1>1, <1>2, <1>3, <1>4, <1>5, <1>6, <1>7, <1>8 DEF IdentityNext

\* Every step keeps the header that of the configuration the run was armed with.
LEMMA HeaderStep == IdentityTypeOK /\ HeaderInv /\ WalkInv /\ [IdentityNext]_identityVars => HeaderInv'
<1> SUFFICES ASSUME IdentityTypeOK, HeaderInv, WalkInv, [IdentityNext]_identityVars
             PROVE  HeaderInv'
  OBVIOUS
<1> USE DEF IdentityTypeOK, HeaderInv
<1>1. CASE StartRun
  BY <1>1 DEF StartRun
<1>2. CASE ArmRun
  <2>1. /\ identity' = HeaderOf(process.conf, process.plan) /\ process'.at = "walk"
        /\ process.plan = Compiled(process.conf, caller) /\ original' = process.conf
        /\ UNCHANGED <<caller, runs>> /\ runs # 0
    BY <1>2 DEF ArmRun, Walking
  <2>2. identity'.is = "whole"
    BY <2>1 DEF HeaderOf
  <2> QED
    BY <2>1, <2>2 DEF Compiled
<1>3. CASE KillRun
  <2>1. CASE process.at = "arming"
    BY <1>3, <2>1 DEF KillRun, Idle, NoHeader
  <2>2. CASE process.at # "arming"
    BY <1>3, <2>2 DEF KillRun, Idle
  <2> QED
    BY <2>1, <2>2
<1>4. CASE RefuseLeaf \/ ExhaustRun
  BY <1>4 DEF RefuseLeaf, ExhaustRun, EndsBy, Idle
<1>5. CASE ReplayLeaf \/ CallLeaf
  <2>1. PICK s \in NextLeaves : \E outcome : GoesOn(s, outcome)
    BY <1>5 DEF ReplayLeaf, CallLeaf
  <2>2. process.at = "walk" /\ identity.is = "whole" /\ runs # 0
    BY <2>1 DEF NextLeaves, WalkInv
  <2>3. process'.at \in {"none", "walk"}
    <3>1. PICK outcome : GoesOn(s, outcome)
      BY <2>1
    <3> QED
      BY <3>1, WalkGoesOn DEF Idle
  <2>4. UNCHANGED <<original, caller, identity, runs>>
    BY <1>5 DEF ReplayLeaf, CallLeaf
  <2> QED
    BY <2>2, <2>3, <2>4
<1>6. CASE ResumeRun
  <2>1. UNCHANGED <<original, caller, identity, outcomes, reached>> /\ runs' # 0
    BY <1>6 DEF ResumeRun
  <2>2. process'.at = "walk" \/ process' = process
    BY <1>6 DEF ResumeRun, Walking
  <2>3. process'.at # "arming"
    BY <1>6, <2>2 DEF ResumeRun, Idle
  <2> QED
    BY <2>1, <2>3
<1>7. CASE EditConf
  BY <1>7 DEF EditConf
<1>8. CASE UNCHANGED identityVars
  BY <1>8 DEF identityVars
<1> QED
  BY <1>1, <1>2, <1>3, <1>4, <1>5, <1>6, <1>7, <1>8 DEF IdentityNext

\* Every step keeps what is known of a walk.
LEMMA WalkStep ==
    IdentityTypeOK /\ HeaderInv /\ WalkInv /\ [IdentityNext]_identityVars => WalkInv'
<1> SUFFICES ASSUME IdentityTypeOK, HeaderInv, WalkInv, [IdentityNext]_identityVars,
                    process'.at = "walk"
             PROVE  WalkInv'
  BY DEF WalkInv
<1>1. CASE StartRun
  BY <1>1 DEF StartRun, HeaderInv
<1>2. CASE ArmRun
  <2> DEFINE plan == process.plan
             by == process.conf
  <2>1. /\ identity' = HeaderOf(by, plan) /\ original' = by /\ UNCHANGED caller
        /\ process' = Walking(plan, caller, Described(by, {}), by) /\ plan = Compiled(by, caller)
    BY <1>2 DEF ArmRun, HeaderInv
  <2> HIDE DEF plan, by
  <2>2. /\ process'.plan = plan /\ process'.conf = by /\ process'.left = StepsOf(plan)
        /\ process' = [Walking(plan, process'.allow, process'.pinned, by)
                          EXCEPT !.left = StepsOf(plan)]
    BY <2>1 DEF Walking
  <2>3. identity'.is = "whole" /\ identity'.plan = plan.root
    BY <2>1 DEF HeaderOf, PlanHash
  <2> QED
    BY <2>1, <2>2, <2>3 DEF WalkInv
<1>3. CASE KillRun \/ RefuseLeaf \/ ExhaustRun
  BY <1>3 DEF KillRun, RefuseLeaf, ExhaustRun, EndsBy, Idle
<1>4. CASE ReplayLeaf \/ CallLeaf
  <2>1. PICK s \in NextLeaves : Permitted(s) /\ \E outcome : GoesOn(s, outcome)
    BY <1>4 DEF ReplayLeaf, CallLeaf
  <2>2. PICK outcome : GoesOn(s, outcome)
    BY <2>1
  <2>3. UNCHANGED <<original, caller, identity>> /\ process.at = "walk"
    BY <1>4, <2>1 DEF ReplayLeaf, CallLeaf, NextLeaves
  <2>4. process' = [at |-> "walk", plan |-> process.plan, left |-> process.left \ {s},
                    allow |-> process.allow, pinned |-> process.pinned, conf |-> process.conf]
    BY <2>2, WalkGoesOn DEF Idle
  <2>5. /\ process'.plan = process.plan /\ process'.allow = process.allow
        /\ process'.pinned = process.pinned
        /\ process'.conf = process.conf /\ process'.left = process.left \ {s}
        /\ process' = [Walking(process'.plan, process'.allow, process'.pinned, process'.conf)
                          EXCEPT !.left = process'.left]
    BY <2>4 DEF Walking
  <2>6. \A t \in StepsOf(process.plan) : t \in process.left \ {s} \/ Permitted(t)
    BY <2>1, <2>3 DEF WalkInv
  <2> QED
    BY <2>3, <2>5, <2>6 DEF WalkInv, Permitted
<1>5. CASE ResumeRun
  <2> DEFINE plan == Compiled(conf, Registry)
  <2>1. UNCHANGED <<original, caller, identity>> /\ process = Idle
    BY <1>5 DEF ResumeRun
  <2>2. process' # process
    BY <2>1 DEF Idle
  <2>3. /\ process' = Walking(plan, DOMAIN identity.pinned, identity.pinned, conf)
        /\ identity.is \notin {"none", "torn"} /\ identity.plan = PlanHash(plan)
    BY <1>5, <2>2 DEF ResumeRun, Allowlist
  <2>4. identity.is = "whole"
    BY <2>3 DEF IdentityTypeOK
  <2> HIDE DEF plan
  <2>5. /\ process'.plan = plan /\ process'.conf = conf /\ process'.left = StepsOf(plan)
        /\ process'.allow = DOMAIN identity.pinned /\ process'.pinned = identity.pinned
        /\ process' = [Walking(plan, process'.allow, process'.pinned, conf)
                          EXCEPT !.left = StepsOf(plan)]
    BY <2>3 DEF Walking
  <2> QED
    BY <2>1, <2>3, <2>4, <2>5 DEF WalkInv, PlanHash, plan
<1>6. CASE EditConf
  BY <1>6 DEF EditConf, WalkInv, Permitted
<1>7. CASE UNCHANGED identityVars
  BY <1>7 DEF identityVars, WalkInv, Permitted
<1> QED
  BY <1>1, <1>2, <1>3, <1>4, <1>5, <1>6, <1>7 DEF IdentityNext

\* Every step keeps the records about the leaves at their places, and what was reached
\* within what the run was armed with.
LEMMA ReachStep ==
    IdentityInv /\ [IdentityNext]_identityVars => RecordInv' /\ NothingWiderIsReached'
<1> SUFFICES ASSUME IdentityInv, [IdentityNext]_identityVars
             PROVE  RecordInv' /\ NothingWiderIsReached'
  OBVIOUS
<1> USE DEF IdentityInv, RecordInv, NothingWiderIsReached
<1>1. CASE CallLeaf
  <2>1. PICK s \in NextLeaves, outcome \in {"ok", "failed", "skipped"} :
          /\ Permitted(s)
          /\ outcomes' = outcomes \cup {[place |-> s.place, backend |-> s.backend,
                                         outcome |-> outcome, trees |-> process.conf.trees]}
          /\ \/ reached' = reached
             \/ /\ GateOpens(s)
                /\ reached' = reached \cup {<<s.backend, process.conf.digest[s.backend]>>}
    BY <1>1 DEF CallLeaf
  <2>2. UNCHANGED <<caller, original>>
    BY <1>1 DEF CallLeaf
  <2>3. IsNext(s)
    BY <2>1 DEF NextLeaves
  <2>4. /\ StandsAt(s.place, s.backend, process.conf.trees)
        /\ s.backend \in NamedBy(original) \cap caller
        /\ GateOpens(s) => process.conf.digest[s.backend] = original.digest[s.backend]
    BY <2>1, <2>3, NextStands
  <2>5. NothingWiderIsReached'
    BY <2>1, <2>2, <2>3, <2>4
  <2>6. \A r \in outcomes' : StandsAt(r.place, r.backend, r.trees)
    BY <2>1, <2>4
  <2> QED
    BY <2>2, <2>5, <2>6 DEF StandsAt
<1>2. CASE ArmRun
  <2>1. outcomes = {} /\ reached = {} /\ UNCHANGED <<outcomes, reached>>
    BY <1>2 DEF ArmRun, HeaderInv
  <2> QED
    BY <2>1
<1>3. CASE ~CallLeaf /\ ~ArmRun
  <2>1. UNCHANGED <<caller, original, outcomes, reached>>
    BY <1>3 DEF IdentityNext, StartRun, KillRun, RefuseLeaf, ExhaustRun, EndsBy, ReplayLeaf,
                ResumeRun, EditConf, identityVars
  <2> QED
    BY <2>1 DEF StandsAt
<1> QED
  BY <1>1, <1>2, <1>3

\* The inductive invariant of a run and its resumes.
THEOREM IdentityTypeCorrect == IdentitySpec => []IdentityInv
<1>1. IdentityInv /\ [IdentityNext]_identityVars => IdentityInv'
  BY IdentityTypeStep, HeaderStep, WalkStep, ReachStep DEF IdentityInv
<1> QED
  BY IdentityInitInv, <1>1, PTL DEF IdentitySpec

\* A run reaches, in all its processes, only what its strategy named and its caller
\* allowed when it was armed, and that as it was described then.
THEOREM NothingWiderIsEverReached == IdentitySpec => []NothingWiderIsReached
<1>1. IdentityInv => NothingWiderIsReached
  BY DEF IdentityInv
<1> QED
  BY IdentityTypeCorrect, <1>1, PTL

\* One leaf stands at a place among the same named strategies.
LEMMA StandsOnce ==
    ASSUME original \in Conf, NEW place, NEW a, NEW b, NEW trees \in [Names -> Bodies],
           StandsAt(place, a, trees), StandsAt(place, b, trees)
    PROVE  a = b
<1>1. PICK x \in KeptOf(original.root, caller) :
        /\ x.place = place[1]
        /\ IF x.rung \in Names
           THEN [place |-> place[2], rung |-> a] \in KeptOf(trees[x.rung], caller)
           ELSE a = x.rung
  BY DEF StandsAt
<1>2. PICK y \in KeptOf(original.root, caller) :
        /\ y.place = place[1]
        /\ IF y.rung \in Names
           THEN [place |-> place[2], rung |-> b] \in KeptOf(trees[y.rung], caller)
           ELSE b = y.rung
  BY DEF StandsAt
<1>3. original.root \in Seq(Registry \cup Names)
  BY ConfTypes
<1>4. x = y
  BY <1>1, <1>2, <1>3, PlaceIsOnce
<1>5. CASE x.rung \in Names
  <2>1. trees[x.rung] \in Seq(Registry)
    BY <1>5, IdentityAssumption DEF IdentityAssumption
  <2>2. [place |-> place[2], rung |-> a] = [place |-> place[2], rung |-> b]
    <3> DEFINE p == [place |-> place[2], rung |-> a]
               q == [place |-> place[2], rung |-> b]
    <3>1. p \in KeptOf(trees[x.rung], caller) /\ q \in KeptOf(trees[x.rung], caller) /\ p.place = q.place
      BY <1>1, <1>2, <1>4, <1>5
    <3> HIDE DEF p, q
    <3>2. p = q
      BY <2>1, <3>1, PlaceIsOnce
    <3> QED
      BY <3>2 DEF p, q
  <2> QED
    BY <2>2
<1> QED
  BY <1>1, <1>2, <1>4, <1>5

\* As long as the strategies reached by `use:` are what they were, an outcome is replayed
\* for the backend that had it.
THEOREM ReplaysAreTheirOwn == IdentitySpec => []ReplaysAreOwn
<1>1. IdentityInv => ReplaysAreOwn
  <2> SUFFICES ASSUME IdentityInv, NEW s \in NextLeaves, NEW r \in Mistaken(s),
                      r.trees = process.conf.trees
               PROVE  FALSE
    BY DEF ReplaysAreOwn
  <2>1. /\ r \in outcomes /\ r.place = s.place /\ Permitted(s) /\ r.backend # s.backend
    BY DEF Mistaken, RecordsAt
  <2>2. IsNext(s) /\ original \in Conf /\ process.conf \in Conf
    BY DEF NextLeaves, IdentityInv, IdentityTypeOK, IsNext
  <2>3. StandsAt(s.place, s.backend, process.conf.trees)
    BY <2>1, <2>2, NextStands DEF IdentityInv
  <2>4. StandsAt(s.place, r.backend, process.conf.trees)
    BY <2>1 DEF IdentityInv, RecordInv
  <2>5. process.conf.trees \in [Names -> Bodies]
    BY <2>2, ConfTypes
  <2> QED
    BY <2>1, <2>2, <2>3, <2>4, <2>5, StandsOnce
<1> QED
  BY IdentityTypeCorrect, <1>1, PTL
=============================================================================
