-------------------------- MODULE WarmWorkerProofs --------------------------
(***************************************************************************)
(* Proofs about the warm parser worker, for any number of generations,     *)
(* jobs, pages and mishaps.                                                *)
(*                                                                         *)
(* What a run accepts was completed, for every line there is to read is of *)
(* a job given so far, and says ok of the last one only if that was        *)
(* completed (LinesInv); a worker does no job that was not given (CallInv). *)
(* A generation that is not the current one was never started, or is gone  *)
(* with its child, or could not be killed (NoOrphans); it is inductive with *)
(* what CallInv says of the current one.  And the token of the idle timer  *)
(* is the last job's, so that a timer which stops a worker was armed by    *)
(* nobody else.                                                            *)
(***************************************************************************)
EXTENDS WarmWorker, TLAPS

\* The type invariant but for the lines.
ScalarsOK ==
    /\ call \in {"free", "begun", "reading"}
    /\ job \in Runs \cup {NoJob} /\ token \in Runs \cup {NoJob}
    /\ parsing \in Stages \cup {0} /\ pages \in Pages \cup {0}
    /\ gen \in Gens \cup {0}
    /\ leader \in [Gens -> {"unborn", "ready", "busy", "gone"}]
    /\ child \subseteq Gens /\ open \subseteq Gens /\ refused \subseteq Gens
    /\ stdin \in [Gens -> Runs \cup {NoJob}] /\ doing \in [Gens -> Runs \cup {NoJob}]
    /\ step \in [Gens -> Stages \cup {0}]
    /\ timer \in [Runs -> {"off", "armed", "fired"}]
    /\ completed \subseteq Runs /\ accepted \subseteq Runs
    /\ mishaps \in 0..MaxMishaps

\* A run has a generation that was started and a job; no worker has a later job than
\* the last one given; the idle timer's token is that job's.
CallInv ==
    /\ call # "free" => gen # 0 /\ job # NoJob
    /\ gen # 0 => leader[gen] # "unborn"
    /\ token = NoJob \/ token = job
    /\ \A g \in Gens : /\ stdin[g] <= job /\ doing[g] <= job
                       /\ leader[g] = "busy" => doing[g] # NoJob

\* A line is of a job given so far, and an ok of the last one is true.
LineOK(l) ==
    /\ l.id <= job
    /\ l.says = "stage" => l.n \in Stages
    /\ l.says = "pages" => l.n \in Pages
    /\ l.says = "ok" /\ l.id = job => job \in completed

LinesInv ==
    /\ pipe \in [Gens -> Seq(Lines)] /\ pending \in Seq(Lines)
    /\ \A g \in Gens : \A k \in DOMAIN pipe[g] : LineOK(pipe[g][k])
    /\ \A k \in DOMAIN pending : LineOK(pending[k])

WorkerInv == WorkerTypeOK /\ CallInv /\ LinesInv /\ AcceptedIsCompleted /\ NoOrphans

\* The invariant holds at the start.
LEMMA WorkerInitInv == WorkerInit => WorkerInv
<1> SUFFICES ASSUME WorkerInit PROVE WorkerInv
  OBVIOUS
<1> USE WorkerAssumption DEF WorkerInit
<1>1. ScalarsOK
  BY DEF ScalarsOK, Runs, Gens, Pages, Stages, NoJob
<1>2. CallInv /\ LinesInv
  BY DEF CallInv, LinesInv, NoJob
<1>3. AcceptedIsCompleted /\ NoOrphans
  BY DEF AcceptedIsCompleted, NoOrphans
<1>4. WorkerTypeOK
  BY <1>1, <1>2 DEF ScalarsOK, LinesInv, WorkerTypeOK
<1> QED
  BY <1>2, <1>3, <1>4 DEF WorkerInv

\* The invariant, with the types in two halves.
LEMMA TypeHalves ==
  /\ WorkerTypeOK => ScalarsOK
  /\ ScalarsOK /\ LinesInv => WorkerTypeOK
BY DEF WorkerTypeOK, ScalarsOK, LinesInv

\* A generation is stopped, and nobody calls: what a failure, an idle timer and a close
\* have in common.
Halting ==
    /\ \E killed \in BOOLEAN : StopGeneration(killed)
    /\ call' = "free" /\ UNCHANGED <<job, completed, accepted>>
    /\ pending' \in {pending, <<>>} /\ parsing' \in {parsing, 0} /\ pages' \in {pages, 0}
    /\ timer' \in [Runs -> {"off", "armed", "fired"}]

\* A failure stops the worker's generation and ends the call.
LEMMA FailHalts == ScalarsOK /\ Fail => Halting
BY DEF ScalarsOK, Fail, Stop, Leave, Halting, Disarmed

\* Closing the worker stops its generation and touches no call.
LEMMA CloseHalts == ScalarsOK /\ Close => Halting
BY DEF ScalarsOK, Close, Stop, Halting, Disarmed, callVars

\* An idle timer that finds nothing done since it was armed stops the worker's generation.
LEMMA IdleHalts ==
  ASSUME ScalarsOK, NEW r \in Runs, Idle(r), IdlesSince(r)
  PROVE  Halting
BY DEF ScalarsOK, Idle, Halting, callVars

\* What can become of a line that was read: progress of the run; its end, on a line that
\* is true; or its failure.
LEMMA HandleCases ==
  ASSUME ScalarsOK, CallInv, LinesInv, Handle
  PROVE  \/ /\ pending # <<>> /\ pending' = Tail(pending)
            /\ parsing' \in Stages \cup {0} /\ pages' \in Pages \cup {0}
            /\ UNCHANGED <<call, job, procVars, gen, token, timer, completed, accepted,
                           refused, mishaps>>
         \/ /\ job \in Runs /\ token' = job /\ timer' = [timer EXCEPT ![job] = "armed"]
            /\ Leave
            /\ accepted' = accepted \/ (accepted' = accepted \cup {job} /\ job \in completed)
            /\ UNCHANGED <<procVars, gen, completed, refused, mishaps>>
         \/ Fail
<1> DEFINE l == Head(pending)
<1>1. pending \in Seq(Lines) /\ pending # <<>> /\ call = "reading"
  BY DEF LinesInv, Handle
<1>2. l = pending[1] /\ 1 \in DOMAIN pending
  BY <1>1
<1>3. LineOK(l)
  BY <1>2 DEF LinesInv
<1>4. job \in Runs
  BY <1>1 DEF CallInv, ScalarsOK
<1>5. \/ Own(l) /\ (GrowingStage(l) \/ GrowingPages(l)) /\ pending' = Tail(pending)
         /\ parsing' = (IF l.says = "stage" THEN l.n ELSE parsing)
         /\ pages' = (IF l.says = "pages" THEN l.n ELSE pages)
         /\ UNCHANGED <<call, job, procVars, gen, token, timer, completed, accepted,
                        refused, mishaps>>
      \/ Own(l) /\ Final(l, "ok") /\ Kept("ok")
      \/ Kept("rejected")
      \/ Fail
  BY DEF Handle
<1> HIDE DEF l
<1>6. CASE Own(l) /\ Final(l, "ok") /\ Kept("ok")
  <2>1. job \in completed
    BY <1>3, <1>6 DEF LineOK, Own, Final
  <2> QED
    BY <1>4, <1>6, <2>1 DEF Kept, ArmIdle
<1>7. CASE Kept("rejected")
  BY <1>4, <1>7 DEF Kept, ArmIdle
<1>8. CASE /\ pending' = Tail(pending)
           /\ parsing' = (IF l.says = "stage" THEN l.n ELSE parsing)
           /\ pages' = (IF l.says = "pages" THEN l.n ELSE pages)
           /\ UNCHANGED <<call, job, procVars, gen, token, timer, completed, accepted,
                          refused, mishaps>>
  <2>1. parsing' \in Stages \cup {0} /\ pages' \in Pages \cup {0}
    BY <1>3, <1>8 DEF LineOK, ScalarsOK
  <2> QED
    BY <1>1, <1>8, <2>1
<1> QED
  BY <1>5, <1>6, <1>7, <1>8

\* Each step keeps the types but those of the lines.
LEMMA ScalarsStep ==
  ScalarsOK /\ CallInv /\ LinesInv /\ [WorkerNext]_workerVars => ScalarsOK'
<1> SUFFICES ASSUME ScalarsOK, CallInv, LinesInv, [WorkerNext]_workerVars PROVE ScalarsOK'
  OBVIOUS
<1> USE WorkerAssumption DEF ScalarsOK, Runs, Gens, Pages, Stages, NoJob, Conversion, callVars, procVars
<1>1. ASSUME Halting PROVE ScalarsOK'
  <2>1. ASSUME NEW killed \in BOOLEAN, StopGeneration(killed)
        PROVE  /\ leader' \in [Gens -> {"unborn", "ready", "busy", "gone"}]
               /\ child' \subseteq Gens /\ open' \subseteq Gens /\ refused' \subseteq Gens
               /\ stdin' \in [Gens -> Runs \cup {NoJob}] /\ doing' \in [Gens -> Runs \cup {NoJob}]
               /\ step' \in [Gens -> Stages \cup {0}]
               /\ mishaps' \in 0..MaxMishaps
    <3>1. CASE gen = 0
      BY <2>1, <3>1 DEF StopGeneration
    <3>2. CASE gen # 0 /\ KillsGroup(gen) /\ open' = open \ {gen}
      BY <3>2 DEF KillsGroup, Ends
    <3>3. CASE gen # 0 /\ IsRefused(gen) /\ open' = open \ {gen}
      BY <3>3 DEF IsRefused
    <3> QED
      BY <2>1, <3>1, <3>2, <3>3 DEF StopGeneration
  <2>2. token' = NoJob /\ gen' = 0
    BY <1>1 DEF Halting, StopGeneration
  <2>3. /\ call' = "free" /\ job' = job /\ completed' = completed /\ accepted' = accepted
        /\ parsing' \in {parsing, 0} /\ pages' \in {pages, 0}
        /\ timer' \in [Runs -> {"off", "armed", "fired"}]
    BY <1>1 DEF Halting
  <2> QED
    BY <1>1, <2>1, <2>2, <2>3 DEF Halting
<1>2. ASSUME Fail PROVE ScalarsOK'
  BY <1>1, <1>2, FailHalts
<1>3. CASE Begin
  <2>1. /\ call' = "begun" /\ job' \in Runs /\ token' = NoJob /\ parsing' = 0 /\ pages' = 0
        /\ stdin' = stdin /\ doing' = doing /\ step' = step /\ completed' = completed
        /\ accepted' = accepted /\ mishaps' = mishaps /\ refused' = refused
    BY <1>3 DEF Begin
  <2>2. timer' \in [Runs -> {"off", "armed", "fired"}]
    BY <1>3 DEF Begin, Disarmed
  <2>3. /\ gen' \in Gens \cup {0} /\ leader' \in [Gens -> {"unborn", "ready", "busy", "gone"}]
        /\ child' \subseteq Gens /\ open' \subseteq Gens
    <3>1. CASE gen # 0 /\ IsAlive(gen)
      BY <1>3, <3>1 DEF Begin
    <3>2. CASE ~(gen # 0 /\ IsAlive(gen))
      <4>1. PICK g \in Gens : /\ gen' = g /\ leader' = [leader EXCEPT ![g] = "ready"]
                             /\ child' = child \ {gen} /\ open' = (open \ {gen}) \cup {g}
        BY <1>3, <3>2 DEF Begin
      <4> QED
        BY <4>1
    <3> QED
      BY <3>1, <3>2
  <2> QED
    BY <2>1, <2>2, <2>3
<1>4. CASE Send
  BY <1>4, <1>2 DEF Send
<1>5. CASE Read
  BY <1>5, <1>2, Zenon DEF Read
<1>6. CASE Handle
  BY <1>6, <1>2, HandleCases DEF Leave
<1>7. ASSUME NEW r \in Runs, Fire(r) PROVE ScalarsOK'
  BY <1>7 DEF Fire
<1>8. ASSUME NEW r \in Runs, Idle(r) PROVE ScalarsOK'
  BY <1>8, <1>1, IdleHalts DEF Idle, IdlesSince
<1>9. CASE Stray
  BY <1>9 DEF Stray, Tell, Line, IsAlive
<1>10. ASSUME NEW g \in Gens, Crash(g) PROVE ScalarsOK'
  BY <1>10 DEF Crash, Ends, IsAlive
<1>11. ASSUME NEW g \in Gens, TakesJob(g) PROVE ScalarsOK'
  BY <1>11 DEF TakesJob, Works
<1>12. ASSUME NEW g \in Gens, Returns(g) PROVE ScalarsOK'
  BY <1>12 DEF Returns, Works, Ends
<1>13. ASSUME NEW g \in Gens, Stage(g) PROVE ScalarsOK'
  BY <1>13 DEF Stage, Works, Tell, Line
<1>14. ASSUME NEW g \in Gens, Observe(g) PROVE ScalarsOK'
  BY <1>14 DEF Observe, Works, Tell, Line
<1>15. ASSUME NEW g \in Gens, Answer(g) PROVE ScalarsOK'
  <2>1. doing[g] \in Runs
    BY <1>15 DEF Answer, CallInv
  <2>2. completed' \subseteq Runs
    BY <1>15, <2>1 DEF Answer
  <2>3. /\ leader' \in [Gens -> {"unborn", "ready", "busy", "gone"}] /\ child' \subseteq Gens
        /\ doing' \in [Gens -> Runs \cup {NoJob}] /\ step' \in [Gens -> Stages \cup {0}]
    BY <1>15 DEF Answer
  <2> QED
    BY <1>15, <2>2, <2>3 DEF Answer, Works
<1>16. CASE Abort
  BY <1>2, <1>16 DEF Abort
<1>17. CASE Close
  BY <1>1, <1>17, CloseHalts
<1>18. CASE UNCHANGED workerVars
  BY <1>18 DEF workerVars
<1> QED
  BY <1>2, <1>3, <1>4, <1>5, <1>6, <1>7, <1>8, <1>9, <1>10, <1>11, <1>12, <1>13, <1>14, <1>15, <1>16, <1>17, <1>18
  DEF WorkerNext, CallerStep, WorkerStep

\* Each step keeps a run with its generation and its job.
LEMMA CallStep ==
  ScalarsOK /\ CallInv /\ [WorkerNext]_workerVars => CallInv'
<1> SUFFICES ASSUME ScalarsOK, CallInv, [WorkerNext]_workerVars PROVE CallInv'
  OBVIOUS
<1> USE WorkerAssumption DEF ScalarsOK, CallInv, Runs, Gens, Pages, Stages, NoJob, Conversion, callVars, procVars
<1>1. ASSUME Halting PROVE CallInv'
  <2>1. token' = NoJob /\ gen' = 0 /\ call' = "free" /\ job' = job
    BY <1>1 DEF Halting, StopGeneration
  <2>2. \A g \in Gens :
          \/ leader'[g] = leader[g] /\ stdin'[g] = stdin[g] /\ doing'[g] = doing[g]
          \/ leader'[g] = "gone" /\ stdin'[g] = NoJob /\ doing'[g] = NoJob
    <3>1. CASE KillsGroup(gen) /\ gen \in Gens
      BY <3>1 DEF KillsGroup, Ends
    <3>2. CASE UNCHANGED <<leader, stdin, doing>>
      BY <3>2
    <3> QED
      BY <1>1, <3>1, <3>2 DEF Halting, StopGeneration, IsRefused
  <2>3. NoJob <= job
    OBVIOUS
  <2> QED
    BY <2>1, <2>2, <2>3
<1>2. ASSUME Fail PROVE CallInv'
  BY <1>1, <1>2, FailHalts
<1>3. CASE Begin
  <2>1. job' = job + 1 /\ token' = NoJob /\ UNCHANGED <<stdin, doing>>
    BY <1>3 DEF Begin
  <2>2. /\ gen' # 0 /\ leader'[gen'] # "unborn"
        /\ \A g \in Gens : leader'[g] = "busy" => leader[g] = "busy"
    <3>1. CASE gen # 0 /\ IsAlive(gen)
      <4>1. UNCHANGED <<gen, leader>>
        BY <1>3, <3>1 DEF Begin
      <4> QED
        BY <3>1, <4>1 DEF IsAlive
    <3>2. CASE ~(gen # 0 /\ IsAlive(gen))
      <4>1. PICK g \in Gens : gen' = g /\ leader' = [leader EXCEPT ![g] = "ready"]
        BY <1>3, <3>2 DEF Begin
      <4> QED
        BY <4>1
    <3> QED
      BY <3>1, <3>2
  <2>3. job' # NoJob /\ job <= job'
    BY <2>1
  <2>4. ASSUME NEW g \in Gens PROVE stdin'[g] <= job' /\ doing'[g] <= job'
    <3>1. stdin[g] \in Nat /\ doing[g] \in Nat /\ job \in Nat
      OBVIOUS
    <3>2. stdin[g] <= job /\ doing[g] <= job
      OBVIOUS
    <3> HIDE DEF ScalarsOK, CallInv, Runs, Gens, NoJob
    <3> QED
      BY <2>1, <3>1, <3>2
  <2>5. \A g \in Gens : leader'[g] = "busy" => doing'[g] # NoJob
    BY <2>1, <2>2
  <2> HIDE DEF ScalarsOK, Gens, NoJob
  <2> QED
    BY <2>1, <2>2, <2>3, <2>4, <2>5, Zenon
<1>4. CASE Send
  BY <1>4, <1>2 DEF Send
<1>5. CASE Read
  BY <1>5, <1>2 DEF Read
<1>6. CASE Handle
  <2>1. \/ UNCHANGED <<call, job, procVars, gen, token>>
        \/ call' = "free" /\ token' = job /\ UNCHANGED <<job, procVars, gen>>
        \/ Fail
    BY <1>6, Zenon DEF Handle, Kept, ArmIdle, Leave
  <2>2. CASE UNCHANGED <<call, job, procVars, gen, token>>
    BY <2>2
  <2>3. CASE call' = "free" /\ token' = job /\ UNCHANGED <<job, procVars, gen>>
    BY <2>3
  <2> QED
    BY <2>1, <2>2, <2>3, <1>2
<1>7. ASSUME NEW r \in Runs, Fire(r) PROVE CallInv'
  BY <1>7 DEF Fire
<1>8. ASSUME NEW r \in Runs, Idle(r) PROVE CallInv'
  BY <1>8, <1>1, IdleHalts DEF Idle, IdlesSince
<1>9. CASE Stray
  BY <1>9 DEF Stray, Tell, Line, IsAlive
<1>10. ASSUME NEW g \in Gens, Crash(g) PROVE CallInv'
  BY <1>10 DEF Crash, Ends, IsAlive
<1>11. ASSUME NEW g \in Gens, TakesJob(g) PROVE CallInv'
  BY <1>11 DEF TakesJob, Works
<1>12. ASSUME NEW g \in Gens, Returns(g) PROVE CallInv'
  BY <1>12 DEF Returns, Works, Ends
<1>13. ASSUME NEW g \in Gens, Stage(g) PROVE CallInv'
  BY <1>13 DEF Stage, Works, Tell, Line
<1>14. ASSUME NEW g \in Gens, Observe(g) PROVE CallInv'
  BY <1>14 DEF Observe, Works, Tell, Line
<1>15. ASSUME NEW g \in Gens, Answer(g) PROVE CallInv'
  BY <1>15 DEF Answer, Works, Tell, Line
<1>16. CASE Abort
  BY <1>2, <1>16 DEF Abort
<1>17. CASE Close
  BY <1>1, <1>17, CloseHalts
<1>18. CASE UNCHANGED workerVars
  BY <1>18 DEF workerVars
<1> QED
  BY <1>2, <1>3, <1>4, <1>5, <1>6, <1>7, <1>8, <1>9, <1>10, <1>11, <1>12, <1>13, <1>14, <1>15, <1>16, <1>17, <1>18
  DEF WorkerNext, CallerStep, WorkerStep

\* Each step leaves no other generation alive that could be killed.
LEMMA NoOrphansStep ==
  ScalarsOK /\ CallInv /\ NoOrphans /\ [WorkerNext]_workerVars => NoOrphans'
<1> SUFFICES ASSUME ScalarsOK, CallInv, NoOrphans, [WorkerNext]_workerVars PROVE NoOrphans'
  OBVIOUS
<1> USE WorkerAssumption DEF ScalarsOK, CallInv, NoOrphans, Runs, Gens, Pages, Stages, NoJob, Conversion, callVars, procVars
<1>1. ASSUME Halting PROVE NoOrphans'
  BY <1>1 DEF Halting, StopGeneration, KillsGroup, IsRefused, Ends, IsAlive
<1>2. ASSUME Fail PROVE NoOrphans'
  BY <1>1, <1>2, FailHalts
<1>3. CASE Begin
  BY <1>3 DEF Begin, IsAlive
<1>4. CASE Send
  BY <1>4, <1>2 DEF Send
<1>5. CASE Read
  BY <1>5, <1>2 DEF Read
<1>6. CASE Handle
  BY <1>6, <1>2 DEF Handle, Kept, ArmIdle, Leave, Own, GrowingStage, GrowingPages, Final
<1>7. ASSUME NEW r \in Runs, Fire(r) PROVE NoOrphans'
  BY <1>7 DEF Fire
<1>8. ASSUME NEW r \in Runs, Idle(r) PROVE NoOrphans'
  <2>1. CASE IdlesSince(r)
    BY <1>8, <1>1, <2>1, IdleHalts
  <2>2. CASE ~IdlesSince(r)
    BY <1>8, <2>2 DEF Idle
  <2> QED
    BY <2>1, <2>2
<1>9. CASE Stray
  BY <1>9 DEF Stray, Tell, Line, IsAlive
<1>10. ASSUME NEW g \in Gens, Crash(g) PROVE NoOrphans'
  BY <1>10 DEF Crash, Ends, IsAlive
<1>11. ASSUME NEW g \in Gens, TakesJob(g) PROVE NoOrphans'
  BY <1>11 DEF TakesJob, Works
<1>12. ASSUME NEW g \in Gens, Returns(g) PROVE NoOrphans'
  BY <1>12 DEF Returns, Works, Ends
<1>13. ASSUME NEW g \in Gens, Stage(g) PROVE NoOrphans'
  BY <1>13 DEF Stage, Works, Tell, Line
<1>14. ASSUME NEW g \in Gens, Observe(g) PROVE NoOrphans'
  BY <1>14 DEF Observe, Works, Tell, Line
<1>15. ASSUME NEW g \in Gens, Answer(g) PROVE NoOrphans'
  BY <1>15 DEF Answer, Works, Tell, Line
<1>16. CASE Abort
  BY <1>2, <1>16 DEF Abort
<1>17. CASE Close
  BY <1>1, <1>17, CloseHalts
<1>18. CASE UNCHANGED workerVars
  BY <1>18 DEF workerVars
<1> QED
  BY <1>2, <1>3, <1>4, <1>5, <1>6, <1>7, <1>8, <1>9, <1>10, <1>11, <1>12, <1>13, <1>14, <1>15, <1>16, <1>17, <1>18
  DEF WorkerNext, CallerStep, WorkerStep

\* A run is accepted for a line of its own that is true.
LEMMA AcceptedStep ==
  ScalarsOK /\ CallInv /\ LinesInv /\ AcceptedIsCompleted /\ [WorkerNext]_workerVars => AcceptedIsCompleted'
<1> SUFFICES ASSUME ScalarsOK, CallInv, LinesInv, AcceptedIsCompleted, [WorkerNext]_workerVars PROVE AcceptedIsCompleted'
  OBVIOUS
<1> USE WorkerAssumption DEF AcceptedIsCompleted, callVars, procVars
<1>1. ASSUME Halting PROVE AcceptedIsCompleted'
  BY <1>1 DEF Halting, StopGeneration, KillsGroup, IsRefused, Ends, IsAlive
<1>2. ASSUME Fail PROVE AcceptedIsCompleted'
  BY <1>1, <1>2, FailHalts
<1>3. CASE Begin
  BY <1>3 DEF Begin, IsAlive
<1>4. CASE Send
  BY <1>4, <1>2 DEF Send
<1>5. CASE Read
  BY <1>5, <1>2 DEF Read
<1>6. CASE Handle
  BY <1>6, <1>2, HandleCases DEF Leave
<1>7. ASSUME NEW r \in Runs, Fire(r) PROVE AcceptedIsCompleted'
  BY <1>7 DEF Fire
<1>8. ASSUME NEW r \in Runs, Idle(r) PROVE AcceptedIsCompleted'
  BY <1>8, <1>1, IdleHalts DEF Idle, IdlesSince
<1>9. CASE Stray
  BY <1>9 DEF Stray, Tell, Line, IsAlive
<1>10. ASSUME NEW g \in Gens, Crash(g) PROVE AcceptedIsCompleted'
  BY <1>10 DEF Crash, Ends, IsAlive
<1>11. ASSUME NEW g \in Gens, TakesJob(g) PROVE AcceptedIsCompleted'
  BY <1>11 DEF TakesJob, Works
<1>12. ASSUME NEW g \in Gens, Returns(g) PROVE AcceptedIsCompleted'
  BY <1>12 DEF Returns, Works, Ends
<1>13. ASSUME NEW g \in Gens, Stage(g) PROVE AcceptedIsCompleted'
  BY <1>13 DEF Stage, Works, Tell, Line
<1>14. ASSUME NEW g \in Gens, Observe(g) PROVE AcceptedIsCompleted'
  BY <1>14 DEF Observe, Works, Tell, Line
<1>15. ASSUME NEW g \in Gens, Answer(g) PROVE AcceptedIsCompleted'
  BY <1>15 DEF Answer, Works, Tell, Line
<1>16. CASE Abort
  BY <1>2, <1>16 DEF Abort
<1>17. CASE Close
  BY <1>1, <1>17, CloseHalts
<1>18. CASE UNCHANGED workerVars
  BY <1>18 DEF workerVars
<1> QED
  BY <1>2, <1>3, <1>4, <1>5, <1>6, <1>7, <1>8, <1>9, <1>10, <1>11, <1>12, <1>13, <1>14, <1>15, <1>16, <1>17, <1>18
  DEF WorkerNext, CallerStep, WorkerStep

\* A line that is good in the state after a step.
GoodNext(l) ==
    /\ l.id <= job'
    /\ l.says = "stage" => l.n \in Stages
    /\ l.says = "pages" => l.n \in Pages
    /\ l.says = "ok" /\ l.id = job' => job' \in completed'

\* Lines that were there stay good, whatever jobs are given or completed.
LEMMA LinesCarry ==
  ASSUME ScalarsOK, LinesInv, job' \in Nat, job <= job',
         job' = job => completed \subseteq completed',
         pipe' \in [Gens -> Seq(Lines)], pending' \in Seq(Lines),
         \A h \in Gens : \A k \in DOMAIN pipe'[h] :
            (k \in DOMAIN pipe[h] /\ pipe'[h][k] = pipe[h][k]) \/ GoodNext(pipe'[h][k]),
         \A k \in DOMAIN pending' :
            \/ \E j \in DOMAIN pending : pending'[k] = pending[j]
            \/ \E h \in Gens : k \in DOMAIN pipe[h] /\ pending'[k] = pipe[h][k]
  PROVE  LinesInv'
<1>0. job \in Nat
  BY WorkerAssumption DEF ScalarsOK, Runs, NoJob
<1>1. ASSUME NEW l \in Lines, LineOK(l) PROVE GoodNext(l)
  <2>1. l.id \in Nat
    BY WorkerAssumption DEF Lines, Runs, NoJob
  <2> QED
    BY <1>0, <1>1, <2>1 DEF LineOK, GoodNext
<1>2. \A h \in Gens : \A k \in DOMAIN pipe[h] : pipe[h][k] \in Lines /\ LineOK(pipe[h][k])
  BY DEF LinesInv
<1>3. \A j \in DOMAIN pending : pending[j] \in Lines /\ LineOK(pending[j])
  BY DEF LinesInv
<1>4. \A h \in Gens : \A k \in DOMAIN pipe'[h] : GoodNext(pipe'[h][k])
  BY <1>1, <1>2
<1>5. \A k \in DOMAIN pending' : GoodNext(pending'[k])
  BY <1>1, <1>2, <1>3
<1> QED
  BY <1>4, <1>5 DEF LinesInv, LineOK, GoodNext

\* A line that is told is the only new one.
LEMMA ToldLines ==
  ASSUME LinesInv, NEW g \in Gens, NEW l \in Lines, Tell(g, l)
  PROVE  /\ pipe' \in [Gens -> Seq(Lines)]
         /\ \A h \in Gens : \A k \in DOMAIN pipe'[h] :
              (k \in DOMAIN pipe[h] /\ pipe'[h][k] = pipe[h][k]) \/ pipe'[h][k] = l
<1> DEFINE s == pipe[g]
<1>1. s \in Seq(Lines) /\ pipe \in [Gens -> Seq(Lines)]
  BY DEF LinesInv
<1>2. pipe' = [pipe EXCEPT ![g] = IF g = gen THEN Append(s, l) ELSE s]
  BY DEF Tell
<1>3. /\ Append(s, l) \in Seq(Lines)
      /\ \A k \in DOMAIN Append(s, l) :
           (k \in DOMAIN s /\ Append(s, l)[k] = s[k]) \/ Append(s, l)[k] = l
  BY <1>1
<1>4. pipe' \in [Gens -> Seq(Lines)]
  BY <1>1, <1>2, <1>3
<1>5. pipe'[g] = Append(s, l) \/ pipe'[g] = s
  BY <1>1, <1>2
<1>6. \A h \in Gens : h # g => pipe'[h] = pipe[h]
  BY <1>1, <1>2
<1> QED
  BY <1>3, <1>4, <1>5, <1>6

\* Each step leaves only lines that are good.
LEMMA LinesStep ==
  ScalarsOK /\ CallInv /\ LinesInv /\ [WorkerNext]_workerVars => LinesInv'
<1> SUFFICES ASSUME ScalarsOK, CallInv, LinesInv, [WorkerNext]_workerVars PROVE LinesInv'
  OBVIOUS
<1>0. job \in Nat /\ Runs \subseteq Nat \ {0} /\ NoJob = 0
  BY WorkerAssumption DEF ScalarsOK, Runs, NoJob
<1>1. /\ pipe \in [Gens -> Seq(Lines)] /\ pending \in Seq(Lines)
      /\ \A k \in DOMAIN pending : \E j \in DOMAIN pending : pending[k] = pending[j]
  BY DEF LinesInv
<1>2. ASSUME job' = job, completed \subseteq completed', pending' = pending, NEW g \in Gens,
             NEW l \in Lines, Tell(g, l), GoodNext(l)
      PROVE  LinesInv'
  BY <1>0, <1>1, <1>2, LinesCarry, ToldLines
<1>3. ASSUME job' = job, completed' = completed, pipe' = pipe, pending' = pending
      PROVE  LinesInv'
  BY <1>3 DEF LinesInv, LineOK
<1>4. ASSUME Halting PROVE LinesInv'
  <2>1. job' = job /\ completed' = completed /\ pending' \in {pending, <<>>}
    BY <1>4 DEF Halting
  <2>2. pipe' = pipe \/ (gen \in Gens /\ pipe' = [pipe EXCEPT ![gen] = <<>>])
    BY <1>4 DEF Halting, StopGeneration, procVars, ScalarsOK
  <2>3. /\ pipe' \in [Gens -> Seq(Lines)]
        /\ \A h \in Gens : \A k \in DOMAIN pipe'[h] : k \in DOMAIN pipe[h] /\ pipe'[h][k] = pipe[h][k]
    <3>1. <<>> \in Seq(Lines) /\ DOMAIN <<>> = {}
      OBVIOUS
    <3>2. \A h \in Gens : pipe'[h] = pipe[h] \/ pipe'[h] = <<>>
      BY <1>1, <2>2
    <3>3. pipe' \in [Gens -> Seq(Lines)]
      BY <1>1, <2>2, <3>1
    <3> QED
      BY <3>1, <3>2, <3>3
  <2>4. /\ pending' \in Seq(Lines)
        /\ \A k \in DOMAIN pending' : \E j \in DOMAIN pending : pending'[k] = pending[j]
    <3>1. <<>> \in Seq(Lines) /\ DOMAIN <<>> = {}
      OBVIOUS
    <3>2. CASE pending' = pending
      BY <1>1, <3>2
    <3>3. CASE pending' = <<>>
      BY <3>1, <3>3
    <3> QED
      BY <2>1, <3>2, <3>3
  <2> QED
    BY <1>0, <2>1, <2>3, <2>4, LinesCarry
<1>5. ASSUME Fail PROVE LinesInv'
  BY <1>4, <1>5, FailHalts
<1>6. CASE Begin
  <2>1. job' = job + 1 /\ pending' = <<>>
    BY <1>6 DEF Begin
  <2>2. pipe' = pipe \/ pipe' = [h \in Gens |-> IF h = gen THEN <<>> ELSE pipe[h]]
    BY <1>6 DEF Begin
  <2>3. /\ pipe' \in [Gens -> Seq(Lines)]
        /\ \A h \in Gens : \A k \in DOMAIN pipe'[h] : k \in DOMAIN pipe[h] /\ pipe'[h][k] = pipe[h][k]
    <3>1. <<>> \in Seq(Lines) /\ DOMAIN <<>> = {}
      OBVIOUS
    <3>2. \A h \in Gens : pipe'[h] = pipe[h] \/ pipe'[h] = <<>>
      BY <1>1, <2>2
    <3>3. pipe' \in [Gens -> Seq(Lines)]
      BY <1>1, <2>2, <3>1
    <3> QED
      BY <3>1, <3>2, <3>3
  <2>4. pending' \in Seq(Lines) /\ DOMAIN pending' = {}
    BY <2>1
  <2> QED
    BY <1>0, <2>1, <2>3, <2>4, LinesCarry
<1>7. CASE Send
  BY <1>3, <1>5, <1>7 DEF Send
<1>8. CASE Read
  <2>1. CASE Fail
    BY <1>5, <2>1
  <2>2. CASE /\ pending' = pipe[gen] /\ pipe' = [pipe EXCEPT ![gen] = <<>>]
             /\ job' = job /\ completed' = completed
    <3>1. gen \in Gens
      BY <1>8 DEF Read, CallInv, ScalarsOK
    <3>2. /\ pipe' \in [Gens -> Seq(Lines)]
          /\ \A h \in Gens : \A k \in DOMAIN pipe'[h] : k \in DOMAIN pipe[h] /\ pipe'[h][k] = pipe[h][k]
      BY <1>1, <2>2, <3>1
    <3>3. /\ pending' \in Seq(Lines)
          /\ \A k \in DOMAIN pending' : k \in DOMAIN pipe[gen] /\ pending'[k] = pipe[gen][k]
      BY <1>1, <2>2, <3>1
    <3> QED
      BY <1>0, <2>2, <3>1, <3>2, <3>3, LinesCarry
  <2> QED
    BY <1>8, <2>1, <2>2 DEF Read
<1>9. CASE Handle
  <2>1. CASE /\ pending # <<>> /\ pending' = Tail(pending)
             /\ job' = job /\ pipe' = pipe /\ completed' = completed
    <3>1. /\ pending' \in Seq(Lines)
          /\ \A k \in DOMAIN pending' : k + 1 \in DOMAIN pending /\ pending'[k] = pending[k + 1]
      BY <1>1, <2>1
    <3> QED
      BY <1>0, <1>1, <2>1, <3>1, LinesCarry
  <2>2. CASE Leave /\ job' = job /\ pipe' = pipe /\ completed' = completed
    <3>1. pending' \in Seq(Lines) /\ DOMAIN pending' = {}
      BY <2>2 DEF Leave
    <3> QED
      BY <1>0, <1>1, <2>2, <3>1, LinesCarry
  <2> QED
    BY <1>5, <1>9, <2>1, <2>2, HandleCases DEF Leave, procVars
<1>10. CASE Abort
  BY <1>5, <1>10 DEF Abort
<1>11. ASSUME NEW r \in Runs, Fire(r) PROVE LinesInv'
  BY <1>3, <1>11 DEF Fire, callVars, procVars
<1>12. ASSUME NEW r \in Runs, Idle(r) PROVE LinesInv'
  <2>1. CASE IdlesSince(r)
    BY <1>4, <1>12, <2>1, IdleHalts
  <2>2. CASE ~IdlesSince(r)
    BY <1>3, <1>12, <2>2 DEF Idle, callVars, procVars
  <2> QED
    BY <2>1, <2>2
<1>13. CASE Close
  BY <1>4, <1>13, CloseHalts
<1>14. CASE Stray
  <2>1. PICK r \in 0..job, what \in {"stage", "ok"} :
           (r = job => what = "stage") /\ Tell(gen, Line(r, what, 1))
    BY <1>14 DEF Stray
  <2>2. gen \in Gens /\ job' = job /\ completed' = completed /\ pending' = pending
    BY <1>14 DEF Stray, ScalarsOK, callVars
  <2>3. Line(r, what, 1) \in Lines /\ GoodNext(Line(r, what, 1))
    <3>1. r \in Runs \cup {NoJob} /\ r <= job /\ 1 \in Stages
      <4>1. job \in 0..MaxRuns
        BY WorkerAssumption DEF ScalarsOK, Runs, NoJob
      <4> QED
        BY <2>1, <4>1, WorkerAssumption DEF Runs, NoJob, Stages
    <3> QED
      BY <2>1, <2>2, <3>1 DEF Line, Lines, GoodNext
  <2> QED
    BY <1>2, <2>1, <2>2, <2>3
<1>15. ASSUME NEW g \in Gens, Crash(g) PROVE LinesInv'
  BY <1>3, <1>15 DEF Crash, callVars
<1>16. ASSUME NEW g \in Gens, TakesJob(g) \/ Returns(g) PROVE LinesInv'
  BY <1>3, <1>16 DEF TakesJob, Returns, Works, callVars
<1>17. ASSUME NEW g \in Gens, Stage(g) PROVE LinesInv'
  <2>1. doing[g] \in Runs \cup {NoJob} /\ doing[g] <= job
    BY DEF ScalarsOK, CallInv
  <2>2. step[g] + 1 \in Stages /\ Tell(g, Line(doing[g], "stage", step[g] + 1))
    BY <1>17 DEF Stage
  <2>3. job' = job /\ completed' = completed /\ pending' = pending
    BY <1>17 DEF Stage, Works, callVars
  <2>4. /\ Line(doing[g], "stage", step[g] + 1) \in Lines
        /\ GoodNext(Line(doing[g], "stage", step[g] + 1))
    BY <2>1, <2>2, <2>3 DEF Line, Lines, GoodNext, Stages
  <2> QED
    BY <1>2, <2>2, <2>3, <2>4
<1>18. ASSUME NEW g \in Gens, Observe(g) PROVE LinesInv'
  <2>1. doing[g] \in Runs \cup {NoJob} /\ doing[g] <= job
    BY DEF ScalarsOK, CallInv
  <2>2. PICK n \in Pages : Tell(g, Line(doing[g], "pages", n))
    BY <1>18 DEF Observe
  <2>3. job' = job /\ completed' = completed /\ pending' = pending
    BY <1>18 DEF Observe, Works, callVars
  <2>4. Line(doing[g], "pages", n) \in Lines /\ GoodNext(Line(doing[g], "pages", n))
    BY <2>1, <2>3, WorkerAssumption DEF Line, Lines, GoodNext, Pages
  <2> QED
    BY <1>2, <2>2, <2>3, <2>4
<1>19. ASSUME NEW g \in Gens, Answer(g) PROVE LinesInv'
  <2>1. doing[g] \in Runs \cup {NoJob} /\ doing[g] <= job
    BY DEF ScalarsOK, CallInv
  <2>2. job' = job /\ pending' = pending
    BY <1>19 DEF Answer, Works, callVars
  <2>3. CASE completed' = completed \cup {doing[g]} /\ Tell(g, Line(doing[g], "ok", 0))
    <3>1. Line(doing[g], "ok", 0) \in Lines /\ GoodNext(Line(doing[g], "ok", 0))
      BY <2>1, <2>2, <2>3 DEF Line, Lines, GoodNext
    <3> QED
      BY <1>2, <2>2, <2>3, <3>1
  <2>4. CASE /\ \E what \in {"rejection", "error"} : Tell(g, Line(doing[g], what, 0))
             /\ completed' = completed
    <3>1. PICK what \in {"rejection", "error"} : Tell(g, Line(doing[g], what, 0))
      BY <2>4
    <3>2. Line(doing[g], what, 0) \in Lines /\ GoodNext(Line(doing[g], what, 0))
      BY <2>1, <2>2 DEF Line, Lines, GoodNext
    <3> QED
      BY <1>2, <2>2, <2>4, <3>1, <3>2
  <2> QED
    BY <1>19, <2>3, <2>4 DEF Answer
<1>20. CASE UNCHANGED workerVars
  BY <1>3, <1>20 DEF workerVars, callVars, procVars
<1> QED
  BY <1>6, <1>7, <1>8, <1>9, <1>10, <1>11, <1>12, <1>13, <1>14, <1>15, <1>16, <1>17, <1>18,
     <1>19, <1>20
  DEF WorkerNext, CallerStep, WorkerStep

\* The invariant holds in every reachable state, and with it the types.
THEOREM WorkerTypeCorrect == WorkerSpec => []WorkerInv
<1>1. WorkerInit => WorkerInv
  BY WorkerInitInv
<1>2. WorkerInv /\ [WorkerNext]_workerVars => WorkerInv'
  <2> SUFFICES ASSUME WorkerInv, [WorkerNext]_workerVars PROVE WorkerInv'
    OBVIOUS
  <2>1. ScalarsOK /\ CallInv /\ LinesInv /\ AcceptedIsCompleted /\ NoOrphans
    BY TypeHalves DEF WorkerInv
  <2>2. ScalarsOK' /\ CallInv' /\ LinesInv' /\ AcceptedIsCompleted' /\ NoOrphans'
    BY <2>1, ScalarsStep, CallStep, LinesStep, AcceptedStep, NoOrphansStep
  <2>3. WorkerTypeOK'
    BY <2>2 DEF ScalarsOK, LinesInv, WorkerTypeOK
  <2> QED
    BY <2>2, <2>3 DEF WorkerInv
<1> QED
  BY <1>1, <1>2, PTL DEF WorkerSpec

\* A run that returns was completed by a worker, whatever an earlier job left in the pipe
\* and whatever its threads print later (supervisor.py, WarmWorker.run).
THEOREM AcceptedAreCompleted == WorkerSpec => []AcceptedIsCompleted
<1>1. WorkerInv => AcceptedIsCompleted
  BY DEF WorkerInv
<1> QED
  BY <1>1, WorkerTypeCorrect, PTL

\* Whoever stops a generation, and after any crash of its leader: all but the current one
\* are dead with their children, unless the OS refused the signal (WarmWorker._stop).
THEOREM NoGenerationIsOrphaned == WorkerSpec => []NoOrphans
<1>1. WorkerInv => NoOrphans
  BY DEF WorkerInv
<1> QED
  BY <1>1, WorkerTypeCorrect, PTL

\* An idle timer that lost the race for the lock to a new job stops nothing
\* (WarmWorker._stop_idle).
THEOREM TimersStopOnlyIdle == WorkerSpec => TimerStopsOnlyIdle
<1>1. WorkerInv /\ [WorkerNext]_workerVars
        => [\A r \in Runs : (timer[r] = "fired" /\ timer'[r] = "off" /\ gen' # gen)
                                => r = job]_workerVars
  <2> SUFFICES ASSUME WorkerInv, WorkerNext, NEW r \in Runs,
                      timer[r] = "fired", timer'[r] = "off", gen' # gen
               PROVE  r = job
    BY DEF workerVars
  <2>1. timer \in [Runs -> {"off", "armed", "fired"}] /\ (token = NoJob \/ token = job)
        /\ NoJob \notin Runs
    BY WorkerAssumption DEF WorkerInv, WorkerTypeOK, CallInv, Runs, NoJob
  <2>2. ASSUME timer' = Disarmed PROVE FALSE
    BY <2>1, <2>2 DEF Disarmed
  <2>3. ~Fail /\ ~Begin /\ ~Close
    BY <2>2 DEF Fail, Begin, Close, Stop
  <2>4. ~Send /\ ~Read /\ ~Abort
    BY <2>3 DEF Send, Read, Abort
  <2>5. ~Handle
    BY <2>3 DEF Handle, Kept
  <2>6. \A q \in Runs : ~Fire(q)
    BY DEF Fire
  <2>7. ~Stray /\ \A g \in Gens : ~WorkerStep(g) /\ ~Crash(g)
    BY DEF Stray, WorkerStep, TakesJob, Returns, Stage, Observe, Answer, Works, Crash
  <2>8. PICK q \in Runs : Idle(q)
    BY <2>3, <2>4, <2>5, <2>6, <2>7 DEF WorkerNext, CallerStep
  <2>9. q = r
    BY <2>1, <2>8 DEF Idle
  <2>10. token = q
    BY <2>8 DEF Idle, IdlesSince
  <2> QED
    BY <2>1, <2>9, <2>10
<1> QED
  BY <1>1, WorkerTypeCorrect, PTL DEF WorkerSpec, TimerStopsOnlyIdle
=============================================================================
