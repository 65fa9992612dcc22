---------------------------- MODULE ServerProofs ----------------------------
(***************************************************************************)
(* Proofs about the server: its asynchronous jobs (ServerJobs), for any    *)
(* number of jobs, principals, concurrent requests and faults, and any     *)
(* caps; and the dispatch of its requests (RequestDispatch), for any       *)
(* backends, lists, scopes, strategies and documents.                      *)
(*                                                                         *)
(* The argument for the jobs: a drive holds the lock of its job for as     *)
(* long as it runs, and drives only a job without an answer (DriveInv); an *)
(* answer, once set, is what every later metering would set again          *)
(* (AnswerInv); and a poll job becomes terminal only in the drive that     *)
(* will report it (HeardInv).  The bound of the store counts submissions   *)
(* in flight, because each of them was admitted below the cap.             *)
(*                                                                         *)
(* The argument for a request: what pruning leaves of a strategy is a set  *)
(* of nodes that stand by one another, so that a compiled strategy reaches *)
(* what it mentions and the scope allows (CompiledIsWithin), and one that  *)
(* compiles to nothing had no leaf in scope that it was sure to reach      *)
(* (NothingSurelyLeft); the places a chain has yet to try and the backends *)
(* it called make up the plan (DocInv); and the door lets in, and turns    *)
(* away, what the plan would (LetInIsScoped, DeniedHasNothing).            *)
(***************************************************************************)
EXTENDS ServerJobs, RequestDispatch, FiniteSetTheorems, SequenceTheorems,
        WellFoundedInduction, TLAPS

\* A job has no Job object before its submission and no record before its POST
\* is over; only inline jobs are terminal before they are stored.
PostInv ==
    \A j \in Jobs :
        /\ j \in held => post[j] = "over"
        /\ post[j] \in {"none", "admitted"} =>
             backend[j] = "none" /\ j \notin terminal /\ mode[j] = "inline"
        /\ post[j] = "sent" /\ j \in terminal => mode[j] = "inline"
        /\ post[j] # "over" => answer[j] = "none" /\ told[j] = "nothing"

\* Reports agree with the record, and a webhook's record with the payload.
AnswerInv ==
    \A j \in Jobs :
        /\ answer[j] = "response" => backend[j] = "good"
        /\ answer[j] = "error" /\ mode[j] = "webhook" => backend[j] = "bad"
        /\ told[j] = "succeeded" => answer[j] = "response"
        /\ told[j] = "failed" => answer[j] = "error"

\* A drive holds the lock of an unanswered job that no webhook resolves.
DriveInv ==
    \A g \in Getters : pc[g] # "idle" =>
        /\ at[g] \in locked /\ post[at[g]] = "over"
        /\ mode[at[g]] # "webhook" /\ answer[at[g]] = "none"
        /\ pc[g] = "ended" <=> at[g] \in terminal

\* The drive that found the end of job j has not reported it yet.
Reporting(j) == \E g \in Getters : pc[g] = "ended" /\ at[g] = j

HeardInv ==
    \A j \in Jobs : mode[j] = "poll" /\ j \in terminal => told[j] # "nothing" \/ Reporting(j)

\* The parts of the invariant without cardinalities.
Core == TypeOK /\ PostInv /\ AnswerInv /\ DriveInv /\ OneDrive /\ HeardInv
        /\ NotSweptUnheard

-----------------------------------------------------------------------------
(* Each action preserves the core                                          *)

\* Next as one disjunction of its actions.
Step ==
    \/ Sweep
    \/ \E g \in Getters :
        \/ \E j \in Jobs : StartDrive(g, j)
        \/ PollRunning(g) \/ PollDone(g) \/ PollFaults(g) \/ DriveRaises(g)
        \/ SliceExpires(g) \/ FinishDrive(g)
    \/ \E j \in Jobs :
        \/ \E p \in Principals : Admit(j, p)
        \/ Reject(j)
        \/ \E m \in {"poll", "webhook"} : SubmitRemote(j, m)
        \/ \E result \in {"good", "bad"} : SubmitInline(j, result)
        \/ Store(j) \/ Read(j) \/ Delete(j)
        \/ \E result \in {"good", "bad", "failed"} : BackendEnds(j, result)
        \/ Webhook(j) \/ Age(j) \/ BecomeDue(j)

\* The actions of Next, whoever performs them.
LEMMA NextIsStep == Next <=> Step
BY DEF Next, Step, Getting, Posting, Polling, Outside

USE DEF recordVars, getVars

\* The initial state satisfies the core.
LEMMA InitInv == Init => Core
BY CapsAssumption DEF Core, Init, TypeOK, PostInv, AnswerInv, DriveInv, OneDrive, HeardInv, NotSweptUnheard

\* Writing one count within the budget keeps all counts within it.
LEMMA FaultsStay ==
  ASSUME NEW f \in [Jobs -> 0..MaxFaults], NEW a, NEW n \in 0..MaxFaults
  PROVE  [f EXCEPT ![a] = n] \in [Jobs -> 0..MaxFaults]
OBVIOUS

\* Each action keeps the types.
LEMMA TypeStep == TypeOK /\ [Next]_vars => TypeOK'
<1> SUFFICES ASSUME TypeOK, Next PROVE TypeOK'
  BY DEF TypeOK, vars
<1> USE CapsAssumption, JobsAssumption DEF TypeOK
<1>1. CASE Sweep
  BY <1>1 DEF Sweep, Kept
<1>2. ASSUME NEW g \in Getters, NEW j \in Jobs, StartDrive(g, j) PROVE TypeOK'
  BY <1>2 DEF StartDrive, Kept
<1>3. ASSUME NEW g \in Getters, PollRunning(g) PROVE TypeOK'
  <2>1. due' \subseteq Jobs
    BY <1>3 DEF PollRunning
  <2>2. faults' \in [Jobs -> 0..MaxFaults]
    <3>1. 0 \in 0..MaxFaults
      BY CapsAssumption
    <3>2. faults' = [faults EXCEPT ![at[g]] = 0]
      BY <1>3 DEF PollRunning
    <3>3. QED  BY <3>1, <3>2, FaultsStay
  <2>3. pc' = [pc EXCEPT ![g] = "polled"]
    BY <1>3 DEF PollRunning
  <2>4. UNCHANGED <<post, owner, held, mode, terminal, answer, locked, old, at,
                    backend, deleted, told>>
    BY <1>3 DEF PollRunning
  <2>5. QED  BY <2>1, <2>2, <2>3, <2>4
<1>4. ASSUME NEW g \in Getters, PollDone(g) PROVE TypeOK'
  BY <1>4 DEF PollDone, MayPoll
<1>5. ASSUME NEW g \in Getters, PollFaults(g) PROVE TypeOK'
  <2>1. due' \subseteq Jobs
    BY <1>5 DEF PollFaults
  <2>2. faults' \in [Jobs -> 0..MaxFaults]
    <3>1. faults' = [faults EXCEPT ![at[g]] = faults[at[g]] + 1]
      BY <1>5 DEF PollFaults
    <3>2. faults[at[g]] < MaxFaults
      BY <1>5 DEF PollFaults, BudgetLeft
    <3>3. faults[at[g]] + 1 \in 0..MaxFaults
      BY <1>5, <3>2 DEF PollFaults, MayPoll, Driving
    <3>4. QED  BY <3>1, <3>3, FaultsStay
  <2>3. pc' = [pc EXCEPT ![g] = "polled"]
    BY <1>5 DEF PollFaults
  <2>4. UNCHANGED <<post, owner, held, mode, terminal, answer, locked, old, at,
                    backend, deleted, told>>
    BY <1>5 DEF PollFaults
  <2>5. QED  BY <2>1, <2>2, <2>3, <2>4
<1>6. ASSUME NEW g \in Getters, DriveRaises(g) PROVE TypeOK'
  BY <1>6 DEF DriveRaises, EndDrive, Report
<1>7. ASSUME NEW g \in Getters, SliceExpires(g) PROVE TypeOK'
  BY <1>7 DEF SliceExpires, EndDrive, Report
<1>8. ASSUME NEW g \in Getters, FinishDrive(g) PROVE TypeOK'
  BY <1>8 DEF FinishDrive, EndDrive, Report, Metered
<1>9. ASSUME NEW j \in Jobs, NEW p \in Principals, Admit(j, p) PROVE TypeOK'
  BY <1>9 DEF Admit, Kept
<1>10. ASSUME NEW j \in Jobs, Reject(j) PROVE TypeOK'
  BY <1>10 DEF Reject
<1>11. ASSUME NEW j \in Jobs, NEW m \in {"poll", "webhook"}, SubmitRemote(j, m) PROVE TypeOK'
  BY <1>11 DEF SubmitRemote
<1>12. ASSUME NEW j \in Jobs, NEW r \in {"good", "bad"}, SubmitInline(j, r) PROVE TypeOK'
  BY <1>12 DEF SubmitInline
<1>13. ASSUME NEW j \in Jobs, Store(j) PROVE TypeOK'
  BY <1>13 DEF Store, Report, Metered
<1>14. ASSUME NEW j \in Jobs, Read(j) PROVE TypeOK'
  BY <1>14 DEF Read, Report, Kept
<1>15. ASSUME NEW j \in Jobs, Delete(j) PROVE TypeOK'
  BY <1>15 DEF Delete
<1>16. ASSUME NEW j \in Jobs, NEW r \in {"good", "bad", "failed"}, BackendEnds(j, r) PROVE TypeOK'
  BY <1>16 DEF BackendEnds
<1>17. ASSUME NEW j \in Jobs, Webhook(j) PROVE TypeOK'
  BY <1>17 DEF Webhook, Metered
<1>18. ASSUME NEW j \in Jobs, Age(j) PROVE TypeOK'
  BY <1>18 DEF Age
<1>19. ASSUME NEW j \in Jobs, BecomeDue(j) PROVE TypeOK'
  BY <1>19 DEF BecomeDue
<1>20. QED
  <2>1. Step
    BY NextIsStep
  <2> HIDE DEF TypeOK
  <2> QED
    BY <1>1, <1>2, <1>3, <1>4, <1>5, <1>6, <1>7, <1>8, <1>9, <1>10, <1>11, <1>12,
       <1>13, <1>14, <1>15, <1>16, <1>17, <1>18, <1>19, <2>1 DEF Step

\* Each action keeps the stages of a POST in order.
LEMMA PostStep == Core /\ [Next]_vars => PostInv'
<1> SUFFICES ASSUME Core, Next PROVE PostInv'
  BY DEF Core, TypeOK, PostInv, AnswerInv, DriveInv, OneDrive, HeardInv, Reporting, NotSweptUnheard, vars
<1> USE JobsAssumption DEF Core, TypeOK, PostInv, AnswerInv, DriveInv, Reporting
<1>1. CASE Sweep
  BY <1>1 DEF Sweep, Kept, Expired
<1>2. ASSUME NEW g \in Getters, NEW j \in Jobs, StartDrive(g, j) PROVE PostInv'
  BY <1>2 DEF StartDrive, Kept, Expired, MayDrive, Pending
<1>3. ASSUME NEW g \in Getters, PollRunning(g) PROVE PostInv'
  BY <1>3 DEF PollRunning, MayPoll, Driving
<1>4. ASSUME NEW g \in Getters, PollDone(g) PROVE PostInv'
  BY <1>4 DEF PollDone, MayPoll, Driving
<1>5. ASSUME NEW g \in Getters, PollFaults(g) PROVE PostInv'
  BY <1>5 DEF PollFaults, MayPoll, Driving
<1>6. ASSUME NEW g \in Getters, DriveRaises(g) PROVE PostInv'
  BY <1>6 DEF DriveRaises, Driving, EndDrive, Report
<1>7. ASSUME NEW g \in Getters, SliceExpires(g) PROVE PostInv'
  BY <1>7 DEF SliceExpires, Driving, EndDrive, Report
<1>8. ASSUME NEW g \in Getters, FinishDrive(g) PROVE PostInv'
  BY <1>8 DEF FinishDrive, EndDrive, Report, Metered
<1>9. ASSUME NEW j \in Jobs, NEW p \in Principals, Admit(j, p) PROVE PostInv'
  BY <1>9 DEF Admit, Kept, Expired
<1>10. ASSUME NEW j \in Jobs, Reject(j) PROVE PostInv'
  BY <1>10 DEF Reject
<1>11. ASSUME NEW j \in Jobs, NEW m \in {"poll", "webhook"}, SubmitRemote(j, m) PROVE PostInv'
  BY <1>11 DEF SubmitRemote
<1>12. ASSUME NEW j \in Jobs, NEW r \in {"good", "bad"}, SubmitInline(j, r) PROVE PostInv'
  BY <1>12 DEF SubmitInline
<1>13. ASSUME NEW j \in Jobs, Store(j) PROVE PostInv'
  BY <1>13 DEF Store, Report, Metered
<1>14. ASSUME NEW j \in Jobs, Read(j) PROVE PostInv'
  BY <1>14 DEF Read, Kept, Expired, Report, MayDrive, Pending
<1>15. ASSUME NEW j \in Jobs, Delete(j) PROVE PostInv'
  BY <1>15 DEF Delete
<1>16. ASSUME NEW j \in Jobs, NEW r \in {"good", "bad", "failed"}, BackendEnds(j, r) PROVE PostInv'
  BY <1>16 DEF BackendEnds
<1>17. ASSUME NEW j \in Jobs, Webhook(j) PROVE PostInv'
  BY <1>17 DEF Webhook, Metered
<1>18. ASSUME NEW j \in Jobs, Age(j) PROVE PostInv'
  BY <1>18 DEF Age
<1>19. ASSUME NEW j \in Jobs, BecomeDue(j) PROVE PostInv'
  BY <1>19 DEF BecomeDue
<1>20. QED
  BY <1>1, <1>2, <1>3, <1>4, <1>5, <1>6, <1>7, <1>8, <1>9, <1>10, <1>11, <1>12,
     <1>13, <1>14, <1>15, <1>16, <1>17, <1>18, <1>19, NextIsStep DEF Step

\* Each action keeps reports and records in agreement with the backend.
LEMMA AnswerStep == Core /\ [Next]_vars => AnswerInv'
<1> SUFFICES ASSUME Core, Next PROVE AnswerInv'
  BY DEF Core, TypeOK, PostInv, AnswerInv, DriveInv, OneDrive, HeardInv, Reporting, NotSweptUnheard, vars
<1> USE JobsAssumption DEF Core, TypeOK, PostInv, AnswerInv, DriveInv, Reporting
<1>1. CASE Sweep
  BY <1>1 DEF Sweep, Kept, Expired
<1>2. ASSUME NEW g \in Getters, NEW j \in Jobs, StartDrive(g, j) PROVE AnswerInv'
  BY <1>2 DEF StartDrive, Kept, Expired, MayDrive, Pending
<1>3. ASSUME NEW g \in Getters, PollRunning(g) PROVE AnswerInv'
  BY <1>3 DEF PollRunning, MayPoll, Driving
<1>4. ASSUME NEW g \in Getters, PollDone(g) PROVE AnswerInv'
  BY <1>4 DEF PollDone, MayPoll, Driving
<1>5. ASSUME NEW g \in Getters, PollFaults(g) PROVE AnswerInv'
  BY <1>5 DEF PollFaults, MayPoll, Driving
<1>6. ASSUME NEW g \in Getters, DriveRaises(g) PROVE AnswerInv'
  BY <1>6 DEF DriveRaises, Driving, EndDrive, Report
<1>7. ASSUME NEW g \in Getters, SliceExpires(g) PROVE AnswerInv'
  BY <1>7 DEF SliceExpires, Driving, EndDrive, Report
<1>8. ASSUME NEW g \in Getters, FinishDrive(g) PROVE AnswerInv'
  BY <1>8 DEF FinishDrive, EndDrive, Report, Metered
<1>9. ASSUME NEW j \in Jobs, NEW p \in Principals, Admit(j, p) PROVE AnswerInv'
  BY <1>9 DEF Admit, Kept, Expired
<1>10. ASSUME NEW j \in Jobs, Reject(j) PROVE AnswerInv'
  BY <1>10 DEF Reject
<1>11. ASSUME NEW j \in Jobs, NEW m \in {"poll", "webhook"}, SubmitRemote(j, m) PROVE AnswerInv'
  BY <1>11 DEF SubmitRemote
<1>12. ASSUME NEW j \in Jobs, NEW r \in {"good", "bad"}, SubmitInline(j, r) PROVE AnswerInv'
  BY <1>12 DEF SubmitInline
<1>13. ASSUME NEW j \in Jobs, Store(j) PROVE AnswerInv'
  BY <1>13 DEF Store, Report, Metered
<1>14. ASSUME NEW j \in Jobs, Read(j) PROVE AnswerInv'
  BY <1>14 DEF Read, Kept, Expired, Report, MayDrive, Pending
<1>15. ASSUME NEW j \in Jobs, Delete(j) PROVE AnswerInv'
  BY <1>15 DEF Delete
<1>16. ASSUME NEW j \in Jobs, NEW r \in {"good", "bad", "failed"}, BackendEnds(j, r) PROVE AnswerInv'
  BY <1>16 DEF BackendEnds
<1>17. ASSUME NEW j \in Jobs, Webhook(j) PROVE AnswerInv'
  BY <1>17 DEF Webhook, Metered
<1>18. ASSUME NEW j \in Jobs, Age(j) PROVE AnswerInv'
  BY <1>18 DEF Age
<1>19. ASSUME NEW j \in Jobs, BecomeDue(j) PROVE AnswerInv'
  BY <1>19 DEF BecomeDue
<1>20. QED
  BY <1>1, <1>2, <1>3, <1>4, <1>5, <1>6, <1>7, <1>8, <1>9, <1>10, <1>11, <1>12,
     <1>13, <1>14, <1>15, <1>16, <1>17, <1>18, <1>19, NextIsStep DEF Step

\* Each action keeps a drive inside its lock.
LEMMA DriveStep == Core /\ [Next]_vars => DriveInv'
<1> SUFFICES ASSUME Core, Next PROVE DriveInv'
  BY DEF Core, TypeOK, PostInv, AnswerInv, DriveInv, OneDrive, HeardInv, Reporting, NotSweptUnheard, vars
<1> USE JobsAssumption DEF Core, TypeOK, PostInv, AnswerInv, DriveInv, OneDrive, Reporting
<1>1. CASE Sweep
  BY <1>1 DEF Sweep, Kept, Expired
<1>2. ASSUME NEW g \in Getters, NEW j \in Jobs, StartDrive(g, j) PROVE DriveInv'
  BY <1>2 DEF StartDrive, Kept, Expired, MayDrive, Pending
<1>3. ASSUME NEW g \in Getters, PollRunning(g) PROVE DriveInv'
  BY <1>3 DEF PollRunning, MayPoll, Driving
<1>4. ASSUME NEW g \in Getters, PollDone(g) PROVE DriveInv'
  BY <1>4 DEF PollDone, MayPoll, Driving
<1>5. ASSUME NEW g \in Getters, PollFaults(g) PROVE DriveInv'
  BY <1>5 DEF PollFaults, MayPoll, Driving
<1>6. ASSUME NEW g \in Getters, DriveRaises(g) PROVE DriveInv'
  BY <1>6 DEF DriveRaises, Driving, EndDrive, Report
<1>7. ASSUME NEW g \in Getters, SliceExpires(g) PROVE DriveInv'
  BY <1>7 DEF SliceExpires, Driving, EndDrive, Report
<1>8. ASSUME NEW g \in Getters, FinishDrive(g) PROVE DriveInv'
  BY <1>8 DEF FinishDrive, EndDrive, Report, Metered
<1>9. ASSUME NEW j \in Jobs, NEW p \in Principals, Admit(j, p) PROVE DriveInv'
  BY <1>9 DEF Admit, Kept, Expired
<1>10. ASSUME NEW j \in Jobs, Reject(j) PROVE DriveInv'
  BY <1>10 DEF Reject
<1>11. ASSUME NEW j \in Jobs, NEW m \in {"poll", "webhook"}, SubmitRemote(j, m) PROVE DriveInv'
  BY <1>11 DEF SubmitRemote
<1>12. ASSUME NEW j \in Jobs, NEW r \in {"good", "bad"}, SubmitInline(j, r) PROVE DriveInv'
  BY <1>12 DEF SubmitInline
<1>13. ASSUME NEW j \in Jobs, Store(j) PROVE DriveInv'
  BY <1>13 DEF Store, Report, Metered
<1>14. ASSUME NEW j \in Jobs, Read(j) PROVE DriveInv'
  BY <1>14 DEF Read, Kept, Expired, Report, MayDrive, Pending
<1>15. ASSUME NEW j \in Jobs, Delete(j) PROVE DriveInv'
  BY <1>15 DEF Delete
<1>16. ASSUME NEW j \in Jobs, NEW r \in {"good", "bad", "failed"}, BackendEnds(j, r) PROVE DriveInv'
  BY <1>16 DEF BackendEnds
<1>17. ASSUME NEW j \in Jobs, Webhook(j) PROVE DriveInv'
  BY <1>17 DEF Webhook, Metered
<1>18. ASSUME NEW j \in Jobs, Age(j) PROVE DriveInv'
  BY <1>18 DEF Age
<1>19. ASSUME NEW j \in Jobs, BecomeDue(j) PROVE DriveInv'
  BY <1>19 DEF BecomeDue
<1>20. QED
  BY <1>1, <1>2, <1>3, <1>4, <1>5, <1>6, <1>7, <1>8, <1>9, <1>10, <1>11, <1>12,
     <1>13, <1>14, <1>15, <1>16, <1>17, <1>18, <1>19, NextIsStep DEF Step

\* A drive starts only on a job whose lock is free.
LEMMA OneDriveStep == Core /\ [Next]_vars => OneDrive'
<1> SUFFICES ASSUME Core, Next PROVE OneDrive'
  BY DEF Core, TypeOK, PostInv, AnswerInv, DriveInv, OneDrive, HeardInv, Reporting, NotSweptUnheard, vars
<1> USE JobsAssumption DEF Core, TypeOK, PostInv, AnswerInv, DriveInv, OneDrive, Reporting
<1>1. CASE Sweep
  BY <1>1 DEF Sweep, Kept, Expired
<1>2. ASSUME NEW g \in Getters, NEW j \in Jobs, StartDrive(g, j) PROVE OneDrive'
  BY <1>2 DEF StartDrive, Kept, Expired, MayDrive, Pending
<1>3. ASSUME NEW g \in Getters, PollRunning(g) PROVE OneDrive'
  BY <1>3 DEF PollRunning, MayPoll, Driving
<1>4. ASSUME NEW g \in Getters, PollDone(g) PROVE OneDrive'
  BY <1>4 DEF PollDone, MayPoll, Driving
<1>5. ASSUME NEW g \in Getters, PollFaults(g) PROVE OneDrive'
  BY <1>5 DEF PollFaults, MayPoll, Driving
<1>6. ASSUME NEW g \in Getters, DriveRaises(g) PROVE OneDrive'
  BY <1>6 DEF DriveRaises, Driving, EndDrive, Report
<1>7. ASSUME NEW g \in Getters, SliceExpires(g) PROVE OneDrive'
  BY <1>7 DEF SliceExpires, Driving, EndDrive, Report
<1>8. ASSUME NEW g \in Getters, FinishDrive(g) PROVE OneDrive'
  BY <1>8 DEF FinishDrive, EndDrive, Report, Metered
<1>9. ASSUME NEW j \in Jobs, NEW p \in Principals, Admit(j, p) PROVE OneDrive'
  BY <1>9 DEF Admit, Kept, Expired
<1>10. ASSUME NEW j \in Jobs, Reject(j) PROVE OneDrive'
  BY <1>10 DEF Reject
<1>11. ASSUME NEW j \in Jobs, NEW m \in {"poll", "webhook"}, SubmitRemote(j, m) PROVE OneDrive'
  BY <1>11 DEF SubmitRemote
<1>12. ASSUME NEW j \in Jobs, NEW r \in {"good", "bad"}, SubmitInline(j, r) PROVE OneDrive'
  BY <1>12 DEF SubmitInline
<1>13. ASSUME NEW j \in Jobs, Store(j) PROVE OneDrive'
  BY <1>13 DEF Store, Report, Metered
<1>14. ASSUME NEW j \in Jobs, Read(j) PROVE OneDrive'
  BY <1>14 DEF Read, Kept, Expired, Report, MayDrive, Pending
<1>15. ASSUME NEW j \in Jobs, Delete(j) PROVE OneDrive'
  BY <1>15 DEF Delete
<1>16. ASSUME NEW j \in Jobs, NEW r \in {"good", "bad", "failed"}, BackendEnds(j, r) PROVE OneDrive'
  BY <1>16 DEF BackendEnds
<1>17. ASSUME NEW j \in Jobs, Webhook(j) PROVE OneDrive'
  BY <1>17 DEF Webhook, Metered
<1>18. ASSUME NEW j \in Jobs, Age(j) PROVE OneDrive'
  BY <1>18 DEF Age
<1>19. ASSUME NEW j \in Jobs, BecomeDue(j) PROVE OneDrive'
  BY <1>19 DEF BecomeDue
<1>20. QED
  BY <1>1, <1>2, <1>3, <1>4, <1>5, <1>6, <1>7, <1>8, <1>9, <1>10, <1>11, <1>12,
     <1>13, <1>14, <1>15, <1>16, <1>17, <1>18, <1>19, NextIsStep DEF Step

\* A poll job becomes terminal only in the drive that reports it.
LEMMA HeardStep == Core /\ [Next]_vars => HeardInv'
<1> SUFFICES ASSUME Core, Next PROVE HeardInv'
  BY DEF Core, TypeOK, PostInv, AnswerInv, DriveInv, OneDrive, HeardInv, Reporting, NotSweptUnheard, vars
<1> USE JobsAssumption DEF Core, TypeOK, PostInv, AnswerInv, DriveInv, HeardInv, Reporting
<1>1. CASE Sweep
  BY <1>1 DEF Sweep, Kept, Expired
<1>2. ASSUME NEW g \in Getters, NEW j \in Jobs, StartDrive(g, j) PROVE HeardInv'
  BY <1>2 DEF StartDrive, Kept, Expired, MayDrive, Pending
<1>3. ASSUME NEW g \in Getters, PollRunning(g) PROVE HeardInv'
  BY <1>3 DEF PollRunning, MayPoll, Driving
<1>4. ASSUME NEW g \in Getters, PollDone(g) PROVE HeardInv'
  BY <1>4 DEF PollDone, MayPoll, Driving
<1>5. ASSUME NEW g \in Getters, PollFaults(g) PROVE HeardInv'
  BY <1>5 DEF PollFaults, MayPoll, Driving
<1>6. ASSUME NEW g \in Getters, DriveRaises(g) PROVE HeardInv'
  BY <1>6 DEF DriveRaises, Driving, EndDrive, Report
<1>7. ASSUME NEW g \in Getters, SliceExpires(g) PROVE HeardInv'
  BY <1>7 DEF SliceExpires, Driving, EndDrive, Report
<1>8. ASSUME NEW g \in Getters, FinishDrive(g) PROVE HeardInv'
  BY <1>8 DEF FinishDrive, EndDrive, Report, Metered
<1>9. ASSUME NEW j \in Jobs, NEW p \in Principals, Admit(j, p) PROVE HeardInv'
  BY <1>9 DEF Admit, Kept, Expired
<1>10. ASSUME NEW j \in Jobs, Reject(j) PROVE HeardInv'
  BY <1>10 DEF Reject
<1>11. ASSUME NEW j \in Jobs, NEW m \in {"poll", "webhook"}, SubmitRemote(j, m) PROVE HeardInv'
  BY <1>11 DEF SubmitRemote
<1>12. ASSUME NEW j \in Jobs, NEW r \in {"good", "bad"}, SubmitInline(j, r) PROVE HeardInv'
  BY <1>12 DEF SubmitInline
<1>13. ASSUME NEW j \in Jobs, Store(j) PROVE HeardInv'
  BY <1>13 DEF Store, Report, Metered
<1>14. ASSUME NEW j \in Jobs, Read(j) PROVE HeardInv'
  BY <1>14 DEF Read, Kept, Expired, Report, MayDrive, Pending
<1>15. ASSUME NEW j \in Jobs, Delete(j) PROVE HeardInv'
  BY <1>15 DEF Delete
<1>16. ASSUME NEW j \in Jobs, NEW r \in {"good", "bad", "failed"}, BackendEnds(j, r) PROVE HeardInv'
  BY <1>16 DEF BackendEnds
<1>17. ASSUME NEW j \in Jobs, Webhook(j) PROVE HeardInv'
  BY <1>17 DEF Webhook, Metered
<1>18. ASSUME NEW j \in Jobs, Age(j) PROVE HeardInv'
  BY <1>18 DEF Age
<1>19. ASSUME NEW j \in Jobs, BecomeDue(j) PROVE HeardInv'
  BY <1>19 DEF BecomeDue
<1>20. QED
  BY <1>1, <1>2, <1>3, <1>4, <1>5, <1>6, <1>7, <1>8, <1>9, <1>10, <1>11, <1>12,
     <1>13, <1>14, <1>15, <1>16, <1>17, <1>18, <1>19, NextIsStep DEF Step

\* A sweep takes only terminal jobs, whose owners HeardInv accounts for.
LEMMA SweptStep == Core /\ [Next]_vars => NotSweptUnheard'
<1> SUFFICES ASSUME Core, Next PROVE NotSweptUnheard'
  BY DEF Core, TypeOK, PostInv, AnswerInv, DriveInv, OneDrive, HeardInv, Reporting, NotSweptUnheard, vars
<1> USE JobsAssumption DEF Core, TypeOK, PostInv, AnswerInv, DriveInv, HeardInv, NotSweptUnheard, Reporting
<1>1. CASE Sweep
  BY <1>1 DEF Sweep, Kept, Expired
<1>2. ASSUME NEW g \in Getters, NEW j \in Jobs, StartDrive(g, j) PROVE NotSweptUnheard'
  BY <1>2 DEF StartDrive, Kept, Expired, MayDrive, Pending
<1>3. ASSUME NEW g \in Getters, PollRunning(g) PROVE NotSweptUnheard'
  BY <1>3 DEF PollRunning, MayPoll, Driving
<1>4. ASSUME NEW g \in Getters, PollDone(g) PROVE NotSweptUnheard'
  BY <1>4 DEF PollDone, MayPoll, Driving
<1>5. ASSUME NEW g \in Getters, PollFaults(g) PROVE NotSweptUnheard'
  BY <1>5 DEF PollFaults, MayPoll, Driving
<1>6. ASSUME NEW g \in Getters, DriveRaises(g) PROVE NotSweptUnheard'
  BY <1>6 DEF DriveRaises, Driving, EndDrive, Report
<1>7. ASSUME NEW g \in Getters, SliceExpires(g) PROVE NotSweptUnheard'
  BY <1>7 DEF SliceExpires, Driving, EndDrive, Report
<1>8. ASSUME NEW g \in Getters, FinishDrive(g) PROVE NotSweptUnheard'
  BY <1>8 DEF FinishDrive, EndDrive, Report, Metered
<1>9. ASSUME NEW j \in Jobs, NEW p \in Principals, Admit(j, p) PROVE NotSweptUnheard'
  BY <1>9 DEF Admit, Kept, Expired
<1>10. ASSUME NEW j \in Jobs, Reject(j) PROVE NotSweptUnheard'
  BY <1>10 DEF Reject
<1>11. ASSUME NEW j \in Jobs, NEW m \in {"poll", "webhook"}, SubmitRemote(j, m) PROVE NotSweptUnheard'
  BY <1>11 DEF SubmitRemote
<1>12. ASSUME NEW j \in Jobs, NEW r \in {"good", "bad"}, SubmitInline(j, r) PROVE NotSweptUnheard'
  BY <1>12 DEF SubmitInline
<1>13. ASSUME NEW j \in Jobs, Store(j) PROVE NotSweptUnheard'
  BY <1>13 DEF Store, Report, Metered
<1>14. ASSUME NEW j \in Jobs, Read(j) PROVE NotSweptUnheard'
  BY <1>14 DEF Read, Kept, Expired, Report, MayDrive, Pending
<1>15. ASSUME NEW j \in Jobs, Delete(j) PROVE NotSweptUnheard'
  BY <1>15 DEF Delete
<1>16. ASSUME NEW j \in Jobs, NEW r \in {"good", "bad", "failed"}, BackendEnds(j, r) PROVE NotSweptUnheard'
  BY <1>16 DEF BackendEnds
<1>17. ASSUME NEW j \in Jobs, Webhook(j) PROVE NotSweptUnheard'
  BY <1>17 DEF Webhook, Metered
<1>18. ASSUME NEW j \in Jobs, Age(j) PROVE NotSweptUnheard'
  BY <1>18 DEF Age
<1>19. ASSUME NEW j \in Jobs, BecomeDue(j) PROVE NotSweptUnheard'
  BY <1>19 DEF BecomeDue
<1>20. QED
  BY <1>1, <1>2, <1>3, <1>4, <1>5, <1>6, <1>7, <1>8, <1>9, <1>10, <1>11, <1>12,
     <1>13, <1>14, <1>15, <1>16, <1>17, <1>18, <1>19, NextIsStep DEF Step

-----------------------------------------------------------------------------
(* The bound of the store                                                  *)

\* Sets of jobs are finite, and grow by at most what is put into them.
LEMMA JobSets ==
  ASSUME NEW S \in SUBSET Jobs
  PROVE  /\ Cardinality(S) \in Nat
         /\ \A T \in SUBSET S : Cardinality(T) <= Cardinality(S)
         /\ \A x \in S : Cardinality(S \ {x}) = Cardinality(S) - 1
         /\ \A x \in Jobs : Cardinality(S \cup {x}) <= Cardinality(S) + 1
<1>1. IsFiniteSet(S)
  BY JobsAssumption, FS_Subset
<1>2. QED
  BY <1>1, FS_Subset, FS_CardinalityType, FS_AddElement, FS_RemoveElement

\* The union of two sets of jobs is no larger than both.
LEMMA JobUnions ==
  ASSUME NEW S \in SUBSET Jobs, NEW T \in SUBSET Jobs
  PROVE  Cardinality(S \cup T) <= Cardinality(S) + Cardinality(T)
<1>1. IsFiniteSet(S) /\ IsFiniteSet(T)
  BY JobsAssumption, FS_Subset
<1>2. Cardinality(S \cup T) = Cardinality(S) + Cardinality(T) - Cardinality(S \cap T)
  BY <1>1, FS_Union
<1>3. Cardinality(S \cap T) \in Nat /\ Cardinality(S) \in Nat /\ Cardinality(T) \in Nat
  BY JobSets
<1>4. QED
  BY <1>2, <1>3

\* The jobs of principal p that are stored or on their way to the store.
Share(p) == {j \in held \cup InFlight : owner[j] = p}

\* A step that brings no job closer to the store keeps the bound.
LEMMA NothingAdded ==
  ASSUME TypeOK, StoreBound, held' \subseteq held, InFlight' \subseteq InFlight,
         UNCHANGED owner
  PROVE  StoreBound'
<1>1. held \subseteq Jobs /\ InFlight \subseteq Jobs
  BY DEF TypeOK, InFlight
<1>2. /\ Cardinality(held) \in Nat /\ Cardinality(InFlight) \in Nat
      /\ Cardinality(held') \in Nat /\ Cardinality(InFlight') \in Nat
      /\ Cardinality(held') <= Cardinality(held)
      /\ Cardinality(InFlight') <= Cardinality(InFlight)
  BY <1>1, JobSets
<1>3. ASSUME NEW p \in Principals
      PROVE  Cardinality(Share(p)') < MaxPerPrincipal + MaxSubmits
  <2>1. Share(p) \in SUBSET Jobs /\ Share(p)' \in SUBSET Share(p)
    BY <1>1 DEF Share
  <2>2. Cardinality(Share(p)') <= Cardinality(Share(p))
        /\ Cardinality(Share(p)) \in Nat /\ Cardinality(Share(p)') \in Nat
    BY <2>1, JobSets
  <2>3. Cardinality(Share(p)) < MaxPerPrincipal + MaxSubmits
    BY DEF StoreBound, Share
  <2>4. QED
    BY <2>2, <2>3, CapsAssumption
<1>4. Cardinality(held') + Cardinality(InFlight') < MaxJobs + MaxSubmits
  BY <1>2, CapsAssumption DEF StoreBound
<1>5. QED
  BY <1>3, <1>4 DEF StoreBound, Share

\* An admission leaves room for itself among the submissions in flight.
LEMMA AdmitBound ==
  ASSUME TypeOK, PostInv, StoreBound, NEW j \in Jobs, NEW q \in Principals, Admit(j, q)
  PROVE  StoreBound'
<1>1. held' = Kept /\ InFlight' = InFlight \cup {j} /\ owner' = [owner EXCEPT ![j] = q]
  BY DEF Admit, InFlight, TypeOK
<1>2. /\ Kept \subseteq Jobs /\ InFlight \subseteq Jobs /\ j \notin Kept
      /\ Kept \subseteq held
  BY DEF TypeOK, Kept, InFlight, PostInv, Admit
<1>3. /\ Cardinality(Kept) \in Nat /\ Cardinality(Kept) < MaxJobs
      /\ Cardinality(InFlight) \in Nat /\ Cardinality(InFlight) < MaxSubmits
      /\ Cardinality(InFlight') \in Nat
      /\ Cardinality(InFlight') <= Cardinality(InFlight) + 1
  <2>1. InFlight' \in SUBSET Jobs
    BY <1>1, <1>2
  <2>2. QED
    BY <1>1, <1>2, <2>1, JobSets DEF Admit, HasRoom
<1>4. Cardinality(held') + Cardinality(InFlight') < MaxJobs + MaxSubmits
  BY <1>1, <1>3, CapsAssumption
<1>5. ASSUME NEW p \in Principals
      PROVE  Cardinality(Share(p)') < MaxPerPrincipal + MaxSubmits
  <2>1. CASE p = q
    <3>1. Share(p)' \in SUBSET (HeldBy(p) \cup InFlight')
      BY <1>1, <1>2 DEF Share, HeldBy, TypeOK
    <3>2. HeldBy(p) \in SUBSET Jobs /\ InFlight' \in SUBSET Jobs
      BY <1>1, <1>2 DEF HeldBy
    <3>3. /\ Cardinality(Share(p)') \in Nat
          /\ Cardinality(Share(p)') <= Cardinality(HeldBy(p) \cup InFlight')
          /\ Cardinality(HeldBy(p) \cup InFlight') \in Nat
          /\ Cardinality(HeldBy(p)) \in Nat
      BY <3>1, <3>2, JobSets
    <3>4. Cardinality(HeldBy(p) \cup InFlight') <= Cardinality(HeldBy(p)) + Cardinality(InFlight')
      BY <3>2, JobUnions
    <3>5. Cardinality(HeldBy(p)) < MaxPerPrincipal
      BY <2>1 DEF Admit, HasRoom
    <3>6. QED
      BY <3>3, <3>4, <3>5, <1>3, CapsAssumption
  <2>2. CASE p # q
    <3>1. Share(p) \in SUBSET Jobs /\ Share(p)' \in SUBSET Share(p)
      BY <1>1, <1>2, <2>2 DEF Share, TypeOK
    <3>2. /\ Cardinality(Share(p)') <= Cardinality(Share(p))
          /\ Cardinality(Share(p)) \in Nat /\ Cardinality(Share(p)') \in Nat
      BY <3>1, JobSets
    <3>3. Cardinality(Share(p)) < MaxPerPrincipal + MaxSubmits
      BY DEF StoreBound, Share
    <3>4. QED
      BY <3>2, <3>3, CapsAssumption
  <2>3. QED
    BY <2>1, <2>2
<1>6. QED
  BY <1>4, <1>5 DEF StoreBound, Share

\* Storing a record trades a submission in flight for a record.
LEMMA StoringBound ==
  ASSUME TypeOK, PostInv, StoreBound, NEW j \in Jobs, Store(j)
  PROVE  StoreBound'
<1>1. /\ held' = held \cup {j} /\ InFlight' = InFlight \ {j} /\ j \in InFlight
      /\ UNCHANGED owner
  BY DEF Store, InFlight, TypeOK
<1>2. held \in SUBSET Jobs /\ InFlight \in SUBSET Jobs
  BY DEF TypeOK, InFlight
<1>3. /\ Cardinality(held') <= Cardinality(held) + 1
      /\ Cardinality(InFlight') = Cardinality(InFlight) - 1
      /\ Cardinality(held) \in Nat /\ Cardinality(InFlight) \in Nat
  BY <1>1, <1>2, JobSets
<1>4. Cardinality(held') \in Nat
  <2>1. held' \in SUBSET Jobs
    BY <1>1, <1>2
  <2>2. QED
    BY <2>1, JobSets
<1>5. \A p \in Principals : Share(p)' = Share(p)
  BY <1>1 DEF Share
<1>6. QED
  BY <1>3, <1>4, <1>5, CapsAssumption DEF StoreBound, Share

\* Each action keeps the bound of the store.
LEMMA StoreStep == Core /\ StoreBound /\ [Next]_vars => StoreBound'
<1> SUFFICES ASSUME Core, StoreBound, [Next]_vars PROVE StoreBound'
  OBVIOUS
<1>1. TypeOK /\ PostInv
  BY DEF Core
<1>2. ASSUME NEW j \in Jobs, NEW p \in Principals, Admit(j, p) PROVE StoreBound'
  BY <1>1, <1>2, AdmitBound
<1>3. ASSUME NEW j \in Jobs, Store(j) PROVE StoreBound'
  BY <1>1, <1>3, StoringBound
<1>4. ASSUME held' \subseteq held, InFlight' \subseteq InFlight, UNCHANGED owner
      PROVE  StoreBound'
  BY <1>1, <1>4, NothingAdded
<1>5. CASE Sweep
  BY <1>4, <1>5 DEF Sweep, Kept, InFlight
<1>6. ASSUME NEW g \in Getters, Getting(g) PROVE StoreBound'
  BY <1>4, <1>6 DEF Getting, StartDrive, Polling, PollRunning, PollDone, PollFaults,
    DriveRaises, SliceExpires, FinishDrive, Kept, InFlight
<1>7. ASSUME NEW j \in Jobs, Reject(j) PROVE StoreBound'
  BY <1>1, <1>4, <1>7 DEF Reject, InFlight, TypeOK
<1>8. ASSUME NEW j \in Jobs, NEW m \in {"poll", "webhook"}, SubmitRemote(j, m)
      PROVE  StoreBound'
  BY <1>1, <1>4, <1>8 DEF SubmitRemote, InFlight, TypeOK
<1>9. ASSUME NEW j \in Jobs, NEW r \in {"good", "bad"}, SubmitInline(j, r)
      PROVE  StoreBound'
  BY <1>1, <1>4, <1>9 DEF SubmitInline, InFlight, TypeOK
<1>10. ASSUME NEW j \in Jobs, Read(j) \/ Delete(j) \/ Outside(j) \/ Age(j) \/ BecomeDue(j)
       PROVE  StoreBound'
  BY <1>4, <1>10 DEF Read, Delete, Outside, BackendEnds, Webhook, Age, BecomeDue, Kept, InFlight
<1>11. CASE UNCHANGED vars
  BY <1>4, <1>11 DEF vars, InFlight
<1>12. QED
  BY <1>2, <1>3, <1>5, <1>6, <1>7, <1>8, <1>9, <1>10, <1>11 DEF Next, Posting

-----------------------------------------------------------------------------
(* The theorems                                                            *)

\* Each action keeps the core.
LEMMA CoreStep == Core /\ [Next]_vars => Core'
BY TypeStep, PostStep, AnswerStep, DriveStep, OneDriveStep, HeardStep, SweptStep DEF Core

\* The invariant holds of every behaviour.
THEOREM ServerInvariant == Spec => [](Core /\ StoreBound)
<1>1. Init => StoreBound
  <2> SUFFICES ASSUME Init PROVE StoreBound
    OBVIOUS
  <2>1. held = {} /\ InFlight = {}
    BY DEF Init, InFlight
  <2>2. \A p \in Principals : {j \in held \cup InFlight : owner[j] = p} = {}
    BY <2>1
  <2>3. QED
    BY <2>1, <2>2, FS_EmptySet, CapsAssumption DEF StoreBound
<1>2. QED
  BY <1>1, InitInv, CoreStep, StoreStep, PTL DEF Spec

\* Every variable of the job store keeps its type; in particular a streak of
\* faults never passes MAX_CONSECUTIVE_FAULTS (router/driver.py).
THEOREM ServerTypeCorrect == Spec => []TypeOK
<1>1. Core => TypeOK
  BY DEF Core
<1>2. QED
  BY <1>1, ServerInvariant, PTL

\* However many submissions race past the admission check of POST /v1/jobs,
\* the store exceeds its caps by less than their number.
THEOREM StoreIsCapped == Spec => []StoreBound
BY ServerInvariant, PTL

\* No two requests ever drive one job at once: a drive holds drive_lock, and a
\* request that finds it held drives nothing.
THEOREM DrivesExclude == Spec => []OneDrive
<1>1. Core => OneDrive
  BY DEF Core
<1>2. QED
  BY <1>1, ServerInvariant, PTL

\* The sweep never takes a poll job whose owner has not heard, or is not about
\* to hear, how it ended.
THEOREM NothingIsSweptUnheard == Spec => []NotSweptUnheard
<1>1. Core => NotSweptUnheard
  BY DEF Core
<1>2. QED
  BY <1>1, ServerInvariant, PTL

\* No later report contradicts an outcome the owner was told.
LEMMA ToldStep ==
  Core /\ Core' /\ [Next]_vars => \A j \in Jobs : told[j] # "nothing" => told'[j] = told[j]
<1> SUFFICES ASSUME Core, Core', [Next]_vars, NEW k \in Jobs, told[k] # "nothing"
             PROVE  told'[k] = told[k]
  OBVIOUS
<1> USE DEF Core, TypeOK, PostInv, AnswerInv, DriveInv
<1>1. CASE \E g \in Getters : DriveRaises(g) \/ SliceExpires(g) \/ FinishDrive(g)
  BY <1>1 DEF DriveRaises, SliceExpires, FinishDrive, Driving, EndDrive, Report, Metered
<1>2. CASE \E j \in Jobs : Store(j)
  BY <1>2 DEF Store, Report, Metered
<1>3. CASE \E j \in Jobs : Read(j)
  BY <1>3 DEF Read, Report
<1>4. CASE UNCHANGED told
  BY <1>4
<1>5. CASE Sweep
  BY <1>4, <1>5 DEF Sweep
<1>6. ASSUME NEW g \in Getters, Getting(g) PROVE told'[k] = told[k]
  BY <1>1, <1>4, <1>6 DEF Getting, StartDrive, Polling, PollRunning, PollDone, PollFaults
<1>7. ASSUME NEW j \in Jobs, Posting(j) PROVE told'[k] = told[k]
  BY <1>2, <1>4, <1>7 DEF Posting, Admit, Reject, SubmitRemote, SubmitInline
<1>8. ASSUME NEW j \in Jobs, Read(j) \/ Delete(j) \/ Outside(j) \/ Age(j) \/ BecomeDue(j)
      PROVE  told'[k] = told[k]
  BY <1>3, <1>4, <1>8 DEF Delete, Outside, BackendEnds, Webhook, Age, BecomeDue
<1>9. CASE UNCHANGED vars
  BY <1>4, <1>9 DEF vars
<1>10. QED
  BY <1>5, <1>6, <1>7, <1>8, <1>9 DEF Next

\* What a job has been told to have come to is never told otherwise: no later poll, webhook
\* or read of the job changes it.
THEOREM OutcomesStick == Spec => OutcomeSticks
<1>1. Core /\ Core' /\ [Next]_vars
        => [\A j \in Jobs : told[j] # "nothing" => told'[j] = told[j]]_vars
  BY ToldStep
<1>2. QED
  BY <1>1, ServerInvariant, CoreStep, PTL DEF Spec, OutcomeSticks

-----------------------------------------------------------------------------
(* What pruning leaves of a strategy                                       *)

\* The smallest of some numbers is one of them.
LEMMA LowestIsOne ==
    ASSUME NEW S \in SUBSET Nat, S # {}
    PROVE  Min(S) \in S /\ \A k \in S : Min(S) <= k
<1>1. PICK m \in S : \A k \in S : <<k, m>> \notin OpToRel(<, Nat)
  BY WFMin, NatLessThanWellFounded
<1>2. \A k \in S : ~(k < m)
  BY <1>1, Zenon DEF OpToRel
<1>3. \A k \in S : m <= k
  BY <1>2
<1> QED
  BY <1>1, <1>3 DEF Min

\* What a node of a compiled tree is, by its kind: its children are nodes of the tree.
LEMMA NodeKinds ==
    ASSUME NEW tree, Compilable(tree), NEW k \in DOMAIN tree
    PROVE  /\ DOMAIN tree \subseteq Nat
           /\ \/ tree[k].kind \in {"leaf", "use"}
              \/ /\ tree[k] \in [kind : {"steps", "parallel"}, of : SUBSET DOMAIN tree]
              \/ /\ tree[k] \in [kind : {"route", "decide"}, of : SUBSET DOMAIN tree,
                                 default : DOMAIN tree]
<1>1. DOMAIN tree = 1..Len(tree) /\ Len(tree) \in Nat
  BY LenProperties DEF Compilable, IsList
<1>2. (k + 1)..Len(tree) \subseteq DOMAIN tree /\ DOMAIN tree \subseteq Nat
  BY <1>1
<1>3. CASE tree[k].kind \in {"leaf", "use"}
  BY <1>2, <1>3
<1>4. CASE tree[k] \in [kind : {"steps", "parallel"}, of : SUBSET ((k + 1)..Len(tree))]
  BY <1>2, <1>4
<1>5. CASE tree[k] \in [kind : {"route", "decide"}, of : SUBSET ((k + 1)..Len(tree)),
                        default : (k + 1)..Len(tree)]
  BY <1>2, <1>5
<1> QED
  BY <1>3, <1>4, <1>5 DEF Compilable

\* What stands by some nodes stands by more.
LEMMA StandsByMore ==
    ASSUME NEW tree, Compilable(tree), NEW k \in DOMAIN tree, NEW a, NEW some, NEW more,
           some \subseteq more, Stands(tree[k], some, a)
    PROVE  Stands(tree[k], more, a)
  BY NodeKinds DEF Stands

\* The nodes that pruning leaves stand by one another, and are all that do.
LEMMA SurvivorsStand ==
    ASSUME NEW tree, Compilable(tree), NEW a
    PROVE  \A k \in DOMAIN tree :
              k \in Survivors(tree, a) <=> Stands(tree[k], Survivors(tree, a), a)
<1> DEFINE kept == Survivors(tree, a)
<1>1. ASSUME NEW k \in kept
      PROVE  Stands(tree[k], kept, a)
  <2>1. PICK some \in SUBSET DOMAIN tree :
            k \in some /\ \A j \in some : Stands(tree[j], some, a)
    BY DEF Survivors
  <2>2. some \subseteq kept
    BY <2>1 DEF Survivors
  <2> QED
    BY <2>1, <2>2, StandsByMore
<1>2. ASSUME NEW k \in DOMAIN tree, Stands(tree[k], kept, a)
      PROVE  k \in kept
  <2>1. kept \cup {k} \in SUBSET DOMAIN tree
    BY DEF Survivors
  <2>2. \A j \in kept \cup {k} : Stands(tree[j], kept \cup {k}, a)
    BY <1>1, <1>2, <2>1, StandsByMore
  <2> QED
    BY <2>1, <2>2 DEF Survivors
<1> QED
  BY <1>1, <1>2

\* A node that is left is of its kind, and holds what is left of what it held.
LEMMA RemadeIs ==
    ASSUME NEW tree, Compilable(tree), NEW a, NEW kept, kept = Survivors(tree, a), NEW k \in kept
    PROVE  /\ k \in DOMAIN tree /\ Remade(tree[k], kept).kind = tree[k].kind
           /\ tree[k].kind \in {"leaf", "use"} => Remade(tree[k], kept) = tree[k]
           /\ Held(Remade(tree[k], kept)) \subseteq kept \cap Held(tree[k])
           /\ tree[k].kind = "leaf" => Within(tree[k].backend, a)
<1>1. k \in DOMAIN tree /\ kept \subseteq DOMAIN tree
  BY DEF Survivors
<1>2. Stands(tree[k], kept, a)
  BY <1>1, SurvivorsStand
<1>3. CASE tree[k].kind \in {"leaf", "use"}
  BY <1>1, <1>2, <1>3 DEF Remade, Held, Stands
<1>4. CASE tree[k] \in [kind : {"steps", "parallel"}, of : SUBSET DOMAIN tree]
  BY <1>1, <1>2, <1>4 DEF Remade, Held, Stands
<1>5. CASE /\ tree[k] \in [kind : {"route", "decide"}, of : SUBSET DOMAIN tree,
                           default : DOMAIN tree]
           /\ tree[k].default \in kept
  <2>1. Remade(tree[k], kept) = [tree[k] EXCEPT !.of = tree[k].of \cap kept]
    BY <1>5 DEF Remade
  <2>2. /\ Remade(tree[k], kept).kind = tree[k].kind
        /\ Remade(tree[k], kept).of = tree[k].of \cap kept
        /\ Remade(tree[k], kept).default = tree[k].default
        /\ tree[k].kind \in {"route", "decide"}
    BY <1>5, <2>1
  <2>3. /\ Held(Remade(tree[k], kept)) = (tree[k].of \cap kept) \cup {tree[k].default}
        /\ Held(tree[k]) = tree[k].of \cup {tree[k].default}
    BY <2>2, Zenon DEF Held
  <2>4. Held(Remade(tree[k], kept)) \subseteq kept \cap Held(tree[k])
    BY <1>5, <2>3, Zenon
  <2>5. tree[k].kind \notin {"leaf", "use"}
    BY <2>2
  <2> QED
    BY <1>1, <2>2, <2>4, <2>5, Zenon
<1>6. CASE /\ tree[k] \in [kind : {"route", "decide"}, of : SUBSET DOMAIN tree,
                           default : DOMAIN tree]
           /\ tree[k].default \notin kept
  <2>1. tree[k].kind = "decide" /\ tree[k].of \cap kept # {}
    BY <1>2, <1>6 DEF Stands
  <2>2. Min(tree[k].of \cap kept) \in tree[k].of \cap kept
    BY <1>1, <2>1, NodeKinds, LowestIsOne
  <2>3. Remade(tree[k], kept) = [tree[k] EXCEPT !.of = tree[k].of \cap kept,
                                               !.default = Min(tree[k].of \cap kept)]
    BY <1>6, <2>1 DEF Remade
  <2>4. /\ Remade(tree[k], kept).kind = tree[k].kind
        /\ Remade(tree[k], kept).of = tree[k].of \cap kept
        /\ Remade(tree[k], kept).default = Min(tree[k].of \cap kept)
    BY <1>6, <2>3
  <2>5. /\ Held(Remade(tree[k], kept))
              = (tree[k].of \cap kept) \cup {Min(tree[k].of \cap kept)}
        /\ Held(tree[k]) = tree[k].of \cup {tree[k].default}
    BY <2>1, <2>4, Zenon DEF Held
  <2>6. Held(Remade(tree[k], kept)) \subseteq kept \cap Held(tree[k])
    BY <2>2, <2>5, Zenon
  <2>7. tree[k].kind \notin {"leaf", "use"}
    BY <2>1
  <2> QED
    BY <1>1, <2>4, <2>6, <2>7, Zenon
<1> QED
  BY <1>1, <1>3, <1>4, <1>5, <1>6, NodeKinds

\* Of fewer steps, fewer are come to.
LEMMA FewerReached ==
    ASSUME NEW fewer, NEW leads, NEW start \in DOMAIN fewer,
           DOMAIN fewer \subseteq DOMAIN leads,
           \A p \in DOMAIN fewer : fewer[p] \subseteq DOMAIN fewer \cap leads[p]
    PROVE  ReachedFrom(start, fewer) \subseteq ReachedFrom(start, leads)
<1> SUFFICES ASSUME NEW p \in ReachedFrom(start, fewer), NEW some \in SUBSET DOMAIN leads,
                    start \in some, \A q \in some : leads[q] \subseteq some
             PROVE  p \in some
  BY DEF ReachedFrom
<1>1. some \cap DOMAIN fewer \in SUBSET DOMAIN fewer
  OBVIOUS
<1>2. \A q \in some \cap DOMAIN fewer : fewer[q] \subseteq some \cap DOMAIN fewer
  OBVIOUS
<1> QED
  BY <1>1, <1>2 DEF ReachedFrom

\* Pruning by a scope drops the branches out of it and adds nothing.
LEMMA PrunedIs ==
    ASSUME NEW tree, Compilable(tree), NEW a
    PROVE  /\ InTree(Pruned(tree, a)) \subseteq InTree(tree) \cap Survivors(tree, a)
           /\ LeavesOf(Pruned(tree, a)) \subseteq {b \in LeavesOf(tree) : Within(b, a)}
           /\ RefersTo(Pruned(tree, a)) \subseteq RefersTo(tree)
<1> DEFINE kept == Survivors(tree, a)
           rest == Pruned(tree, a)
           fewer == [k \in DOMAIN rest |-> Held(rest[k])]
           leads == [k \in DOMAIN tree |-> Held(tree[k])]
<1>1. DOMAIN rest = kept /\ \A k \in kept : rest[k] = Remade(tree[k], kept)
  BY DEF Pruned
<1>2. kept \subseteq DOMAIN tree
  BY DEF Survivors
<1>3. \A k \in kept :
         /\ rest[k].kind = tree[k].kind
         /\ rest[k].kind \in {"leaf", "use"} => rest[k] = tree[k]
         /\ Held(rest[k]) \subseteq kept \cap Held(tree[k])
         /\ rest[k].kind = "leaf" => Within(rest[k].backend, a)
  BY <1>1, RemadeIs
<1> HIDE DEF rest, kept
<1>4. InTree(rest) \subseteq InTree(tree) \cap kept
  <2>1. CASE 1 \in kept
    <3>1. DOMAIN fewer = kept /\ DOMAIN leads = DOMAIN tree /\ 1 \in DOMAIN fewer
      BY <1>1, <2>1
    <3>2. \A p \in DOMAIN fewer : fewer[p] \subseteq DOMAIN fewer \cap leads[p]
      BY <1>1, <1>2, <1>3
    <3>3. ReachedFrom(1, fewer) \subseteq ReachedFrom(1, leads)
      BY <1>2, <3>1, <3>2, FewerReached
    <3>4. ReachedFrom(1, fewer) \subseteq kept
      BY <3>1 DEF ReachedFrom
    <3> QED
      BY <1>1, <1>2, <2>1, <3>3, <3>4 DEF InTree
  <2>2. CASE 1 \notin kept
    BY <1>1, <2>2 DEF InTree
  <2> QED
    BY <2>1, <2>2
<1>5. LeavesOf(rest) \subseteq {b \in LeavesOf(tree) : Within(b, a)}
  BY <1>3, <1>4 DEF LeavesOf
<1>6. RefersTo(rest) \subseteq RefersTo(tree)
  BY <1>3, <1>4 DEF RefersTo
<1> QED
  BY <1>4, <1>5, <1>6 DEF rest, kept

\* A strategy compiled for a scope reaches only what it mentions, and of that what is in
\* the scope.
LEMMA CompiledIsWithin ==
    ASSUME NEW n \in DOMAIN Trees, NEW a
    PROVE  Concrete(PrunedFor(a), n) \subseteq {b \in Mentioned[n] : Within(b, a)}
<1> DEFINE fewer == [m \in DOMAIN PrunedFor(a) |-> RefersTo(PrunedFor(a)[m]) \cap DOMAIN PrunedFor(a)]
           leads == [m \in DOMAIN Trees |-> RefersTo(Trees[m]) \cap DOMAIN Trees]
<1>1. DOMAIN PrunedFor(a) = DOMAIN Trees /\ \A m \in DOMAIN Trees : PrunedFor(a)[m] = Pruned(Trees[m], a)
  BY DEF PrunedFor
<1>2. \A m \in DOMAIN Trees : Compilable(Trees[m])
  BY Requestable DEF DispatchAssumption
<1>3. \A m \in DOMAIN Trees :
         /\ LeavesOf(PrunedFor(a)[m]) \subseteq {b \in LeavesOf(Trees[m]) : Within(b, a)}
         /\ RefersTo(PrunedFor(a)[m]) \subseteq RefersTo(Trees[m])
  BY <1>1, <1>2, PrunedIs
<1>4. ReachedFrom(n, fewer) \subseteq ReachedFrom(n, leads)
  <2>1. DOMAIN fewer = DOMAIN Trees /\ DOMAIN leads = DOMAIN Trees
    BY <1>1
  <2>2. \A p \in DOMAIN fewer : fewer[p] \subseteq DOMAIN fewer \cap leads[p]
    BY <1>1, <1>3
  <2> QED
    BY <2>1, <2>2, FewerReached
<1>5. ReachedFrom(n, leads) \subseteq DOMAIN Trees
  BY DEF ReachedFrom
<1>6. Mentioned[n] = UNION {LeavesOf(Trees[m]) : m \in ReachedFrom(n, leads)}
  BY DEF Mentioned, Concrete
<1>7. Concrete(PrunedFor(a), n) = UNION {LeavesOf(PrunedFor(a)[m]) : m \in ReachedFrom(n, fewer)}
  BY DEF Concrete
<1> HIDE DEF fewer, leads
<1> QED
  BY <1>3, <1>4, <1>5, <1>6, <1>7

\* A strategy that is pruned to nothing has no leaf in scope but behind a route's rule or
\* a reference.
LEMMA NothingSurelyLeft ==
    ASSUME NEW n \in DOMAIN Trees, NEW a, 1 \notin DOMAIN Pruned(Trees[n], a)
    PROVE  \A b \in Certain[n] : ~Within(b, a)
<1> DEFINE tree == Trees[n]
           kept == Survivors(tree, a)
           leads == [k \in DOMAIN tree |-> Surely(tree[k])]
           gone == DOMAIN tree \ kept
<1>1. Compilable(tree)
  BY Requestable DEF DispatchAssumption
<1>2. \A k \in DOMAIN tree : k \in kept <=> Stands(tree[k], kept, a)
  BY <1>1, SurvivorsStand
<1>3. 1 \in gone
  <2>1. DOMAIN tree = 1..Len(tree) /\ Len(tree) \in Nat /\ Len(tree) # 0
    BY <1>1, LenProperties, EmptySeq DEF Compilable, IsList
  <2>2. DOMAIN Pruned(tree, a) = kept
    BY DEF Pruned
  <2> QED
    BY <2>1, <2>2
<1> HIDE DEF kept, tree
<1>4. \A k \in gone : leads[k] \subseteq gone
  <2> SUFFICES ASSUME NEW k \in gone
               PROVE  Surely(tree[k]) \subseteq gone
    OBVIOUS
  <2>1. ~Stands(tree[k], kept, a)
    BY <1>2
  <2> QED
    BY <1>1, <2>1, NodeKinds DEF Surely, Stands
<1>5. \A k \in SurelyIn(tree) : k \in gone
  BY <1>3, <1>4 DEF SurelyIn, ReachedFrom
<1>6. \A k \in gone : tree[k].kind = "leaf" => ~Within(tree[k].backend, a)
  BY <1>2 DEF Stands
<1>7. Certain[n] = {tree[k].backend : k \in {k \in SurelyIn(tree) : tree[k].kind = "leaf"}}
  BY DEF Certain, tree
<1> QED
  BY <1>5, <1>6, <1>7

-----------------------------------------------------------------------------
(* What the router and the door make of a request                          *)

\* The request is one the endpoints can be sent, under the lists the server started with.
RequestInv ==
    /\ req.entry \in {"parse", "jobs", "batch"} /\ req.backend \in Backends
    /\ req.fallback \in Fallbacks /\ req.docs \in Documents
    /\ req.entry # "batch" => Len(req.docs) = 1
    /\ config.policy \in Lists /\ config.base = config.policy
    /\ config.default \in DOMAIN Trees \cup {NoneGiven}

\* The chain that is left of the route for the key.
Plan == RestrictTo(Route, keyScope)

\* What the entry of a request says of its documents and of its backend.
LEMMA RequestShape ==
    ASSUME RequestInv
    PROVE  /\ Len(req.docs) \in Nat \ {0} /\ DocNumbers = 1..Len(req.docs)
           /\ req.entry # "batch" => DocNumbers = {1}
           /\ \/ req.backend.is \in {"null", "none"}
              \/ req.backend.is \in {"backend", "strategy"} /\ req.backend.name # NoneGiven
           /\ \A n \in DOMAIN Trees : n # NoneGiven
<1>1. req.docs \in Seq({"bytes", "url", "malformed"}) /\ req.docs # <<>>
  BY Requestable DEF RequestInv, DispatchAssumption
<1>2. Len(req.docs) \in Nat \ {0} /\ DocNumbers = 1..Len(req.docs)
  BY <1>1, LenProperties, EmptySeq DEF DocNumbers
<1>3. req.entry # "batch" => DocNumbers = {1}
  <2>1. 1..1 = {1}
    OBVIOUS
  <2> QED
    BY <1>2, <2>1 DEF RequestInv
<1> QED
  BY <1>2, <1>3, Requestable DEF RequestInv, DispatchAssumption

\* The written plan is the fallback list followed by the ids of the backend.
LEMMA WrittenIs ==
    ASSUME RequestInv
    PROVE  /\ IsList(req.fallback) /\ IsList(ResolveIds(req.backend))
           /\ DOMAIN req.fallback = 1..Len(req.fallback) /\ Len(req.fallback) \in Nat
           /\ DOMAIN Written \subseteq Nat
           /\ \A k \in DOMAIN req.fallback : k \in DOMAIN Written /\ Written[k] = req.fallback[k]
           /\ \A k \in DOMAIN ResolveIds(req.backend) :
                 /\ Len(req.fallback) + k \in DOMAIN Written /\ k > 0
                 /\ Written[Len(req.fallback) + k] = ResolveIds(req.backend)[k]
<1> DEFINE f == req.fallback
           r == ResolveIds(req.backend)
           S == Range(f) \cup Range(r)
<1>1. IsList(f)
  BY Requestable DEF RequestInv, DispatchAssumption
<1>2. IsList(r)
  <2>1. \A x : IsList(<<x>>)
    BY DEF IsList, Range
  <2>2. config.policy # NoneGiven => IsList(config.policy)
    BY Requestable DEF RequestInv, DispatchAssumption
  <2>3. MergedList = config.policy
    BY DEF RequestInv, MergedList
  <2> QED
    BY <2>1, <2>2, <2>3 DEF ResolveIds
<1> HIDE DEF f, r
<1>3. f \in Seq(S) /\ r \in Seq(S)
  BY <1>1, <1>2 DEF IsList
<1>4. /\ Len(f) \in Nat /\ DOMAIN f = 1..Len(f)
      /\ Len(r) \in Nat /\ DOMAIN r = 1..Len(r)
  BY <1>3, LenProperties
<1>5. /\ DOMAIN (f \o r) = 1..(Len(f) + Len(r))
      /\ \A k \in 1..(Len(f) + Len(r)) :
            (f \o r)[k] = IF k <= Len(f) THEN f[k] ELSE r[k - Len(f)]
  BY <1>3, <1>4, ConcatProperties, LenProperties
<1>6. Written = f \o r
  BY DEF Written, f, r
<1>7. DOMAIN Written \subseteq Nat
  BY <1>4, <1>5, <1>6
<1>8. ASSUME NEW k \in DOMAIN f
      PROVE  k \in DOMAIN Written /\ Written[k] = f[k]
  BY <1>4, <1>5, <1>6
<1>9. ASSUME NEW k \in DOMAIN r
      PROVE  Len(f) + k \in DOMAIN Written /\ k > 0 /\ Written[Len(f) + k] = r[k]
  <2>1. Len(f) + k \in 1..(Len(f) + Len(r)) /\ ~(Len(f) + k <= Len(f)) /\ k > 0
        /\ (Len(f) + k) - Len(f) = k
    BY <1>4
  <2> QED
    BY <1>5, <1>6, <2>1
<1> QED
  BY <1>1, <1>2, <1>4, <1>7, <1>8, <1>9 DEF f, r

\* What a request without a strategy or a backend of its own may reach is what the lists
\* permit, and the route has a place for each of that.
LEMMA RouteIsPermitted ==
    ASSUME RequestInv, Engaged = NoneGiven, req.backend.is # "backend"
    PROVE  Reachable = BackendsAt(Route)
<1> DEFINE f == req.fallback
           r == ResolveIds(req.backend)
<1>1. MergedList = config.policy
  BY DEF RequestInv, MergedList
<1>2. r = IF config.policy # NoneGiven THEN config.policy ELSE <<DefaultBackend>>
  BY <1>1 DEF ResolveIds
<1>3. Range(<<DefaultBackend>>) = {DefaultBackend}
  BY DEF Range
<1>4. Ordered = {b \in Registered : OnTheLists(b)}
  BY <1>2, <1>3 DEF Ordered, OnTheLists, Merged
<1>5. Reachable = Ordered
  BY <1>4 DEF Reachable
<1>6. BackendsAt(Route) \subseteq Ordered
  BY DEF BackendsAt, Route, ExplicitFallback
<1>7. ASSUME NEW b \in Ordered
      PROVE  \E k \in Route : Written[k] = b
  <2>1. b \in Range(r)
    BY DEF Ordered
  <2>2. CASE b \in Range(f)
    <3> DEFINE spots == {k \in DOMAIN f : f[k] = b}
    <3>1. spots \subseteq Nat /\ spots # {}
      BY <2>2, WrittenIs DEF Range
    <3>2. Min(spots) \in spots /\ \A k \in spots : Min(spots) <= k
      BY <3>1, LowestIsOne
    <3> HIDE DEF spots
    <3>3. PICK m \in spots : \A k \in spots : m <= k
      BY <3>2
    <3>4. /\ m \in DOMAIN f /\ f[m] = b /\ m \in DOMAIN Written /\ Written[m] = b
          /\ DOMAIN f = 1..Len(f) /\ Len(f) \in Nat
      BY WrittenIs DEF spots
    <3>5. m <= Len(f) /\ \A j \in 1..(m - 1) : j \in DOMAIN f /\ ~(m <= j)
      BY <3>4
    <3>6. \A j \in 1..(m - 1) : Written[j] # Written[m]
      BY <3>3, <3>4, <3>5, WrittenIs DEF spots
    <3> QED
      BY <3>4, <3>5, <3>6 DEF Route, ExplicitFallback
  <2>3. CASE b \notin Range(f)
    <3>1. PICK k \in DOMAIN r : r[k] = b
      BY <2>1 DEF Range
    <3>2. /\ Len(f) + k \in DOMAIN Written /\ k > 0 /\ Written[Len(f) + k] = b
          /\ DOMAIN r = 1..Len(r) /\ Len(f) \in Nat
      BY <3>1, WrittenIs, LenProperties DEF IsList
    <3>3. ~(Len(f) + k <= Len(f))
      BY <3>2
    <3> QED
      BY <2>3, <3>2, <3>3 DEF Route, ExplicitFallback
  <2> QED
    BY <2>2, <2>3
<1>8. Ordered \subseteq BackendsAt(Route)
  BY <1>7 DEF BackendsAt
<1> QED
  BY <1>5, <1>6, <1>8

\* So the plan has what the key may reach of it, and nothing else.
LEMMA PlanIsScoped ==
    ASSUME RequestInv, Engaged = NoneGiven, req.backend.is # "backend"
    PROVE  BackendsAt(Plan) = ScopeOf(Reachable)
  BY RouteIsPermitted DEF BackendsAt, Plan, RestrictTo, ScopeOf

\* The plan's places are places of the written list, each a backend within the key's scope.
LEMMA PlacesAreNumbers ==
    ASSUME RequestInv
    PROVE  /\ Route \subseteq DOMAIN Written /\ Plan \subseteq Nat
           /\ \A k \in Plan : Written[k] \in Registered /\ Within(Written[k], keyScope)
  BY WrittenIs DEF Route, ExplicitFallback, Ordered, Plan, RestrictTo

\* A request that is let in for a backend has it in the key's scope.
LEMMA LetInIsScoped ==
    ASSUME RequestInv, Door = 0, Engaged = NoneGiven, req.backend.is = "backend",
           NEW i \in DocNumbers, Builds(i)
    PROVE  ScopeOf(Reachable) = {req.backend.name}
<1>1. ~OutOfScope
  BY RequestShape DEF Door, ParseDoor, JobsDoor, BatchDoor, RequestInv
<1> QED
  BY <1>1 DEF OutOfScope, ScopeOf, Reachable, Within

\* One that is refused at the door for the scope has nothing in it.
LEMMA DeniedHasNothing ==
    ASSUME RequestInv, Door = 403
    PROVE  Engaged = NoneGiven /\ ScopeOf(Reachable) = {}
<1>1. OutOfScope
  BY DEF Door, ParseDoor, JobsDoor, BatchDoor, RequestInv
<1>2. CASE req.backend.is = "backend"
  BY <1>1, <1>2 DEF OutOfScope, ScopeOf, Reachable, Within
<1>3. CASE req.backend.is # "backend"
  <2>1. Plan = {}
    BY <1>1, <1>3 DEF OutOfScope, Plan
  <2>2. BackendsAt(Plan) = {}
    BY <2>1 DEF BackendsAt
  <2> QED
    BY <1>1, <1>3, <2>2, PlanIsScoped DEF OutOfScope
<1> QED
  BY <1>2, <1>3

\* The door lets a request in, or turns it away with 400, 403 or 404.
LEMMA DoorIs ==
    ASSUME RequestInv
    PROVE  Door \in {0, 400, 403, 404}
  BY DEF Door, ParseDoor, JobsDoor, BatchDoor, RequestInv

-----------------------------------------------------------------------------
(* The invariant                                                           *)

\* Where a document is says how it came there, and what it was given.
DocInv(i) ==
    /\ doc[i] = "waiting" => calls[i] = <<>>
    /\ doc[i] # "waiting" => Door = 0
    /\ doc[i] = "named" =>
         /\ Engaged = NoneGiven /\ req.backend.is = "backend" /\ Builds(i)
         /\ req.backend.name \in Registered
    /\ doc[i] = "walk" => Engaged \in DOMAIN Trees /\ may[i] \subseteq ScopeOf(Reachable)
    /\ doc[i] = "chain" =>
         /\ Engaged = NoneGiven /\ req.backend.is # "backend"
         /\ left[i] \subseteq Plan
         /\ Range(calls[i]) = BackendsAt(Plan \ left[i]) \ Uncredentialed
    /\ Range(calls[i]) \subseteq ScopeOf(Reachable)
    /\ doc[i] = "refused" =>
         /\ calls[i] = <<>>
         /\ ScopeOf(IF Engaged = NoneGiven THEN Reachable ELSE Certain[Engaged]) = {}
    /\ doc[i] = "failed" /\ Engaged = NoneGiven /\ req.backend.is # "backend" /\ Builds(i)
         => \/ Range(calls[i]) = ScopeOf(Reachable) \ Uncredentialed
            \/ req.docs[i] = "url" /\ calls[i] = <<>>
    /\ doc[i] \in Concluded => results[i].state = doc[i]
    /\ doc[i] = "ok" => results[i].by \in Range(calls[i])

\* A status is the door's, before anything began, or it is told when all is over.
StatusInv ==
    status # 0 =>
        \/ status = Door /\ \A i \in DocNumbers : doc[i] = "waiting"
        \/ /\ \A i \in DocNumbers : doc[i] \in Concluded
           /\ req.entry = "batch" => status = 200
           /\ req.entry # "batch" =>
                \A i \in DocNumbers : /\ status = 200 => doc[i] = "ok"
                                      /\ status = 403 => doc[i] = "refused"

DispatchInv ==
    /\ DispatchTypeOK /\ RequestInv /\ StatusInv
    /\ may = [i \in DocNumbers |-> may[i]]
    /\ \A i \in DocNumbers : DocInv(i)

\* Before any document is begun, none has been called for.
LEMMA DispatchInitInv == DispatchInit => DispatchInv
<1> SUFFICES ASSUME DispatchInit
             PROVE  DispatchInv
  OBVIOUS
<1>1. RequestInv
  BY DEF DispatchInit, RequestInv
<1>2. Range(<<>>) = {}
  BY DEF Range
<1>3. DispatchTypeOK
  BY DEF DispatchInit, DispatchTypeOK, Running
<1>4. ASSUME NEW i \in DocNumbers
      PROVE  DocInv(i)
  BY <1>2 DEF DispatchInit, DocInv, Concluded
<1>5. StatusInv /\ may = [i \in DocNumbers |-> may[i]]
  BY DEF DispatchInit, StatusInv
<1> QED
  BY <1>1, <1>3, <1>4, <1>5 DEF DispatchInv

\* What the request is does not change, nor what is made of it.
LEMMA RequestStays ==
    ASSUME UNCHANGED requestVars
    PROVE  /\ DocNumbers' = DocNumbers /\ Engaged' = Engaged /\ Door' = Door
           /\ Plan' = Plan /\ Reachable' = Reachable /\ RequestInv' = RequestInv
           /\ \A places : BackendsAt(places)' = BackendsAt(places)
           /\ \A set : ScopeOf(set)' = ScopeOf(set)
           /\ req' = req /\ \A i : Builds(i)' = Builds(i)
<1>1. MergedList' = MergedList /\ \A b : Merged(b)' = Merged(b)
  BY DEF requestVars, MergedList, Merged
<1>2. ResolveIds(req.backend)' = ResolveIds(req.backend)
  BY <1>1 DEF requestVars, ResolveIds
<1>3. Written' = Written /\ Ordered' = Ordered
  BY <1>1, <1>2 DEF requestVars, Written, Ordered
<1>4. Route' = Route
  BY <1>3 DEF requestVars, Route, ExplicitFallback
<1>5. Plan' = Plan /\ RestrictTo(Route, keyScope)' = RestrictTo(Route, keyScope)
  BY <1>3, <1>4 DEF requestVars, Plan, RestrictTo
<1>6. Engaged' = Engaged /\ DocNumbers' = DocNumbers
  BY DEF requestVars, Engaged, DocNumbers
<1>7. OutOfScope' = OutOfScope
  BY <1>4, <1>5, <1>6 DEF requestVars, OutOfScope
<1>13. \A i : Builds(i)' = Builds(i)
  BY DEF requestVars, Builds
<1>8. Door' = Door
  BY <1>6, <1>7 DEF requestVars, Door, ParseDoor, JobsDoor, BatchDoor, Builds
<1>9. Reachable' = Reachable
  BY <1>6 DEF requestVars, Reachable, OnTheLists
<1>10. RequestInv' = RequestInv
  BY DEF requestVars, RequestInv
<1>11. \A places : BackendsAt(places)' = BackendsAt(places)
  BY <1>3 DEF BackendsAt
<1>12. \A set : ScopeOf(set)' = ScopeOf(set)
  BY DEF requestVars, ScopeOf
<1> QED
  BY <1>5, <1>6, <1>8, <1>9, <1>10, <1>11, <1>12, <1>13 DEF requestVars

\* What is so of a document stays so while nothing of it changes.
LEMMA DocStays ==
    ASSUME UNCHANGED requestVars, NEW i \in DocNumbers, DocInv(i),
           doc'[i] = doc[i], left'[i] = left[i], may'[i] = may[i], calls'[i] = calls[i],
           results'[i] = results[i]
    PROVE  DocInv(i)'
  BY RequestStays, Zenon DEF DocInv, Certain

\* A request that does not change, and whose documents do not but one.
StepOf(i) ==
    /\ UNCHANGED requestVars
    /\ \A j \in DocNumbers \ {i} :
          /\ doc'[j] = doc[j] /\ left'[j] = left[j] /\ may'[j] = may[j]
          /\ calls'[j] = calls[j] /\ results'[j] = results[j]

\* Appending an element adds it to the sequence's range.
LEMMA RangeOfMore ==
    ASSUME NEW S, NEW s \in Seq(S), NEW b \in S
    PROVE  Append(s, b) \in Seq(S) /\ Range(Append(s, b)) = Range(s) \cup {b}
<1>1. /\ Len(s) \in Nat /\ DOMAIN s = 1..Len(s)
      /\ Append(s, b) \in Seq(S) /\ Len(Append(s, b)) = Len(s) + 1
      /\ DOMAIN Append(s, b) = 1..(Len(s) + 1)
  BY LenProperties, AppendProperties
<1>2. \A k \in 1..Len(s) : Append(s, b)[k] = s[k]
  BY AppendProperties
<1>3. Append(s, b)[Len(s) + 1] = b
  BY AppendProperties
<1>4. 1..(Len(s) + 1) = 1..Len(s) \cup {Len(s) + 1}
  BY <1>1
<1> QED
  BY <1>1, <1>2, <1>3, <1>4 DEF Range

\* While a document runs nothing was told.
LEMMA RunningIsUntold ==
    ASSUME StatusInv, NEW i \in DocNumbers, doc[i] \in Running
    PROVE  status = 0
  BY DEF StatusInv, Running, Concluded

\* How a document ends, and with what: a refusal by the scope, or another failure.
LEMMA EndsAs ==
    ASSUME DispatchTypeOK, RequestInv, UNCHANGED requestVars, NEW i \in DocNumbers,
           NEW outcome, NEW by \in Registered \cup {NoneGiven}, NEW refusal,
           Ends(i, outcome, by, refusal),
           \/ outcome = "ok"
           \/ outcome = "failed" /\ refusal \in {400, 404, 424, 502}
           \/ outcome = "refused" /\ refusal = 403,
           calls' \in [DocNumbers -> Seq(Registered)], left' \in [DocNumbers -> SUBSET Nat]
    PROVE  /\ DispatchTypeOK' /\ StatusInv'
           /\ doc'[i] = outcome /\ results'[i].state = outcome /\ results'[i].by = by
           /\ \A j \in DocNumbers \ {i} : doc'[j] = doc[j] /\ results'[j] = results[j]
<1>1. DocNumbers' = DocNumbers /\ req' = req
  BY RequestStays
<1>2. /\ doc'[i] = outcome /\ results'[i].state = outcome /\ results'[i].by = by
      /\ \A j \in DocNumbers \ {i} : doc'[j] = doc[j] /\ results'[j] = results[j]
  BY DEF Ends, DispatchTypeOK
<1>3. outcome \in Concluded
  BY DEF Concluded
<1>4. status' \in {0, 200, 400, 403, 404, 424, 502}
  BY DEF Ends, Status
<1>5. DispatchTypeOK'
  <2>1. doc' \in [DocNumbers -> {"waiting"} \cup Running \cup Concluded]
    BY <1>3 DEF Ends, DispatchTypeOK
  <2>2. results' \in [DocNumbers -> {NoneGiven}
                          \cup [state : Concluded, by : Registered \cup {NoneGiven}]]
    BY <1>3 DEF Ends, DispatchTypeOK
  <2> QED
    BY <1>1, <1>4, <2>1, <2>2 DEF DispatchTypeOK
<1>6. StatusInv'
  <2>1. CASE req.entry = "batch"
    BY <1>1, <2>1 DEF StatusInv, Ends
  <2>2. CASE req.entry # "batch"
    <3>1. DocNumbers = {i}
      BY <2>2, RequestShape
    <3>2. status' = Status(outcome, refusal)
      BY <2>2 DEF Ends
    <3>3. (status' = 200 => outcome = "ok") /\ (status' = 403 => outcome = "refused")
      BY <3>2 DEF Status
    <3> QED
      BY <1>1, <1>2, <1>3, <2>2, <3>1, <3>3 DEF StatusInv
  <2> QED
    BY <2>1, <2>2
<1> QED
  BY <1>2, <1>5, <1>6

\* What fails a document leaves it failed, by no one, and the others as they were.
LEMMA FailsAs ==
    ASSUME DispatchTypeOK, RequestInv, UNCHANGED requestVars, NEW i \in DocNumbers,
           NEW refusal \in {400, 404, 424, 502}, Ends(i, "failed", NoneGiven, refusal),
           calls' \in [DocNumbers -> Seq(Registered)], left' \in [DocNumbers -> SUBSET Nat]
    PROVE  /\ DispatchTypeOK' /\ StatusInv'
           /\ doc'[i] = "failed" /\ results'[i].state = "failed" /\ results'[i].by = NoneGiven
           /\ \A j \in DocNumbers \ {i} : doc'[j] = doc[j] /\ results'[j] = results[j]
<1> DEFINE outcome == "failed"
           by == NoneGiven
<1>1. /\ Ends(i, outcome, by, refusal) /\ by \in Registered \cup {NoneGiven}
      /\ outcome = "failed" /\ refusal \in {400, 404, 424, 502}
  OBVIOUS
<1>2. by = NoneGiven
  OBVIOUS
<1> HIDE DEF outcome, by
<1>3. /\ DispatchTypeOK' /\ StatusInv'
      /\ doc'[i] = outcome /\ results'[i].state = outcome /\ results'[i].by = by
      /\ \A j \in DocNumbers \ {i} : doc'[j] = doc[j] /\ results'[j] = results[j]
  BY <1>1, EndsAs
<1> QED
  BY <1>1, <1>2, <1>3

\* What the scope refuses is told as refused, by no one, and the others as they were.
LEMMA RefusedAs ==
    ASSUME DispatchTypeOK, RequestInv, UNCHANGED requestVars, NEW i \in DocNumbers,
           Ends(i, "refused", NoneGiven, 403),
           calls' \in [DocNumbers -> Seq(Registered)], left' \in [DocNumbers -> SUBSET Nat]
    PROVE  /\ DispatchTypeOK' /\ StatusInv'
           /\ doc'[i] = "refused" /\ results'[i].state = "refused" /\ results'[i].by = NoneGiven
           /\ \A j \in DocNumbers \ {i} : doc'[j] = doc[j] /\ results'[j] = results[j]
<1> DEFINE outcome == "refused"
           by == NoneGiven
           refusal == 403
<1>1. /\ Ends(i, outcome, by, refusal) /\ by \in Registered \cup {NoneGiven}
      /\ outcome = "refused" /\ refusal = 403
  OBVIOUS
<1>2. by = NoneGiven
  OBVIOUS
<1> HIDE DEF outcome, by, refusal
<1>3. /\ DispatchTypeOK' /\ StatusInv'
      /\ doc'[i] = outcome /\ results'[i].state = outcome /\ results'[i].by = by
      /\ \A j \in DocNumbers \ {i} : doc'[j] = doc[j] /\ results'[j] = results[j]
  BY <1>1, EndsAs
<1> QED
  BY <1>1, <1>2, <1>3

\* A step of one document keeps what is so of the others.
LEMMA OthersStay ==
    ASSUME NEW i \in DocNumbers, \A j \in DocNumbers : DocInv(j), StepOf(i), RequestInv,
           DispatchTypeOK', StatusInv', may' = [j \in DocNumbers |-> may'[j]], DocInv(i)'
    PROVE  DispatchInv'
<1>1. \A j \in DocNumbers \ {i} : DocInv(j)'
  BY DocStays DEF StepOf
<1>2. DocNumbers' = DocNumbers /\ RequestInv'
  BY RequestStays DEF StepOf
<1> QED
  BY <1>1, <1>2 DEF DispatchInv

\* A document that is not to be had fails, and nothing was called for it.
LEMMA NotHadStep ==
    ASSUME DispatchInv, NEW i \in DocNumbers, UNCHANGED <<requestVars, calls, left, may>>,
           doc[i] = "waiting", Door = 0, NotHad(i)
    PROVE  DispatchInv'
<1>1. /\ DispatchTypeOK /\ RequestInv /\ StatusInv /\ \A j \in DocNumbers : DocInv(j)
      /\ may = [j \in DocNumbers |-> may[j]] /\ UNCHANGED requestVars
  BY DEF DispatchInv
<1>2. /\ DocNumbers' = DocNumbers /\ Engaged' = Engaged /\ Door' = 0 /\ Plan' = Plan
      /\ Reachable' = Reachable /\ req' = req /\ (\A s : ScopeOf(s)' = ScopeOf(s))
      /\ \A p : BackendsAt(p)' = BackendsAt(p)
  BY RequestStays
<1>3. calls[i] = <<>> /\ calls' = calls /\ Range(calls[i]) = {}
  <2>1. Range(<<>>) = {}
    BY DEF Range
  <2>2. calls[i] = <<>>
    BY <1>1 DEF DocInv
  <2> QED
    BY <2>1, <2>2
<1>4. /\ Ends(i, "failed", NoneGiven, 502) /\ 502 \in {400, 404, 424, 502}
      /\ calls' \in [DocNumbers -> Seq(Registered)] /\ left' \in [DocNumbers -> SUBSET Nat]
  BY <1>1 DEF NotHad, DispatchTypeOK
<1>5. /\ DispatchTypeOK' /\ StatusInv'
      /\ doc'[i] = "failed" /\ results'[i].state = "failed" /\ results'[i].by = NoneGiven
      /\ \A j \in DocNumbers \ {i} : doc'[j] = doc[j] /\ results'[j] = results[j]
  BY <1>1, <1>4, FailsAs
<1>6. DocInv(i)'
  BY <1>2, <1>3, <1>5 DEF DocInv, NotHad, Builds
<1> QED
  BY <1>1, <1>2, <1>5, <1>6, OthersStay DEF StepOf

\* Beginning a document, whatever it is given to, keeps the invariant.
LEMMA BeginStep ==
    ASSUME DispatchInv, NEW i \in DocNumbers, Begin(i)
    PROVE  DispatchInv'
<1>1. /\ DispatchTypeOK /\ RequestInv /\ StatusInv /\ \A j \in DocNumbers : DocInv(j)
      /\ may = [j \in DocNumbers |-> may[j]]
  BY DEF DispatchInv
<1>2. /\ UNCHANGED requestVars /\ calls' = calls /\ status = 0 /\ Door = 0 /\ doc[i] = "waiting"
  BY DEF Begin
<1>3. /\ DocNumbers' = DocNumbers /\ Engaged' = Engaged /\ Door' = 0 /\ Plan' = Plan
      /\ Reachable' = Reachable /\ req' = req /\ (\A s : ScopeOf(s)' = ScopeOf(s))
      /\ (\A p : BackendsAt(p)' = BackendsAt(p)) /\ \A k : Builds(k)' = Builds(k)
  BY <1>2, RequestStays
<1>4. /\ calls[i] = <<>> /\ Range(calls[i]) = {}
      /\ calls' \in [DocNumbers -> Seq(Registered)] /\ left \in [DocNumbers -> SUBSET Nat]
  <2>1. Range(<<>>) = {}
    BY DEF Range
  <2>2. calls[i] = <<>>
    BY <1>1, <1>2 DEF DocInv
  <2> QED
    BY <1>1, <1>2, <2>1, <2>2 DEF DispatchTypeOK
<1>5. CASE ~Builds(i) /\ Ends(i, "failed", NoneGiven, 400) /\ UNCHANGED <<left, may>>
  <2>3. /\ DispatchTypeOK /\ RequestInv /\ UNCHANGED requestVars
        /\ Ends(i, "failed", NoneGiven, 400) /\ 400 \in {400, 404, 424, 502}
        /\ calls' \in [DocNumbers -> Seq(Registered)] /\ left' \in [DocNumbers -> SUBSET Nat]
    BY <1>1, <1>2, <1>4, <1>5
  <2>1. /\ DispatchTypeOK' /\ StatusInv'
        /\ doc'[i] = "failed" /\ results'[i].state = "failed" /\ results'[i].by = NoneGiven
        /\ \A j \in DocNumbers \ {i} : doc'[j] = doc[j] /\ results'[j] = results[j]
    BY <2>3, FailsAs
  <2>2. DocInv(i)'
    BY <1>2, <1>3, <1>4, <1>5, <2>1 DEF DocInv
  <2> QED
    BY <1>1, <1>2, <1>3, <1>5, <2>1, <2>2, OthersStay DEF StepOf
<1>6. CASE Builds(i) /\ Engaged # NoneGiven /\ BeginWalk(i, Engaged) /\ UNCHANGED left
  <2>1. CASE Engaged \notin DOMAIN Trees
    <3>1. Ends(i, "failed", NoneGiven, 400) /\ UNCHANGED may
      BY <1>6, <2>1 DEF BeginWalk
    <3>2. /\ DispatchTypeOK' /\ StatusInv'
          /\ doc'[i] = "failed" /\ results'[i].state = "failed" /\ results'[i].by = NoneGiven
          /\ \A j \in DocNumbers \ {i} : doc'[j] = doc[j] /\ results'[j] = results[j]
      <4>1. /\ DispatchTypeOK /\ RequestInv /\ UNCHANGED requestVars
            /\ Ends(i, "failed", NoneGiven, 400) /\ 400 \in {400, 404, 424, 502}
            /\ calls' \in [DocNumbers -> Seq(Registered)] /\ left' \in [DocNumbers -> SUBSET Nat]
        BY <1>1, <1>2, <1>4, <1>6, <3>1
      <4> QED
        BY <4>1, FailsAs
    <3>3. DocInv(i)'
      BY <1>2, <1>3, <1>4, <1>6, <3>2 DEF DocInv
    <3> QED
      BY <1>1, <1>2, <1>3, <1>6, <3>1, <3>2, <3>3, OthersStay DEF StepOf
  <2>2. CASE Engaged \in DOMAIN Trees /\ 1 \notin DOMAIN Pruned(Trees[Engaged], CallerScope)
    <3>1. Ends(i, "refused", NoneGiven, 403) /\ UNCHANGED may
      BY <1>6, <2>2 DEF BeginWalk
    <3>2. /\ DispatchTypeOK' /\ StatusInv'
          /\ doc'[i] = "refused" /\ results'[i].state = "refused" /\ results'[i].by = NoneGiven
          /\ \A j \in DocNumbers \ {i} : doc'[j] = doc[j] /\ results'[j] = results[j]
      <4>1. /\ DispatchTypeOK /\ RequestInv /\ UNCHANGED requestVars
            /\ Ends(i, "refused", NoneGiven, 403)
            /\ calls' \in [DocNumbers -> Seq(Registered)] /\ left' \in [DocNumbers -> SUBSET Nat]
        BY <1>1, <1>2, <1>4, <1>6, <3>1
      <4> QED
        BY <4>1, RefusedAs
    <3>3. ScopeOf(Certain[Engaged]) = {}
      BY <2>2, NothingSurelyLeft DEF CallerScope, ScopeOf
    <3>4. DocInv(i)'
      BY <1>2, <1>3, <1>4, <1>6, <3>2, <3>3 DEF DocInv, Certain
    <3> QED
      BY <1>1, <1>2, <1>3, <1>6, <3>1, <3>2, <3>4, OthersStay DEF StepOf
  <2>3. CASE Engaged \in DOMAIN Trees /\ 1 \in DOMAIN Pruned(Trees[Engaged], CallerScope)
    <3> SUFFICES ASSUME ~NotHad(i)
                 PROVE  DispatchInv'
      <4>1. NotHad(i) => ~Takes(i, "walk")
        BY <1>1 DEF NotHad, Ends, Takes, DispatchTypeOK
      <4>2. NotHad(i) => UNCHANGED <<requestVars, calls, left, may>>
        BY <1>2, <1>6, <2>3, <4>1 DEF BeginWalk
      <4> QED
        BY <1>2, <1>6, <2>3, <4>2, NotHadStep
    <3>1. /\ Takes(i, "walk")
          /\ may' = [may EXCEPT ![i] = Concrete(PrunedFor(CallerScope), Engaged)]
      BY <1>6, <2>3 DEF BeginWalk
    <3>2. /\ DispatchTypeOK' /\ doc'[i] = "walk"
          /\ \A j \in DocNumbers \ {i} : doc'[j] = doc[j] /\ results'[j] = results[j]
      BY <1>1, <1>2, <1>3, <1>4, <1>6, <3>1 DEF Takes, DispatchTypeOK, Running
    <3>3. StatusInv'
      BY <1>2, <3>1 DEF Takes, StatusInv
    <3>4. /\ may'[i] = Concrete(PrunedFor(CallerScope), Engaged)
          /\ \A j \in DocNumbers \ {i} : may'[j] = may[j]
          /\ may' = [j \in DocNumbers |-> may'[j]]
      BY <1>1, <3>1
    <3>5. may'[i] \subseteq ScopeOf(Reachable)
      BY <1>6, <2>3, <3>4, CompiledIsWithin DEF CallerScope, ScopeOf, Reachable
    <3>6. DocInv(i)'
      BY <1>2, <1>3, <1>4, <1>6, <2>3, <3>2, <3>5 DEF DocInv, Concluded
    <3> QED
      BY <1>1, <1>2, <1>3, <1>6, <3>2, <3>3, <3>4, <3>6, OthersStay DEF StepOf
  <2> QED
    BY <2>1, <2>2, <2>3
<1>7. CASE /\ Builds(i) /\ Engaged = NoneGiven /\ req.backend.is = "backend"
           /\ BeginNamed(i) /\ UNCHANGED <<left, may>>
  <2>1. CASE Takes(i, "named") /\ req.backend.name \in Registered
    <3>1. /\ DispatchTypeOK' /\ doc'[i] = "named"
          /\ \A j \in DocNumbers \ {i} : doc'[j] = doc[j] /\ results'[j] = results[j]
      BY <1>1, <1>2, <1>3, <1>4, <1>7, <2>1 DEF Takes, DispatchTypeOK, Running
    <3>2. StatusInv'
      BY <1>2, <2>1 DEF Takes, StatusInv
    <3>3. DocInv(i)'
      BY <1>2, <1>3, <1>4, <1>7, <2>1, <3>1 DEF DocInv, Concluded
    <3> QED
      BY <1>1, <1>2, <1>3, <1>7, <3>1, <3>2, <3>3, OthersStay DEF StepOf
  <2>2. CASE \E refusal \in {404, 424} : Ends(i, "failed", NoneGiven, refusal)
    <3>1. /\ DispatchTypeOK' /\ StatusInv'
          /\ doc'[i] = "failed" /\ results'[i].state = "failed" /\ results'[i].by = NoneGiven
          /\ \A j \in DocNumbers \ {i} : doc'[j] = doc[j] /\ results'[j] = results[j]
      <4>1. PICK refusal \in {400, 404, 424, 502} : Ends(i, "failed", NoneGiven, refusal)
        BY <2>2
      <4> QED
        BY <1>1, <1>2, <1>4, <1>7, <4>1, EndsAs
    <3>2. DocInv(i)'
      BY <1>2, <1>3, <1>4, <1>7, <3>1 DEF DocInv
    <3> QED
      BY <1>1, <1>2, <1>3, <1>7, <3>1, <3>2, OthersStay DEF StepOf
  <2> QED
    BY <1>2, <1>7, <2>1, <2>2, NotHadStep DEF BeginNamed
<1>8. CASE /\ Builds(i) /\ Engaged = NoneGiven /\ req.backend.is # "backend"
           /\ BeginChain(i) /\ UNCHANGED may
  <2>1. RestrictTo(Route, CallerScope) = Plan
    BY DEF CallerScope, Plan
  <2>2. CASE Plan = {}
    <3>1. Ends(i, "refused", NoneGiven, 403) /\ UNCHANGED left
      BY <1>8, <2>1, <2>2 DEF BeginChain
    <3>2. /\ DispatchTypeOK' /\ StatusInv'
          /\ doc'[i] = "refused" /\ results'[i].state = "refused" /\ results'[i].by = NoneGiven
          /\ \A j \in DocNumbers \ {i} : doc'[j] = doc[j] /\ results'[j] = results[j]
      BY <1>1, <1>2, <1>4, <1>8, <3>1, EndsAs
    <3>3. BackendsAt(Plan) = {}
      BY <2>2 DEF BackendsAt
    <3>4. ScopeOf(Reachable) = {}
      BY <1>1, <1>8, <3>3, PlanIsScoped
    <3>5. DocInv(i)'
      BY <1>2, <1>3, <1>4, <1>8, <3>2, <3>4 DEF DocInv
    <3> QED
      BY <1>1, <1>2, <1>3, <1>8, <3>1, <3>2, <3>5, OthersStay DEF StepOf
  <2>3. CASE Plan # {}
    <3> SUFFICES ASSUME ~NotHad(i)
                 PROVE  DispatchInv'
      <4>1. NotHad(i) => ~Takes(i, "chain")
        BY <1>1 DEF NotHad, Ends, Takes, DispatchTypeOK
      <4>2. NotHad(i) => UNCHANGED <<requestVars, calls, left, may>>
        BY <1>2, <1>8, <2>3, <4>1 DEF BeginChain
      <4> QED
        BY <1>2, <1>8, <2>3, <4>2, NotHadStep
    <3>1. Takes(i, "chain") /\ left' = [left EXCEPT ![i] = Plan]
      BY <1>8, <2>1, <2>3 DEF BeginChain
    <3>2. Plan \subseteq Nat
      BY <1>1, PlacesAreNumbers
    <3>3. /\ left' \in [DocNumbers -> SUBSET Nat] /\ left'[i] = Plan
          /\ \A j \in DocNumbers \ {i} : left'[j] = left[j]
      BY <1>1, <3>1, <3>2 DEF DispatchTypeOK
    <3>4. /\ DispatchTypeOK' /\ doc'[i] = "chain"
          /\ \A j \in DocNumbers \ {i} : doc'[j] = doc[j] /\ results'[j] = results[j]
      BY <1>1, <1>2, <1>3, <1>4, <1>8, <3>1, <3>3 DEF Takes, DispatchTypeOK, Running
    <3>5. StatusInv'
      BY <1>2, <3>1 DEF Takes, StatusInv
    <3>6. BackendsAt(Plan \ Plan) \ Uncredentialed = {}
      BY DEF BackendsAt
    <3>7. DocInv(i)'
      BY <1>2, <1>3, <1>4, <1>8, <3>3, <3>4, <3>6 DEF DocInv, Concluded
    <3> QED
      BY <1>1, <1>2, <1>3, <1>8, <3>3, <3>4, <3>5, <3>7, OthersStay DEF StepOf
  <2> QED
    BY <2>2, <2>3
<1> QED
  BY <1>5, <1>6, <1>7, <1>8 DEF Begin

\* A call is put on its own document's list and on no other.
LEMMA CallsAs ==
    ASSUME DispatchTypeOK, NEW i \in DocNumbers, NEW b \in Registered, Calls(i, b)
    PROVE  /\ calls' \in [DocNumbers -> Seq(Registered)]
           /\ Range(calls'[i]) = Range(calls[i]) \cup {b}
           /\ \A j \in DocNumbers \ {i} : calls'[j] = calls[j]
<1>1. calls \in [DocNumbers -> Seq(Registered)]
  BY DEF DispatchTypeOK
<1>2. /\ Append(calls[i], b) \in Seq(Registered)
      /\ Range(Append(calls[i], b)) = Range(calls[i]) \cup {b}
  BY <1>1, RangeOfMore
<1>3. calls' = [calls EXCEPT ![i] = Append(calls[i], b)]
  BY DEF Calls
<1> QED
  BY <1>1, <1>2, <1>3

\* Running the backend the request names keeps the invariant.
LEMMA NamedStep ==
    ASSUME DispatchInv, NEW i \in DocNumbers, RunNamed(i)
    PROVE  DispatchInv'
<1>1. /\ DispatchTypeOK /\ RequestInv /\ StatusInv /\ \A j \in DocNumbers : DocInv(j)
      /\ may = [j \in DocNumbers |-> may[j]]
  BY DEF DispatchInv
<1>2. /\ UNCHANGED requestVars /\ left' = left /\ may' = may /\ doc[i] = "named"
      /\ Calls(i, req.backend.name)
  BY DEF RunNamed
<1>3. /\ DocNumbers' = DocNumbers /\ Engaged' = Engaged /\ Door' = Door /\ Plan' = Plan
      /\ Reachable' = Reachable /\ req' = req /\ (\A s : ScopeOf(s)' = ScopeOf(s))
      /\ \A p : BackendsAt(p)' = BackendsAt(p)
  BY <1>2, RequestStays
<1>4. /\ Door = 0 /\ Engaged = NoneGiven /\ req.backend.is = "backend" /\ Builds(i)
      /\ req.backend.name \in Registered /\ Range(calls[i]) \subseteq ScopeOf(Reachable)
  BY <1>1, <1>2 DEF DocInv
<1>5. ScopeOf(Reachable) = {req.backend.name}
  BY <1>1, <1>4, LetInIsScoped
<1>6. /\ calls' \in [DocNumbers -> Seq(Registered)]
      /\ Range(calls'[i]) = Range(calls[i]) \cup {req.backend.name}
      /\ \A j \in DocNumbers \ {i} : calls'[j] = calls[j]
  BY <1>1, <1>2, <1>4, CallsAs
<1>7. left' \in [DocNumbers -> SUBSET Nat]
  BY <1>1, <1>2 DEF DispatchTypeOK
<1>8. PICK outcome \in {"ok", "failed"}, by \in {req.backend.name, NoneGiven}, refusal \in {0, 502} :
         /\ Ends(i, outcome, by, refusal)
         /\ outcome = "ok" => by = req.backend.name
         /\ outcome = "failed" => refusal = 502
  BY DEF RunNamed
<1>9. /\ DispatchTypeOK' /\ StatusInv'
      /\ doc'[i] = outcome /\ results'[i].state = outcome /\ results'[i].by = by
      /\ \A j \in DocNumbers \ {i} : doc'[j] = doc[j] /\ results'[j] = results[j]
  <2>1. by \in Registered \cup {NoneGiven}
    BY <1>4
  <2> QED
    BY <1>1, <1>2, <1>6, <1>7, <1>8, <2>1, EndsAs
<1>10. DocInv(i)'
  BY <1>3, <1>4, <1>5, <1>6, <1>8, <1>9 DEF DocInv
<1> QED
  BY <1>1, <1>2, <1>3, <1>6, <1>9, <1>10, OthersStay DEF StepOf

\* Running the next backend of a plan keeps the invariant.
LEMMA ChainStep ==
    ASSUME DispatchInv, NEW i \in DocNumbers, RunChain(i)
    PROVE  DispatchInv'
<1> DEFINE b == FirstOf(left[i])
<1>1. /\ DispatchTypeOK /\ RequestInv /\ StatusInv /\ \A j \in DocNumbers : DocInv(j)
      /\ may = [j \in DocNumbers |-> may[j]]
  BY DEF DispatchInv
<1>2. /\ UNCHANGED requestVars /\ may' = may /\ doc[i] = "chain"
  BY DEF RunChain
<1>3. /\ DocNumbers' = DocNumbers /\ Engaged' = Engaged /\ Door' = Door /\ Plan' = Plan
      /\ Reachable' = Reachable /\ req' = req /\ (\A s : ScopeOf(s)' = ScopeOf(s))
      /\ \A p : BackendsAt(p)' = BackendsAt(p)
  BY <1>2, RequestStays
<1>4. /\ Door = 0 /\ Engaged = NoneGiven /\ req.backend.is # "backend"
      /\ left[i] \subseteq Plan /\ Range(calls[i]) = BackendsAt(Plan \ left[i]) \ Uncredentialed
      /\ Range(calls[i]) \subseteq ScopeOf(Reachable)
  BY <1>1, <1>2 DEF DocInv
<1>5. /\ calls \in [DocNumbers -> Seq(Registered)] /\ left \in [DocNumbers -> SUBSET Nat]
  BY <1>1 DEF DispatchTypeOK
<1>6. CASE left[i] = {}
  <2>1. Ends(i, "failed", NoneGiven, 502) /\ left' = left /\ calls' = calls
    BY <1>6 DEF RunChain
  <2>2. /\ DispatchTypeOK' /\ StatusInv'
        /\ doc'[i] = "failed" /\ results'[i].state = "failed" /\ results'[i].by = NoneGiven
        /\ \A j \in DocNumbers \ {i} : doc'[j] = doc[j] /\ results'[j] = results[j]
    <3>1. /\ DispatchTypeOK /\ RequestInv /\ UNCHANGED requestVars
          /\ Ends(i, "failed", NoneGiven, 502) /\ 502 \in {400, 404, 424, 502}
          /\ calls' \in [DocNumbers -> Seq(Registered)] /\ left' \in [DocNumbers -> SUBSET Nat]
      BY <1>1, <1>2, <1>5, <2>1
    <3> QED
      BY <3>1, FailsAs
  <2>3. Range(calls[i]) = ScopeOf(Reachable) \ Uncredentialed
    <3>1. Plan \ left[i] = Plan
      BY <1>6
    <3> QED
      BY <1>1, <1>4, <3>1, PlanIsScoped
  <2>4. DocInv(i)'
    BY <1>3, <1>4, <2>1, <2>2, <2>3 DEF DocInv
  <2> QED
    BY <1>1, <1>2, <1>3, <2>1, <2>2, <2>4, OthersStay DEF StepOf
<1>7. CASE left[i] # {}
  <2>1. Min(left[i]) \in left[i]
    BY <1>5, <1>7, LowestIsOne
  <2>2. PICK k \in left[i] : b = Written[k] /\ k = Min(left[i])
    BY <2>1 DEF FirstOf
  <2>3. k \in Plan /\ b \in Registered /\ Within(b, CallerScope)
    BY <1>1, <1>4, <2>2, PlacesAreNumbers DEF CallerScope
  <2>4. left' = [left EXCEPT ![i] = left[i] \ {k}]
    BY <1>7, <2>2, <2>3 DEF RunChain
  <2>5. /\ left' \in [DocNumbers -> SUBSET Nat] /\ left'[i] = left[i] \ {k}
        /\ \A j \in DocNumbers \ {i} : left'[j] = left[j]
    BY <1>5, <2>4
  <2>6. /\ BackendsAt(Plan \ (left[i] \ {k})) = BackendsAt(Plan \ left[i]) \cup {b}
        /\ b \in ScopeOf(Reachable)
    <3>1. Plan \ (left[i] \ {k}) = (Plan \ left[i]) \cup {k}
      BY <2>3
    <3>2. b \in BackendsAt(Plan)
      BY <2>2, <2>3 DEF BackendsAt
    <3> QED
      BY <1>1, <1>4, <2>2, <3>1, <3>2, PlanIsScoped DEF BackendsAt
  <2> HIDE DEF b
  <2>7. CASE b \in Uncredentialed \/ UNCHANGED <<doc, results, status>>
    <3>1. UNCHANGED <<doc, results, status>>
      BY <1>7, <2>3, <2>7 DEF RunChain, b
    <3>2. status = 0
      BY <1>1, <1>2, RunningIsUntold DEF Running
    <3>3. /\ calls' \in [DocNumbers -> Seq(Registered)]
          /\ \A j \in DocNumbers \ {i} : calls'[j] = calls[j]
          /\ Range(calls'[i]) = BackendsAt(Plan \ left'[i]) \ Uncredentialed
          /\ Range(calls'[i]) \subseteq ScopeOf(Reachable)
      <4>1. CASE b \in Uncredentialed
        <5>1. calls' = calls
          BY <1>7, <2>3, <4>1 DEF RunChain, b
        <5>2. BackendsAt(Plan \ left'[i]) \ Uncredentialed = Range(calls[i])
          <6>1. BackendsAt(Plan \ left'[i]) = BackendsAt(Plan \ left[i]) \cup {b}
            BY <2>5, <2>6, Zenon
          <6>2. \A known : (known \cup {b}) \ Uncredentialed = known \ Uncredentialed
            BY <4>1
          <6> QED
            BY <1>4, <6>1, <6>2, Zenon
        <5>3. Range(calls'[i]) = Range(calls[i])
          BY <5>1, Zenon
        <5>4. calls' \in [DocNumbers -> Seq(Registered)] /\ \A j \in DocNumbers \ {i} : calls'[j] = calls[j]
          BY <1>5, <5>1
        <5>5. Range(calls'[i]) \subseteq ScopeOf(Reachable)
          BY <1>4, <5>3
        <5> QED
          BY <5>2, <5>3, <5>4, <5>5, Zenon
      <4>2. CASE b \notin Uncredentialed
        <5>1. Calls(i, b)
          BY <1>7, <2>3, <4>2 DEF RunChain, b
        <5>2. /\ calls' \in [DocNumbers -> Seq(Registered)]
              /\ Range(calls'[i]) = Range(calls[i]) \cup {b}
              /\ \A j \in DocNumbers \ {i} : calls'[j] = calls[j]
          BY <1>1, <2>3, <5>1, CallsAs
        <5> QED
          BY <1>4, <2>5, <2>6, <4>2, <5>2
      <4> QED
        BY <4>1, <4>2
    <3>4. DispatchTypeOK' /\ StatusInv'
      BY <1>1, <1>3, <2>5, <3>1, <3>2, <3>3 DEF DispatchTypeOK, StatusInv
    <3>5. DocInv(i)'
      BY <1>2, <1>3, <1>4, <2>5, <3>1, <3>3 DEF DocInv, Concluded
    <3> QED
      BY <1>1, <1>2, <1>3, <2>5, <3>1, <3>3, <3>4, <3>5, OthersStay DEF StepOf
  <2>8. CASE b \notin Uncredentialed /\ Ends(i, "ok", b, 0)
    <3>1. Calls(i, b)
      BY <1>7, <2>3, <2>8 DEF RunChain, b
    <3>2. /\ calls' \in [DocNumbers -> Seq(Registered)]
          /\ Range(calls'[i]) = Range(calls[i]) \cup {b}
          /\ \A j \in DocNumbers \ {i} : calls'[j] = calls[j]
      BY <1>1, <2>3, <3>1, CallsAs
    <3>3. /\ DispatchTypeOK' /\ StatusInv'
          /\ doc'[i] = "ok" /\ results'[i].state = "ok" /\ results'[i].by = b
          /\ \A j \in DocNumbers \ {i} : doc'[j] = doc[j] /\ results'[j] = results[j]
      BY <1>1, <1>2, <2>3, <2>5, <2>8, <3>2, EndsAs
    <3>4. DocInv(i)'
      BY <1>3, <1>4, <2>6, <3>2, <3>3 DEF DocInv
    <3> QED
      BY <1>1, <1>2, <1>3, <2>5, <3>2, <3>3, <3>4, OthersStay DEF StepOf
  <2> QED
    BY <1>7, <2>3, <2>7, <2>8 DEF RunChain, b
<1> QED
  BY <1>6, <1>7

\* Running a leaf of the strategy's tree keeps the invariant.
LEMMA LeafStep ==
    ASSUME DispatchInv, NEW i \in DocNumbers, RunLeaf(i)
    PROVE  DispatchInv'
<1>1. /\ DispatchTypeOK /\ RequestInv /\ StatusInv /\ \A j \in DocNumbers : DocInv(j)
      /\ may = [j \in DocNumbers |-> may[j]]
  BY DEF DispatchInv
<1>2. /\ UNCHANGED requestVars /\ left' = left /\ may' = may /\ doc[i] = "walk"
  BY DEF RunLeaf
<1>3. /\ DocNumbers' = DocNumbers /\ Engaged' = Engaged /\ Door' = Door /\ Plan' = Plan
      /\ Reachable' = Reachable /\ req' = req /\ (\A s : ScopeOf(s)' = ScopeOf(s))
      /\ \A p : BackendsAt(p)' = BackendsAt(p)
  BY <1>2, RequestStays
<1>4. /\ Door = 0 /\ Engaged \in DOMAIN Trees /\ may[i] \subseteq ScopeOf(Reachable)
      /\ Range(calls[i]) \subseteq ScopeOf(Reachable)
  BY <1>1, <1>2 DEF DocInv
<1>5. PICK b \in may[i] :
         IF Within(b, CallerScope)
         THEN /\ b \in Registered \ Uncredentialed
              /\ Calls(i, b) /\ UNCHANGED <<doc, results, status>>
         ELSE Ends(i, "refused", NoneGiven, 403) /\ UNCHANGED calls
  BY DEF RunLeaf
<1>6. b \in ScopeOf(Reachable) /\ Within(b, CallerScope)
  BY <1>4 DEF ScopeOf, CallerScope
<1>7. b \in Registered /\ Calls(i, b) /\ UNCHANGED <<doc, results, status>>
  BY <1>5, <1>6
<1>8. /\ calls' \in [DocNumbers -> Seq(Registered)]
      /\ Range(calls'[i]) = Range(calls[i]) \cup {b}
      /\ \A j \in DocNumbers \ {i} : calls'[j] = calls[j]
  BY <1>1, <1>7, CallsAs
<1>9. status = 0
  BY <1>1, <1>2, RunningIsUntold DEF Running
<1>10. DispatchTypeOK' /\ StatusInv'
  BY <1>1, <1>2, <1>3, <1>7, <1>8, <1>9 DEF DispatchTypeOK, StatusInv
<1>11. DocInv(i)'
  BY <1>2, <1>3, <1>4, <1>6, <1>7, <1>8 DEF DocInv, Concluded
<1> QED
  BY <1>1, <1>2, <1>3, <1>7, <1>8, <1>10, <1>11, OthersStay DEF StepOf

\* Ending the walk of the tree keeps the invariant.
LEMMA EndWalkStep ==
    ASSUME DispatchInv, NEW i \in DocNumbers, EndWalk(i)
    PROVE  DispatchInv'
<1>1. /\ DispatchTypeOK /\ RequestInv /\ StatusInv /\ \A j \in DocNumbers : DocInv(j)
      /\ may = [j \in DocNumbers |-> may[j]]
  BY DEF DispatchInv
<1>2. /\ UNCHANGED requestVars /\ left' = left /\ may' = may /\ calls' = calls
      /\ doc[i] = "walk"
  BY DEF EndWalk
<1>3. /\ DocNumbers' = DocNumbers /\ Engaged' = Engaged /\ Door' = Door /\ Plan' = Plan
      /\ Reachable' = Reachable /\ req' = req /\ (\A s : ScopeOf(s)' = ScopeOf(s))
      /\ \A p : BackendsAt(p)' = BackendsAt(p)
  BY <1>2, RequestStays
<1>4. /\ Door = 0 /\ Engaged # NoneGiven /\ Range(calls[i]) \subseteq ScopeOf(Reachable)
  BY <1>1, <1>2, RequestShape DEF DocInv
<1>5. /\ calls \in [DocNumbers -> Seq(Registered)] /\ left \in [DocNumbers -> SUBSET Nat]
      /\ Range(calls[i]) \subseteq Registered
  <2>1. /\ calls \in [DocNumbers -> Seq(Registered)] /\ left \in [DocNumbers -> SUBSET Nat]
    BY <1>1 DEF DispatchTypeOK
  <2>2. DOMAIN calls[i] = 1..Len(calls[i]) /\ calls[i] \in Seq(Registered)
    BY <2>1, LenProperties
  <2>3. \A k \in DOMAIN calls[i] : calls[i][k] \in Registered
    BY <2>2, ElementOfSeq
  <2> QED
    BY <2>1, <2>3 DEF Range
<1>6. PICK outcome \in {"ok", "failed"}, by \in Range(calls[i]) \cup {NoneGiven}, refusal \in {0, 502} :
         /\ Ends(i, outcome, by, refusal)
         /\ outcome = "ok" => by \in Range(calls[i])
         /\ outcome = "failed" => refusal = 502
  <2>1. CASE \E by \in Range(calls[i]) : Ends(i, "ok", by, 0)
    BY <2>1
  <2>2. CASE Ends(i, "failed", NoneGiven, 502)
    BY <2>2
  <2> QED
    BY <2>1, <2>2 DEF EndWalk
<1>7. /\ DispatchTypeOK' /\ StatusInv'
      /\ doc'[i] = outcome /\ results'[i].state = outcome /\ results'[i].by = by
      /\ \A j \in DocNumbers \ {i} : doc'[j] = doc[j] /\ results'[j] = results[j]
  <2>1. by \in Registered \cup {NoneGiven}
    BY <1>5
  <2> QED
    BY <1>1, <1>2, <1>5, <1>6, <2>1, EndsAs
<1>8. DocInv(i)'
  BY <1>2, <1>3, <1>4, <1>6, <1>7 DEF DocInv
<1> QED
  BY <1>1, <1>2, <1>3, <1>7, <1>8, OthersStay DEF StepOf

\* Refusing a request and telling a batch change the status alone.
LEMMA ToldDispatch ==
    ASSUME DispatchInv, Refuse \/ Assemble
    PROVE  DispatchInv'
<1>1. /\ DispatchTypeOK /\ RequestInv /\ StatusInv /\ \A j \in DocNumbers : DocInv(j)
      /\ may = [j \in DocNumbers |-> may[j]]
  BY DEF DispatchInv
<1>2. UNCHANGED requestVars /\ UNCHANGED runVars
  BY DEF Refuse, Assemble
<1>3. /\ doc' = doc /\ left' = left /\ may' = may /\ calls' = calls /\ results' = results
  BY <1>2 DEF runVars
<1>4. DocNumbers' = DocNumbers /\ RequestInv' /\ Door' = Door /\ req' = req
  BY <1>1, <1>2, RequestStays
<1>5. \A j \in DocNumbers : DocInv(j)'
  BY <1>1, <1>2, <1>3, DocStays
<1>6. CASE Refuse
  <2>1. status' = Door /\ \A j \in DocNumbers : doc[j] = "waiting"
    BY <1>6 DEF Refuse, Turned
  <2>2. StatusInv'
    BY <1>3, <1>4, <2>1 DEF StatusInv
  <2>3. DispatchTypeOK'
    BY <1>1, <1>3, <1>4, <2>1, DoorIs DEF DispatchTypeOK
  <2> QED
    BY <1>1, <1>3, <1>4, <1>5, <2>2, <2>3 DEF DispatchInv
<1>7. CASE Assemble
  <2>1. status' = 200 /\ req.entry = "batch" /\ \A j \in DocNumbers : doc[j] \in Concluded
    BY <1>7 DEF Assemble
  <2>2. StatusInv'
    BY <1>3, <1>4, <2>1 DEF StatusInv
  <2>3. DispatchTypeOK'
    BY <1>1, <1>3, <1>4, <2>1 DEF DispatchTypeOK
  <2> QED
    BY <1>1, <1>3, <1>4, <1>5, <2>2, <2>3 DEF DispatchInv
<1> QED
  BY <1>6, <1>7

\* Every step of the dispatch keeps the invariant.
LEMMA DispatchStepInv == DispatchInv /\ [DispatchNext]_dispatchVars => DispatchInv'
<1> SUFFICES ASSUME DispatchInv, [DispatchNext]_dispatchVars
             PROVE  DispatchInv'
  OBVIOUS
<1>1. CASE Refuse \/ Assemble
  BY <1>1, ToldDispatch
<1>2. ASSUME NEW i \in DocNumbers, Begin(i) \/ RunNamed(i) \/ RunChain(i) \/ RunLeaf(i) \/ EndWalk(i)
      PROVE  DispatchInv'
  BY <1>2, BeginStep, NamedStep, ChainStep, LeafStep, EndWalkStep
<1>3. CASE UNCHANGED dispatchVars
  <2>1. /\ UNCHANGED requestVars /\ status' = status /\ doc' = doc /\ left' = left
        /\ may' = may /\ calls' = calls /\ results' = results
    BY <1>3 DEF dispatchVars, runVars
  <2>2. DocNumbers' = DocNumbers /\ RequestInv' /\ Door' = Door /\ req' = req
    BY <2>1, RequestStays DEF DispatchInv
  <2>3. \A j \in DocNumbers : DocInv(j)'
    BY <2>1, DocStays DEF DispatchInv
  <2> QED
    BY <2>1, <2>2, <2>3 DEF DispatchInv, DispatchTypeOK, StatusInv
<1> QED
  BY <1>1, <1>2, <1>3 DEF DispatchNext

\* Every document of a request is somewhere, was given backends of the registry, and has
\* the result of where it ended; a response has a status an endpoint gives.
THEOREM DispatchTypeCorrect == DispatchSpec => []DispatchTypeOK
<1>1. DispatchInv => DispatchTypeOK
  BY DEF DispatchInv
<1> QED
  BY <1>1, DispatchInitInv, DispatchStepInv, PTL DEF DispatchSpec

\* Whatever the entry, the key's scope, the lists and the strategies: each backend that
\* was given a document is in the scope, and one that was named, mentioned or permitted.
THEOREM CallsAreScoped == DispatchSpec => []CallsStayInScope
<1>1. DispatchInv => CallsStayInScope
  BY DEF DispatchInv, DocInv, CallsStayInScope
<1> QED
  BY <1>1, DispatchInitInv, DispatchStepInv, PTL DEF DispatchSpec

\* A refusal for the scope leaves nothing that could have run and follows no call, a chain
\* fails only after all it could call, and a result is by a backend that was called.
THEOREM OutcomesAreTold == DispatchSpec => []OutcomesAreDue
<1>1. ASSUME DispatchInv
      PROVE  OutcomesAreDue
  <2>1. /\ RequestInv /\ StatusInv /\ \A j \in DocNumbers : DocInv(j)
    BY <1>1 DEF DispatchInv
  <2>2. ASSUME NEW i \in DocNumbers, Denied(i)
        PROVE  /\ calls[i] = <<>>
               /\ ScopeOf(IF Engaged = NoneGiven THEN Reachable ELSE Certain[Engaged]) = {}
    <3>1. CASE doc[i] = "refused"
      BY <2>1, <3>1 DEF DocInv
    <3>2. CASE status = 403 /\ status = Door /\ doc[i] = "waiting"
      BY <2>1, <3>2, DeniedHasNothing, Zenon DEF DocInv
    <3> QED
      BY <2>1, <2>2, <3>1, <3>2 DEF Denied, StatusInv
  <2>3. ASSUME NEW i \in DocNumbers, doc[i] \in Concluded, status = 200, req.entry # "batch"
        PROVE  doc[i] = "ok"
    <3>1. Door # 200
      BY <2>1, DoorIs
    <3> QED
      BY <2>1, <2>3, <3>1 DEF StatusInv
  <2> QED
    BY <2>1, <2>2, <2>3 DEF OutcomesAreDue, DocInv
<1> QED
  BY <1>1, DispatchInitInv, DispatchStepInv, PTL DEF DispatchSpec
=============================================================================
