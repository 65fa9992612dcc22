-------------------------- MODULE ImportJobsProofs --------------------------
(***************************************************************************)
(* Proofs about ImportJobs, for every set of clients, jobs and sources and *)
(* every bound.                                                            *)
(*                                                                         *)
(* The invariant IInv is preserved by each kind of step for its own        *)
(* reasons, so every kind first gets a lemma that sums up its effect: what *)
(* a supervisor can do to its own job, what an observation can do to the   *)
(* records, what a launch does to the record it writes.                    *)
(***************************************************************************)
EXTENDS ImportJobs, TLAPS, FiniteSetTheorems

USE DEF Terminal, Nonterminal, Working, HoldsSupervisorLock, Live, Launch,
        HoldsAdmission

-----------------------------------------------------------------------------
(* What one step of a supervisor does                                      *)

\* A supervisor changes nothing but its own job, moves its record only
\* towards a result, and begins to work only while nobody holds admission.
SupervisorEffect(j) ==
    /\ UNCHANGED <<request, graceOver, admission, pidReused, crashes,
                   pc, op, cur, src, todo, active>>
    /\ \A k \in Jobs \ {j} :
           /\ status'[k] = status[k] /\ supervisor'[k] = supervisor[k]
           /\ supervisorLock'[k] = supervisorLock[k]
           /\ stage'[k] = stage[k] /\ submissions'[k] = submissions[k]
           /\ k \in retained' <=> k \in retained
    /\ retained \subseteq retained'
    /\ supervisor[j] # "none" /\ supervisor'[j] # "none"
    /\ \/ status'[j] = status[j]
       \/ /\ status[j] \in Nonterminal /\ supervisor[j] \in Working
          /\ status'[j] \in Nonterminal \cup Terminal
    /\ supervisor[j] \notin Working =>
           retained' = retained /\ stage'[j] = stage[j]
    /\ retained' # retained => status'[j] = status[j]
    /\ supervisor'[j] \in Working =>
           /\ status'[j] \in Nonterminal
           /\ supervisor[j] \in Working \/ admission = Nobody
    /\ supervisorLock'[j] = Child <=> supervisor'[j] \in HoldsSupervisorLock
    /\ \/ supervisorLock'[j] = supervisorLock[j]
       \/ supervisorLock[j] \in {Child, Nobody} /\ supervisorLock'[j] \in {Child, Nobody}

\* What a supervisor's step may change of its own record, and that it changes no other.
LEMMA SupervisorStepEffect ==
    ASSUME IInv, NEW j \in Jobs, SupervisorStep(j) \/ Admit(j)
    PROVE  SupervisorEffect(j)
<1> USE DEF IInv, TypeOK, LockInv, RecordInv, NeverDisowned, SupervisorEffect,
            Move, SupervisorUnchanged, storeVars, clientVars
<1>1. CASE TakeSupervisorLock(j)
  BY <1>1, OwnersAssumption DEF TakeSupervisorLock
<1>2. CASE Admit(j)
  BY <1>2, OwnersAssumption DEF Admit, Resolved
<1>3. CASE BuildService(j)
  BY <1>3 DEF BuildService
<1>4. CASE SeeCancellation(j)
  BY <1>4 DEF SeeCancellation, Cancellable
<1>5. CASE BeginImport(j)
  BY <1>5 DEF BeginImport
<1>6. CASE Submit(j)
  BY <1>6 DEF Submit
<1>7. CASE ReceiveResult(j)
  BY <1>7 DEF ReceiveResult
<1>8. CASE Busy(j)
  BY <1>8 DEF Busy, AfterBusy
<1>9. CASE Reuse(j)
  BY <1>9 DEF Reuse
<1>10. CASE Convert(j)
  BY <1>10 DEF Convert
<1>11. CASE Publish(j)
  BY <1>11 DEF Publish
<1>12. CASE ReturnReceipt(j)
  BY <1>12 DEF ReturnReceipt
<1>13. CASE ImportFails(j)
  BY <1>13 DEF ImportFails
<1>14. CASE FinalWrite(j)
  BY <1>14, OwnersAssumption DEF FinalWrite, Outcome
<1>15. QED
  BY <1>1, <1>2, <1>3, <1>4, <1>5, <1>6, <1>7, <1>8, <1>9, <1>10, <1>11,
     <1>12, <1>13, <1>14 DEF SupervisorStep

\* What a supervisor's step leaves true of the store, the remote parse and its
\* own record together.
StoreEffect(j) ==
    /\ j \in retained' =>
           supervisor'[j] \in {"published", "succeeding", "failing", "dead"}
    /\ supervisor'[j] = "published" => j \in retained'
    /\ supervisor'[j] = "succeeding" => retained' # {}
    /\ status'[j] = "cancelled" => j \notin retained'
    /\ status'[j] = "succeeded" => retained' # {}
    /\ stage'[j] = "queued" => submissions'[j] = 0
    /\ supervisor'[j] = "loop" => stage'[j] # "uploading"
    /\ supervisor'[j] \in {"none", "spawned", "locked", "ready"}
           => stage'[j] = "queued"
    /\ submissions'[j] <= 1

\* What a supervisor's step leaves true of the store, the remote parse and its own record.
LEMMA SupervisorStoreEffect ==
    ASSUME IInv, NEW j \in Jobs, SupervisorStep(j) \/ Admit(j)
    PROVE  StoreEffect(j)
<1> USE DEF IInv, TypeOK, NeverDisowned, RetainInv, OutcomeMatchesStore,
            StageInv, SubmittedOnce, StoreEffect, Move, storeVars
<1>1. CASE TakeSupervisorLock(j)
  BY <1>1 DEF TakeSupervisorLock
<1>2. CASE Admit(j)
  BY <1>2 DEF Admit
<1>3. CASE BuildService(j)
  BY <1>3 DEF BuildService
<1>4. CASE SeeCancellation(j)
  BY <1>4 DEF SeeCancellation, Cancellable
<1>5. CASE BeginImport(j)
  BY <1>5 DEF BeginImport
<1>6. CASE Submit(j)
  BY <1>6 DEF Submit
<1>7. CASE ReceiveResult(j)
  BY <1>7 DEF ReceiveResult
<1>8. CASE Busy(j)
  BY <1>8 DEF Busy, AfterBusy
<1>9. CASE Reuse(j)
  BY <1>9 DEF Reuse
<1>10. CASE Convert(j)
  BY <1>10 DEF Convert
<1>11. CASE Publish(j)
  BY <1>11 DEF Publish
<1>12. CASE ReturnReceipt(j)
  BY <1>12 DEF ReturnReceipt
<1>13. CASE ImportFails(j)
  BY <1>13 DEF ImportFails
<1>14. CASE FinalWrite(j)
  BY <1>14 DEF FinalWrite, Outcome
<1>15. QED
  BY <1>1, <1>2, <1>3, <1>4, <1>5, <1>6, <1>7, <1>8, <1>9, <1>10, <1>11,
     <1>12, <1>13, <1>14 DEF SupervisorStep

-----------------------------------------------------------------------------
(* Type correctness                                                        *)

\* A client whose call ends forgets what it held.
LEMMA ForgetTypeOK ==
    ASSUME TypeOK, NEW c \in Clients, Forget(c)
    PROVE  /\ pc' \in [Clients -> {"idle", "cancel", "again"} \cup HoldsAdmission]
           /\ op' \in [Clients -> {"start", "get", "cancel"}]
           /\ cur' \in [Clients -> Jobs \cup {Nobody}]
           /\ src' \in [Clients -> Sources \cup {NoSource}]
           /\ todo' \in [Clients -> SUBSET Jobs]
           /\ active' \in [Clients -> SUBSET Jobs]
  BY DEF TypeOK, Forget

\* A client's new call is well typed.
LEMMA ClientCallTypeOK ==
    ASSUME TypeOK, NEW c \in Clients, ClientCall(c)
    PROVE  TypeOK'
<1>1. ASSUME NEW s \in Sources, Start(c, s) PROVE TypeOK'
  BY <1>1 DEF TypeOK, Start, Take, storeVars
<1>2. ASSUME NEW j \in Jobs, NEW o \in {"get", "cancel"}, Get(c, j, o)
      PROVE  TypeOK'
  BY <1>2 DEF TypeOK, Get, Take, storeVars
<1>3. QED  BY <1>1, <1>2 DEF ClientCall

\* Where a client may be after an observation.
LEMMA ObservationTypeOK ==
    ASSUME TypeOK, NEW c \in Clients, NEW j \in Jobs,
           StillActive(c, j) \/ Finished(c) \/ Return(c)
    PROVE  /\ admission' \in Clients \cup {Nobody}
           /\ pc' \in [Clients -> {"idle", "cancel", "again"} \cup HoldsAdmission]
           /\ op' \in [Clients -> {"start", "get", "cancel"}]
           /\ cur' \in [Clients -> Jobs \cup {Nobody}]
           /\ src' \in [Clients -> Sources \cup {NoSource}]
           /\ todo' \in [Clients -> SUBSET Jobs]
           /\ active' \in [Clients -> SUBSET Jobs]
<1>1. CASE Return(c)
  BY <1>1, ForgetTypeOK DEF Return
<1>2. CASE StillActive(c, j)
  BY <1>1, <1>2 DEF StillActive, TypeOK
<1>3. CASE Finished(c)
  BY <1>1, <1>3 DEF Finished, TypeOK
<1>4. QED  BY <1>1, <1>2, <1>3

\* Each step of a client's call is well typed.
LEMMA ClientStepTypeOK ==
    ASSUME TypeOK, CallInv, NEW c \in Clients, ClientStep(c)
    PROVE  TypeOK'
<1> USE DEF TypeOK, storeVars
<1>0. pc[c] \in {"look", "probe", "recover", "again", "recorded"}
          => cur[c] \in Jobs
  BY DEF CallInv
<1>1. CASE WriteCancel(c)
  BY <1>1 DEF WriteCancel
<1>2. CASE GetAgain(c)
  BY <1>0, <1>2 DEF GetAgain, Take
<1>3. ASSUME NEW j \in Jobs, ObserveStatus(c, j)  PROVE TypeOK'
  <2>1. CASE Return(c)
    <3>1. UNCHANGED <<status, request, identity, cancelled, graceOver, storeVars,
                      supervisorLock, importLock, supervisor, pidReused, crashes>>
      BY <1>3, Zenon DEF ObserveStatus
    <3>2. /\ admission' \in Clients \cup {Nobody}
          /\ pc' \in [Clients -> {"idle", "cancel", "again"} \cup HoldsAdmission]
          /\ op' \in [Clients -> {"start", "get", "cancel"}]
          /\ cur' \in [Clients -> Jobs \cup {Nobody}]
          /\ src' \in [Clients -> Sources \cup {NoSource}]
          /\ todo' \in [Clients -> SUBSET Jobs]
          /\ active' \in [Clients -> SUBSET Jobs]
      BY <1>3, <2>1, ObservationTypeOK, Zenon
    <3> QED
      BY <3>1, <3>2
  <2>2. CASE ~Return(c)
    <3>1. UNCHANGED <<status, request, identity, cancelled, graceOver, storeVars,
                      supervisorLock, importLock, supervisor, pidReused, crashes>>
      BY <1>3, Zenon DEF ObserveStatus
    <3>2. /\ UNCHANGED <<admission, op, src, active>>
          /\ todo' = [todo EXCEPT ![c] = todo[c] \ {j}]
          /\ \/ UNCHANGED <<pc, cur>>
             \/ pc' = [pc EXCEPT ![c] = "look"] /\ cur' = [cur EXCEPT ![c] = j]
      BY <1>3, <2>2 DEF ObserveStatus
    <3>3. /\ todo' \in [Clients -> SUBSET Jobs]
          /\ pc' \in [Clients -> {"idle", "cancel", "again"} \cup HoldsAdmission]
          /\ cur' \in [Clients -> Jobs \cup {Nobody}]
      <4>1. "look" \in HoldsAdmission
        BY DEF HoldsAdmission
      <4>2. pc' \in [Clients -> {"idle", "cancel", "again"} \cup HoldsAdmission]
        BY <3>2, <4>1
      <4>3. cur' \in [Clients -> Jobs \cup {Nobody}]
        BY <3>2
      <4>4. todo' \in [Clients -> SUBSET Jobs]
        BY <3>2
      <4> QED
        BY <4>2, <4>3, <4>4
    <3> QED
      BY <3>1, <3>2, <3>3
  <2>3. QED  BY <2>1, <2>2
<1>4. ASSUME NEW j \in Jobs, MakeDirectory(c, j)  PROVE TypeOK'
  BY <1>4 DEF MakeDirectory
<1>5. CASE ObserveOwner(c)
  <2>1. CASE StillActive(c, cur[c])
    BY <1>0, <1>5, <2>1, ObservationTypeOK DEF ObserveOwner
  <2>2. CASE ~StillActive(c, cur[c])
    BY <1>5, <2>2 DEF ObserveOwner
  <2>3. QED  BY <2>1, <2>2
<1>6. CASE Probe(c)
  <2>1. CASE ~Abandoned(cur[c])
    BY <1>0, <1>6, <2>1, ObservationTypeOK DEF Probe
  <2>2. CASE Abandoned(cur[c])
    <3>1. /\ supervisorLock' = [supervisorLock EXCEPT ![cur[c]] = c]
          /\ pc' = [pc EXCEPT ![c] = "recover"]
      BY <1>6, <2>2 DEF Probe
    <3>2. UNCHANGED <<admission, op, cur, src, todo, active>>
      BY <1>6, <2>2 DEF Probe
    <3>3. UNCHANGED <<status, request, identity, cancelled, graceOver, storeVars, importLock,
                      supervisor, pidReused, crashes>>
      BY <1>6 DEF Probe
    <3> QED
      BY <3>1, <3>2, <3>3 DEF HoldsAdmission
  <2>3. QED  BY <2>1, <2>2
<1>7. CASE Recover(c)
  <2>1. /\ cur[c] \in Jobs /\ Finished(c)
        /\ status' = [status EXCEPT ![cur[c]] = Stopped(status[cur[c]])]
        /\ supervisorLock' = [supervisorLock EXCEPT ![cur[c]] = Nobody]
        /\ UNCHANGED <<request, identity, cancelled, graceOver, storeVars,
                       importLock, supervisor, pidReused, crashes>>
    BY <1>0, <1>7 DEF Recover
  <2>2. /\ admission' \in Clients \cup {Nobody}
        /\ pc' \in [Clients -> {"idle", "cancel", "again"} \cup HoldsAdmission]
        /\ op' \in [Clients -> {"start", "get", "cancel"}]
        /\ cur' \in [Clients -> Jobs \cup {Nobody}]
        /\ src' \in [Clients -> Sources \cup {NoSource}]
        /\ todo' \in [Clients -> SUBSET Jobs]
        /\ active' \in [Clients -> SUBSET Jobs]
    BY <2>1, ObservationTypeOK, Zenon
  <2>3. /\ status' \in [Jobs -> {"absent", "empty"} \cup Nonterminal \cup Terminal]
        /\ supervisorLock' \in [Jobs -> Clients \cup {Child, Nobody}]
    BY <2>1 DEF Stopped, Terminal
  <2> QED
    BY <2>1, <2>2, <2>3
<1>8. CASE WriteStatus(c)
  BY <1>8 DEF WriteStatus
<1>9. CASE WriteRequest(c)
  BY <1>0, <1>9 DEF WriteRequest
<1>10. CASE Popen(c)
  BY <1>10 DEF Popen
<1>11. CASE PublishIdentity(c)
  BY <1>11, ForgetTypeOK DEF PublishIdentity, Return
<1>12. QED
  BY <1>1, <1>2, <1>3, <1>4, <1>5, <1>6, <1>7, <1>8, <1>9, <1>10, <1>11
  DEF ClientStep

\* Failed launches, deaths, signals, expired graces and reused pids keep the types.
LEMMA EnvironmentTypeOK ==
    ASSUME TypeOK, CallInv, Environment
    PROVE  TypeOK'
<1> USE DEF TypeOK, storeVars, clientVars
<1>1. ASSUME NEW c \in Clients, LaunchFails(c)  PROVE TypeOK'
  BY <1>1, ForgetTypeOK DEF LaunchFails, Return, CallInv
<1>2. ASSUME NEW c \in Clients, ClientDies(c)  PROVE TypeOK'
  BY <1>2, ForgetTypeOK, BoundAssumption DEF ClientDies
<1>3. ASSUME NEW j \in Jobs, SupervisorDies(j)  PROVE TypeOK'
  BY <1>3, BoundAssumption DEF SupervisorDies
<1>4. ASSUME NEW j \in Jobs, StopSignal(j)  PROVE TypeOK'
  BY <1>4 DEF StopSignal
<1>5. ASSUME NEW j \in Jobs, GraceExpires(j)  PROVE TypeOK'
  BY <1>5 DEF GraceExpires
<1>6. ASSUME NEW j \in Jobs, ReusePid(j)  PROVE TypeOK'
  BY <1>6 DEF ReusePid
<1>7. ASSUME NEW j \in Jobs, LoseIdentity(j)  PROVE TypeOK'
  BY <1>7 DEF LoseIdentity
<1>8. QED  BY <1>1, <1>2, <1>3, <1>4, <1>5, <1>6, <1>7 DEF Environment

\* Each step of a supervisor is well typed.
LEMMA SupervisorStepTypeOK ==
    ASSUME TypeOK, NEW j \in Jobs, SupervisorStep(j) \/ Admit(j)
    PROVE  TypeOK'
<1> USE DEF TypeOK, Move, SupervisorUnchanged, storeVars, clientVars
<1>1. CASE TakeSupervisorLock(j)
  BY <1>1 DEF TakeSupervisorLock
<1>2. CASE Admit(j)
  <2>1. UNCHANGED <<status, cancelled, importLock, storeVars>> /\ SupervisorUnchanged
    BY <1>2, Zenon DEF Admit
  <2>2. /\ Move(j, "locked", "dead") \/ Move(j, "locked", "ready")
        /\ supervisorLock' = [supervisorLock EXCEPT ![j] = Nobody] \/ supervisorLock' = supervisorLock
        /\ identity' = [identity EXCEPT ![j] = TRUE] \/ identity' = identity
    BY <1>2, Zenon DEF Admit
  <2>3. supervisorLock' \in [Jobs -> Clients \cup {Child, Nobody}]
    BY <2>2
  <2>4. identity' \in [Jobs -> BOOLEAN]
    BY <2>2, Zenon
  <2>5. supervisor' \in [Jobs -> {"none", "dead"} \cup Live]
    BY <2>2 DEF Live
  <2> QED
    BY <2>1, <2>3, <2>4, <2>5, Zenon
<1>3. CASE BuildService(j)
  BY <1>3 DEF BuildService
<1>4. CASE SeeCancellation(j)
  BY <1>4 DEF SeeCancellation, Cancellable
<1>5. CASE BeginImport(j)
  BY <1>5 DEF BeginImport
<1>6. CASE Submit(j)
  BY <1>6 DEF Submit
<1>7. CASE ReceiveResult(j)
  BY <1>7 DEF ReceiveResult
<1>8. CASE Busy(j)
  BY <1>8 DEF Busy, AfterBusy
<1>9. CASE Reuse(j)
  BY <1>9 DEF Reuse
<1>10. CASE Convert(j)
  BY <1>10 DEF Convert
<1>11. CASE Publish(j)
  BY <1>11 DEF Publish
<1>12. CASE ReturnReceipt(j)
  BY <1>12 DEF ReturnReceipt
<1>13. CASE ImportFails(j)
  BY <1>13 DEF ImportFails
<1>14. CASE FinalWrite(j)
  BY <1>14 DEF FinalWrite, Outcome
<1>15. QED
  BY <1>1, <1>2, <1>3, <1>4, <1>5, <1>6, <1>7, <1>8, <1>9, <1>10, <1>11,
     <1>12, <1>13, <1>14 DEF SupervisorStep

\* Every step is well typed.
LEMMA StepTypeOK ==
    ASSUME IInv, Next
    PROVE  TypeOK'
  BY ClientCallTypeOK, ClientStepTypeOK, SupervisorStepTypeOK, EnvironmentTypeOK
  DEF IInv, Next

-----------------------------------------------------------------------------
(* The two halves of the invariant                                         *)

\* The records and the processes that work on them.
RecordPart ==
    /\ RecordInv
    /\ Cardinality(Unresolved) <= MaxActiveJobs
    /\ OneImportPerSource
    /\ NeverDisowned
    /\ RetainInv
    /\ OutcomeMatchesStore
    /\ StageInv
    /\ SubmittedOnce

\* The calls that hold locks and the locks.
CallPart == CallInv /\ LockInv /\ LaunchInv /\ ObserveInv /\ ScanInv

recordVars == <<status, request, supervisor, retained, stage, submissions>>

\* Most steps of a client read records and leave them alone.
LEMMA QuietStep ==
    ASSUME RecordPart, UNCHANGED recordVars
    PROVE  RecordPart'
  BY DEF RecordPart, recordVars, RecordInv, Unresolved, OneImportPerSource,
         NeverDisowned, RetainInv, OutcomeMatchesStore, StageInv, SubmittedOnce

\* The bound on unresolved records survives a step that resolves some.
LEMMA FewerUnresolved ==
    ASSUME TypeOK, Cardinality(Unresolved) <= MaxActiveJobs,
           Unresolved' \subseteq Unresolved
    PROVE  Cardinality(Unresolved') <= MaxActiveJobs
<1>1. IsFiniteSet(Unresolved)
  BY ClientsAssumption, FS_Subset DEF Unresolved
<1>2. /\ IsFiniteSet(Unresolved')
      /\ Cardinality(Unresolved') <= Cardinality(Unresolved)
  BY <1>1, FS_Subset
<1>3. /\ Cardinality(Unresolved) \in Nat
      /\ Cardinality(Unresolved') \in Nat
  BY <1>1, <1>2, FS_CardinalityType
<1>4. QED  BY <1>2, <1>3, BoundAssumption

-----------------------------------------------------------------------------
(* Supervisors preserve the invariant                                      *)

\* A supervisor's step keeps the records' part of the invariant.
LEMMA SupervisorRecordPart ==
    ASSUME IInv, NEW j \in Jobs, SupervisorStep(j) \/ Admit(j), TypeOK'
    PROVE  RecordPart'
<1>1. SupervisorEffect(j) /\ StoreEffect(j)
  BY SupervisorStepEffect, SupervisorStoreEffect
<1>2. RecordInv'
  BY <1>1 DEF IInv, TypeOK, RecordInv, SupervisorEffect
<1>3. (Cardinality(Unresolved) <= MaxActiveJobs)'
  <2>1. Unresolved' \subseteq Unresolved
    BY <1>1 DEF IInv, TypeOK, Unresolved, SupervisorEffect
  <2>2. QED  BY <2>1, FewerUnresolved DEF IInv
<1>4. NeverDisowned'
  BY <1>1 DEF IInv, NeverDisowned, SupervisorEffect
<1>5. OneImportPerSource'
  <2>1. \A k \in Jobs : status'[k] \in Nonterminal => status[k] \in Nonterminal
    BY <1>1 DEF IInv, TypeOK, SupervisorEffect
  <2>2. QED
    BY <1>1, <1>4, <2>1
    DEF IInv, TypeOK, OneImportPerSource, NeverDisowned, SupervisorEffect
<1>6. RetainInv'
  BY <1>1 DEF IInv, RetainInv, SupervisorEffect, StoreEffect
<1>7. OutcomeMatchesStore'
  BY <1>1 DEF IInv, OutcomeMatchesStore, SupervisorEffect, StoreEffect
<1>8. StageInv' /\ SubmittedOnce'
  BY <1>1 DEF IInv, StageInv, SubmittedOnce, SupervisorEffect, StoreEffect
<1>9. QED
  BY <1>2, <1>3, <1>4, <1>5, <1>6, <1>7, <1>8 DEF RecordPart

\* A supervisor's step keeps what the clients' calls rely on.
LEMMA SupervisorCallPart ==
    ASSUME IInv, NEW j \in Jobs, SupervisorStep(j) \/ Admit(j), TypeOK'
    PROVE  CallPart'
<1>1. SupervisorEffect(j)
  BY SupervisorStepEffect
<1>2. CallInv'
  BY <1>1 DEF IInv, CallInv, SupervisorEffect
<1>3. LockInv'
  <2>1. LockInv /\ UNCHANGED <<pc, cur>> /\ Child \notin Clients /\ Nobody \notin Clients
    BY <1>1, OwnersAssumption DEF IInv, SupervisorEffect
  <2>2. ASSUME NEW k \in Jobs
        PROVE  supervisorLock'[k] = Child <=> supervisor'[k] \in HoldsSupervisorLock
    BY <1>1, <2>1 DEF LockInv, SupervisorEffect
  <2>3. ASSUME NEW k \in Jobs, NEW c \in Clients
        PROVE  supervisorLock'[k] = c <=> supervisorLock[k] = c
    BY <1>1, <2>1 DEF SupervisorEffect
  <2> QED
    BY <2>1, <2>2, <2>3 DEF LockInv
<1>4. LaunchInv'
  <2>1. SUFFICES ASSUME NEW c \in Clients, pc[c] \in Launch
                 PROVE  /\ status'[cur[c]] = status[cur[c]] /\ stage'[cur[c]] = stage[cur[c]]
                        /\ supervisor[cur[c]] = "none" => supervisor'[cur[c]] = "none"
                        /\ supervisor'[cur[c]] \notin Working /\ cur[c] \notin retained'
    <3>1. LaunchInv /\ UNCHANGED <<pc, cur, request, src>>
      BY <1>1 DEF IInv, SupervisorEffect
    <3> QED
      BY <2>1, <3>1 DEF LaunchInv, Launch
  <2>2. /\ cur[c] \in Jobs /\ admission = c /\ admission # Nobody
        /\ supervisor[cur[c]] \notin Working /\ cur[c] \notin retained
    BY <2>1, OwnersAssumption DEF IInv, CallInv, LaunchInv, HoldsAdmission
  <2>3. CASE cur[c] # j
    BY <1>1, <2>2, <2>3 DEF SupervisorEffect
  <2>4. CASE cur[c] = j
    BY <1>1, <2>2, <2>4 DEF SupervisorEffect
  <2> QED
    BY <2>3, <2>4
<1>5. ScanInv'
  <2>1. Unresolved' \subseteq Unresolved
    BY <1>1 DEF IInv, TypeOK, Unresolved, SupervisorEffect
  <2>2. QED  BY <1>1, <2>1 DEF IInv, ScanInv, SupervisorEffect
<1>6. ObserveInv'
  BY <1>1 DEF IInv, ObserveInv, SupervisorEffect
<1>7. QED  BY <1>2, <1>3, <1>4, <1>5, <1>6 DEF CallPart

\* No record is below the bound of active ones.
LEMMA NoneActive == Cardinality({}) < MaxActiveJobs
<1>1. Cardinality({}) = 0
  BY FS_EmptySet
<1>2. QED  BY <1>1, BoundAssumption

-----------------------------------------------------------------------------
(* Calls that read preserve the invariant                                  *)

\* A call that ends gives up admission; its local variables are reset.
LEMMA ReturnCallPart ==
    ASSUME IInv, NEW c \in Clients, Return(c), pc[c] \in HoldsAdmission \ {"recover"},
           UNCHANGED recordVars, UNCHANGED supervisorLock, TypeOK'
    PROVE  CallPart'
<1> USE OwnersAssumption
    DEF IInv, TypeOK, CallPart, Return, Forget, recordVars
<1>1. CallInv'
  BY DEF CallInv
<1>2. LockInv'
  BY DEF LockInv
<1>3. LaunchInv'
  BY DEF LaunchInv
<1>4. ScanInv'
  BY DEF ScanInv, CallInv, Unresolved
<1>5. ObserveInv'
  BY DEF ObserveInv
<1>6. QED  BY <1>1, <1>2, <1>3, <1>4, <1>5

\* A client's new call keeps what the other calls rely on.
LEMMA ClientCallCallPart ==
    ASSUME IInv, NEW c \in Clients, ClientCall(c), TypeOK'
    PROVE  CallPart'
<1> USE OwnersAssumption DEF IInv, TypeOK, CallPart, Take, storeVars
<1>1. ASSUME NEW s \in Sources, Start(c, s)  PROVE CallPart'
  <2> USE <1>1 DEF Start
  <2>1. CallInv'
    BY DEF CallInv
  <2>2. LockInv'
    BY DEF LockInv
  <2>3. LaunchInv'
    BY DEF LaunchInv
  <2>4. ScanInv'
    <3>1. active'[c] = {}
      BY DEF CallInv
    <3>2. Cardinality({}) < MaxActiveJobs
      BY NoneActive
    <3>3. Unresolved' \subseteq todo'[c]
      BY DEF Unresolved
    <3>4. Cardinality(active'[c]) < MaxActiveJobs
      BY <3>1, <3>2
    <3>5. admission' = c /\ pc'[c] = "scan"
      OBVIOUS
    <3>6. QED  BY ONLY <3>1, <3>3, <3>4, <3>5 DEF ScanInv, Launch
  <2>5. ObserveInv'
    BY DEF ObserveInv
  <2>6. QED  BY <2>1, <2>2, <2>3, <2>4, <2>5
<1>2. ASSUME NEW j \in Jobs, NEW o \in {"get", "cancel"}, Get(c, j, o)
      PROVE  CallPart'
  <2> USE <1>2 DEF Get
  <2>1. CallInv'
    BY DEF CallInv
  <2>2. LockInv'
    BY DEF LockInv
  <2>3. LaunchInv'
    BY DEF LaunchInv
  <2>4. ScanInv'
    BY DEF ScanInv, CallInv, Unresolved
  <2>5. ObserveInv'
    BY DEF ObserveInv
  <2>6. QED  BY <2>1, <2>2, <2>3, <2>4, <2>5
<1>3. QED  BY <1>1, <1>2 DEF ClientCall

\* The observation of an active job: a start counts it below the bound.
LEMMA StillActiveCallPart ==
    ASSUME IInv, NEW c \in Clients, StillActive(c, cur[c]),
           pc[c] \in {"look", "probe"},
           UNCHANGED recordVars, UNCHANGED supervisorLock, TypeOK'
    PROVE  CallPart'
<1>1. CASE Return(c)
  BY <1>1, ReturnCallPart
<1>2. CASE op[c] = "start" /\ ~Refused(c, cur[c])
  <2> USE <1>2 DEF IInv, TypeOK, CallPart, StillActive, recordVars
  <2>0. CallInv /\ cur[c] \in Jobs /\ admission = c /\ request[cur[c]] # NoSource
    BY DEF CallInv, ObserveInv
  <2>1. CallInv'
    BY DEF CallInv
  <2>2. LockInv'
    BY DEF LockInv
  <2>3. LaunchInv'
    BY DEF LaunchInv
  <2>4. ObserveInv'
    BY DEF ObserveInv
  <2>5. ScanInv'
    <3>1. active'[c] = active[c] \cup {cur[c]} /\ todo' = todo /\ pc'[c] = "scan"
          /\ admission' = c /\ src' = src
      BY <2>0
    <3>2. Cardinality(active'[c]) < MaxActiveJobs
      <4>1. IsFiniteSet(active'[c])
        BY <2>0, <3>1, FS_Subset, ClientsAssumption
      <4>2. Cardinality(active'[c]) \in Nat
        BY <4>1, FS_CardinalityType
      <4>3. ~(Cardinality(active'[c]) >= MaxActiveJobs)
        BY <3>1 DEF Refused
      <4>4. QED  BY <4>2, <4>3, BoundAssumption
    <3>3. Unresolved' \subseteq todo'[c] \cup active'[c]
      BY <2>0, <3>1 DEF ScanInv, Unresolved
    <3>4. \A j \in active'[c] : request'[j] # src'[c] /\ request'[j] # NoSource
      BY <2>0, <3>1 DEF ScanInv, Refused
    <3>5. QED  BY ONLY <3>1, <3>2, <3>3, <3>4 DEF ScanInv, Launch
  <2>6. QED  BY <2>1, <2>2, <2>3, <2>4, <2>5
<1>3. CASE op[c] = "cancel"
  <2> USE <1>3, OwnersAssumption
      DEF IInv, TypeOK, CallPart, StillActive, recordVars
  <2>1. CallInv'
    BY DEF CallInv
  <2>2. LockInv'
    BY DEF LockInv
  <2>3. LaunchInv'
    BY DEF LaunchInv
  <2>4. ObserveInv'
    BY DEF ObserveInv
  <2>5. ScanInv'
    BY DEF ScanInv
  <2>6. QED  BY <2>1, <2>2, <2>3, <2>4, <2>5
<1>4. QED  BY <1>1, <1>2, <1>3 DEF StillActive

\* The steps of a call that leave every record as it was.
LEMMA ReadingStepCallPart ==
    ASSUME IInv, NEW c \in Clients, TypeOK',
           \/ WriteCancel(c) \/ GetAgain(c)
           \/ \E j \in Jobs : ObserveStatus(c, j)
           \/ ObserveOwner(c) \/ Probe(c) \/ PublishIdentity(c)
    PROVE  CallPart' /\ UNCHANGED recordVars
<1> USE OwnersAssumption
    DEF IInv, TypeOK, CallPart, storeVars, recordVars
<1>1. CASE WriteCancel(c)
  <2> USE <1>1 DEF WriteCancel
  <2>1. CallInv'
    BY DEF CallInv
  <2>2. LockInv'
    BY DEF LockInv
  <2>3. LaunchInv'
    BY DEF LaunchInv
  <2>4. ObserveInv'
    BY DEF ObserveInv
  <2>5. ScanInv'
    BY DEF ScanInv, Unresolved
  <2>6. QED  BY <2>1, <2>2, <2>3, <2>4, <2>5
<1>2. CASE GetAgain(c)
  <2> USE <1>2 DEF GetAgain, Take
  <2>1. CallInv'
    BY DEF CallInv
  <2>2. LockInv'
    BY DEF LockInv
  <2>3. LaunchInv'
    BY DEF LaunchInv
  <2>4. ObserveInv'
    BY DEF ObserveInv
  <2>5. ScanInv'
    BY DEF ScanInv, CallInv, Unresolved
  <2>6. QED  BY <2>1, <2>2, <2>3, <2>4, <2>5
<1>3. ASSUME NEW j \in Jobs, ObserveStatus(c, j)
      PROVE  CallPart' /\ UNCHANGED recordVars
  <2>1. CASE Return(c)
    BY <1>3, <2>1, ReturnCallPart DEF ObserveStatus
  <2>2. CASE ~Return(c)
    <3> USE <1>3, <2>2 DEF ObserveStatus
    <3>1. CallInv'
      BY DEF CallInv
    <3>2. LockInv'
      BY DEF LockInv
    <3>3. LaunchInv'
      BY DEF LaunchInv
    <3>4. ObserveInv'
      BY DEF ObserveInv
    <3>5. ScanInv'
      BY DEF ScanInv, Unresolved
    <3>6. QED  BY <3>1, <3>2, <3>3, <3>4, <3>5
  <2>3. QED  BY <2>1, <2>2
<1>4. CASE ObserveOwner(c)
  <2>1. CASE StillActive(c, cur[c])
    BY <1>4, <2>1, StillActiveCallPart DEF ObserveOwner
  <2>2. CASE ~StillActive(c, cur[c])
    <3> USE <1>4, <2>2 DEF ObserveOwner
    <3>1. CallInv'
      BY DEF CallInv
    <3>2. LockInv'
      BY DEF LockInv
    <3>3. LaunchInv'
      BY DEF LaunchInv
    <3>4. ObserveInv'
      BY DEF ObserveInv
    <3>5. ScanInv'
      BY DEF ScanInv, Unresolved
    <3>6. QED  BY <3>1, <3>2, <3>3, <3>4, <3>5
  <2>3. QED  BY <2>1, <2>2
<1>5. CASE Probe(c)
  <2>1. CASE ~Abandoned(cur[c])
    BY <1>5, <2>1, StillActiveCallPart DEF Probe
  <2>2. CASE Abandoned(cur[c])
    <3> USE <1>5, <2>2 DEF Probe, Abandoned
    <3>1. CallInv'
      BY DEF CallInv
    <3>2. LockInv'
      BY DEF LockInv, CallInv
    <3>3. LaunchInv'
      BY DEF LaunchInv
    <3>4. ObserveInv'
      BY DEF ObserveInv
    <3>5. ScanInv'
      BY DEF ScanInv, Unresolved
    <3>6. QED  BY <3>1, <3>2, <3>3, <3>4, <3>5
  <2>3. QED  BY <2>1, <2>2
<1>6. CASE PublishIdentity(c)
  BY <1>6, ReturnCallPart DEF PublishIdentity
<1>7. QED  BY <1>1, <1>2, <1>3, <1>4, <1>5, <1>6

-----------------------------------------------------------------------------
(* Recovery preserves the invariant                                        *)

\* A recovering client holds the supervisor lock, so nobody works on the job.
LEMMA RecoverRecordPart ==
    ASSUME IInv, NEW c \in Clients, Recover(c), TypeOK'
    PROVE  RecordPart'
<1> DEFINE j == cur[c]
<1>1. /\ j \in Jobs /\ supervisor[j] \notin Working /\ request[j] # NoSource
      /\ status[j] \in Nonterminal \cup Terminal
      /\ status' = [status EXCEPT ![j] = Stopped(@)]
      /\ UNCHANGED <<request, supervisor, retained, stage, submissions>>
  BY OwnersAssumption
  DEF IInv, TypeOK, CallInv, LockInv, ObserveInv, RecordInv, Recover, storeVars
<1>2. /\ status'[j] \in Terminal
      /\ status'[j] = "failed" \/ status'[j] = status[j]
      /\ \A k \in Jobs : k # j => status'[k] = status[k]
  BY <1>1 DEF IInv, TypeOK, Stopped
<1> HIDE DEF j
<1>3. (Cardinality(Unresolved) <= MaxActiveJobs)'
  <2>1. Unresolved' \subseteq Unresolved
    BY <1>1, <1>2 DEF Unresolved
  <2>2. QED  BY <2>1, FewerUnresolved DEF IInv
<1>4. RecordInv' /\ RetainInv' /\ StageInv' /\ SubmittedOnce'
  BY <1>1, <1>2 DEF IInv, RecordInv, RetainInv, StageInv, SubmittedOnce
<1>5. OneImportPerSource' /\ NeverDisowned'
  BY <1>1, <1>2 DEF IInv, OneImportPerSource, NeverDisowned
<1>6. OutcomeMatchesStore'
  BY <1>1, <1>2 DEF IInv, OutcomeMatchesStore
<1>7. QED  BY <1>3, <1>4, <1>5, <1>6 DEF RecordPart

\* Recovering a record keeps what the calls rely on.
LEMMA RecoverCallPart ==
    ASSUME IInv, NEW c \in Clients, Recover(c), TypeOK'
    PROVE  CallPart'
<1> DEFINE j == cur[c]
<1>1. /\ j \in Jobs /\ admission = c /\ supervisorLock[j] = c
      /\ status'[j] \in Terminal
      /\ \A k \in Jobs : k # j => status'[k] = status[k]
      /\ supervisorLock' = [supervisorLock EXCEPT ![j] = Nobody]
      /\ UNCHANGED <<request, supervisor, retained, stage>>
      /\ Finished(c) /\ pc[c] = "recover"
  BY DEF IInv, TypeOK, CallInv, LockInv, ObserveInv, RecordInv, Recover,
         Stopped, storeVars
<1>2. \A d \in Clients \ {c} : pc[d] \notin HoldsAdmission
  BY <1>1 DEF IInv, CallInv
<1>3. CASE Return(c)
  <2> USE <1>1, <1>2, <1>3, OwnersAssumption DEF Return, Forget, IInv, TypeOK
  <2>1. CallInv'
    BY DEF CallInv
  <2>2. LockInv'
    BY DEF LockInv
  <2>3. LaunchInv'
    BY DEF LaunchInv
  <2>4. ObserveInv'
    BY DEF ObserveInv
  <2>5. ScanInv'
    BY DEF ScanInv
  <2>6. QED  BY <2>1, <2>2, <2>3, <2>4, <2>5 DEF CallPart
<1>4. CASE op[c] = "start"
  <2> USE <1>1, <1>2, <1>4, OwnersAssumption DEF Finished, IInv, TypeOK
  <2>1. CallInv'
    BY DEF CallInv
  <2>2. LockInv'
    BY DEF LockInv
  <2>3. LaunchInv'
    BY DEF LaunchInv
  <2>4. ObserveInv'
    BY DEF ObserveInv
  <2>5. ScanInv'
    <3>1. Unresolved' \subseteq Unresolved \ {j}
      BY DEF Unresolved
    <3>2. QED  BY <3>1 DEF ScanInv
  <2>6. QED  BY <2>1, <2>2, <2>3, <2>4, <2>5 DEF CallPart
<1>5. QED  BY <1>1, <1>3, <1>4 DEF Finished

-----------------------------------------------------------------------------
(* Launches preserve the invariant                                         *)

\* A launcher's own record is the only one its steps touch.
LaunchEffect(c, k) ==
    /\ k \in Jobs /\ admission = c
    /\ \A j \in Jobs \ {k} :
           /\ status'[j] = status[j] /\ request'[j] = request[j]
           /\ supervisor'[j] = supervisor[j]
           /\ supervisorLock'[j] = supervisorLock[j]
    /\ UNCHANGED <<retained, stage, submissions>>
    /\ supervisor[k] \notin Working /\ supervisor'[k] \notin Working
    /\ k \notin retained /\ stage[k] = "queued"

\* A step of a launch touches no record but the launcher's own.
LEMMA LaunchStepEffect ==
    ASSUME IInv, NEW c \in Clients,
           \/ WriteStatus(c) \/ WriteRequest(c) \/ Popen(c) \/ LaunchFails(c)
    PROVE  LaunchEffect(c, cur[c])
<1> USE DEF IInv, TypeOK, LaunchEffect, storeVars
<1>1. /\ cur[c] \in Jobs /\ admission = c
      /\ supervisor[cur[c]] \notin Working
      /\ cur[c] \notin retained /\ stage[cur[c]] = "queued"
  BY DEF WriteStatus, WriteRequest, Popen, LaunchFails, LaunchInv, CallInv
<1>2. CASE WriteStatus(c)
  BY <1>1, <1>2 DEF WriteStatus
<1>3. CASE WriteRequest(c)
  BY <1>1, <1>3 DEF WriteRequest
<1>4. CASE Popen(c)
  BY <1>1, <1>4 DEF Popen
<1>5. CASE LaunchFails(c)
  BY <1>1, <1>5 DEF LaunchFails
<1>6. QED  BY <1>2, <1>3, <1>4, <1>5

\* A launch that makes a directory touches no other record; its own has no request and no
\* supervisor yet.
LEMMA MakeDirectoryEffect ==
    ASSUME IInv, NEW c \in Clients, NEW j \in Jobs, MakeDirectory(c, j)
    PROVE  LaunchEffect(c, j) /\ request[j] = NoSource /\ supervisor[j] = "none"
  BY DEF IInv, TypeOK, LaunchEffect, storeVars, MakeDirectory, CallInv,
         RecordInv, StageInv, RetainInv

\* A start that has scanned everything knows every unresolved record, so its
\* new one still fits below the bound.
LEMMA MakeDirectoryBound ==
    ASSUME IInv, NEW c \in Clients, NEW j \in Jobs, MakeDirectory(c, j), TypeOK'
    PROVE  (Cardinality(Unresolved) <= MaxActiveJobs)'
<1>1. /\ Unresolved \subseteq active[c] /\ Cardinality(active[c]) < MaxActiveJobs
      /\ active[c] \subseteq Jobs
  BY DEF IInv, TypeOK, CallInv, ScanInv, MakeDirectory
<1>2. Unresolved' \subseteq active[c] \cup {j}
  BY <1>1 DEF IInv, TypeOK, MakeDirectory, Unresolved
<1>3. IsFiniteSet(active[c]) /\ Cardinality(active[c]) \in Nat
  BY <1>1, ClientsAssumption, FS_Subset, FS_CardinalityType
<1>4. /\ IsFiniteSet(active[c] \cup {j})
      /\ Cardinality(active[c] \cup {j}) <= Cardinality(active[c]) + 1
  BY <1>3, FS_AddElement
<1>5. /\ IsFiniteSet(Unresolved')
      /\ Cardinality(Unresolved') <= Cardinality(active[c] \cup {j})
  BY <1>2, <1>4, FS_Subset
<1>6. /\ Cardinality(Unresolved') \in Nat
      /\ Cardinality(active[c] \cup {j}) \in Nat
  BY <1>4, <1>5, FS_CardinalityType
<1>7. QED  BY <1>1, <1>3, <1>4, <1>5, <1>6, BoundAssumption

\* Nothing about the store or the remote parse depends on a job in launch.
LEMMA LaunchStoreParts ==
    ASSUME IInv, NEW c \in Clients, NEW k \in Jobs, LaunchEffect(c, k),
           status'[k] \in {"absent", "empty", "queued"}, TypeOK'
    PROVE  RetainInv' /\ OutcomeMatchesStore' /\ StageInv' /\ SubmittedOnce'
           /\ NeverDisowned'
<1> USE DEF IInv, LaunchEffect
<1>1. RetainInv'
  BY DEF RetainInv
<1>2. OutcomeMatchesStore'
  BY DEF OutcomeMatchesStore
<1>3. StageInv' /\ SubmittedOnce'
  BY DEF StageInv, SubmittedOnce
<1>4. NeverDisowned'
  BY DEF NeverDisowned
<1>5. QED  BY <1>1, <1>2, <1>3, <1>4

\* Each step of a launch keeps the records' part of the invariant.
LEMMA LaunchRecordPart ==
    ASSUME IInv, NEW c \in Clients, TypeOK',
           \/ \E j \in Jobs : MakeDirectory(c, j)
           \/ WriteStatus(c) \/ WriteRequest(c) \/ Popen(c) \/ LaunchFails(c)
    PROVE  RecordPart'
<1>0. IInv
  OBVIOUS
<1> USE DEF IInv, TypeOK, RecordPart, storeVars
<1>1. ASSUME NEW j \in Jobs, MakeDirectory(c, j)  PROVE RecordPart'
  <2>1. LaunchEffect(c, j) /\ request[j] = NoSource /\ supervisor[j] = "none"
    BY <1>1, MakeDirectoryEffect
  <2>2. RetainInv' /\ OutcomeMatchesStore' /\ StageInv' /\ SubmittedOnce'
        /\ NeverDisowned'
    <3>1. status'[j] = "empty"
      BY <1>1 DEF MakeDirectory
    <3>2. QED  BY ONLY <1>0, <2>1, <3>1, TypeOK', LaunchStoreParts
  <2>3. RecordInv' /\ OneImportPerSource'
    BY <1>1, <2>1 DEF MakeDirectory, RecordInv, OneImportPerSource
  <2>4. QED  BY <1>1, <2>2, <2>3, MakeDirectoryBound
<1> DEFINE k == cur[c]
<1>2. CASE WriteStatus(c)
  <2>1. LaunchEffect(c, k) /\ k \in Jobs
    BY <1>2, LaunchStepEffect DEF LaunchEffect
  <2>2. RetainInv' /\ OutcomeMatchesStore' /\ StageInv' /\ SubmittedOnce'
        /\ NeverDisowned'
    <3>1. status'[k] = "queued"
      BY <1>2, <2>1 DEF WriteStatus
    <3>2. QED  BY ONLY <1>0, <2>1, <3>1, TypeOK', LaunchStoreParts
  <2>3. /\ status[k] = "empty" /\ request[k] = NoSource /\ request' = request
        /\ supervisor' = supervisor /\ supervisor[k] = "none"
        /\ status' = [status EXCEPT ![k] = "queued"]
    BY <1>2 DEF WriteStatus, LaunchInv, RecordInv, LaunchEffect, CallInv
  <2>4. RecordInv' /\ OneImportPerSource'
    BY <2>1, <2>3 DEF RecordInv, OneImportPerSource
  <2>5. Unresolved' = Unresolved
    BY <2>1, <2>3 DEF Unresolved
  <2>6. QED  BY <2>2, <2>4, <2>5
<1>3. CASE WriteRequest(c)
  <2>1. LaunchEffect(c, k) /\ k \in Jobs
    BY <1>3, LaunchStepEffect DEF LaunchEffect
  <2>2. /\ status[k] = "queued" /\ status' = status
        /\ supervisor' = supervisor /\ supervisor[k] \notin Working
        /\ request' = [request EXCEPT ![k] = src[c]]
        /\ src[c] \in Sources
    BY <1>3, <2>1 DEF WriteRequest, LaunchInv, LaunchEffect, CallInv
  <2>3. RetainInv' /\ OutcomeMatchesStore' /\ StageInv' /\ SubmittedOnce'
        /\ NeverDisowned'
    <3>1. status'[k] \in {"absent", "queued"}
      BY <2>1, <2>2
    <3>2. QED  BY ONLY <1>0, <2>1, <3>1, TypeOK', LaunchStoreParts
  <2>4. RecordInv'
    BY <2>2, OwnersAssumption DEF RecordInv
  <2>5. \A j \in Jobs \ {k} : status[j] \in Nonterminal => request[j] # src[c]
    BY <1>3 DEF WriteRequest, CallInv, ScanInv, Unresolved
  <2>6. OneImportPerSource'
    BY <2>1, <2>2, <2>5 DEF OneImportPerSource, NeverDisowned
  <2>7. Unresolved' = Unresolved
    BY <2>2 DEF Unresolved
  <2>8. QED  BY <2>3, <2>4, <2>6, <2>7
<1>4. CASE Popen(c)
  <2>1. LaunchEffect(c, k) /\ k \in Jobs
    BY <1>4, LaunchStepEffect DEF LaunchEffect
  <2>2. /\ status[k] = "queued" /\ status' = status /\ request' = request
        /\ request[k] \in Sources
    BY <1>4, <2>1 DEF Popen, LaunchInv, CallInv
  <2>3. RetainInv' /\ OutcomeMatchesStore' /\ StageInv' /\ SubmittedOnce'
        /\ NeverDisowned'
    <3>1. status'[k] \in {"absent", "queued"}
      BY <2>1, <2>2
    <3>2. QED  BY ONLY <1>0, <2>1, <3>1, TypeOK', LaunchStoreParts
  <2>4. RecordInv'
    BY <2>1, <2>2, OwnersAssumption DEF RecordInv, LaunchEffect
  <2>5. OneImportPerSource'
    BY <2>1, <2>2 DEF OneImportPerSource, LaunchEffect
  <2>6. Unresolved' = Unresolved
    BY <2>2 DEF Unresolved
  <2>7. QED  BY <2>3, <2>4, <2>5, <2>6
<1>5. CASE LaunchFails(c)
  <2>1. LaunchEffect(c, k) /\ k \in Jobs
    BY <1>5, LaunchStepEffect DEF LaunchEffect
  <2>2. /\ status' = [status EXCEPT ![k] = "absent"]
        /\ request' = [request EXCEPT ![k] = NoSource]
        /\ supervisor' = [supervisor EXCEPT ![k] = "none"]
    BY <1>5 DEF LaunchFails
  <2>3. RetainInv' /\ OutcomeMatchesStore' /\ StageInv' /\ SubmittedOnce'
        /\ NeverDisowned'
    <3>1. status'[k] \in {"absent", "queued"}
      BY <2>1, <2>2
    <3>2. QED  BY ONLY <1>0, <2>1, <3>1, TypeOK', LaunchStoreParts
  <2>4. RecordInv' /\ OneImportPerSource'
    BY <2>1, <2>2 DEF RecordInv, OneImportPerSource
  <2>5. Unresolved' \subseteq Unresolved
    BY <2>1, <2>2 DEF Unresolved
  <2>6. QED  BY <2>3, <2>4, <2>5, FewerUnresolved
<1>6. QED  BY <1>1, <1>2, <1>3, <1>4, <1>5

\* Each step of a launch keeps what the calls rely on.
LEMMA LaunchCallPart ==
    ASSUME IInv, NEW c \in Clients, TypeOK',
           \/ \E j \in Jobs : MakeDirectory(c, j)
           \/ WriteStatus(c) \/ WriteRequest(c) \/ Popen(c) \/ LaunchFails(c)
    PROVE  CallPart'
<1> USE OwnersAssumption DEF IInv, TypeOK, CallPart, storeVars
<1>0. admission = c => \A d \in Clients \ {c} : pc[d] \notin HoldsAdmission
  BY DEF CallInv
<1>1. ASSUME NEW j \in Jobs, MakeDirectory(c, j)  PROVE CallPart'
  <2> USE <1>0, <1>1 DEF MakeDirectory
  <2>0. admission = c
    BY DEF CallInv
  <2>1. CallInv'
    BY DEF CallInv
  <2>2. LockInv'
    BY DEF LockInv
  <2>3. LaunchInv'
    <3>1. /\ j \notin retained /\ stage[j] = "queued" /\ supervisor[j] = "none"
          /\ request[j] = NoSource
      BY DEF RecordInv, RetainInv, StageInv
    <3>2. \A d \in Clients \ {c} : pc'[d] \notin Launch
      BY <2>0
    <3>3. QED  BY <3>1, <3>2 DEF LaunchInv
  <2>4. ObserveInv'
    BY <2>0 DEF ObserveInv
  <2>5. ScanInv'
    <3>1. Unresolved' \subseteq Unresolved \cup {j}
      BY DEF Unresolved
    <3>2. j \notin active[c]
      BY <2>0 DEF ScanInv, RecordInv
    <3>3. QED  BY <2>0, <3>1, <3>2 DEF ScanInv
  <2>6. QED  BY <2>1, <2>2, <2>3, <2>4, <2>5
<1> DEFINE k == cur[c]
<1>2. CASE WriteStatus(c)
  <2>0. LaunchEffect(c, k) /\ k \in Jobs /\ admission = c
    BY <1>2, LaunchStepEffect DEF LaunchEffect
  <2> USE <1>0, <1>2, <2>0 DEF WriteStatus
  <2>1. CallInv'
    BY DEF CallInv
  <2>2. LockInv'
    BY DEF LockInv
  <2>3. LaunchInv'
    BY DEF LaunchInv
  <2>4. ObserveInv'
    BY DEF ObserveInv
  <2>5. ScanInv'
    BY DEF ScanInv, Unresolved
  <2>6. QED  BY <2>1, <2>2, <2>3, <2>4, <2>5
<1>3. CASE WriteRequest(c)
  <2>0. LaunchEffect(c, k) /\ k \in Jobs /\ admission = c
    BY <1>3, LaunchStepEffect DEF LaunchEffect
  <2> USE <1>0, <1>3, <2>0 DEF WriteRequest
  <2>1. CallInv'
    BY DEF CallInv
  <2>2. LockInv'
    BY DEF LockInv
  <2>3. LaunchInv'
    BY DEF LaunchInv
  <2>4. ObserveInv'
    BY DEF ObserveInv
  <2>5. ScanInv'
    BY DEF ScanInv, Unresolved
  <2>6. QED  BY <2>1, <2>2, <2>3, <2>4, <2>5
<1>4. CASE Popen(c)
  <2>0. LaunchEffect(c, k) /\ k \in Jobs /\ admission = c
    BY <1>4, LaunchStepEffect DEF LaunchEffect
  <2> USE <1>0, <1>4, <2>0 DEF Popen
  <2>1. CallInv'
    BY DEF CallInv
  <2>2. LockInv'
    <3>1. /\ supervisor[k] = "none" /\ supervisorLock' = supervisorLock
          /\ supervisor'[k] = "spawned"
          /\ \A j \in Jobs \ {k} : supervisor'[j] = supervisor[j]
      BY DEF LaunchInv
    <3>2. \A d \in Clients : /\ pc'[d] = "recover" <=> pc[d] = "recover"
                             /\ cur'[d] = cur[d]
      OBVIOUS
    <3>3. QED  BY ONLY <3>1, <3>2, LockInv DEF LockInv, HoldsSupervisorLock, Working
  <2>3. LaunchInv'
    BY DEF LaunchInv
  <2>4. ObserveInv'
    BY DEF ObserveInv
  <2>5. ScanInv'
    BY DEF ScanInv, Unresolved
  <2>6. QED  BY <2>1, <2>2, <2>3, <2>4, <2>5
<1>5. CASE LaunchFails(c)
  <2>0. LaunchEffect(c, k) /\ k \in Jobs /\ admission = c
    BY <1>5, LaunchStepEffect DEF LaunchEffect
  <2> USE <1>0, <1>5, <2>0 DEF LaunchFails, Return, Forget
  <2>1. CallInv'
    BY DEF CallInv
  <2>2. LockInv'
    BY DEF LockInv
  <2>3. LaunchInv'
    BY DEF LaunchInv
  <2>4. ObserveInv'
    BY DEF ObserveInv
  <2>5. ScanInv'
    BY DEF ScanInv
  <2>6. QED  BY <2>1, <2>2, <2>3, <2>4, <2>5
<1>6. QED  BY <1>1, <1>2, <1>3, <1>4, <1>5

-----------------------------------------------------------------------------
(* The environment preserves the invariant                                 *)

\* Failed launches, deaths, signals, expired graces and reused pids keep both parts.
LEMMA EnvironmentPreserves ==
    ASSUME IInv, Environment, TypeOK'
    PROVE  RecordPart' /\ CallPart'
<1>0. RecordPart
  BY DEF IInv, RecordPart
<1> USE OwnersAssumption DEF IInv, TypeOK, CallPart, storeVars, clientVars
<1>1. ASSUME NEW c \in Clients, LaunchFails(c)  PROVE RecordPart' /\ CallPart'
  BY <1>1, LaunchRecordPart, LaunchCallPart
<1>2. ASSUME NEW c \in Clients, ClientDies(c)  PROVE RecordPart' /\ CallPart'
  <2> USE <1>2 DEF ClientDies, Forget
  <2>1. CallInv'
    BY DEF CallInv
  <2>2. LockInv'
    BY DEF LockInv
  <2>3. LaunchInv'
    BY DEF LaunchInv
  <2>4. ObserveInv'
    BY DEF ObserveInv
  <2>5. ScanInv'
    BY DEF ScanInv, Unresolved
  <2>6. RecordPart'
    BY <1>0, QuietStep DEF recordVars
  <2>7. QED  BY <2>1, <2>2, <2>3, <2>4, <2>5, <2>6
<1>3. ASSUME NEW j \in Jobs, SupervisorDies(j)  PROVE RecordPart' /\ CallPart'
  <2> USE <1>3 DEF SupervisorDies
  <2>1. CallInv'
    BY DEF CallInv
  <2>2. LockInv'
    BY DEF LockInv
  <2>3. LaunchInv'
    BY DEF LaunchInv
  <2>4. ObserveInv'
    BY DEF ObserveInv
  <2>5. ScanInv'
    BY DEF ScanInv, Unresolved
  <2>6. RecordInv' /\ NeverDisowned' /\ OneImportPerSource'
    BY DEF RecordInv, NeverDisowned, OneImportPerSource
  <2>7. RetainInv' /\ OutcomeMatchesStore' /\ StageInv' /\ SubmittedOnce'
    BY DEF RetainInv, OutcomeMatchesStore, StageInv, SubmittedOnce
  <2>8. Unresolved' = Unresolved
    BY DEF Unresolved
  <2>9. QED
    BY <2>1, <2>2, <2>3, <2>4, <2>5, <2>6, <2>7, <2>8 DEF RecordPart
<1>4. ASSUME NEW j \in Jobs,
             StopSignal(j) \/ GraceExpires(j) \/ ReusePid(j) \/ LoseIdentity(j)
      PROVE  RecordPart' /\ CallPart'
  <2>1. UNCHANGED recordVars /\ UNCHANGED clientVars
        /\ UNCHANGED <<admission, supervisorLock>>
    BY <1>4 DEF StopSignal, GraceExpires, ReusePid, LoseIdentity, recordVars
  <2>2. CallPart'
    BY <2>1 DEF recordVars, CallInv, LockInv, LaunchInv, ObserveInv, ScanInv,
                Unresolved
  <2>3. QED  BY <1>0, <2>1, <2>2, QuietStep
<1>5. QED  BY <1>1, <1>2, <1>3, <1>4 DEF Environment

-----------------------------------------------------------------------------
(* The invariant                                                           *)

\* The initial state, with no record and no call, satisfies the invariant.
LEMMA InvInit ==
    ASSUME Init
    PROVE  IInv
<1> USE OwnersAssumption, BoundAssumption DEF Init
<1>1. TypeOK
  BY DEF TypeOK
<1>2. CallInv /\ LockInv /\ LaunchInv /\ ObserveInv /\ ScanInv
  BY DEF CallInv, LockInv, LaunchInv, ObserveInv, ScanInv
<1>3. Cardinality(Unresolved) <= MaxActiveJobs
  <2>1. Unresolved = {}
    BY DEF Unresolved
  <2>2. QED  BY <2>1, FS_EmptySet
<1>4. RecordInv /\ OneImportPerSource /\ NeverDisowned
  BY DEF RecordInv, OneImportPerSource, NeverDisowned
<1>5. RetainInv /\ OutcomeMatchesStore /\ StageInv /\ SubmittedOnce
  BY DEF RetainInv, OutcomeMatchesStore, StageInv, SubmittedOnce
<1>6. QED  BY <1>1, <1>2, <1>3, <1>4, <1>5 DEF IInv

\* Every step keeps the invariant.
LEMMA InvNext ==
    ASSUME IInv, [Next]_vars
    PROVE  IInv'
<1>0. RecordPart /\ CallPart
  BY DEF IInv, RecordPart, CallPart
<1>1. CASE UNCHANGED vars
  BY <1>1
  DEF vars, storeVars, IInv, TypeOK, CallInv, LockInv, RecordInv, LaunchInv,
      ObserveInv, ScanInv, Unresolved, OneImportPerSource, NeverDisowned,
      RetainInv, OutcomeMatchesStore, StageInv, SubmittedOnce
<1>2. CASE Next
  <2>1. TypeOK'
    BY <1>2, StepTypeOK
  <2>2. ASSUME NEW c \in Clients, ClientCall(c)  PROVE RecordPart' /\ CallPart'
    <3>1. UNCHANGED recordVars
      BY <2>2 DEF ClientCall, Start, Get, storeVars, recordVars
    <3>2. QED  BY <1>0, <2>1, <2>2, <3>1, QuietStep, ClientCallCallPart
  <2>3. ASSUME NEW c \in Clients, ClientStep(c)  PROVE RecordPart' /\ CallPart'
    <3>1. CASE Recover(c)
      BY <2>1, <3>1, RecoverRecordPart, RecoverCallPart
    <3>2. CASE \/ WriteCancel(c) \/ GetAgain(c)
               \/ \E j \in Jobs : ObserveStatus(c, j)
               \/ ObserveOwner(c) \/ Probe(c) \/ PublishIdentity(c)
      BY <1>0, <2>1, <3>2, QuietStep, ReadingStepCallPart
    <3>3. CASE \/ \E j \in Jobs : MakeDirectory(c, j)
               \/ WriteStatus(c) \/ WriteRequest(c) \/ Popen(c)
      BY <2>1, <3>3, LaunchRecordPart, LaunchCallPart
    <3>4. QED  BY <2>3, <3>1, <3>2, <3>3 DEF ClientStep
  <2>4. ASSUME NEW j \in Jobs, SupervisorStep(j) \/ Admit(j)
        PROVE  RecordPart' /\ CallPart'
    BY <2>1, <2>4, SupervisorRecordPart, SupervisorCallPart
  <2>5. ASSUME Environment  PROVE RecordPart' /\ CallPart'
    BY <2>1, <2>5, EnvironmentPreserves
  <2>6. RecordPart' /\ CallPart'
    <3>1. \/ \E c \in Clients : ClientCall(c) \/ ClientStep(c)
          \/ \E j \in Jobs : SupervisorStep(j) \/ Admit(j)
          \/ Environment
      BY <1>2 DEF Next
    <3>2. QED  BY <2>2, <2>3, <2>4, <2>5, <3>1
  <2>7. QED  BY <2>1, <2>6 DEF IInv, RecordPart, CallPart
<1>3. QED  BY <1>1, <1>2

\* The inductive invariant holds in every reachable state of the import jobs.
LEMMA Invariance == Spec => []IInv
  BY InvInit, InvNext, PTL DEF Spec

-----------------------------------------------------------------------------
(* Theorems                                                                *)

\* Every reachable state is well typed.
THEOREM TypeCorrect == Spec => []TypeOK
<1>1. IInv => TypeOK
  BY DEF IInv
<1>2. QED  BY <1>1, Invariance, PTL

\* Whatever dies, at most MAX_ACTIVE_JOBS supervisors work and at most that
\* many records are unresolved: a working supervisor's record is one of them.
THEOREM AdmissionIsBounded == Spec => []AdmissionBound
<1>1. IInv => AdmissionBound
  <2> SUFFICES ASSUME IInv PROVE AdmissionBound
    OBVIOUS
  <2> DEFINE working == {j \in Jobs : supervisor[j] \in Working}
             pending == {j \in Jobs : status[j] \in Nonterminal}
  <2>1. IsFiniteSet(Unresolved) /\ Cardinality(Unresolved) \in Nat
    BY ClientsAssumption, FS_Subset, FS_CardinalityType DEF Unresolved
  <2>2. working \subseteq Unresolved /\ pending \subseteq Unresolved
    BY DEF IInv, NeverDisowned, Unresolved
  <2>3. ASSUME NEW S \in SUBSET Unresolved
        PROVE  Cardinality(S) <= MaxActiveJobs
    <3>1. /\ IsFiniteSet(S) /\ Cardinality(S) \in Nat
          /\ Cardinality(S) <= Cardinality(Unresolved)
      BY <2>1, FS_Subset, FS_CardinalityType
    <3>2. Cardinality(Unresolved) <= MaxActiveJobs
      BY DEF IInv
    <3>3. QED  BY <2>1, <3>1, <3>2, BoundAssumption
  <2>4. Cardinality(working) <= MaxActiveJobs
        /\ Cardinality(pending) <= MaxActiveJobs
    BY <2>2, <2>3
  <2>5. QED  BY <2>4 DEF AdmissionBound
<1>2. QED  BY <1>1, Invariance, PTL

\* Two supervisors never import the same source.
THEOREM OneImport == Spec => []OneImportPerSource
<1>1. IInv => OneImportPerSource
  BY DEF IInv
<1>2. QED  BY <1>1, Invariance, PTL

\* Recovery never takes the record of a working supervisor.
THEOREM RecoveryIsSafe == Spec => []NeverDisowned
<1>1. IInv => NeverDisowned
  BY DEF IInv
<1>2. QED  BY <1>1, Invariance, PTL

\* A record's outcome agrees with what its job left in the store.
THEOREM OutcomesAgree == Spec => []OutcomeMatchesStore
<1>1. IInv => OutcomeMatchesStore
  BY DEF IInv
<1>2. QED  BY <1>1, Invariance, PTL

\* A remote parse is submitted at most once for a job.
THEOREM OneSubmission == Spec => []SubmittedOnce
<1>1. IInv => SubmittedOnce
  BY DEF IInv
<1>2. QED  BY <1>1, Invariance, PTL

\* A terminal status is never rewritten.
THEOREM ResultsAreFinal == Spec => TerminalIsFinal
<1> DEFINE Keeps == \A j \in Jobs : status[j] \in Terminal => status'[j] = status[j]
<1>1. ASSUME IInv, [Next]_vars  PROVE Keeps
  <2> USE DEF IInv, TypeOK
  <2>1. CASE UNCHANGED status
    BY <2>1
  <2>2. ASSUME NEW j \in Jobs, SupervisorStep(j) \/ Admit(j)  PROVE Keeps
    BY <2>2, <1>1, SupervisorStepEffect DEF SupervisorEffect
  <2>3. ASSUME NEW c \in Clients, Recover(c)  PROVE Keeps
    BY <2>3, <1>1 DEF Recover, Stopped
  <2>4. ASSUME NEW c \in Clients, NEW j \in Jobs, MakeDirectory(c, j)  PROVE Keeps
    BY <2>4, <1>1 DEF MakeDirectory
  <2>5. ASSUME NEW c \in Clients, WriteStatus(c) \/ LaunchFails(c)  PROVE Keeps
    BY <2>5, <1>1 DEF WriteStatus, LaunchFails, LaunchInv
  <2>6. \/ UNCHANGED status
        \/ \E j \in Jobs : SupervisorStep(j) \/ Admit(j)
        \/ \E c \in Clients : \/ Recover(c) \/ WriteStatus(c) \/ LaunchFails(c)
                              \/ \E j \in Jobs : MakeDirectory(c, j)
    BY <1>1
    DEF Next, vars, ClientCall, Start, Get, ClientStep, WriteCancel, GetAgain,
        ObserveStatus, ObserveOwner, Probe, WriteRequest, Popen,
        PublishIdentity, Environment, ClientDies, SupervisorDies, StopSignal,
        GraceExpires, ReusePid, LoseIdentity
  <2>7. QED  BY <2>1, <2>2, <2>3, <2>4, <2>5, <2>6
<1>2. IInv /\ [Next]_vars => [Keeps]_vars
  BY <1>1
<1>3. QED  BY <1>2, Invariance, PTL DEF Spec, TerminalIsFinal

-----------------------------------------------------------------------------
(* The refinement                                                          *)

\* One record turning terminal is one Resolve of the promise.
LEMMA ResolvePromise ==
    ASSUME TypeOK, NEW j \in Jobs, NEW o \in Terminal,
           status[j] \in Nonterminal, request[j] # NoSource,
           o = "cancelled" => j \notin retained,
           status'[j] = o, \A k \in Jobs \ {j} : status'[k] = status[k],
           UNCHANGED <<request, retained>>
    PROVE  Promise!Next
<1>1. Told' = [Told EXCEPT ![j] = o] /\ Told[j] = "pending"
  <2>1. /\ Told \in [Jobs -> Terminal \cup {"pending", "unknown"}]
        /\ Told[j] = "pending" /\ DOMAIN Told = Jobs
    BY DEF Told, Terminal, Nonterminal
  <2>2. Told' = [k \in Jobs |-> IF status'[k] \in Terminal THEN status'[k]
                               ELSE IF request[k] # NoSource THEN "pending" ELSE "unknown"]
    BY DEF Told
  <2>3. ASSUME NEW k \in Jobs \ {j}
        PROVE  (IF status'[k] \in Terminal THEN status'[k]
                ELSE IF request[k] # NoSource THEN "pending" ELSE "unknown") = Told[k]
    <3>1. status'[k] = status[k]
      BY Zenon
    <3> QED
      BY <3>1 DEF Told
  <2>4. Told' = [k \in Jobs |-> IF k = j THEN o ELSE Told[k]]
    BY <2>2, <2>3
  <2> QED
    BY <2>1, <2>4
<1>2. Promise!Resolve(j, o)
  BY <1>1 DEF Promise!Resolve
<1>3. QED  BY <1>2 DEF Promise!Next

\* A supervisor's step is a step of the promise, or leaves what it promises alone.
LEMMA SupervisorPromise ==
    ASSUME IInv, NEW j \in Jobs, SupervisorStep(j) \/ Admit(j), TypeOK'
    PROVE  Promise!Next \/ UNCHANGED Promise!vars
<1>1. SupervisorEffect(j) /\ StoreEffect(j) /\ TypeOK
  BY SupervisorStepEffect, SupervisorStoreEffect DEF IInv
<1>2. CASE retained' # retained
  <2>1. supervisor[j] \in Working /\ request' = request
        /\ \A k \in Jobs : status'[k] = status[k]
    BY <1>1, <1>2 DEF SupervisorEffect
  <2>2. Told[j] = "pending" /\ Told' = Told
    <3>1. status[j] \in Nonterminal
      BY <2>1 DEF IInv, NeverDisowned
    <3>2. request[j] # NoSource
      BY <2>1 DEF IInv, RecordInv
    <3>3. Told' = Told
      BY <2>1 DEF Told
    <3>4. QED  BY <3>1, <3>2, <3>3 DEF Told
  <2>3. retained' = retained \cup {j}
    <3>1. retained \subseteq Jobs /\ retained' \subseteq Jobs
      BY <1>1, TypeOK' DEF TypeOK
    <3>2. /\ retained \subseteq retained'
          /\ \A k \in Jobs \ {j} : k \in retained' <=> k \in retained
      BY <1>1 DEF SupervisorEffect
    <3>3. QED  BY ONLY <1>2, <3>1, <3>2
  <2>4. Promise!Retain(j)
    BY <2>1, <2>2, <2>3 DEF Promise!Retain
  <2>5. QED  BY <2>4 DEF Promise!Next
<1>3. CASE retained' = retained /\ status'[j] \in Terminal /\ status'[j] # status[j]
  <2>1. /\ status[j] \in Nonterminal /\ supervisor[j] \in Working
        /\ request' = request /\ request[j] # NoSource
    BY <1>1, <1>3 DEF SupervisorEffect, IInv, RecordInv
  <2>2. status'[j] = "cancelled" => j \notin retained
    BY <1>1, <1>3 DEF StoreEffect
  <2>3. \A k \in Jobs \ {j} : status'[k] = status[k]
    BY <1>1 DEF SupervisorEffect
  <2>4. QED  BY <1>1, <1>3, <2>1, <2>2, <2>3, ResolvePromise
<1>4. CASE retained' = retained /\ ~(status'[j] \in Terminal /\ status'[j] # status[j])
  <2>1. request' = request /\ Told' = Told
    BY <1>1, <1>4 DEF SupervisorEffect, Told
  <2>2. QED  BY <1>4, <2>1 DEF Promise!vars
<1>5. QED  BY <1>2, <1>3, <1>4

\* Writing the request is a step of the promise: the job is accepted.
LEMMA WriteRequestPromise ==
    ASSUME IInv, NEW c \in Clients, WriteRequest(c)
    PROVE  Promise!Next
<1> DEFINE k == cur[c]
<1>1. /\ k \in Jobs /\ admission = c /\ status[k] = "queued"
      /\ request[k] = NoSource /\ src[c] \in Sources
      /\ status' = status /\ retained' = retained
      /\ request' = [request EXCEPT ![k] = src[c]]
  BY DEF IInv, CallInv, LaunchInv, WriteRequest, storeVars
<1>2. /\ Unresolved \subseteq active[c] \cup {k}
      /\ Cardinality(active[c]) < MaxActiveJobs
      /\ \A j \in active[c] : request[j] # src[c]
      /\ active[c] \subseteq Jobs
  BY <1>1 DEF IInv, TypeOK, CallInv, ScanInv, WriteRequest
<1>3. Told[k] = "unknown" /\ Told' = [Told EXCEPT ![k] = "pending"]
  BY <1>1, OwnersAssumption, Zenon DEF IInv, TypeOK, Told
<1>4. Promise!Pending \subseteq active[c]
  <2>1. Promise!Pending \subseteq Unresolved \ {k}
    BY <1>1 DEF Promise!Pending, Told, Unresolved, IInv, TypeOK, RecordInv
  <2>2. QED  BY <1>2, <2>1
<1>5. Cardinality(Promise!Pending) < MaxActiveJobs
  <2>1. IsFiniteSet(active[c]) /\ Cardinality(active[c]) \in Nat
    BY <1>2, ClientsAssumption, FS_Subset, FS_CardinalityType
  <2>2. /\ IsFiniteSet(Promise!Pending)
        /\ Cardinality(Promise!Pending) <= Cardinality(active[c])
    BY <1>4, <2>1, FS_Subset
  <2>3. Cardinality(Promise!Pending) \in Nat
    BY <2>2, FS_CardinalityType
  <2>4. QED  BY <1>2, <2>1, <2>2, <2>3, BoundAssumption
<1>6. Promise!Accept(k, src[c])
  <2>1. Promise!Cardinality(Promise!Pending) = Cardinality(Promise!Pending)
    BY DEF Promise!Cardinality, Cardinality
  <2>2. QED  BY <1>1, <1>2, <1>3, <1>4, <1>5, <2>1 DEF Promise!Accept
<1>7. QED  BY <1>1, <1>6 DEF Promise!Next

\* A launch that fails withdraws what was accepted, or leaves the promise alone.
LEMMA LaunchFailsPromise ==
    ASSUME IInv, NEW c \in Clients, LaunchFails(c)
    PROVE  Promise!Next \/ UNCHANGED Promise!vars
<1> DEFINE k == cur[c]
<1>1. /\ k \in Jobs /\ status[k] \in {"empty", "queued"} /\ k \notin retained
      /\ status' = [status EXCEPT ![k] = "absent"] /\ retained' = retained
      /\ request' = [request EXCEPT ![k] = NoSource]
  BY DEF IInv, CallInv, LaunchInv, LaunchFails, storeVars
<1>2. CASE request[k] = NoSource
  <2>1. request' = request /\ Told' = Told
    BY <1>1, <1>2 DEF IInv, TypeOK, Told
  <2>2. QED  BY <1>1, <2>1 DEF Promise!vars
<1>3. CASE request[k] # NoSource
  <2>1. Told[k] = "pending" /\ Told' = [Told EXCEPT ![k] = "unknown"]
    BY <1>1, <1>3 DEF IInv, TypeOK, Told
  <2>2. Promise!Withdraw(k)
    BY <1>1, <2>1 DEF Promise!Withdraw
  <2>3. QED  BY <1>1, <2>2 DEF Promise!Next
<1>4. QED  BY <1>2, <1>3

\* The implementation keeps the promise: jobs are accepted, withdrawn and
\* resolved, and artifacts retained, exactly as ImportPromise allows.
THEOREM JobsKeepPromise == Spec => KeepsPromise
<1>1. Init => Promise!Init
  BY OwnersAssumption DEF Init, Promise!Init, Told
<1>2. ASSUME IInv, IInv', [Next]_vars
      PROVE  Promise!Next \/ UNCHANGED Promise!vars
  <2>0. TypeOK /\ TypeOK'
    BY <1>2 DEF IInv
  <2>1. CASE UNCHANGED <<status, request, retained>>
    BY <2>1 DEF Promise!vars, Told
  <2>2. ASSUME NEW j \in Jobs, SupervisorStep(j) \/ Admit(j)
        PROVE  Promise!Next \/ UNCHANGED Promise!vars
    BY <1>2, <2>0, <2>2, SupervisorPromise
  <2>3. ASSUME NEW c \in Clients, Recover(c)
        PROVE  Promise!Next \/ UNCHANGED Promise!vars
    <3>1. /\ cur[c] \in Jobs /\ request[cur[c]] # NoSource
          /\ status[cur[c]] \in Nonterminal \cup Terminal
          /\ status' = [status EXCEPT ![cur[c]] = Stopped(@)]
          /\ UNCHANGED <<request, retained>>
      BY <1>2, <2>3
      DEF IInv, TypeOK, CallInv, ObserveInv, RecordInv, Recover, storeVars
    <3>2. CASE status[cur[c]] \in Terminal
      BY <2>0, <3>1, <3>2 DEF Stopped, Promise!vars, Told, TypeOK
    <3>3. CASE status[cur[c]] \in Nonterminal
      <4>1. status'[cur[c]] = "failed"
            /\ \A j \in Jobs \ {cur[c]} : status'[j] = status[j]
        BY <2>0, <3>1, <3>3 DEF Stopped, TypeOK
      <4>2. QED  BY <2>0, <3>1, <3>3, <4>1, ResolvePromise
    <3>4. QED  BY <3>1, <3>2, <3>3
  <2>4. ASSUME NEW c \in Clients, NEW j \in Jobs, MakeDirectory(c, j)
        PROVE  UNCHANGED Promise!vars
    <3>1. /\ status[j] = "absent" /\ status' = [status EXCEPT ![j] = "empty"]
          /\ request[j] = NoSource /\ UNCHANGED <<request, retained>>
      BY <1>2, <2>4 DEF IInv, RecordInv, MakeDirectory, storeVars
    <3>2. QED  BY <2>0, <3>1 DEF Promise!vars, Told, TypeOK
  <2>5. ASSUME NEW c \in Clients, WriteStatus(c)  PROVE UNCHANGED Promise!vars
    <3>1. /\ status[cur[c]] = "empty"
          /\ status' = [status EXCEPT ![cur[c]] = "queued"]
          /\ request[cur[c]] = NoSource /\ UNCHANGED <<request, retained>>
      BY <1>2, <2>5 DEF IInv, LaunchInv, WriteStatus, storeVars
    <3>2. QED  BY <2>0, <3>1 DEF Promise!vars, Told, TypeOK
  <2>6. ASSUME NEW c \in Clients, WriteRequest(c) \/ LaunchFails(c)
        PROVE  Promise!Next \/ UNCHANGED Promise!vars
    BY <1>2, <2>6, WriteRequestPromise, LaunchFailsPromise
  <2>7. \/ UNCHANGED <<status, request, retained>>
        \/ \E j \in Jobs : SupervisorStep(j) \/ Admit(j)
        \/ \E c \in Clients : \/ Recover(c) \/ WriteStatus(c)
                              \/ WriteRequest(c) \/ LaunchFails(c)
                              \/ \E j \in Jobs : MakeDirectory(c, j)
    BY <1>2
    DEF Next, vars, storeVars, ClientCall, Start, Get, ClientStep, WriteCancel,
        GetAgain, ObserveStatus, ObserveOwner, Probe, Popen, PublishIdentity,
        Environment, ClientDies, SupervisorDies, StopSignal, GraceExpires,
        ReusePid, LoseIdentity
  <2>8. QED  BY <2>1, <2>2, <2>3, <2>4, <2>5, <2>6, <2>7
<1>3. IInv /\ IInv' /\ [Next]_vars => [Promise!Next]_(Promise!vars)
  BY <1>2
<1>4. QED  BY <1>1, <1>3, Invariance, PTL DEF Spec, KeepsPromise, Promise!Spec
==============================================================================
