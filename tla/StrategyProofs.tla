--------------------------- MODULE StrategyProofs ---------------------------
(***************************************************************************)
(* Proofs about the strategy engine, for any compiled tree, any document   *)
(* and any number of deaths: the race of a parallel node (ParallelRace)    *)
(* and the walk of the nodes around it (StrategyWalk).                     *)
(*                                                                         *)
(* The walk is proved in three steps.  Every action is one of a few moves  *)
(* of the stack (Moves), and the chain of evaluations survives each of     *)
(* them (ChainInv).  What was walked over lies at steps the walk has left, *)
(* in the order of the tree (OrderInv), which is why a call is made once   *)
(* (RecordsInv) and why what a cascade keeps is the first of its best      *)
(* (BestInv) and a page the last of its versions.  And where a walk goes   *)
(* from a configuration is a function of what it reads there (Goes), so a  *)
(* resumed walk goes the course of the one that died (Trail).              *)
(***************************************************************************)
EXTENDS ParallelRace, StrategyWalk, FiniteSetTheorems, SequenceTheorems,
        WellFoundedInduction, TLAPS

-----------------------------------------------------------------------------
(* A race of branches                                                      *)

\* A leaf has one record; a cascade is no further than its last step; a shadow is
\* never cancelled, nor is its backend.
BranchInv ==
    /\ \A i \in Branches : rung[i] <= LastRung(i)
    /\ \A i \in Shadows : task[i] # "cancelled"
    /\ \A i \in Shadows : \A r \in 1..Depth :
            journal[i][r] # Nothing => journal[i][r].status # "cancelled"
    /\ asked \subseteq Racers

\* A leaf whose success is on record.
Succeeded(i) == journal[i][1] # Nothing /\ journal[i][1].status = "ok"

\* The journal numbers what it records; only a ledger that is armed records.
NumberInv ==
    /\ \A i \in Branches, r \in 1..Depth :
            journal[i][r] # Nothing => journal[i][r].seq < nextSeq
    /\ \A i, k \in Leaves :
            Succeeded(i) /\ Succeeded(k) /\ i # k => journal[i][1].seq # journal[k][1].seq
    /\ ~Armed => \A i \in Branches, r \in 1..Depth : journal[i][r] = Nothing

\* A race in the open has no winner and has asked nobody to stop; a race that is decided
\* has no loser that can still succeed, nor a live job of one that was not asked.
DecidedInv ==
    /\ node = "racing" => asked = {} /\ winner = Nothing
    /\ node \in {"draining", "resolved"} =>
         /\ winner = Nothing => Successes = {} /\ \A i \in Branches : task[i] \in Ended
         /\ winner # Nothing => winner \in Racers
         /\ winner \notin asked
         /\ race.onWin = "cancel" =>
              \A i \in Racers \ {winner} :
                 /\ task[i] \in Ended
                 /\ i \in Leaves /\ job[i] = "live" => i \in asked

\* A leaf that does not sleep first stands as its record has it.
StandsAsRecorded(i) ==
    /\ task[i] = "running" <=> journal[i][1] = Nothing
    /\ journal[i][1] # Nothing =>
         /\ task[i] = "ok" <=> journal[i][1].status = "ok"
         /\ task[i] = "ok" => seq[i] = journal[i][1].seq
TaskInv == node # "off" /\ Armed => \A i \in Leaves \ Hedged : StandsAsRecorded(i)

\* A leaf whose success is on record, before that of any other racer.
Earliest(w) ==
    /\ Succeeded(w)
    /\ \A i \in (Racers \cap Leaves) \ {w} :
            Succeeded(i) => journal[w][1].seq < journal[i][1].seq
WinnerInv ==
    Hedged = {} /\ Armed /\ node \in {"draining", "resolved"} /\ winner \in Leaves
        => Earliest(winner)

\* The first winner is still the earliest, and every branch is on record.
ChosenInv ==
    Hedged = {} /\ Composite = {} =>
        /\ repeated = {}
        /\ ~Armed /\ chosen # Nothing => node = "resolved" /\ winner = chosen
        /\ Armed /\ chosen # Nothing =>
             /\ chosen \in Racers /\ Earliest(chosen)
             /\ \A i \in Branches : journal[i][1] # Nothing

RaceInv == RaceTypeOK /\ BranchInv /\ NumberInv /\ DecidedInv /\ TaskInv /\ WinnerInv /\ ChosenInv

-----------------------------------------------------------------------------
(* The operators                                                           *)

\* What a node's shape implies.
LEMMA Shape ==
  ASSUME race \in Races
  PROVE  /\ race.n \in Nat
         /\ Hedged \subseteq Branches /\ Shadows \subseteq Branches /\ Composite \subseteq Branches
         /\ race.onWin \in {"cancel", "drain"} /\ race.ledger \in {"armed", "unarmed"}
         /\ \A i \in Branches : LastRung(i) \in 1..Depth
         /\ \A i \in Leaves : i \in Branches /\ LastRung(i) = 1
         /\ \A i \in Branches : i \in Nat /\ i # Nothing
         /\ IsFiniteSet(Branches)
<1>1. race.n \in Nat /\ race.hedged \cup race.shadows \cup race.composite \subseteq 1..race.n
      /\ race.onWin \in {"cancel", "drain"} /\ race.ledger \in {"armed", "unarmed"}
  BY Raceable DEF RaceAssumption
<1>2. IsFiniteSet(Branches)
  BY <1>1, FS_Interval DEF Branches
<1> QED
  BY <1>1, <1>2, Raceable DEF RaceAssumption, Branches, Hedged, Shadows, Composite, Leaves, LastRung

\* Where replay gets to.
LEMMA ReachedType ==
  ASSUME race \in Races, NEW i \in Branches
  PROVE  /\ Reached(i) \in 1..(LastRung(i) + 1)
         /\ i \in Leaves =>
              Reached(i) = IF journal[i][1] # Nothing /\ journal[i][1].status # "ok" THEN 2 ELSE 1
<1> DEFINE passed == {r \in 1..LastRung(i) : \A q \in 1..r :
                        journal[i][q] # Nothing /\ journal[i][q].status # "ok"}
<1>0. LastRung(i) \in Nat /\ (i \in Leaves => LastRung(i) = 1)
  BY Shape, Raceable DEF RaceAssumption
<1>1. IsFiniteSet(1..LastRung(i)) /\ Cardinality(1..LastRung(i)) <= LastRung(i)
  <2>1. ASSUME NEW m \in Nat PROVE IsFiniteSet(1..m) /\ Cardinality(1..m) <= m
    <3>1. 1 \in Int /\ m \in Int
      OBVIOUS
    <3>2. IsFiniteSet(1..m) /\ Cardinality(1..m) = IF 1 > m THEN 0 ELSE m - 1 + 1
      BY <3>1, FS_Interval
    <3> QED
      BY <3>2
  <2> QED
    BY <1>0, <2>1
<1>2. IsFiniteSet(passed) /\ Cardinality(passed) <= LastRung(i) /\ Cardinality(passed) \in Nat
  BY <1>0, <1>1, FS_Subset, FS_CardinalityType
<1>3. Reached(i) = Cardinality(passed) + 1
  BY DEF Reached
<1>4. ASSUME i \in Leaves
      PROVE  passed = IF journal[i][1] # Nothing /\ journal[i][1].status # "ok" THEN {1} ELSE {}
  BY <1>0, <1>4
<1>5. Cardinality({}) = 0 /\ Cardinality({1}) = 1
  BY FS_EmptySet, FS_Singleton
<1> HIDE DEF passed
<1>6. Reached(i) \in 1..(LastRung(i) + 1)
  BY <1>0, <1>2, <1>3
<1>7. CASE i \in Leaves /\ journal[i][1] # Nothing /\ journal[i][1].status # "ok"
  <2>1. Reached(i) = 2
    BY <1>3, <1>4, <1>5, <1>7
  <2> QED
    BY <1>6, <1>7, <2>1
<1>8. CASE i \in Leaves /\ ~(journal[i][1] # Nothing /\ journal[i][1].status # "ok")
  <2>1. passed = {}
    BY <1>4, <1>8
  <2>2. Reached(i) = 1
    BY <1>3, <1>5, <2>1
  <2> QED
    BY <1>6, <1>8, <2>2
<1> QED
  BY <1>6, <1>7, <1>8

\* How a branch stands when it has had its first turn.
LEMMA StandingIs ==
  ASSUME race \in Races, RaceTypeOK, NEW i \in Branches
  PROVE  /\ Standing(i) \in {"ok", "error", "cancelled", "running"}
         /\ StandingRung(i) \in 1..LastRung(i)
         /\ ReplayedSeq(i) \in Nat \cup {Nothing}
         /\ Standing(i) = "cancelled" => i \in Leaves /\ journal[i][1] # Nothing
                                         /\ journal[i][1].status = "cancelled"
         /\ i \in Leaves =>
              /\ Standing(i) = "running" <=> journal[i][1] = Nothing
              /\ Standing(i) = "ok" <=> journal[i][1] # Nothing /\ journal[i][1].status = "ok"
              /\ journal[i][1] # Nothing => ReplayedSeq(i) = journal[i][1].seq
<1>0. LastRung(i) \in Nat /\ LastRung(i) >= 1 /\ (i \in Leaves => LastRung(i) = 1)
  BY Shape, Raceable DEF RaceAssumption
<1>1. /\ Reached(i) \in 1..(LastRung(i) + 1)
      /\ i \in Leaves =>
           Reached(i) = IF journal[i][1] # Nothing /\ journal[i][1].status # "ok" THEN 2 ELSE 1
  BY ReachedType
<1>2. journal[i][1] # Nothing => journal[i][1] \in Records
  BY Raceable DEF RaceAssumption, RaceTypeOK
<1>3. ReplayedSeq(i) \in Nat \cup {Nothing}
  BY <1>2 DEF ReplayedSeq, Records
<1>4. StandingRung(i) \in 1..LastRung(i)
  BY <1>0, <1>1 DEF StandingRung
<1>5. /\ Standing(i) \in {"ok", "error", "cancelled", "running"}
      /\ Standing(i) = "cancelled" => i \in Leaves /\ Reached(i) > LastRung(i)
                                      /\ journal[i][1].status = "cancelled"
  BY DEF Standing
<1>6. ASSUME i \in Leaves
      PROVE  /\ Standing(i) = "running" <=> journal[i][1] = Nothing
             /\ Standing(i) = "ok" <=> journal[i][1] # Nothing /\ journal[i][1].status = "ok"
             /\ journal[i][1] # Nothing => ReplayedSeq(i) = journal[i][1].seq
  BY <1>0, <1>1, <1>6 DEF Standing, ReplayedSeq
<1> QED
  BY <1>0, <1>1, <1>3, <1>4, <1>5, <1>6

-----------------------------------------------------------------------------
(* What the actions do                                                     *)

\* The node stays what it is.
LEMMA SameShape ==
  ASSUME race' = race
  PROVE  /\ Branches' = Branches /\ Hedged' = Hedged /\ Shadows' = Shadows
         /\ Composite' = Composite /\ Leaves' = Leaves /\ Racers' = Racers
         /\ Armed' = Armed
         /\ \A i : LastRung(i)' = LastRung(i)
BY DEF Branches, Hedged, Shadows, Composite, Leaves, Racers, Armed, LastRung

\* An outcome is put on record, if there is a ledger.
LEMMA JournalIs ==
  ASSUME race \in Races, RaceTypeOK, NEW i \in Branches,
         NEW status \in {"ok", "failed"}, Journal(i, status)
  PROVE  /\ journal' \in [Branches -> [1..Depth -> Records \cup {Nothing}]]
         /\ nextSeq' \in Nat /\ nextSeq' >= nextSeq /\ (Armed => nextSeq' > nextSeq)
         /\ \A k \in Branches, r \in 1..Depth :
              journal'[k][r] = IF Armed /\ k = i /\ r = rung[i]
                               THEN [status |-> status, seq |-> nextSeq] ELSE journal[k][r]
<1> USE Raceable DEF RaceAssumption, RaceTypeOK
<1>1. CASE ~Armed
  BY <1>1 DEF Journal
<1>2. CASE Armed
  <2>1. /\ journal' = [journal EXCEPT ![i][rung[i]] = [status |-> status, seq |-> nextSeq]]
        /\ nextSeq' = nextSeq + 1
    BY <1>2 DEF Journal
  <2>2. [status |-> status, seq |-> nextSeq] \in Records
    BY DEF Records
  <2> QED
    BY <1>2, <2>1, <2>2
<1> QED
  BY <1>1, <1>2

\* The race is decided: the losers' tasks are over, and a leaf in the middle of its call
\* has a record of that.
LEMMA SettleIs ==
  ASSUME race \in Races, RaceTypeOK, NEW w, Settle(w), race' = race
  PROVE  /\ node' = "draining" /\ winner' = w /\ asked' = asked \cup Asked(w)
         /\ journal' \in [Branches -> [1..Depth -> Records \cup {Nothing}]]
         /\ nextSeq' \in Nat /\ nextSeq' >= nextSeq
         /\ \A k \in Branches, r \in 1..Depth :
              \/ journal'[k][r] = journal[k][r] /\ ~(Armed /\ k \in Losers(w)
                                                     /\ task[k] = "running" /\ r = rung[k])
              \/ /\ Armed /\ k \in Losers(w) /\ task[k] = "running" /\ r = rung[k]
                 /\ journal'[k][r] = [status |-> "cancelled", seq |-> nextSeq]
                 /\ nextSeq' > nextSeq
         /\ task' = [i \in Branches |-> IF i \in Losers(w) /\ Unfinished(i)
                                        THEN "cancelled" ELSE task[i]]
<1> DEFINE cut == {i \in Losers(w) : task[i] = "running"}
<1> USE Raceable DEF RaceAssumption, RaceTypeOK
<1>1. node' = "draining" /\ winner' = w /\ asked' = asked \cup Asked(w)
      /\ task' = [i \in Branches |-> IF i \in Losers(w) /\ Unfinished(i)
                                        THEN "cancelled" ELSE task[i]]
  BY DEF Settle
<1>2. CASE ~Armed
  <2>1. UNCHANGED <<journal, nextSeq>>
    BY <1>2 DEF Settle
  <2> QED
    BY <1>1, <1>2, <2>1
<1>3. CASE Armed
  <2>1. /\ journal' = [i \in Branches |->
                         IF i \in cut
                         THEN [journal[i] EXCEPT ![rung[i]] =
                                 [status |-> "cancelled", seq |-> nextSeq]]
                         ELSE journal[i]]
        /\ nextSeq' = nextSeq + Cardinality(cut)
    BY <1>3 DEF Settle
  <2>2. Losers(w) \subseteq Branches
    BY DEF Losers, Racers
  <2>3. IsFiniteSet(cut) /\ Cardinality(cut) \in Nat
    <3>1. IsFiniteSet(Branches) /\ cut \in SUBSET Branches
      BY <2>2, Shape
    <3>2. IsFiniteSet(cut)
      BY <3>1, FS_Subset
    <3>3. \A S : IsFiniteSet(S) => Cardinality(S) \in Nat
      BY FS_CardinalityType
    <3> HIDE DEF cut
    <3> QED
      BY <3>2, <3>3
  <2>4. cut # {} => Cardinality(cut) > 0
    <3> HIDE DEF cut
    <3> QED
      BY <2>3, FS_EmptySet
  <2>5. [status |-> "cancelled", seq |-> nextSeq] \in Records
    BY DEF Records
  <2>6. \A k : k \in cut <=> k \in Losers(w) /\ task[k] = "running"
    OBVIOUS
  <2> HIDE DEF cut
  <2>7. nextSeq' \in Nat /\ nextSeq' >= nextSeq /\ (cut # {} => nextSeq' > nextSeq)
    BY <2>1, <2>3, <2>4
  <2>8. journal' \in [Branches -> [1..Depth -> Records \cup {Nothing}]]
    BY <2>1, <2>5
  <2>9. ASSUME NEW k \in Branches, NEW r \in 1..Depth
        PROVE  \/ journal'[k][r] = journal[k][r] /\ ~(k \in cut /\ r = rung[k])
               \/ /\ k \in cut /\ r = rung[k]
                  /\ journal'[k][r] = [status |-> "cancelled", seq |-> nextSeq]
    BY <2>1
  <2> QED
    BY <1>1, <1>3, <2>6, <2>7, <2>8, <2>9
<1> QED
  BY <1>2, <1>3

\* All branches but the hedges have their first turn.
LEMMA OpenIs ==
  ASSUME race \in Races, RaceTypeOK, Open
  PROVE  /\ race' = race /\ starts' = starts + 1 /\ starts' \in 0..MaxStarts /\ node' = "racing"
         /\ UNCHANGED <<journal, nextSeq, chosen>> /\ asked' = {} /\ winner' = Nothing
         /\ job' = [i \in Branches |-> "none"]
         /\ task' \in [Branches -> {"parked", "running"} \cup Ended]
         /\ rung' \in [Branches -> 1..Depth] /\ seq' \in [Branches -> Nat \cup {Nothing}]
         /\ \A i \in Branches :
              \/ /\ i \notin Hedged
                 /\ task'[i] = Standing(i) /\ rung'[i] = StandingRung(i)
                 /\ seq'[i] = ReplayedSeq(i)
              \/ i \in Hedged /\ task'[i] \in {"parked", "pruned"} /\ rung'[i] = 1
         /\ repeated' = repeated \cup
              {i \in Branches \ Hedged : chosen # Nothing /\ Standing(i) = "running"}
<1> USE Raceable DEF RaceAssumption
<1>1. \A i \in Branches : /\ Standing(i) \in {"ok", "error", "cancelled", "running"}
                          /\ StandingRung(i) \in 1..LastRung(i) /\ LastRung(i) \in 1..Depth
                          /\ ReplayedSeq(i) \in Nat \cup {Nothing}
  BY Shape, StandingIs
<1>2. \A i \in Branches : StandingRung(i) \in 1..Depth
  BY <1>1
<1>3. PICK pruned \in SUBSET {i \in Hedged : PrunedNow(i)} :
         task' = [i \in Branches |-> IF i \in pruned THEN "pruned"
                                     ELSE IF i \in Hedged THEN "parked"
                                     ELSE Standing(i)]
  BY DEF Open
<1>4. /\ race' = race /\ starts < MaxStarts /\ starts' = starts + 1 /\ node' = "racing"
      /\ UNCHANGED <<journal, nextSeq, chosen>> /\ asked' = {} /\ winner' = Nothing
      /\ job' = [i \in Branches |-> "none"]
      /\ rung' = [i \in Branches |-> IF i \in Branches \ Hedged THEN StandingRung(i) ELSE 1]
      /\ seq' = [i \in Branches |-> IF i \in Branches \ Hedged THEN ReplayedSeq(i) ELSE Nothing]
      /\ repeated' = repeated \cup
           {i \in Branches \ Hedged : chosen # Nothing /\ Standing(i) = "running"}
  BY DEF Open
<1>5. starts' \in 0..MaxStarts
  BY <1>4 DEF RaceTypeOK
<1>6. task' \in [Branches -> {"parked", "running"} \cup Ended]
  BY <1>1, <1>3 DEF Ended
<1>7. rung' \in [Branches -> 1..Depth] /\ seq' \in [Branches -> Nat \cup {Nothing}]
  BY <1>1, <1>2, <1>4
<1>8. ASSUME NEW i \in Branches
      PROVE  \/ /\ i \notin Hedged
                /\ task'[i] = Standing(i) /\ rung'[i] = StandingRung(i)
                /\ seq'[i] = ReplayedSeq(i)
             \/ i \in Hedged /\ task'[i] \in {"parked", "pruned"} /\ rung'[i] = 1
  BY <1>3, <1>4
<1> QED
  BY <1>4, <1>5, <1>6, <1>7, <1>8

-----------------------------------------------------------------------------
(* Every step keeps the invariant                                          *)

\* The node is never another one.
LEMMA SameNode == [RaceNext]_raceVars => race' = race
BY DEF RaceNext, raceVars, Open, Judge, NoWinner, Resolve, ProcessDies, Wake, Submit, Succeed, Fail

\* Types.
LEMMA RaceTypeStep ==
  ASSUME RaceTypeOK, [RaceNext]_raceVars PROVE RaceTypeOK'
<1> USE Raceable DEF RaceAssumption
<1>0. race \in Races
  BY DEF RaceTypeOK
<1> USE <1>0
<1>1. CASE Open
  <2>1. /\ race' = race /\ starts' \in 0..MaxStarts /\ node' = "racing"
        /\ UNCHANGED <<journal, nextSeq, chosen>> /\ asked' = {} /\ winner' = Nothing
        /\ job' = [i \in Branches |-> "none"]
    BY <1>1, OpenIs, Zenon
  <2>2. /\ task' \in [Branches -> {"parked", "running"} \cup Ended]
        /\ rung' \in [Branches -> 1..Depth] /\ seq' \in [Branches -> Nat \cup {Nothing}]
    BY <1>1, OpenIs, Zenon
  <2>3. repeated' = repeated \cup
          {i \in Branches \ Hedged : chosen # Nothing /\ Standing(i) = "running"}
    BY <1>1, OpenIs, Zenon
  <2>4. repeated' \subseteq Branches
    BY <2>3, Zenon DEF RaceTypeOK
  <2> QED
    BY <2>1, <2>2, <2>4, SameShape DEF RaceTypeOK
<1>2. CASE Judge
  <2>1. PICK w \in Successes : Settle(w)
    BY <1>2 DEF Judge
  <2>2. UNCHANGED <<race, starts, rung, seq, job, chosen, repeated>>
    BY <1>2 DEF Judge
  <2>3. w \in Branches /\ Asked(w) \subseteq Branches
    BY DEF Successes, Racers, Asked, Losers
  <2> QED
    BY <2>1, <2>2, <2>3, SettleIs, SameShape DEF RaceTypeOK, Ended
<1>3. CASE NoWinner
  <2>1. Settle(Nothing) /\ UNCHANGED <<race, starts, rung, seq, job, chosen, repeated>>
    BY <1>3 DEF NoWinner
  <2>2. Asked(Nothing) \subseteq Branches
    BY DEF Racers, Asked, Losers
  <2> QED
    BY <2>1, <2>2, SettleIs, SameShape DEF RaceTypeOK, Ended
<1>4. CASE Resolve
  BY <1>4, SameShape DEF RaceTypeOK, Resolve
<1>5. CASE ProcessDies
  BY <1>5, SameShape DEF RaceTypeOK, ProcessDies
<1>6. ASSUME NEW i \in Branches, Wake(i) PROVE RaceTypeOK'
  <2>1. /\ Standing(i) \in {"ok", "error", "cancelled", "running"}
        /\ StandingRung(i) \in 1..Depth /\ ReplayedSeq(i) \in Nat \cup {Nothing}
    BY Shape, StandingIs
  <2>2. Standing(i) \in {"parked", "running"} \cup Ended
    BY <2>1 DEF Ended
  <2>3. /\ task' = [task EXCEPT ![i] = Standing(i)]
        /\ rung' = [k \in Branches |-> IF k = i THEN StandingRung(k) ELSE rung[k]]
        /\ seq' = [k \in Branches |-> IF k = i THEN ReplayedSeq(k) ELSE seq[k]]
        /\ repeated' \subseteq repeated \cup {i}
        /\ UNCHANGED <<race, starts, node, job, asked, winner, journal, nextSeq, chosen>>
    BY <1>6 DEF Wake, Launch
  <2> QED
    BY <2>1, <2>2, <2>3, SameShape DEF RaceTypeOK
<1>7. ASSUME NEW i \in Branches, Submit(i) PROVE RaceTypeOK'
  BY <1>7, SameShape DEF RaceTypeOK, Submit
<1>8. ASSUME NEW i \in Branches, Succeed(i) PROVE RaceTypeOK'
  <2>1. Journal(i, "ok") /\ UNCHANGED <<race, starts, node, rung, asked, winner, chosen, repeated>>
    BY <1>8 DEF Succeed
  <2>2. /\ journal' \in [Branches -> [1..Depth -> Records \cup {Nothing}]]
        /\ nextSeq' \in Nat
    BY <2>1, JournalIs
  <2>3. /\ task' = [task EXCEPT ![i] = "ok"]
        /\ seq' \in [Branches -> Nat \cup {Nothing}]
        /\ job' = [job EXCEPT ![i] = "over"]
    BY <1>8 DEF Succeed, RaceTypeOK
  <2> QED
    BY <2>1, <2>2, <2>3, SameShape DEF RaceTypeOK, Ended
<1>9. ASSUME NEW i \in Branches, Fail(i) PROVE RaceTypeOK'
  <2>1. Journal(i, "failed") /\ UNCHANGED <<race, starts, node, seq, asked, winner, chosen>>
    BY <1>9 DEF Fail
  <2>2. /\ journal' \in [Branches -> [1..Depth -> Records \cup {Nothing}]]
        /\ nextSeq' \in Nat
    BY <2>1, JournalIs
  <2>3. LastRung(i) \in 1..Depth
    BY Shape
  <2>4. CASE rung[i] < LastRung(i)
    <3>1. /\ rung' = [rung EXCEPT ![i] = rung[i] + 1] /\ job' = [job EXCEPT ![i] = "none"]
          /\ repeated' \subseteq repeated \cup {i} /\ task' = task
      BY <1>9, <2>4 DEF Fail
    <3>2. rung[i] + 1 \in 1..Depth
      BY <2>3, <2>4 DEF RaceTypeOK
    <3> QED
      BY <2>1, <2>2, <3>1, <3>2, SameShape DEF RaceTypeOK
  <2>5. CASE ~(rung[i] < LastRung(i))
    <3>1. /\ task' = [task EXCEPT ![i] = "error"] /\ job' \in {job, [job EXCEPT ![i] = "over"]}
          /\ UNCHANGED <<rung, repeated>>
      BY <1>9, <2>5 DEF Fail
    <3> QED
      BY <2>1, <2>2, <3>1, SameShape, Zenon DEF RaceTypeOK, Ended
  <2> QED
    BY <2>4, <2>5
<1>10. CASE UNCHANGED raceVars
  BY <1>10, SameShape DEF RaceTypeOK, raceVars
<1> QED
  BY <1>1, <1>2, <1>3, <1>4, <1>5, <1>6, <1>7, <1>8, <1>9, <1>10 DEF RaceNext

\* What is said of the branches.
LEMMA BranchStep ==
  ASSUME RaceTypeOK, BranchInv, [RaceNext]_raceVars PROVE BranchInv'
<1> USE Raceable DEF RaceAssumption
<1>0. race \in Races
  BY DEF RaceTypeOK
<1> USE <1>0
<1>1. CASE Open
  <2>1. \A i \in Branches : /\ LastRung(i) \in 1..Depth /\ StandingRung(i) \in 1..LastRung(i)
                            /\ Standing(i) = "cancelled" => /\ journal[i][1] # Nothing
                                                            /\ journal[i][1].status = "cancelled"
    BY Shape, StandingIs
  <2>2. \A i \in Shadows : i \in Branches
    BY Shape
  <2>3. \A i \in Branches : rung'[i] <= LastRung(i)
    BY <1>1, <2>1, OpenIs
  <2>4. \A i \in Shadows : task'[i] # "cancelled"
    BY <1>1, <2>1, <2>2, OpenIs DEF BranchInv
  <2>5. UNCHANGED <<race, journal>> /\ asked' = {}
    BY <1>1, OpenIs
  <2> QED
    BY <2>3, <2>4, <2>5, SameShape DEF BranchInv
<1>2. CASE Judge
  <2>1. PICK w \in Successes : Settle(w)
    BY <1>2 DEF Judge
  <2>2. UNCHANGED <<race, starts, rung, seq, job, chosen, repeated>>
    BY <1>2 DEF Judge
  <2>3. /\ asked' \subseteq Racers
        /\ \A i \in Shadows : i \in Branches /\ i \notin Losers(w)
    BY <2>1, Shape DEF BranchInv, Settle, Asked, Losers, Racers
  <2>4. \A i \in Shadows : task'[i] = task[i]
    BY <2>1, <2>2, <2>3, SettleIs
  <2>5. \A i \in Shadows : \A r \in 1..Depth : journal'[i][r] = journal[i][r]
    BY <2>1, <2>2, <2>3, SettleIs
  <2> QED
    BY <2>2, <2>3, <2>4, <2>5, SameShape DEF BranchInv
<1>3. CASE NoWinner
  <2>1. UNCHANGED <<race, starts, rung, seq, job, chosen, repeated>>
    BY <1>3 DEF NoWinner
  <2>2. Settle(Nothing)
    BY <1>3 DEF NoWinner
  <2>3. /\ asked' \subseteq Racers
        /\ \A i \in Shadows : i \in Branches /\ i \notin Losers(Nothing)
    BY <2>2, Shape DEF BranchInv, Settle, Asked, Losers, Racers
  <2>4. \A i \in Shadows : task'[i] = task[i]
    BY <2>2, <2>1, <2>3, SettleIs
  <2>5. \A i \in Shadows : \A r \in 1..Depth : journal'[i][r] = journal[i][r]
    BY <2>2, <2>1, <2>3, SettleIs
  <2> QED
    BY <2>1, <2>3, <2>4, <2>5, SameShape DEF BranchInv
<1>4. CASE Resolve
  BY <1>4, SameShape DEF BranchInv, Resolve
<1>5. CASE ProcessDies
  BY <1>5, SameShape DEF BranchInv, ProcessDies
<1>6. ASSUME NEW i \in Branches, Wake(i) PROVE BranchInv'
  <2>1. /\ LastRung(i) \in 1..Depth /\ StandingRung(i) \in 1..LastRung(i)
        /\ Standing(i) = "cancelled" => journal[i][1] # Nothing /\ journal[i][1].status = "cancelled"
    BY Shape, StandingIs
  <2>2. /\ task' = [task EXCEPT ![i] = Standing(i)]
        /\ rung' = [k \in Branches |-> IF k = i THEN StandingRung(k) ELSE rung[k]]
        /\ UNCHANGED <<race, journal, asked>>
    BY <1>6 DEF Wake, Launch
  <2>3. \A k \in Branches : rung'[k] <= LastRung(k)
    BY <2>1, <2>2 DEF BranchInv
  <2>4. \A k \in Shadows : task'[k] # "cancelled"
    BY <2>1, <2>2, Shape DEF BranchInv, RaceTypeOK
  <2> QED
    BY <2>2, <2>3, <2>4, SameShape DEF BranchInv
<1>7. ASSUME NEW i \in Branches, Submit(i) PROVE BranchInv'
  BY <1>7, SameShape DEF BranchInv, Submit
<1>8. ASSUME NEW i \in Branches, Succeed(i) PROVE BranchInv'
  <2>1. UNCHANGED <<race, asked>>
    BY <1>8 DEF Succeed
  <2>2. Journal(i, "ok")
    BY <1>8 DEF Succeed
  <2>3. \A k \in Shadows : /\ k \in Branches
                           /\ \A r \in 1..Depth :
                                journal'[k][r] # Nothing => journal'[k][r].status # "cancelled"
    <3>1. \A k \in Shadows : k \in Branches
      BY Shape
    <3>2. \A k \in Branches, r \in 1..Depth :
             journal'[k][r] = journal[k][r] \/ journal'[k][r].status = "ok"
      BY <2>2, JournalIs
    <3>3. \A k \in Shadows, r \in 1..Depth :
             journal[k][r] # Nothing => journal[k][r].status # "cancelled"
      BY DEF BranchInv
    <3> QED
      BY <3>1, <3>2, <3>3
  <2>4. \A k \in Shadows : task'[k] # "cancelled"
    BY <1>8, <2>3 DEF Succeed, BranchInv, RaceTypeOK
  <2>5. \A k \in Branches : rung'[k] <= LastRung(k)
    BY <1>8, Shape DEF Succeed, BranchInv, RaceTypeOK
  <2> QED
    BY <2>1, <2>3, <2>4, <2>5, SameShape DEF BranchInv
<1>9. ASSUME NEW i \in Branches, Fail(i) PROVE BranchInv'
  <2>1. UNCHANGED <<race, asked>>
    BY <1>9 DEF Fail
  <2>2. Journal(i, "failed")
    BY <1>9 DEF Fail
  <2>3. \A k \in Shadows : /\ k \in Branches
                           /\ \A r \in 1..Depth :
                                journal'[k][r] # Nothing => journal'[k][r].status # "cancelled"
    <3>1. \A k \in Shadows : k \in Branches
      BY Shape
    <3>2. \A k \in Branches, r \in 1..Depth :
             journal'[k][r] = journal[k][r] \/ journal'[k][r].status = "failed"
      BY <2>2, JournalIs
    <3>3. \A k \in Shadows, r \in 1..Depth :
             journal[k][r] # Nothing => journal[k][r].status # "cancelled"
      BY DEF BranchInv
    <3> QED
      BY <3>1, <3>2, <3>3
  <2>4. \A k \in Shadows : task'[k] # "cancelled"
    BY <1>9, <2>3 DEF Fail, BranchInv, RaceTypeOK
  <2>5. \A k \in Branches : rung'[k] <= LastRung(k)
    <3>1. \A k \in Branches : LastRung(k) \in 1..Depth /\ rung[k] \in 1..Depth /\ rung[k] <= LastRung(k)
      BY Shape DEF BranchInv, RaceTypeOK
    <3>2. rung' = rung \/ (rung[i] < LastRung(i) /\ rung' = [rung EXCEPT ![i] = @ + 1])
      BY <1>9 DEF Fail
    <3>3. CASE rung' = rung
      BY <3>1, <3>3
    <3>4. CASE rung[i] < LastRung(i) /\ rung' = [rung EXCEPT ![i] = @ + 1]
      <4>1. \A k \in Branches : rung'[k] = IF k = i THEN rung[i] + 1 ELSE rung[k]
        BY <3>4 DEF RaceTypeOK
      <4> QED
        BY <3>1, <3>4, <4>1
    <3> QED
      BY <3>2, <3>3, <3>4
  <2> QED
    BY <2>1, <2>3, <2>4, <2>5, SameShape DEF BranchInv
<1>10. CASE UNCHANGED raceVars
  BY <1>10, SameShape DEF BranchInv, raceVars
<1> QED
  BY <1>1, <1>2, <1>3, <1>4, <1>5, <1>6, <1>7, <1>8, <1>9, <1>10 DEF RaceNext

\* A branch that moves was neither parked for good nor done, and moves alone.
LEMMA BranchMoves ==
  ASSUME race \in Races, RaceTypeOK, NEW i \in Branches,
         Wake(i) \/ Submit(i) \/ Succeed(i) \/ Fail(i)
  PROVE  /\ UNCHANGED <<race, starts, node, asked, winner, chosen>> /\ Alive
         /\ task[i] \in {"parked", "running"} /\ task[i] \notin Ended
         /\ \A k \in Branches \ {i} : /\ task'[k] = task[k] /\ job'[k] = job[k]
                                      /\ seq'[k] = seq[k] /\ rung'[k] = rung[k]
<1> USE DEF RaceTypeOK, Ended
<1>1. CASE Wake(i)
  BY <1>1 DEF Wake, Launch
<1>2. CASE Submit(i)
  BY <1>2 DEF Submit
<1>3. CASE Succeed(i)
  BY <1>3 DEF Succeed
<1>4. CASE Fail(i)
  BY <1>4 DEF Fail
<1> QED
  BY <1>1, <1>2, <1>3, <1>4

\* A decision puts nothing on record but that a loser was cancelled.
LEMMA SettleKeepsNumbers ==
  ASSUME race \in Races, RaceTypeOK, NumberInv, NEW w, Settle(w), race' = race
  PROVE  NumberInv'
<1> USE Raceable DEF RaceAssumption
<1>1. /\ nextSeq \in Nat /\ nextSeq' \in Nat /\ nextSeq' >= nextSeq
      /\ \A k \in Branches, r \in 1..Depth :
           \/ journal'[k][r] = journal[k][r]
           \/ /\ Armed /\ nextSeq' > nextSeq
              /\ journal'[k][r] = [status |-> "cancelled", seq |-> nextSeq]
  BY SettleIs DEF RaceTypeOK
<1>2. \A k \in Branches, r \in 1..Depth :
         journal'[k][r] # Nothing => journal'[k][r].seq < nextSeq'
  <2> SUFFICES ASSUME NEW k \in Branches, NEW r \in 1..Depth, journal'[k][r] # Nothing
               PROVE  journal'[k][r].seq < nextSeq'
    OBVIOUS
  <2>1. journal[k][r] # Nothing => journal[k][r].seq < nextSeq /\ journal[k][r].seq \in Nat
    BY DEF NumberInv, RaceTypeOK, Records
  <2> QED
    BY <1>1, <2>1
<1>3. \A k \in Leaves : k \in Branches /\ 1 \in 1..Depth
  BY Shape
<1>4. \A k \in Leaves : Succeeded(k)' => Succeeded(k) /\ journal'[k][1] = journal[k][1]
  BY <1>1, <1>3 DEF Succeeded
<1> QED
  BY <1>1, <1>2, <1>4, SameShape DEF NumberInv

\* A number is given once.
LEMMA RecordKeepsNumbers ==
  ASSUME race \in Races, RaceTypeOK, NumberInv, NEW i \in Branches,
         NEW status \in {"ok", "failed"}, Journal(i, status), race' = race
  PROVE  NumberInv'
<1> USE Raceable DEF RaceAssumption
<1>1. /\ nextSeq \in Nat /\ nextSeq' \in Nat /\ nextSeq' >= nextSeq /\ (Armed => nextSeq' > nextSeq)
      /\ \A k \in Branches, r \in 1..Depth :
            journal'[k][r] = IF Armed /\ k = i /\ r = rung[i]
                             THEN [status |-> status, seq |-> nextSeq] ELSE journal[k][r]
  BY JournalIs DEF RaceTypeOK
<1>2. \A k \in Branches, r \in 1..Depth :
         journal'[k][r] # Nothing => journal'[k][r].seq < nextSeq'
  <2> SUFFICES ASSUME NEW k \in Branches, NEW r \in 1..Depth, journal'[k][r] # Nothing
               PROVE  journal'[k][r].seq < nextSeq'
    OBVIOUS
  <2>1. journal[k][r] # Nothing => journal[k][r].seq < nextSeq /\ journal[k][r].seq \in Nat
    BY DEF NumberInv, RaceTypeOK, Records
  <2> QED
    BY <1>1, <2>1
<1>3. \A k \in Leaves : /\ k \in Branches /\ 1 \in 1..Depth
                        /\ Succeeded(k) => journal[k][1].seq < nextSeq
                                           /\ journal[k][1].seq \in Nat
  <2>1. Leaves \subseteq Branches /\ 1 \in 1..Depth
    BY Shape
  <2>2. ASSUME NEW k \in Branches, NEW r \in 1..Depth, journal[k][r] # Nothing
        PROVE  journal[k][r].seq < nextSeq /\ journal[k][r].seq \in Nat
    BY <2>2 DEF NumberInv, RaceTypeOK, Records
  <2>3. \A k \in Leaves : Succeeded(k) => journal[k][1] # Nothing
    BY DEF Succeeded
  <2> QED
    BY <2>1, <2>2, <2>3
<1>4. ASSUME NEW j \in Leaves, NEW k \in Leaves, Succeeded(j)', Succeeded(k)', j # k
      PROVE  journal'[j][1].seq # journal'[k][1].seq
  <2>1. CASE j # i /\ k # i
    BY <1>1, <1>3, <1>4, <2>1 DEF NumberInv, Succeeded
  <2>2. CASE j = i
    BY <1>1, <1>3, <1>4, <2>2 DEF NumberInv, Succeeded
  <2>3. CASE k = i
    BY <1>1, <1>3, <1>4, <2>3 DEF NumberInv, Succeeded
  <2> QED
    BY <2>1, <2>2, <2>3
<1>5. ~Armed => \A k \in Branches, r \in 1..Depth : journal'[k][r] = Nothing
  BY <1>1 DEF NumberInv
<1> QED
  BY <1>2, <1>4, <1>5, SameShape DEF NumberInv

\* The numbers of the journal.
LEMMA NumberStep ==
  ASSUME RaceTypeOK, NumberInv, [RaceNext]_raceVars PROVE NumberInv'
<1> USE Raceable DEF RaceAssumption
<1>0. race \in Races
  BY DEF RaceTypeOK
<1> USE <1>0
<1>1. CASE Open
  <2>1. UNCHANGED <<race, journal, nextSeq>>
    BY <1>1, OpenIs
  <2> QED
    BY <2>1, SameShape DEF NumberInv, Succeeded
<1>2. CASE Judge
  <2>1. PICK w \in Successes : Settle(w)
    BY <1>2 DEF Judge
  <2>2. UNCHANGED <<race, starts, rung, seq, job, chosen, repeated>>
    BY <1>2 DEF Judge
  <2> QED
    BY <2>1, <2>2, SettleKeepsNumbers
<1>3. CASE NoWinner
  <2>1. Settle(Nothing)
    BY <1>3 DEF NoWinner
  <2>2. UNCHANGED <<race, starts, rung, seq, job, chosen, repeated>>
    BY <1>3 DEF NoWinner
  <2> QED
    BY <2>1, <2>2, SettleKeepsNumbers
<1>4. CASE Resolve
  <2>1. UNCHANGED <<race, journal, nextSeq>>
    BY <1>4 DEF Resolve
  <2> QED
    BY <2>1, SameShape DEF NumberInv, Succeeded
<1>5. CASE ProcessDies
  <2>1. UNCHANGED <<race, journal, nextSeq>>
    BY <1>5 DEF ProcessDies
  <2> QED
    BY <2>1, SameShape DEF NumberInv, Succeeded
<1>6. ASSUME NEW i \in Branches, Wake(i) PROVE NumberInv'
  <2>1. UNCHANGED <<race, journal, nextSeq>>
    BY <1>6 DEF Wake
  <2> QED
    BY <2>1, SameShape DEF NumberInv, Succeeded
<1>7. ASSUME NEW i \in Branches, Submit(i) PROVE NumberInv'
  <2>1. UNCHANGED <<race, journal, nextSeq>>
    BY <1>7 DEF Submit
  <2> QED
    BY <2>1, SameShape DEF NumberInv, Succeeded
<1>8. ASSUME NEW i \in Branches, Succeed(i) PROVE NumberInv'
  BY <1>8, RecordKeepsNumbers DEF Succeed
<1>9. ASSUME NEW i \in Branches, Fail(i) PROVE NumberInv'
  BY <1>9, RecordKeepsNumbers DEF Fail
<1>10. CASE UNCHANGED raceVars
  <2>1. UNCHANGED <<race, journal, nextSeq>>
    BY <1>10 DEF raceVars
  <2> QED
    BY <2>1, SameShape DEF NumberInv, Succeeded
<1> QED
  BY <1>1, <1>2, <1>3, <1>4, <1>5, <1>6, <1>7, <1>8, <1>9, <1>10 DEF RaceNext

\* i was unfinished: if the race is decided, it is won, and not lost to i.
LEMMA MoveKeepsDecided ==
  ASSUME race \in Races, RaceTypeOK, DecidedInv, NEW i \in Branches,
         Wake(i) \/ Submit(i) \/ Succeed(i) \/ Fail(i)
  PROVE  DecidedInv'
<1>1. /\ UNCHANGED <<race, node, asked, winner>> /\ task[i] \notin Ended
      /\ \A k \in Branches \ {i} : task'[k] = task[k] /\ job'[k] = job[k]
  BY BranchMoves
<1>2. \A k \in Racers : k \in Branches
  BY DEF Racers
<1>3. CASE node \in {"draining", "resolved"}
  <2>1. winner # Nothing
    BY <1>1, <1>3 DEF DecidedInv
  <2>2. ASSUME race.onWin = "cancel", NEW k \in Racers \ {winner}
        PROVE  task'[k] \in Ended /\ (k \in Leaves /\ job'[k] = "live" => k \in asked)
    <3>1. k # i
      BY <1>1, <1>3, <2>2 DEF DecidedInv
    <3> QED
      BY <1>1, <1>2, <1>3, <2>2, <3>1 DEF DecidedInv
  <2> QED
    BY <1>1, <1>3, <2>1, <2>2, SameShape DEF DecidedInv
<1>4. CASE node \notin {"draining", "resolved"}
  BY <1>1, <1>4, SameShape DEF DecidedInv
<1> QED
  BY <1>3, <1>4

\* What a decision leaves.
LEMMA DecidedStep ==
  ASSUME RaceTypeOK, DecidedInv, [RaceNext]_raceVars PROVE DecidedInv'
<1> USE Raceable DEF RaceAssumption
<1>0. race \in Races
  BY DEF RaceTypeOK
<1> USE <1>0
<1>1. CASE Open
  BY <1>1, OpenIs, SameShape DEF DecidedInv
<1>2. CASE Judge
  <2>1. PICK w \in Successes : Settle(w)
    BY <1>2 DEF Judge
  <2>2. UNCHANGED <<race, starts, rung, seq, job, chosen, repeated>>
    BY <1>2 DEF Judge
  <2>3. w \in Racers /\ w # Nothing
    BY <2>1, Shape DEF Successes, Racers
  <2>4. asked = {}
    BY <1>2 DEF Judge, DecidedInv
  <2>5. /\ node' = "draining" /\ winner' = w /\ asked' = asked \cup Asked(w)
        /\ task' = [i \in Branches |-> IF i \in Losers(w) /\ Unfinished(i)
                                        THEN "cancelled" ELSE task[i]]
    BY <2>1, <2>2, SettleIs
  <2>6. /\ node' = "draining" /\ winner' = w /\ w \in Racers /\ w # Nothing
        /\ asked' = Asked(w) /\ task' = [i \in Branches |-> IF i \in Losers(w) /\ Unfinished(i)
                                                           THEN "cancelled" ELSE task[i]]
    BY <2>3, <2>4, <2>5
  <2>7. w \notin Asked(w)
    BY DEF Asked, Losers
  <2>8. ASSUME race.onWin = "cancel", NEW i \in Racers \ {w}
        PROVE  task'[i] \in Ended /\ (i \in Leaves /\ job[i] = "live" => i \in Asked(w))
    <3>1. i \in Losers(w) /\ i \in Branches
      BY <2>8 DEF Losers, Racers
    <3>2. task[i] \in {"parked", "running"} \cup Ended
      BY <3>1 DEF RaceTypeOK
    <3> QED
      BY <2>6, <3>1, <3>2 DEF Asked, Unfinished, Ended
  <2> QED
    BY <2>2, <2>6, <2>7, <2>8, SameShape DEF DecidedInv
<1>3. CASE NoWinner
  <2>1. Settle(Nothing)
    BY <1>3 DEF NoWinner
  <2>2. UNCHANGED <<race, starts, rung, seq, job, chosen, repeated>>
    BY <1>3 DEF NoWinner
  <2>3. /\ node' = "draining" /\ winner' = Nothing /\ asked' = Asked(Nothing)
        /\ task' = [i \in Branches |-> IF i \in Losers(Nothing) /\ Unfinished(i)
                                        THEN "cancelled" ELSE task[i]]
    <3>1. asked = {}
      BY <1>3 DEF NoWinner, DecidedInv
    <3>2. /\ node' = "draining" /\ winner' = Nothing /\ asked' = asked \cup Asked(Nothing)
          /\ task' = [i \in Branches |-> IF i \in Losers(Nothing) /\ Unfinished(i)
                                          THEN "cancelled" ELSE task[i]]
      BY <2>1, Zenon DEF Settle
    <3> QED
      BY <3>1, <3>2
  <2>4. \A i \in Branches : task[i] \in Ended
    BY <1>3 DEF NoWinner
  <2>5. task' = task
    <3>1. \A i \in Branches : ~Unfinished(i)
      BY <2>4 DEF Unfinished, Ended
    <3>2. task' = [i \in Branches |-> task[i]]
      BY <2>3, <3>1
    <3> QED
      BY <3>2 DEF RaceTypeOK
  <2>6. Busy = {}
    BY <2>4 DEF Busy, Leaves, Ended
  <2>7. Successes' = {}
    BY <1>3, <2>2, <2>5, <2>6, SameShape DEF NoWinner, Successes
  <2>8. \A i \in Racers : i \in Branches
    BY DEF Racers
  <2>9. Nothing \notin Asked(Nothing)
    BY Shape DEF Asked, Losers, Racers
  <2>10. race.onWin = "cancel" =>
            \A i \in Racers \ {Nothing} : i \in Leaves /\ job[i] = "live" => i \in Asked(Nothing)
    BY DEF Asked, Losers
  <2> QED
    BY <2>2, <2>3, <2>4, <2>5, <2>7, <2>8, <2>9, <2>10, SameShape DEF DecidedInv
<1>4. CASE Resolve
  <2>1. race' = race /\ node = "draining" /\ node' = "resolved" /\ UNCHANGED <<task, job, asked, winner>>
    BY <1>4 DEF Resolve
  <2>2. Successes' = Successes
    BY <2>1, SameShape DEF Successes
  <2> QED
    BY <2>1, <2>2, SameShape DEF DecidedInv
<1>5. CASE ProcessDies
  BY <1>5, SameShape DEF DecidedInv, ProcessDies
<1>6. ASSUME NEW i \in Branches, Wake(i) PROVE DecidedInv'
  BY <1>6, MoveKeepsDecided
<1>7. ASSUME NEW i \in Branches, Submit(i) PROVE DecidedInv'
  BY <1>7, MoveKeepsDecided
<1>8. ASSUME NEW i \in Branches, Succeed(i) PROVE DecidedInv'
  BY <1>8, MoveKeepsDecided
<1>9. ASSUME NEW i \in Branches, Fail(i) PROVE DecidedInv'
  BY <1>9, MoveKeepsDecided
<1>10. CASE UNCHANGED raceVars
  <2>1. Successes' = Successes
    BY <1>10, SameShape DEF Successes, raceVars
  <2> QED
    BY <1>10, <2>1, SameShape DEF DecidedInv, raceVars
<1> QED
  BY <1>1, <1>2, <1>3, <1>4, <1>5, <1>6, <1>7, <1>8, <1>9, <1>10 DEF RaceNext

-----------------------------------------------------------------------------
(* Leaves, and what is on record of them                                   *)

\* A leaf that does not sleep first goes on as it was, or its call comes to an end.
LEMMA LeafMoves ==
  ASSUME race \in Races, RaceTypeOK, BranchInv, NEW i \in Branches,
         Wake(i) \/ Submit(i) \/ Succeed(i) \/ Fail(i),
         NEW k \in Leaves \ Hedged
  PROVE  \/ task'[k] = task[k] /\ seq'[k] = seq[k] /\ journal'[k][1] = journal[k][1]
         \/ /\ k = i /\ task[k] = "running" /\ task'[k] = "ok"
            /\ Armed => /\ journal'[k][1] = [status |-> "ok", seq |-> nextSeq]
                        /\ seq'[k] = nextSeq
         \/ /\ k = i /\ task[k] = "running" /\ task'[k] = "error"
            /\ Armed => journal'[k][1] = [status |-> "failed", seq |-> nextSeq]
<1> USE Raceable DEF RaceAssumption
<1>1. /\ k \in Branches /\ LastRung(k) = 1 /\ 1 \in 1..Depth /\ rung[k] = 1
  BY Shape DEF BranchInv, RaceTypeOK
<1>2. k # i => task'[k] = task[k] /\ seq'[k] = seq[k]
  BY <1>1, BranchMoves
<1>3. CASE Wake(i)
  <2>1. k # i /\ journal' = journal
    BY <1>3 DEF Wake
  <2> QED
    BY <1>2, <2>1
<1>4. CASE Submit(i)
  BY <1>4 DEF Submit
<1>5. CASE Succeed(i)
  <2>1. Journal(i, "ok")
    BY <1>5 DEF Succeed
  <2>2. journal'[k][1] = IF Armed /\ k = i THEN [status |-> "ok", seq |-> nextSeq] ELSE journal[k][1]
    BY <1>1, <2>1, JournalIs
  <2>3. /\ task[i] = "running" /\ task'[i] = "ok"
        /\ i \in Leaves /\ Armed => seq'[i] = nextSeq
    BY <1>5 DEF Succeed, RaceTypeOK
  <2> QED
    BY <1>2, <2>2, <2>3
<1>6. CASE Fail(i)
  <2>1. Journal(i, "failed")
    BY <1>6 DEF Fail
  <2>2. journal'[k][1] = IF Armed /\ k = i THEN [status |-> "failed", seq |-> nextSeq] ELSE journal[k][1]
    BY <1>1, <2>1, JournalIs
  <2>3. k = i => task[i] = "running" /\ task'[i] = "error"
    BY <1>1, <1>6 DEF Fail, RaceTypeOK
  <2> QED
    BY <1>2, <2>2, <2>3
<1> QED
  BY <1>3, <1>4, <1>5, <1>6

\* A leaf whose race is decided stays as it is, or is cancelled: with a record, if it was
\* in the middle of its call.
LEMMA LeafSettles ==
  ASSUME race \in Races, RaceTypeOK, BranchInv, NEW w, Settle(w), race' = race, NEW k \in Leaves
  PROVE  \/ /\ task'[k] = task[k] \/ (task[k] = "parked" /\ task'[k] = "cancelled")
            /\ journal'[k][1] = journal[k][1]
         \/ /\ task[k] = "running" /\ task'[k] = "cancelled" /\ k \in Losers(w)
            /\ Armed => journal'[k][1] = [status |-> "cancelled", seq |-> nextSeq]
<1> USE Raceable DEF RaceAssumption
<1>1. k \in Branches /\ LastRung(k) = 1 /\ 1 \in 1..Depth /\ rung[k] = 1
  BY Shape DEF BranchInv, RaceTypeOK
<1>2. task'[k] = IF k \in Losers(w) /\ Unfinished(k) THEN "cancelled" ELSE task[k]
  BY <1>1, SettleIs
<1>3. \/ journal'[k][1] = journal[k][1] /\ ~(Armed /\ k \in Losers(w) /\ task[k] = "running")
      \/ /\ Armed /\ k \in Losers(w) /\ task[k] = "running"
         /\ journal'[k][1] = [status |-> "cancelled", seq |-> nextSeq]
  BY <1>1, SettleIs
<1> QED
  BY <1>2, <1>3 DEF Unfinished

\* A leaf's call ends with a record of how.
LEMMA MoveKeepsTasks ==
  ASSUME race \in Races, RaceTypeOK, BranchInv, TaskInv, NEW i \in Branches,
         Wake(i) \/ Submit(i) \/ Succeed(i) \/ Fail(i)
  PROVE  TaskInv'
<1> USE Raceable DEF RaceAssumption
<1>1. race' = race /\ node # "off"
  BY BranchMoves DEF Alive
<1>2. ASSUME Armed, NEW k \in Leaves \ Hedged PROVE StandsAsRecorded(k)'
  <2>1. StandsAsRecorded(k)
    BY <1>1, <1>2 DEF TaskInv
  <2>2. \A s \in {"ok", "failed"} : [status |-> s, seq |-> nextSeq] # Nothing
    BY DEF RaceTypeOK, Records
  <2>3. \/ task'[k] = task[k] /\ seq'[k] = seq[k] /\ journal'[k][1] = journal[k][1]
        \/ /\ task[k] = "running" /\ task'[k] = "ok"
           /\ journal'[k][1] = [status |-> "ok", seq |-> nextSeq] /\ seq'[k] = nextSeq
        \/ /\ task[k] = "running" /\ task'[k] = "error"
           /\ journal'[k][1] = [status |-> "failed", seq |-> nextSeq]
    BY <1>2, LeafMoves
  <2> QED
    BY <2>1, <2>2, <2>3 DEF StandsAsRecorded
<1> QED
  BY <1>1, <1>2, SameShape DEF TaskInv

\* The tasks stand as the journal has it.
LEMMA TaskStep ==
  ASSUME RaceTypeOK, BranchInv, TaskInv, [RaceNext]_raceVars PROVE TaskInv'
<1> USE Raceable DEF RaceAssumption
<1>0. race \in Races
  BY DEF RaceTypeOK
<1> USE <1>0
<1>1. CASE Open
  <2>1. \A k \in Leaves \ Hedged :
           /\ k \in Branches /\ task'[k] = Standing(k) /\ seq'[k] = ReplayedSeq(k)
           /\ Standing(k) = "running" <=> journal[k][1] = Nothing
           /\ Standing(k) = "ok" <=> journal[k][1] # Nothing /\ journal[k][1].status = "ok"
           /\ journal[k][1] # Nothing => ReplayedSeq(k) = journal[k][1].seq
    BY <1>1, OpenIs, Shape, StandingIs
  <2>2. race' = race /\ journal' = journal
    BY <1>1, OpenIs
  <2> QED
    BY <2>1, <2>2, SameShape DEF TaskInv, StandsAsRecorded
<1>2. CASE Judge
  <2>1. PICK w \in Successes : Settle(w)
    BY <1>2 DEF Judge
  <2>2. UNCHANGED <<race, starts, rung, seq, job, chosen, repeated>>
    BY <1>2 DEF Judge
  <2>3. node # "off" /\ seq' = seq
    BY <1>2, <2>2 DEF Judge
  <2>4. ASSUME Armed, NEW k \in Leaves \ Hedged PROVE StandsAsRecorded(k)'
    <3>1. StandsAsRecorded(k)
      BY <2>3, <2>4 DEF TaskInv
    <3>2. [status |-> "cancelled", seq |-> nextSeq] # Nothing
      BY DEF RaceTypeOK, Records
    <3> QED
      BY <2>1, <2>2, <2>3, <2>4, <3>1, <3>2, LeafSettles DEF StandsAsRecorded
  <2> QED
    BY <2>2, <2>4, SameShape DEF TaskInv
<1>3. CASE NoWinner
  <2>1. Settle(Nothing)
    BY <1>3 DEF NoWinner
  <2>2. UNCHANGED <<race, starts, rung, seq, job, chosen, repeated>>
    BY <1>3 DEF NoWinner
  <2>3. node # "off" /\ seq' = seq
    BY <1>3, <2>2 DEF NoWinner
  <2>4. ASSUME Armed, NEW k \in Leaves \ Hedged PROVE StandsAsRecorded(k)'
    <3>1. StandsAsRecorded(k)
      BY <2>3, <2>4 DEF TaskInv
    <3>2. [status |-> "cancelled", seq |-> nextSeq] # Nothing
      BY DEF RaceTypeOK, Records
    <3> QED
      BY <2>1, <2>2, <2>3, <2>4, <3>1, <3>2, LeafSettles DEF StandsAsRecorded
  <2> QED
    BY <2>2, <2>4, SameShape DEF TaskInv
<1>4. CASE Resolve
  BY <1>4, SameShape DEF TaskInv, StandsAsRecorded, Resolve
<1>5. CASE ProcessDies
  BY <1>5 DEF TaskInv, ProcessDies
<1>6. ASSUME NEW i \in Branches, Wake(i) PROVE TaskInv'
  BY <1>6, MoveKeepsTasks
<1>7. ASSUME NEW i \in Branches, Submit(i) PROVE TaskInv'
  BY <1>7, MoveKeepsTasks
<1>8. ASSUME NEW i \in Branches, Succeed(i) PROVE TaskInv'
  BY <1>8, MoveKeepsTasks
<1>9. ASSUME NEW i \in Branches, Fail(i) PROVE TaskInv'
  BY <1>9, MoveKeepsTasks
<1>10. CASE UNCHANGED raceVars
  BY <1>10, SameShape DEF TaskInv, StandsAsRecorded, raceVars
<1> QED
  BY <1>1, <1>2, <1>3, <1>4, <1>5, <1>6, <1>7, <1>8, <1>9, <1>10 DEF RaceNext

\* The success that is taken was journalled first.
LEMMA TakenIsEarliest ==
  ASSUME race \in Races, RaceTypeOK, BranchInv, NumberInv, TaskInv, Judge, Hedged = {}, Armed,
         NEW w \in Successes, w \in Leaves, \A i \in Successes \ {w} : Precedes(w, i),
         Settle(w)
  PROVE  Earliest(w)'
<1> USE Raceable DEF RaceAssumption
<1>1. race' = race /\ node # "off"
  BY DEF Judge
<1>2. \A k \in Leaves : k \in Branches /\ 1 \in 1..Depth /\ k \in Nat
  BY Shape
<1>3. \A k \in Leaves : StandsAsRecorded(k)
  BY <1>1 DEF TaskInv
<1>4. \A k \in Racers \cap Leaves : Succeeded(k) => k \in Successes /\ seq[k] = journal[k][1].seq
  BY <1>3 DEF StandsAsRecorded, Succeeded, Successes
<1>5. Succeeded(w) /\ w \in Racers /\ w \notin Losers(w)
  BY <1>3 DEF StandsAsRecorded, Succeeded, Successes, Losers
<1>6. \A k \in Leaves : Succeeded(k) => journal[k][1].seq \in Nat
  BY <1>2 DEF Succeeded, RaceTypeOK, Records
<1>7. ASSUME NEW k \in (Racers \cap Leaves) \ {w}, Succeeded(k)
      PROVE  journal[w][1].seq < journal[k][1].seq
  <2>1. Precedes(w, k)
    BY <1>4, <1>7
  <2>2. /\ seq[w] = journal[w][1].seq /\ seq[k] = journal[k][1].seq
        /\ seq[w] \in Nat /\ seq[k] \in Nat
    BY <1>4, <1>5, <1>6, <1>7
  <2>3. seq[w] # seq[k]
    BY <1>5, <1>7, <2>2 DEF NumberInv
  <2> QED
    BY <2>1, <2>2, <2>3 DEF Precedes
<1>8. \A k \in Leaves : Succeeded(k)' => Succeeded(k) /\ journal'[k][1] = journal[k][1]
  BY <1>1, LeafSettles DEF Succeeded
<1>9. Succeeded(w)' /\ journal'[w][1] = journal[w][1]
  BY <1>1, <1>5, LeafSettles DEF Succeeded
<1> QED
  BY <1>1, <1>7, <1>8, <1>9, SameShape DEF Earliest

\* A later success has a higher number.
LEMMA MoveKeepsEarliest ==
  ASSUME race \in Races, RaceTypeOK, BranchInv, NumberInv, TaskInv, Hedged = {}, Armed,
         NEW i \in Branches, Wake(i) \/ Submit(i) \/ Succeed(i) \/ Fail(i),
         NEW w \in Leaves, Earliest(w)
  PROVE  Earliest(w)'
<1> USE Raceable DEF RaceAssumption
<1>1. race' = race /\ node # "off"
  BY BranchMoves DEF Alive
<1>2. \A k \in Leaves : k \in Branches /\ 1 \in 1..Depth
  BY Shape
<1>3. \A k \in Leaves : \/ journal'[k][1] = journal[k][1]
                        \/ /\ k = i /\ task[i] = "running"
                           /\ \E s \in {"ok", "failed"} : journal'[k][1] = [status |-> s, seq |-> nextSeq]
  BY LeafMoves
<1>4. \A k \in Leaves : task[k] = "running" => ~Succeeded(k)
  BY <1>1 DEF TaskInv, StandsAsRecorded, Succeeded
<1>5. journal[w][1].seq < nextSeq /\ journal'[w][1] = journal[w][1] /\ Succeeded(w)
  BY <1>2, <1>3, <1>4 DEF Earliest, Succeeded, NumberInv
<1>6. ASSUME NEW k \in (Racers \cap Leaves) \ {w}, Succeeded(k)'
      PROVE  journal[w][1].seq < journal'[k][1].seq
  <2>1. CASE journal'[k][1] = journal[k][1]
    BY <1>6, <2>1 DEF Earliest, Succeeded
  <2>2. CASE journal'[k][1] # journal[k][1]
    <3>1. journal'[k][1].seq = nextSeq
      BY <1>3, <1>6, <2>2
    <3> QED
      BY <1>5, <3>1
  <2> QED
    BY <2>1, <2>2
<1> QED
  BY <1>1, <1>5, <1>6, SameShape DEF Earliest, Succeeded

\* The winner of a race without hedges.
LEMMA WinnerStep ==
  ASSUME RaceTypeOK, BranchInv, NumberInv, TaskInv, WinnerInv, [RaceNext]_raceVars PROVE WinnerInv'
<1> USE Raceable DEF RaceAssumption
<1>0. race \in Races
  BY DEF RaceTypeOK
<1> USE <1>0
<1>1. CASE Open
  BY <1>1, OpenIs DEF WinnerInv
<1>2. CASE Judge
  <2>1. PICK w \in Successes : Settle(w) /\ \A i \in Successes \ {w} : Precedes(w, i)
    BY <1>2 DEF Judge
  <2>2. race' = race /\ winner' = w
    BY <1>2, <2>1 DEF Judge, Settle
  <2>3. Hedged = {} /\ Armed /\ w \in Leaves => Earliest(w)'
    BY <1>2, <2>1, TakenIsEarliest
  <2> QED
    BY <2>2, <2>3, SameShape DEF WinnerInv, Earliest, Succeeded
<1>3. CASE NoWinner
  <2>1. race' = race /\ winner' = Nothing
    BY <1>3 DEF NoWinner, Settle
  <2>2. Nothing \notin Leaves
    BY Shape
  <2> QED
    BY <2>1, <2>2, SameShape DEF WinnerInv
<1>4. CASE Resolve
  <2>1. /\ UNCHANGED <<race, winner, journal>> /\ node = "draining"
    BY <1>4 DEF Resolve
  <2> QED
    BY <2>1, SameShape DEF WinnerInv, Earliest, Succeeded
<1>5. CASE ProcessDies
  BY <1>5 DEF WinnerInv, ProcessDies
<1>6. ASSUME NEW i \in Branches, Wake(i) PROVE WinnerInv'
  <2>1. UNCHANGED <<race, node, winner>>
    BY <1>6, BranchMoves
  <2>2. Hedged = {} /\ Armed /\ node \in {"draining", "resolved"} /\ winner \in Leaves
          => Earliest(winner)'
    BY <1>6, <2>1, MoveKeepsEarliest DEF WinnerInv
  <2> QED
    BY <2>1, <2>2, SameShape DEF WinnerInv
<1>7. ASSUME NEW i \in Branches, Submit(i) PROVE WinnerInv'
  <2>1. UNCHANGED <<race, node, winner>>
    BY <1>7, BranchMoves
  <2>2. Hedged = {} /\ Armed /\ node \in {"draining", "resolved"} /\ winner \in Leaves
          => Earliest(winner)'
    BY <1>7, <2>1, MoveKeepsEarliest DEF WinnerInv
  <2> QED
    BY <2>1, <2>2, SameShape DEF WinnerInv
<1>8. ASSUME NEW i \in Branches, Succeed(i) PROVE WinnerInv'
  <2>1. UNCHANGED <<race, node, winner>>
    BY <1>8, BranchMoves
  <2>2. Hedged = {} /\ Armed /\ node \in {"draining", "resolved"} /\ winner \in Leaves
          => Earliest(winner)'
    BY <1>8, <2>1, MoveKeepsEarliest DEF WinnerInv
  <2> QED
    BY <2>1, <2>2, SameShape DEF WinnerInv
<1>9. ASSUME NEW i \in Branches, Fail(i) PROVE WinnerInv'
  <2>1. UNCHANGED <<race, node, winner>>
    BY <1>9, BranchMoves
  <2>2. Hedged = {} /\ Armed /\ node \in {"draining", "resolved"} /\ winner \in Leaves
          => Earliest(winner)'
    BY <1>9, <2>1, MoveKeepsEarliest DEF WinnerInv
  <2> QED
    BY <2>1, <2>2, SameShape DEF WinnerInv
<1>10. CASE UNCHANGED raceVars
  BY <1>10, SameShape DEF WinnerInv, Earliest, Succeeded, raceVars
<1> QED
  BY <1>1, <1>2, <1>3, <1>4, <1>5, <1>6, <1>7, <1>8, <1>9, <1>10 DEF RaceNext

-----------------------------------------------------------------------------
(* The branch the walk took                                                *)

\* Once the node was left, all is on record: no branch is in the middle of a call.
LEMMA ChosenIsQuiet ==
  ASSUME race \in Races, RaceTypeOK, TaskInv, ChosenInv, Hedged = {}, Composite = {},
         node # "off", chosen # Nothing
  PROVE  /\ Leaves = Branches
         /\ \A i \in Branches : ~Armed \/ task[i] # "running"
         /\ ~Armed => node = "resolved"
<1>1. Leaves = Branches
  BY DEF Leaves
<1> QED
  BY <1>1 DEF TaskInv, StandsAsRecorded, ChosenInv

\* What does not touch the records of a race that was left keeps what is said of it.
LEMMA QuietKeepsChosen ==
  ASSUME race \in Races, RaceTypeOK, ChosenInv,
         race' = race, chosen' = chosen, repeated' \subseteq repeated,
         Armed /\ chosen # Nothing /\ Hedged = {} /\ Composite = {}
            => \A i \in Branches : journal'[i][1] = journal[i][1],
         ~Armed /\ chosen # Nothing /\ Hedged = {} /\ Composite = {}
            => node' = node /\ winner' = winner
  PROVE  ChosenInv'
<1>1. \A i \in Leaves : i \in Branches
  BY DEF Leaves
<1>2. Racers \subseteq Branches
  BY DEF Racers
<1> SUFFICES ASSUME Hedged = {}, Composite = {}
             PROVE  /\ repeated' = {}
                    /\ ~Armed /\ chosen # Nothing => node' = "resolved" /\ winner' = chosen
                    /\ Armed /\ chosen # Nothing =>
                         /\ chosen \in Racers /\ Earliest(chosen)'
                         /\ \A i \in Branches : journal'[i][1] # Nothing
  BY SameShape DEF ChosenInv
<1>3. repeated' = {} /\ (~Armed /\ chosen # Nothing => node' = "resolved" /\ winner' = chosen)
  BY DEF ChosenInv
<1>4. ASSUME Armed, chosen # Nothing
      PROVE  /\ chosen \in Racers /\ Earliest(chosen)'
             /\ \A i \in Branches : journal'[i][1] # Nothing
  <2>1. /\ chosen \in Racers /\ Earliest(chosen)
        /\ \A i \in Branches : journal[i][1] # Nothing
    BY <1>4 DEF ChosenInv
  <2>2. Earliest(chosen)'
    BY <1>1, <1>2, <1>4, <2>1, SameShape DEF Earliest, Succeeded
  <2> QED
    BY <1>4, <2>1, <2>2
<1> QED
  BY <1>3, <1>4

\* The branch that was taken, once the node was left.
LEMMA ChosenStep ==
  ASSUME RaceTypeOK, DecidedInv, TaskInv, WinnerInv, BranchInv, ChosenInv, [RaceNext]_raceVars PROVE ChosenInv'
<1> USE Raceable DEF RaceAssumption
<1>0. race \in Races
  BY DEF RaceTypeOK
<1> USE <1>0
<1>1. CASE Open
  <2>1. /\ UNCHANGED <<race, journal, chosen>>
        /\ repeated' = repeated \cup
              {i \in Branches \ Hedged : chosen # Nothing /\ Standing(i) = "running"}
    BY <1>1, OpenIs
  <2>2. ASSUME Hedged = {}, Composite = {}, chosen # Nothing
        PROVE  Armed /\ \A i \in Branches : Standing(i) # "running"
    <3>1. Armed /\ \A i \in Branches : journal[i][1] # Nothing
      BY <1>1, <2>2 DEF ChosenInv, Open
    <3>2. \A i \in Branches : i \in Leaves
      BY <2>2 DEF Leaves
    <3> QED
      BY <3>1, <3>2, StandingIs
  <2>3. CASE Hedged = {} /\ Composite = {}
    <3>1. repeated' \subseteq repeated
      BY <2>1, <2>2, <2>3
    <3> QED
      BY <2>1, <2>2, <2>3, <3>1, QuietKeepsChosen
  <2>4. CASE ~(Hedged = {} /\ Composite = {})
    BY <2>1, <2>4, SameShape DEF ChosenInv
  <2> QED
    BY <2>3, <2>4
<1>2. CASE Judge
  <2>1. PICK w \in Successes : Settle(w)
    BY <1>2 DEF Judge
  <2>2. UNCHANGED <<race, starts, rung, seq, job, chosen, repeated>>
    BY <1>2 DEF Judge
  <2>3. node = "racing" /\ race' = race /\ chosen' = chosen /\ repeated' = repeated
    BY <1>2, <2>2 DEF Judge
  <2>4. ASSUME Hedged = {}, Composite = {}, chosen # Nothing
        PROVE  Armed /\ \A i \in Branches : journal'[i][1] = journal[i][1]
    <3>1. Leaves = Branches /\ Armed /\ \A i \in Branches : task[i] # "running"
      BY <2>3, <2>4, ChosenIsQuiet
    <3> QED
      BY <2>1, <2>3, <3>1, LeafSettles
  <2> QED
    BY <2>3, <2>4, QuietKeepsChosen
<1>3. CASE NoWinner
  <2>1. Settle(Nothing)
    BY <1>3 DEF NoWinner
  <2>2. UNCHANGED <<race, starts, rung, seq, job, chosen, repeated>>
    BY <1>3 DEF NoWinner
  <2>3. node = "racing" /\ race' = race /\ chosen' = chosen /\ repeated' = repeated
    BY <1>3, <2>2 DEF NoWinner
  <2>4. ASSUME Hedged = {}, Composite = {}, chosen # Nothing
        PROVE  Armed /\ \A i \in Branches : journal'[i][1] = journal[i][1]
    <3>1. Leaves = Branches /\ Armed /\ \A i \in Branches : task[i] # "running"
      BY <2>3, <2>4, ChosenIsQuiet
    <3> QED
      BY <2>1, <2>3, <3>1, LeafSettles
  <2> QED
    BY <2>3, <2>4, QuietKeepsChosen
<1>4. CASE Resolve
  <2>1. /\ UNCHANGED <<race, task, winner, journal, repeated>> /\ node = "draining"
        /\ node' = "resolved" /\ \A i \in Branches : task[i] \in Ended
        /\ chosen' = IF chosen = Nothing THEN winner ELSE chosen
    BY <1>4 DEF Resolve
  <2>2. CASE chosen # Nothing /\ Hedged = {} /\ Composite = {}
    <3>1. Armed /\ chosen' = chosen
      BY <2>1, <2>2, ChosenIsQuiet
    <3> QED
      BY <2>1, <2>2, <3>1, QuietKeepsChosen
  <2>3. CASE chosen = Nothing /\ winner # Nothing /\ Hedged = {} /\ Composite = {}
    <3>1. Leaves = Branches /\ Racers \subseteq Branches /\ winner \in Racers
      BY <2>1, <2>3 DEF Leaves, Racers, DecidedInv
    <3>2. Armed => /\ Earliest(winner)
                   /\ \A i \in Branches : journal[i][1] # Nothing
      BY <2>1, <2>3, <3>1 DEF WinnerInv, TaskInv, StandsAsRecorded, Ended
    <3>3. Earliest(winner)' <=> Earliest(winner)
      BY <2>1, SameShape DEF Earliest, Succeeded
    <3>4. /\ race' = race /\ chosen' = winner /\ winner' = winner /\ node' = "resolved"
          /\ repeated' = {} /\ journal' = journal
      BY <2>1, <2>3 DEF ChosenInv
    <3>5. Earliest(chosen)' <=> Earliest(winner)'
      BY <3>4 DEF Earliest, Succeeded
    <3> QED
      BY <3>1, <3>2, <3>3, <3>4, <3>5, SameShape DEF ChosenInv
  <2>4. CASE chosen = Nothing /\ winner = Nothing
    <3>1. chosen' = Nothing
      BY <2>1, <2>4
    <3> QED
      BY <2>1, <2>4, <3>1, SameShape DEF ChosenInv
  <2>5. CASE ~(Hedged = {} /\ Composite = {})
    BY <2>1, <2>5, SameShape DEF ChosenInv
  <2> QED
    BY <2>2, <2>3, <2>4, <2>5
<1>5. CASE ProcessDies
  BY <1>5, QuietKeepsChosen DEF ProcessDies
<1>6. ASSUME NEW i \in Branches, Wake(i) PROVE ChosenInv'
  <2>1. race' = race /\ Hedged # {}
    BY <1>6 DEF Wake
  <2> QED
    BY <2>1, SameShape DEF ChosenInv
<1>7. ASSUME NEW i \in Branches, Submit(i) PROVE ChosenInv'
  BY <1>7, QuietKeepsChosen DEF Submit
<1>8. ASSUME NEW i \in Branches, Succeed(i) PROVE ChosenInv'
  <2>1. UNCHANGED <<race, node, winner, chosen>> /\ node \in {"racing", "draining"} /\ i \in Branches
    BY <1>8, BranchMoves DEF Alive
  <2>2. CASE Hedged = {} /\ Composite = {}
    <3>1. task[i] = "running" /\ LastRung(i) = 1 /\ rung[i] >= 1 /\ rung[i] \in Nat
      BY <1>8, <2>2, Shape DEF Succeed, Leaves, RaceTypeOK
    <3>2. repeated' = repeated
      BY <1>8, <3>1 DEF Succeed
    <3>3. chosen = Nothing
      BY <2>1, <2>2, <3>1, ChosenIsQuiet
    <3> QED
      BY <2>1, <3>2, <3>3, QuietKeepsChosen
  <2>3. CASE ~(Hedged = {} /\ Composite = {})
    BY <2>1, <2>3, SameShape DEF ChosenInv
  <2> QED
    BY <2>2, <2>3
<1>9. ASSUME NEW i \in Branches, Fail(i) PROVE ChosenInv'
  <2>1. UNCHANGED <<race, node, winner, chosen>> /\ node \in {"racing", "draining"} /\ i \in Branches
    BY <1>9, BranchMoves DEF Alive
  <2>2. CASE Hedged = {} /\ Composite = {}
    <3>1. task[i] = "running" /\ LastRung(i) = 1 /\ rung[i] >= 1 /\ rung[i] \in Nat
      BY <1>9, <2>2, Shape DEF Fail, Leaves, RaceTypeOK
    <3>2. repeated' = repeated
      BY <1>9, <3>1 DEF Fail
    <3>3. chosen = Nothing
      BY <2>1, <2>2, <3>1, ChosenIsQuiet
    <3> QED
      BY <2>1, <3>2, <3>3, QuietKeepsChosen
  <2>3. CASE ~(Hedged = {} /\ Composite = {})
    BY <2>1, <2>3, SameShape DEF ChosenInv
  <2> QED
    BY <2>2, <2>3
<1>10. CASE UNCHANGED raceVars
  BY <1>10, QuietKeepsChosen DEF raceVars
<1> QED
  BY <1>1, <1>2, <1>3, <1>4, <1>5, <1>6, <1>7, <1>8, <1>9, <1>10 DEF RaceNext

-----------------------------------------------------------------------------
(* The theorems                                                            *)

\* A race in which no branch is woken satisfies the invariant.
LEMMA RaceInvInit == RaceInit => RaceInv
<1> SUFFICES ASSUME RaceInit PROVE RaceInv
  OBVIOUS
<1> USE Raceable DEF RaceAssumption
<1>1. race \in Races /\ node = "off" /\ chosen = Nothing /\ repeated = {} /\ asked = {}
  BY DEF RaceInit
<1>2. RaceTypeOK
  <2>1. 1 \in 1..Depth /\ starts \in 0..MaxStarts
    BY DEF RaceInit
  <2> QED
    BY <2>1 DEF RaceInit, RaceTypeOK
<1>3. BranchInv
  <2>1. \A i \in Branches : LastRung(i) \in 1..Depth
    BY <1>1, Shape
  <2>2. Shadows \subseteq Branches
    BY <1>1, Shape
  <2> QED
    BY <1>1, <2>1, <2>2 DEF RaceInit, BranchInv
<1>4. NumberInv
  <2>1. \A i \in Leaves : i \in Branches /\ 1 \in 1..Depth
    BY <1>1, Shape
  <2>2. \A i \in Branches, r \in 1..Depth : journal[i][r] = Nothing
    BY DEF RaceInit
  <2>3. \A i \in Leaves : ~Succeeded(i)
    BY <2>1, <2>2 DEF Succeeded
  <2> QED
    BY <2>2, <2>3 DEF NumberInv
<1> QED
  BY <1>1, <1>2, <1>3, <1>4 DEF RaceInv, DecidedInv, TaskInv, WinnerInv, ChosenInv

\* Types, and what a race relies on: a leaf stands as its record has it, numbers are given
\* once, the winner was journalled first, and a race that was left is on record whole.
THEOREM RaceTypeCorrect == RaceSpec => []RaceInv
<1>1. RaceInv /\ [RaceNext]_raceVars => RaceInv'
  <2> SUFFICES ASSUME RaceInv, [RaceNext]_raceVars PROVE RaceInv'
    OBVIOUS
  <2>1. RaceTypeOK' /\ BranchInv' /\ NumberInv' /\ DecidedInv'
    BY RaceTypeStep, BranchStep, NumberStep, DecidedStep DEF RaceInv
  <2>2. TaskInv' /\ WinnerInv' /\ ChosenInv'
    BY TaskStep, WinnerStep, ChosenStep DEF RaceInv
  <2> QED
    BY <2>1, <2>2 DEF RaceInv
<1> QED
  BY RaceInvInit, <1>1, PTL DEF RaceSpec

\* Two leaves cannot both be the earliest.
LEMMA EarliestIsOne ==
  ASSUME RaceInv, NEW j \in Racers \cap Leaves, NEW k \in Racers \cap Leaves,
         Earliest(j), Earliest(k)
  PROVE  j = k
<1> USE Raceable DEF RaceAssumption
<1>1. j \in Branches /\ k \in Branches /\ 1 \in 1..Depth
  BY Shape DEF RaceInv, RaceTypeOK
<1>2. journal[j][1].seq \in Nat /\ journal[k][1].seq \in Nat
  BY <1>1 DEF Earliest, Succeeded, RaceInv, RaceTypeOK, Records
<1>3. ASSUME j # k PROVE FALSE
  <2>1. journal[j][1].seq < journal[k][1].seq
    BY <1>3 DEF Earliest
  <2>2. journal[k][1].seq < journal[j][1].seq
    BY <1>3 DEF Earliest
  <2> QED
    BY <1>2, <2>1, <2>2
<1> QED
  BY <1>3

\* A race loses no success it has, and leaves no loser whose job may still run unasked;
\* one of leaves that do not wait is won by the success journalled first, and a resume
\* takes the branch the walk took and calls no backend again (engine.py _drive_race,
\* _cancel_losers, _eval_parallel).
THEOREM RacesAreWon == RaceSpec => []RaceIsWon
<1>1. RaceInv => RaceIsWon
  <2> SUFFICES ASSUME RaceInv PROVE RaceIsWon
    OBVIOUS
  <2>0. race \in Races
    BY DEF RaceInv, RaceTypeOK
  <2>1. SuccessIsNotLost
    BY DEF RaceInv, DecidedInv, SuccessIsNotLost
  <2>2. LosersAreStopped
    <3>1. \A i \in Shadows : task[i] # "cancelled" /\ i \notin asked
      BY DEF RaceInv, BranchInv, Racers
    <3> QED
      BY <3>1 DEF RaceInv, DecidedInv, LosersAreStopped
  <2>3. ASSUME Hedged = {} PROVE WinnerIsEarliest
    <3>1. CASE Armed
      BY <2>3, <3>1 DEF RaceInv, WinnerInv, WinnerIsEarliest, Earliest, Succeeded
    <3>2. CASE ~Armed
      <4>1. \A i \in Leaves : i \in Branches /\ 1 \in 1..Depth
        BY <2>0, Shape, Raceable DEF RaceAssumption
      <4> QED
        BY <3>2, <4>1 DEF RaceInv, NumberInv, WinnerIsEarliest
    <3> QED
      BY <3>1, <3>2
  <2>4. ASSUME Hedged = {}, Composite = {} PROVE ResumeAgrees
    <3>1. repeated = {}
      BY <2>4 DEF RaceInv, ChosenInv
    <3>2. ASSUME node = "resolved", chosen # Nothing PROVE winner = chosen
      <4>1. CASE ~Armed
        BY <2>4, <3>2, <4>1 DEF RaceInv, ChosenInv
      <4>2. CASE Armed
        <5>1. /\ Leaves = Branches /\ Racers \subseteq Branches
              /\ chosen \in Racers /\ Earliest(chosen)
          BY <2>4, <3>2, <4>2 DEF RaceInv, ChosenInv, Leaves, Racers
        <5>2. chosen \in Successes
          BY <2>4, <3>2, <4>2, <5>1
             DEF RaceInv, TaskInv, StandsAsRecorded, Earliest, Succeeded, Successes
        <5>3. winner \in Racers
          BY <3>2, <5>2 DEF RaceInv, DecidedInv
        <5>4. Earliest(winner)
          BY <2>4, <3>2, <4>2, <5>1, <5>3 DEF RaceInv, WinnerInv
        <5> QED
          BY <5>1, <5>3, <5>4, EarliestIsOne
      <4> QED
        BY <4>1, <4>2
    <3> QED
      BY <3>1, <3>2 DEF ResumeAgrees
  <2> QED
    BY <2>1, <2>2, <2>3, <2>4 DEF RaceIsWon
<1> QED
  BY RaceTypeCorrect, <1>1, PTL

-----------------------------------------------------------------------------
(* Operators                                                               *)

\* The smallest of some numbers is one of them.
LEMMA LeastIsOne ==
    ASSUME NEW S \in SUBSET Nat, S # {}
    PROVE  Min(S) \in S /\ \A k \in S : Min(S) <= k
<1>1. PICK m \in S : \A k \in S : <<k, m>> \notin OpToRel(<, Nat)
  BY WFMin, NatLessThanWellFounded
<1>2. \A k \in S : ~(k < m)
  BY <1>1, Zenon DEF OpToRel
<1>3. \A k \in S : m <= k
  BY <1>2
<1> QED
  BY <1>1, <1>3 DEF Min

\* What the stack is.
LEMMA StackIs ==
    ASSUME WalkTypeOK
    PROVE  /\ Len(stack) \in Nat \ {0} /\ DOMAIN stack = 1..Len(stack)
           /\ \A j \in 1..Len(stack) :
                 /\ stack[j] \in Evaluations /\ stack[j].node \in DOMAIN Tree
                 /\ stack[j].i \in Nat /\ stack[j].best \in Outcome \cup {Nil}
                 /\ stack[j].pages \in Gradings /\ stack[j].ask \in SUBSET Pages
           /\ Top \in Evaluations
           /\ Len(stack) > 1 => Under \in Evaluations
<1>1. /\ Len(stack) \in Nat /\ DOMAIN stack = 1..Len(stack)
      /\ \A j \in 1..Len(stack) : stack[j] \in Evaluations
  BY LenProperties, ElementOfSeq DEF WalkTypeOK
<1>2. Len(stack) # 0
  BY EmptySeq DEF WalkTypeOK
<1>3. \A f \in Evaluations : /\ f.node \in DOMAIN Tree /\ f.i \in Nat
                             /\ f.best \in Outcome \cup {Nil}
                             /\ f.pages \in Gradings /\ f.ask \in SUBSET Pages
  BY DEF Evaluations
<1> QED
  BY <1>1, <1>2, <1>3 DEF Top, Under

\* No grade is a grading.
LEMMA NothingGraded == <<>> \in Gradings /\ DOMAIN <<>> = {}
<1>1. {} \in SUBSET Pages /\ <<>> \in [{} -> Grades]
  OBVIOUS
<1> QED
  BY <1>1, Zenon DEF Gradings

\* A node's evaluation begins before its first step, with nothing kept and all pages asked.
LEMMA FrameIs ==
    ASSUME NEW n \in DOMAIN Tree
    PROVE  /\ Frame(n) \in Evaluations /\ Frame(n).node = n /\ Frame(n).i = 0
           /\ Frame(n).best = Nil /\ Frame(n).pages = <<>> /\ Frame(n).ask = Pages
  BY NothingGraded DEF Frame, Evaluations

\* Going down changes where the innermost is, and adds an evaluation.
LEMMA DescendIs ==
    ASSUME WalkTypeOK, NEW n \in DOMAIN Tree, NEW i \in Nat
    PROVE  LET down == Descend(stack, n, i) IN
           /\ down \in Seq(Evaluations) /\ down # <<>> /\ Len(down) = Len(stack) + 1
           /\ \A j \in 1..(Len(stack) - 1) : down[j] = stack[j]
           /\ down[Len(stack)] = [Top EXCEPT !.i = i]
           /\ down[Len(stack)] \in Evaluations
           /\ down[Len(down)] = Frame(n)
<1> DEFINE f == [Top EXCEPT !.i = i]
           s == [stack EXCEPT ![Len(stack)] = f]
<1>1. f \in Evaluations
  BY StackIs DEF Evaluations
<1>2. Descend(stack, n, i) = Append(s, Frame(n))
  BY DEF Descend, Top
<1>3. s \in Seq(Evaluations) /\ Len(s) = Len(stack)
      /\ \A j \in 1..Len(stack) : s[j] = IF j = Len(stack) THEN f ELSE stack[j]
  <2> HIDE DEF f
  <2>1. Len(stack) \in 1..Len(stack) /\ stack \in Seq(Evaluations)
    BY StackIs DEF WalkTypeOK
  <2> QED
    BY <1>1, <2>1, ExceptSeq
<1>4. Frame(n) \in Evaluations
  BY FrameIs
<1> HIDE DEF s, f
<1>5. /\ Append(s, Frame(n)) \in Seq(Evaluations) /\ Append(s, Frame(n)) # <<>>
      /\ Len(Append(s, Frame(n))) = Len(s) + 1
      /\ \A j \in 1..Len(s) : Append(s, Frame(n))[j] = s[j]
      /\ Append(s, Frame(n))[Len(s) + 1] = Frame(n)
  <2> SUFFICES ASSUME NEW e, e = Frame(n), e \in Evaluations
               PROVE  /\ Append(s, e) \in Seq(Evaluations) /\ Append(s, e) # <<>>
                      /\ Len(Append(s, e)) = Len(s) + 1
                      /\ \A j \in 1..Len(s) : Append(s, e)[j] = s[j]
                      /\ Append(s, e)[Len(s) + 1] = e
    BY <1>4, Zenon
  <2>1. s \in Seq(Evaluations)
    BY <1>3
  <2> QED
    BY <2>1, AppendProperties
<1>6. Len(stack) \in Nat \ {0}
  BY StackIs
<1>7. PICK down : down = Append(s, Frame(n))
  OBVIOUS
<1>8. /\ down \in Seq(Evaluations) /\ down # <<>> /\ Len(down) = Len(stack) + 1
      /\ \A j \in 1..Len(stack) : down[j] = s[j]
      /\ down[Len(stack) + 1] = Frame(n)
  BY <1>3, <1>5, <1>7
<1>9. \A j \in 1..(Len(stack) - 1) : down[j] = stack[j]
  <2> SUFFICES ASSUME NEW j \in 1..(Len(stack) - 1) PROVE down[j] = stack[j]
    OBVIOUS
  <2>1. j \in 1..Len(stack) /\ j # Len(stack)
    BY <1>6
  <2> QED
    BY <1>3, <1>8, <2>1, Zenon
<1>10. down[Len(stack)] = f
  <2>1. Len(stack) \in 1..Len(stack)
    BY <1>6
  <2> QED
    BY <1>3, <1>8, <2>1, Zenon
<1>11. Descend(stack, n, i) = down
  BY <1>2, <1>7
<1> QED
  BY <1>1, <1>8, <1>9, <1>10, <1>11, Zenon DEF f

\* Coming back up takes the innermost away.
LEMMA ClimbIs ==
    ASSUME WalkTypeOK, Len(stack) > 1, NEW f \in Evaluations
    PROVE  LET up == Climb(stack, f) IN
           /\ up \in Seq(Evaluations) /\ up # <<>> /\ Len(up) = Len(stack) - 1
           /\ \A j \in 1..(Len(stack) - 2) : up[j] = stack[j]
           /\ up[Len(up)] = f
<1> DEFINE n == Len(stack) - 2
           s == SubSeq(stack, 1, n)
<1>1. Len(stack) \in Nat \ {0} /\ \A j \in 1..Len(stack) : stack[j] \in Evaluations
  BY StackIs
<1>2. n \in Nat /\ \A j \in 1..n : stack[j] \in Evaluations
  BY <1>1
<1>3. /\ s \in Seq(Evaluations) /\ Len(s) = IF 1 <= n THEN n - 1 + 1 ELSE 0
      /\ \A j \in 1..(n - 1 + 1) : s[j] = stack[1 + j - 1]
  <2> HIDE DEF n
  <2> QED
    BY <1>2, SubSeqProperties
<1>4. Len(s) = n /\ \A j \in 1..n : s[j] = stack[j]
  <2> HIDE DEF n
  <2> QED
    BY <1>2, <1>3
<1> HIDE DEF s
<1>5. /\ Append(s, f) \in Seq(Evaluations) /\ Append(s, f) # <<>>
      /\ Len(Append(s, f)) = Len(s) + 1
      /\ \A j \in 1..Len(s) : Append(s, f)[j] = s[j]
      /\ Append(s, f)[Len(s) + 1] = f
  BY <1>3, AppendProperties
<1> QED
  BY <1>1, <1>4, <1>5 DEF Climb, s

\* Outcomes.
LEMMA OutcomeIs ==
    ASSUME NEW o \in Outcome
    PROVE  /\ o # Nil /\ o.kind \in {"ok", "deficient", "err", "skip"} /\ o.q \in Nat
           /\ o.gate \in Verdicts /\ o.cls \in Classes /\ o.late \in BOOLEAN /\ o.by \in Nat
  BY Walkable DEF Outcome, WalkAssumption

\* An error is an outcome of no reply.
LEMMA ErrIs ==
    ASSUME NEW cls \in Classes
    PROVE  /\ Err(cls) \in Outcome /\ Err(cls).kind = "err" /\ Err(cls).by = 0
           /\ Err(cls).gate = "pass"
  BY DEF Err, Outcome, Verdicts

\* An exception is classified as one of the classes.
LEMMA ClassifyIs == \A e : Classify(e) \in Classes
  BY DEF Classify, Classes

\* A reply comes as an outcome of its kind; only an error does not say which record it is.
LEMMA CameIs ==
    ASSUME NEW reply, NEW k \in Nat, reply.kind \in {"ok", "deficient", "err", "skip"},
           reply.q \in Nat, reply.gate \in Verdicts, reply.late \in BOOLEAN
    PROVE  /\ Came(reply, k) \in Outcome /\ Came(reply, k).kind = reply.kind
           /\ reply.kind = "err" => Came(reply, k).by = 0
           /\ reply.kind # "err" =>
                /\ Came(reply, k).by = k /\ Came(reply, k).q = reply.q
                /\ Came(reply, k).gate = reply.gate
<1>1. CASE reply.kind = "err"
  <2>1. Came(reply, k) = Err(Classify(reply.exc))
    BY <1>1 DEF Came
  <2> QED
    BY <1>1, <2>1, ClassifyIs, ErrIs
<1>2. CASE reply.kind # "err"
  <2>1. Came(reply, k) = [kind |-> reply.kind, q |-> reply.q, gate |-> reply.gate,
                          cls |-> "none", late |-> reply.late, by |-> k]
    BY <1>2 DEF Came
  <2> QED
    BY <1>2, <2>1 DEF Outcome, Classes
<1> QED
  BY <1>1, <1>2

\* A bare outcome is an error where the outcome was skipped, and the outcome itself
\* otherwise.
LEMMA BareIs ==
    ASSUME NEW o \in Outcome
    PROVE  /\ Bare(o) \in Outcome
           /\ o.kind = "skip" => Bare(o).kind = "err"
           /\ o.kind # "skip" => Bare(o) = o
  BY ErrIs DEF Bare, Classes

\* What a paged node hands up when a rung fails: an error exactly when it has no page.
Fallen(pages) == IF pages = <<>> THEN Err("exhausted") ELSE Document

\* A document passes the gate, and what a failed rung hands up is one or an error.
LEMMA PagedOutcomeIs ==
    /\ Document \in Outcome /\ Document.by = 0
    /\ Document.gate = "pass" /\ Document.kind = "ok"
    /\ \A pages : /\ Fallen(pages) \in Outcome /\ Fallen(pages).by = 0
                  /\ Fallen(pages).kind \in {"ok", "err"}
                  /\ pages # <<>> => Fallen(pages) = Document
<1>1. /\ Document \in Outcome /\ Document.by = 0
      /\ Document.gate = "pass" /\ Document.kind = "ok"
  BY DEF Document, Outcome, Classes, Verdicts
<1>2. Err("exhausted") \in Outcome /\ Err("exhausted").by = 0 /\ Err("exhausted").kind = "err"
  BY ErrIs DEF Classes, Err
<1> QED
  BY <1>1, <1>2 DEF Fallen

\* What a cascade keeps.
LEMMA BestKeptIs ==
    ASSUME NEW f \in Evaluations, NEW late \in BOOLEAN
    PROVE  /\ BestKept(f, late) \in Outcome
           /\ \/ BestKept(f, late).kind = "err"
              \/ /\ f.best # Nil /\ BestKept(f, late).kind = "deficient"
                 /\ BestKept(f, late).by = f.best.by /\ BestKept(f, late).q = f.best.q
<1>1. CASE f.best # Nil /\ Tree[f.node].on_quality_exhausted = "best_effort"
  <2>1. f.best \in Outcome
    BY <1>1 DEF Evaluations
  <2>2. BestKept(f, late) = [f.best EXCEPT !.kind = "deficient", !.late = @ \/ late]
    BY <1>1 DEF BestKept
  <2> QED
    BY <1>1, <2>1, <2>2 DEF Outcome
<1>2. CASE ~(f.best # Nil /\ Tree[f.node].on_quality_exhausted = "best_effort")
  <2>1. BestKept(f, late) = Err(IF late THEN "budget_exhausted" ELSE "exhausted")
    BY <1>2, Zenon DEF BestKept
  <2> QED
    BY <2>1, ErrIs DEF Classes
<1> QED
  BY <1>1, <1>2

\* Pages in the place of older ones.
LEMMA StitchedIs ==
    ASSUME NEW pages \in Gradings, NEW got \in Gradings
    PROVE  /\ Stitched(pages, got) \in Gradings
           /\ DOMAIN Stitched(pages, got) = DOMAIN pages \cup DOMAIN got
           /\ \A p \in DOMAIN got : Stitched(pages, got)[p] = got[p]
           /\ \A p \in DOMAIN pages \ DOMAIN got : Stitched(pages, got)[p] = pages[p]
           /\ got # <<>> => Stitched(pages, got) # <<>>
<1>1. PICK s \in SUBSET Pages : pages \in [s -> Grades]
  BY DEF Gradings
<1>2. PICK t \in SUBSET Pages : got \in [t -> Grades]
  BY DEF Gradings
<1>3. s \cup t \in SUBSET Pages /\ Stitched(pages, got) \in [s \cup t -> Grades]
  BY <1>1, <1>2 DEF Stitched
<1>4. got # <<>> => DOMAIN got # {}
  BY <1>2
<1> QED
  BY <1>1, <1>2, <1>3, <1>4, NothingGraded, Zenon DEF Gradings, Stitched

\* Replies, those of a rung with some page.
LEMMA ReplyIs ==
    ASSUME NEW r \in Reply
    PROVE  /\ r.kind \in {"ok", "deficient", "err", "skip"} /\ r.q \in Nat
           /\ r.gate \in Verdicts /\ r.late \in BOOLEAN /\ r.got \in Gradings
  BY DEF Reply

\* A skip, journalled, is a reply.
LEMMA RepliedIs == Replied \in Reply
  BY NothingGraded DEF Replied, Reply, Verdicts

\* A graded answer is a reply; review is a verdict of leaves alone.
LEMMA GradedIs ==
    ASSUME WalkTypeOK, NEW r \in Graded
    PROVE  r \in Reply /\ r.kind = "ok" /\ (Node.kind # "leaf" => r.gate # "review")
<1>1. Gates \subseteq Verdicts /\ (Node.kind # "leaf" => "review" \notin Gates)
  BY DEF Gates, Verdicts
<1>2. CASE r = Replied
  BY <1>2, RepliedIs DEF Replied
<1>3. CASE r # Replied
  <2>0. PICK g \in (Gates \ {"pass"}) \X {0, 1} : r = [Replied EXCEPT !.gate = g[1], !.q = g[2]]
    BY <1>3 DEF Graded
  <2> DEFINE gate == g[1]
             q == g[2]
  <2>1. gate \in Gates /\ q \in {0, 1} /\ r = [Replied EXCEPT !.gate = gate, !.q = q]
    BY <2>0
  <2> HIDE DEF gate, q
  <2>2. r = [kind |-> "ok", q |-> q, gate |-> gate, exc |-> Nil, late |-> FALSE, got |-> <<>>]
    BY <2>1 DEF Replied
  <2>3. q \in Nat /\ gate \in Verdicts
    BY <1>1, <2>1
  <2>4. r.gate = gate /\ r.kind = "ok"
    BY <2>2
  <2>5. r \in Reply
    BY <2>2, <2>3, NothingGraded DEF Reply
  <2> QED
    BY <1>1, <2>1, <2>4, <2>5
<1> QED
  BY <1>2, <1>3

\* What a call may be answered with; a rung's answer grades only pages it was asked.
LEMMA AnswersAre ==
    ASSUME WalkTypeOK, NEW r \in Answers
    PROVE  /\ r \in Reply /\ r.kind \in {"ok", "deficient"}
           /\ Node.kind = "leaf" => r.kind = "ok"
           /\ Node.kind = "parallel" /\ ~Rung => r.gate # "review"
           /\ Rung => /\ r.kind = "ok" /\ r.gate = "pass"
                      /\ DOMAIN r.got \subseteq Top.ask
<1>1. CASE Rung
  <2>1. PICK some \in SUBSET Top.ask : \E g \in [some -> Grades] :
          r = [Replied EXCEPT !.got = g]
    BY <1>1 DEF Answers
  <2>0. PICK got \in [some -> Grades] : r = [Replied EXCEPT !.got = got]
    BY <2>1
  <2>2. some \in SUBSET Pages /\ some \subseteq Top.ask
    BY StackIs DEF Evaluations
  <2>3. got \in Gradings
    BY <2>2, Zenon DEF Gradings
  <2>4. DOMAIN got = some
    BY <2>0
  <2> QED
    BY <1>1, <2>0, <2>2, <2>3, <2>4, RepliedIs DEF Reply, Replied
<1>2. CASE ~Rung
  <2>1. CASE r \in Graded
    BY <1>2, <2>1, GradedIs
  <2>2. CASE r \notin Graded
    <3>0. Node.kind = "parallel" /\ r \in Deficient
      BY <1>2, <2>2 DEF Answers
    <3>1. PICK d \in Graded \X BOOLEAN : r = [d[1] EXCEPT !.kind = "deficient", !.late = d[2]]
      BY <3>0 DEF Deficient
    <3> DEFINE g == d[1]
    <3>2. g \in Reply /\ g.gate # "review" /\ d[2] \in BOOLEAN
      BY <3>0, GradedIs
    <3> QED
      BY <1>2, <3>0, <3>1, <3>2 DEF Reply
  <2> QED
    BY <2>1, <2>2
<1> QED
  BY <1>1, <1>2
-----------------------------------------------------------------------------
(* What a step does to the stack                                           *)

LadderKinds == {"cascade", "paged"}
KindAt(j) == Tree[stack[j].node].kind
PathAt(k) == records[k].path
WalkEnded == place \in {"return", "done"}
Latest == walked[Len(walked)]

\* The innermost waits for what it went down to; the one below it is at the step that
\* it stands for.
ChainInv ==
    /\ \A j \in 1..(Len(stack) - 1) :
         /\ ~IsCall(stack[j].node)
         /\ KindAt(j) \in LadderKinds =>
              /\ stack[j].i \in 1..Len(Tree[stack[j].node].steps)
              /\ stack[j + 1].node = Tree[stack[j].node].steps[stack[j].i]
         /\ KindAt(j) = "paged" =>
              stack[j + 1].ask = IF ReadsWhole(stack[j].node, stack[j].i) THEN Pages
                                 ELSE stack[j].ask
    /\ place \in {"enter", "calling", "refused", "cycle"} \/ IsCall(Top.node) =>
         Top.i = 0 /\ Top.best = Nil /\ Top.pages = <<>>
    /\ place = "step" => Node.kind \in LadderKinds /\ Top.i >= 1
    /\ Node.kind = "paged" /\ place \in {"step", "return", "done"} =>
         Top.i \in 1..Len(Node.steps)
    /\ place = "calling" => IsCall(Top.node) /\ Recorded = {}

\* Of the stack, all but the innermost stays, and what it is about.
KeepsAllBut(d) ==
    \A j \in 1..(Len(stack) - d) : stack'[j] = stack[j]

Deepens ==
    /\ place \in {"enter", "step"} /\ place' = "enter" /\ ~IsCall(Top.node)
    /\ Len(stack') = Len(stack) + 1 /\ KeepsAllBut(1)
    /\ \E i \in Nat : stack'[Len(stack)] = [Top EXCEPT !.i = i] /\ (place = "step" => i = Top.i)
    /\ LET f == stack'[Len(stack) + 1] IN
       /\ f.i = 0 /\ f.best = Nil /\ f.pages = <<>>
       /\ Node.kind \in LadderKinds =>
            /\ place = "step" /\ Top.i \in 1..Len(Node.steps) /\ f.node = Node.steps[Top.i]
       /\ Node.kind = "paged" =>
            f.ask = IF ReadsWhole(Top.node, Top.i) THEN Pages ELSE Top.ask
    /\ UNCHANGED <<ret, records, walked>>

Opens ==
    /\ place = "enter" /\ place' = "step" /\ Node.kind \in LadderKinds
    /\ Len(stack') = Len(stack) /\ KeepsAllBut(1)
    /\ stack'[Len(stack)] = [Top EXCEPT !.i = 1]
    /\ UNCHANGED <<ret, records, walked>>

Halts ==
    /\ place = "enter" /\ place' \in {"cycle", "refused", "calling"}
    /\ place' = "calling" => IsCall(Top.node) /\ Recorded = {}
    /\ UNCHANGED <<stack, ret, records, walked>>

Yields ==
    /\ place \in {"enter", "step"} /\ place' = "return" /\ Node.kind # "paged"
    /\ \/ ret'.kind = "err" 
       \/ /\ place = "step" /\ ret'.kind = "deficient" /\ Top.best # Nil
          /\ ret'.by = Top.best.by /\ ret'.q = Top.best.q
    /\ UNCHANGED <<stack, records, walked>>

\* A record, of now or of then, is what the call came to.
ComesFrom(k, reply) ==
    /\ walked' = Append(walked, k) /\ ret'.kind = reply.kind
    /\ reply.kind # "err" => ret'.by = k /\ ret'.q = reply.q /\ ret'.gate = reply.gate

Replays(k) ==
    /\ place = "enter" /\ place' = "return" /\ IsCall(Top.node)
    /\ k \in Recorded /\ k = Min(Recorded)
    /\ ComesFrom(k, records[k].reply)
    /\ UNCHANGED <<stack, records>>

\* A call's fitting reply is put at the end of the ledger.
Appends(reply) ==
    /\ place \in {"enter", "calling"} /\ IsCall(Top.node)
    /\ Recorded = {} /\ reply \in Reply
    /\ Node.kind = "leaf" => reply.kind # "deficient"
    /\ Node.kind = "parallel" /\ ~Rung => reply.gate # "review"
    /\ Rung => /\ reply.kind # "deficient" /\ reply.gate = "pass"
               /\ reply.kind = "ok" => DOMAIN reply.got \subseteq Top.ask
    /\ records' = Append(records, [path |-> Path, ask |-> Top.ask, reply |-> reply])

Journals(reply) ==
    /\ Appends(reply) /\ place' = "return"
    /\ ComesFrom(Len(records) + 1, reply)
    /\ UNCHANGED stack

\* Back up, to what hands it up in turn, or to what takes its next step.
Rises(f) ==
    /\ place = "return" /\ place' = "return" /\ Len(stack) > 1
    /\ Len(stack') = Len(stack) - 1 /\ KeepsAllBut(2) /\ stack'[Len(stack) - 1] = f
    /\ f.node = Under.node /\ f.i = Under.i /\ f.best = Under.best
    /\ UNCHANGED <<records, walked>>

GoesOn(f) ==
    /\ place = "return" /\ place' = "step" /\ Len(stack) > 1
    /\ Len(stack') = Len(stack) - 1 /\ KeepsAllBut(2) /\ stack'[Len(stack) - 1] = f
    /\ Tree[Under.node].kind \in LadderKinds
    /\ f.node = Under.node /\ f.i = Under.i + 1
    /\ Tree[f.node].kind = "paged" => f.i <= Len(Tree[f.node].steps)
    /\ UNCHANGED <<records, walked>>

Quiet == UNCHANGED <<stack, place, ret, records, walked>>

\* Which rule of a route.
LEMMA RuleIs ==
    ASSUME NEW n \in DOMAIN Tree, Tree[n].kind = "route"
    PROVE  Rule(n) \in Nat /\ RouteOf(n) \in DOMAIN Tree
<1>1. /\ Tree[n].default \in DOMAIN Tree
      /\ Tree[n].rules \in Seq([when : Facts, use : DOMAIN Tree])
  BY Walkable DEF WalkAssumption, WellCompiled
<1>2. DOMAIN Tree[n].rules \subseteq Nat
  BY <1>1, LenProperties
<1>3. Matching(n) \in SUBSET Nat /\ Matching(n) \subseteq DOMAIN Tree[n].rules
  BY <1>2 DEF Matching
<1>4. CASE Matching(n) = {}
  BY <1>1, <1>4 DEF Rule, RouteOf
<1>5. CASE Matching(n) # {}
  <2>1. Min(Matching(n)) \in DOMAIN Tree[n].rules /\ Min(Matching(n)) \in Nat
    BY <1>3, <1>5, LeastIsOne
  <2>2. DOMAIN Tree[n].rules = 1..Len(Tree[n].rules)
    BY <1>1, LenProperties
  <2>3. Rule(n) = Min(Matching(n))
    BY <1>5 DEF Rule
  <2>4. Rule(n) # 0 /\ Rule(n) \in 1..Len(Tree[n].rules) /\ Rule(n) \in Nat
    BY <1>1, <2>1, <2>2, <2>3, LenProperties
  <2>5. Tree[n].rules[Rule(n)] \in [when : Facts, use : DOMAIN Tree]
    BY <1>1, <2>4, ElementOfSeq
  <2> QED
    BY <2>4, <2>5 DEF RouteOf
<1> QED
  BY <1>4, <1>5
\* Type correctness of the stack and of what is below it, after a step.
StackOK == stack \in Seq(Evaluations) /\ stack # <<>> /\ overdue \in 0..Len(stack)

\* Going down to a child is a Deepens.
LEMMA DownIs ==
    ASSUME WalkTypeOK, NEW n \in DOMAIN Tree, NEW i \in Nat, Down(n, i),
           place \in {"enter", "step"}, ~IsCall(Top.node), Node.kind # "paged",
           Node.kind = "cascade" =>
              place = "step" /\ Top.i \in 1..Len(Node.steps) /\ n = Node.steps[Top.i],
           place = "step" => i = Top.i,
           UNCHANGED <<ret, overdue, records, walked>>
    PROVE  Deepens /\ StackOK'
<1>0. Len(stack) \in Nat \ {0} /\ overdue \in 0..Len(stack)
  BY StackIs DEF WalkTypeOK
<1>1. stack' = Descend(stack, n, i) /\ place' = "enter"
  BY DEF Down
<1>2. /\ stack' \in Seq(Evaluations) /\ stack' # <<>> /\ Len(stack') = Len(stack) + 1
      /\ \A j \in 1..(Len(stack) - 1) : stack'[j] = stack[j]
      /\ stack'[Len(stack)] = [Top EXCEPT !.i = i]
      /\ stack'[Len(stack) + 1] = Frame(n)
  BY <1>1, DescendIs
<1>3. /\ Frame(n).node = n /\ Frame(n).i = 0 /\ Frame(n).best = Nil /\ Frame(n).pages = <<>>
  BY FrameIs
<1>4. StackOK'
  BY <1>0, <1>2 DEF StackOK
<1>5. Node.kind \in LadderKinds => Node.kind = "cascade"
  BY DEF LadderKinds
<1> QED
  BY <1>1, <1>2, <1>3, <1>4, <1>5 DEF Deepens, KeepsAllBut

\* Every kind of a node that goes down.
LEMMA NodeIs ==
    ASSUME WalkTypeOK
    PROVE  /\ Top.node \in DOMAIN Tree /\ WellCompiled(Top.node)
           /\ Len(stack) > 1 => Under.node \in DOMAIN Tree /\ WellCompiled(Under.node)
  BY StackIs, Walkable DEF WalkAssumption, Evaluations

\* A route goes down to the child it picks.
LEMMA RouteDeepens == ASSUME WalkTypeOK, EvalRoute PROVE Deepens /\ StackOK'
<1>1. Node.kind = "route" /\ Top.node \in DOMAIN Tree
  BY NodeIs DEF EvalRoute
<1>2. Rule(Top.node) \in Nat /\ RouteOf(Top.node) \in DOMAIN Tree
  BY <1>1, RuleIs DEF Node
<1> QED
  BY <1>1, <1>2, DownIs DEF EvalRoute, IsCall, Node

\* A decision goes down to the child it picks.
LEMMA DecideDeepens == ASSUME WalkTypeOK, EvalDecide PROVE Deepens /\ StackOK'
<1>1. Node.kind = "decide" /\ WellCompiled(Top.node)
  BY NodeIs DEF EvalDecide
<1>2. Node.otherwise \in DOMAIN Tree /\ Node.among \in Seq(DOMAIN Tree)
  BY <1>1 DEF WellCompiled, Node
<1>3. Len(Node.among) \in Nat
  BY <1>2, LenProperties
<1>4. PICK i \in 0..Len(Node.among) : Down(IF i = 0 THEN Node.otherwise ELSE Node.among[i], i)
  <2>1. Actions(0..Len(Node.among), 0) \subseteq 0..Len(Node.among)
    BY <1>3 DEF Actions
  <2> QED
    BY <2>1 DEF EvalDecide
<1>5. (IF i = 0 THEN Node.otherwise ELSE Node.among[i]) \in DOMAIN Tree /\ i \in Nat
  BY <1>2, <1>3, ElementOfSeq
<1> QED
  BY <1>1, <1>4, <1>5, DownIs DEF EvalDecide, IsCall, Node

\* A reference goes down to what it names, halts at a cycle, or yields an error.
LEMMA ReferenceMoves ==
    ASSUME WalkTypeOK, EvalReference
    PROVE  /\ Deepens \/ Halts \/ Yields
           /\ StackOK' /\ ret' \in Outcome \cup {Nil} /\ (place' = "return" => ret' # Nil)
<1>1. Node.kind = "use" /\ WellCompiled(Top.node) /\ place = "enter"
  BY NodeIs DEF EvalReference
<1>2. Referred[Node.name] \in DOMAIN Tree \cup {Nil}
  BY <1>1 DEF WellCompiled, Node
<1>3. StackOK /\ ret \in Outcome \cup {Nil}
  BY DEF WalkTypeOK, StackOK
<1>4. CASE Node.name \in Visited(stack)
  BY <1>1, <1>3, <1>4 DEF EvalReference, Halts, StackOK
<1>5. CASE Node.name \notin Visited(stack) /\ Referred[Node.name] = Nil
  <2>1. ret' = Err("exhausted") /\ place' = "return" /\ UNCHANGED <<stack, overdue, records, walked>>
    BY <1>5 DEF EvalReference, HandUp
  <2>2. ret' \in Outcome /\ ret'.kind = "err" /\ ret' # Nil
    BY <2>1, ErrIs, OutcomeIs DEF Classes
  <2> QED
    BY <1>1, <1>3, <2>1, <2>2 DEF Yields, StackOK
<1>6. CASE Node.name \notin Visited(stack) /\ Referred[Node.name] # Nil
  <2>1. Down(Referred[Node.name], 0) /\ UNCHANGED <<ret, overdue, records, walked>>
    BY <1>6 DEF EvalReference
  <2>2. Deepens /\ StackOK'
    BY <1>1, <1>2, <1>6, <2>1, DownIs DEF IsCall, Node
  <2> QED
    BY <1>3, <2>1, <2>2 DEF Deepens
<1> QED
  BY <1>4, <1>5, <1>6

\* A cascade goes down to its next step; with none left it yields its best, or an error.
LEMMA StepMoves ==
    ASSUME WalkTypeOK, ChainInv, NextStep
    PROVE  /\ Deepens \/ Yields
           /\ StackOK' /\ ret' \in Outcome \cup {Nil} /\ (place' = "return" => ret' # Nil)
<1>1. Node.kind = "cascade" /\ WellCompiled(Top.node) /\ place = "step" /\ Top.i \in Nat
      /\ Top.i >= 1
  BY NodeIs, StackIs DEF NextStep, ChainInv, Evaluations
<1>2. Node.steps \in Seq(DOMAIN Tree)
  BY <1>1 DEF WellCompiled, Node
<1>3. StackOK /\ ret \in Outcome \cup {Nil}
  BY DEF WalkTypeOK, StackOK
<1>4. CASE OutOfSteps(Top) \/ OutOfTime
  <2>1. /\ ret' = BestKept(Top, OutOfTime) /\ place' = "return"
        /\ UNCHANGED <<stack, overdue, records, walked>>
    BY <1>4 DEF NextStep, HandUp
  <2>2. Top \in Evaluations /\ OutOfTime \in BOOLEAN
    BY StackIs DEF OutOfTime, OutOfSteps
  <2>3. /\ ret' \in Outcome /\ ret' # Nil
        /\ \/ ret'.kind = "err"
           \/ /\ Top.best # Nil /\ ret'.kind = "deficient"
              /\ ret'.by = Top.best.by /\ ret'.q = Top.best.q
    BY <2>1, <2>2, BestKeptIs, OutcomeIs
  <2> QED
    BY <1>1, <1>3, <2>1, <2>3 DEF Yields, StackOK
<1>5. CASE ~(OutOfSteps(Top) \/ OutOfTime)
  <2>1. Down(Node.steps[Top.i], Top.i) /\ UNCHANGED <<ret, overdue, records, walked>>
    BY <1>5 DEF NextStep
  <2>2. Top.i \in 1..Len(Node.steps) /\ Len(Node.steps) \in Nat
    BY <1>1, <1>2, <1>5, LenProperties DEF OutOfSteps, Node
  <2>3. Node.steps[Top.i] \in DOMAIN Tree
    BY <1>2, <2>2, ElementOfSeq
  <2>4. Deepens /\ StackOK'
    BY <1>1, <2>1, <2>2, <2>3, DownIs DEF IsCall, Node
  <2> QED
    BY <1>3, <2>1, <2>4 DEF Deepens
<1> QED
  BY <1>4, <1>5

\* A paged node goes down to its next rung.
LEMMA RungDeepens == ASSUME WalkTypeOK, ChainInv, NextRung PROVE Deepens /\ StackOK'
<1>1. Node.kind = "paged" /\ WellCompiled(Top.node) /\ place = "step" /\ Top \in Evaluations
      /\ Top.i \in 1..Len(Node.steps)
  BY NodeIs, StackIs DEF NextRung, ChainInv, Evaluations
<1>2. Node.steps \in Seq(LeafNodes)
  BY <1>1 DEF WellCompiled, Node
<1>3. Node.steps[Top.i] \in DOMAIN Tree
  BY <1>1, <1>2, ElementOfSeq DEF LeafNodes
<1> DEFINE f == RungOf(Top)
           ask == IF ReadsWhole(Top.node, Top.i) THEN Pages ELSE Top.ask
<1>4. f = [Frame(Node.steps[Top.i]) EXCEPT !.ask = ask]
  BY DEF RungOf, Node
<1>5. ask \in SUBSET Pages
  BY <1>1 DEF Evaluations
<1> HIDE DEF ask
<1>6. /\ f \in Evaluations /\ f.node = Node.steps[Top.i] /\ f.i = 0 /\ f.best = Nil
      /\ f.pages = <<>> /\ f.ask = ask
  BY <1>3, <1>4, <1>5, FrameIs DEF Evaluations, Frame
<1> HIDE DEF f
<1>7. stack' = Append(stack, f) /\ place' = "enter" /\ UNCHANGED <<ret, overdue, records, walked>>
  BY DEF NextRung, f
<1>8. /\ stack' \in Seq(Evaluations) /\ stack' # <<>> /\ Len(stack') = Len(stack) + 1
      /\ \A j \in 1..Len(stack) : stack'[j] = stack[j]
      /\ stack'[Len(stack) + 1] = f
  BY <1>6, <1>7, AppendProperties DEF WalkTypeOK
<1>9. Len(stack) \in Nat \ {0} /\ overdue \in 0..Len(stack)
  BY StackIs DEF WalkTypeOK
<1>10. Top.i \in Nat /\ [Top EXCEPT !.i = Top.i] = Top
  BY <1>1 DEF Evaluations
<1>11. stack'[Len(stack)] = [Top EXCEPT !.i = Top.i]
  BY <1>8, <1>9, <1>10 DEF Top
<1>12. StackOK'
  BY <1>7, <1>8, <1>9 DEF StackOK
<1>13. ~IsCall(Top.node)
  BY <1>1 DEF IsCall, Node
<1> QED
  BY <1>1, <1>6, <1>7, <1>8, <1>9, <1>10, <1>11, <1>12, <1>13 DEF Deepens, KeepsAllBut, ask

\* Entering a cascade or a paged cascade opens its first step.
LEMMA EnterOpens == ASSUME WalkTypeOK, EnterSteps PROVE Opens /\ StackOK'
<1>1. /\ Len(stack) \in Nat \ {0} /\ overdue \in 0..Len(stack) /\ Top \in Evaluations
      /\ stack \in Seq(Evaluations)
  BY StackIs DEF WalkTypeOK
<1> DEFINE f == [Top EXCEPT !.i = 1]
<1>2. f \in Evaluations
  BY <1>1 DEF Evaluations
<1>3. stack' = [stack EXCEPT ![Len(stack)] = f]
  BY DEF EnterSteps, Top
<1> HIDE DEF f
<1>4. /\ stack' \in Seq(Evaluations) /\ Len(stack') = Len(stack)
      /\ \A j \in 1..Len(stack) : stack'[j] = IF j = Len(stack) THEN f ELSE stack[j]
  BY <1>1, <1>2, <1>3, ExceptSeq
<1>5. stack' # <<>>
  BY <1>1, <1>4, EmptySeq
<1> QED
  BY <1>1, <1>4, <1>5 DEF Opens, EnterSteps, StackOK, KeepsAllBut, LadderKinds, f

\* The deadline of what ends goes with it.
LEMMA PopIs ==
    ASSUME WalkTypeOK, Len(stack) > 1, NEW f \in Evaluations, Pop(f)
    PROVE  /\ StackOK' /\ Len(stack') = Len(stack) - 1 /\ KeepsAllBut(2)
           /\ stack'[Len(stack) - 1] = f
<1>1. /\ stack' \in Seq(Evaluations) /\ stack' # <<>> /\ Len(stack') = Len(stack) - 1
      /\ \A j \in 1..(Len(stack) - 2) : stack'[j] = stack[j]
      /\ stack'[Len(stack) - 1] = f
  BY ClimbIs DEF Pop
<1>2. Len(stack) \in Nat \ {0} /\ overdue \in 0..Len(stack)
  BY StackIs DEF WalkTypeOK
<1>3. overdue' \in 0..Len(stack')
  BY <1>1, <1>2 DEF Pop
<1> QED
  BY <1>1, <1>3 DEF StackOK, KeepsAllBut

\* A resolved node hands its outcome up.
LEMMA ResolvesIs ==
    ASSUME WalkTypeOK, place = "return", Len(stack) > 1, NEW o \in Outcome, Resolves(o),
           UNCHANGED <<records, walked>>
    PROVE  Rises(Under) /\ StackOK' /\ ret' = o
<1>1. Under \in Evaluations
  BY StackIs
<1> QED
  BY <1>1, PopIs DEF Resolves, HandUp, Rises

\* A ladder that goes on climbs to its next step, with nothing in hand.
LEMMA ClimbsToIs ==
    ASSUME WalkTypeOK, place = "return", Len(stack) > 1, NEW f \in Evaluations, ClimbsTo(f),
           f.node = Under.node, f.i = Under.i + 1, Tree[Under.node].kind \in LadderKinds,
           Tree[f.node].kind = "paged" => f.i <= Len(Tree[f.node].steps),
           UNCHANGED <<records, walked>>
    PROVE  GoesOn(f) /\ StackOK' /\ ret' = Nil
  BY PopIs DEF ClimbsTo, GoesOn

\* A route, a decision or a reference hands its child's outcome up, bare.
LEMMA PassUpRises ==
    ASSUME WalkTypeOK, PassUp
    PROVE  Rises(Under) /\ StackOK' /\ ret' = Bare(ret) /\ ret' \in Outcome
<1>1. ret \in Outcome /\ place = "return" /\ Len(stack) > 1
  BY DEF WalkTypeOK, PassUp, Above, Below
<1>2. Bare(ret) \in Outcome
  BY <1>1, BareIs
<1> QED
  BY <1>1, <1>2, ResolvesIs DEF PassUp

\* What a cascade makes of a step that ended.
LEMMA FramesOf ==
    ASSUME NEW f \in Evaluations, NEW out \in Outcome
    PROVE  /\ Passed(f) \in Evaluations
           /\ Passed(f).node = f.node /\ Passed(f).i = f.i + 1 /\ Passed(f).best = f.best
           /\ Passed(f).pages = f.pages
           /\ Retaining(f, out) \in Evaluations
           /\ Retaining(f, out).node = f.node /\ Retaining(f, out).i = f.i + 1
           /\ Retaining(f, out).pages = f.pages
           /\ Retaining(f, out).best = IF Better(out, f.best) THEN out ELSE f.best
<1>1. f.i + 1 \in Nat /\ f.best \in Outcome \cup {Nil}
  BY DEF Evaluations
<1>2. (IF Better(out, f.best) THEN out ELSE f.best) \in Outcome \cup {Nil}
  BY <1>1
<1>3. Passed(f) = [f EXCEPT !.i = f.i + 1]
  BY DEF Passed
<1>4. Retaining(f, out) = [f EXCEPT !.i = f.i + 1,
                                    !.best = IF Better(out, f.best) THEN out ELSE f.best]
  BY DEF Retaining
<1> QED
  BY <1>1, <1>2, <1>3, <1>4 DEF Evaluations

\* A step of a cascade ends: the outcome goes on up, or the next step is taken, having
\* kept the outcome or not.
Resolved ==
    /\ Rises(Under) /\ ret' \in Outcome
    /\ ret'.kind = ret.kind /\ ret'.by = ret.by /\ ret'.q = ret.q
    /\ ret' = ret \/ (InReview(Top.node, ret) /\ ret'.gate = "pass")
    /\ ret.kind # "skip"
    /\ ret.kind \in {"ok", "deficient"} => ~Escalates(Top.node, ret)

\* A cascade resolves, or goes on past a failed step, or goes on retaining the answer.
LEMMA CascadeStep ==
    ASSUME WalkTypeOK, StepSkipped \/ StepFailed \/ StepReviewed \/ StepAnswered
    PROVE  /\ StackOK' /\ Tree[Under.node].kind = "cascade"
           /\ \/ Resolved
              \/ /\ GoesOn(Passed(Under)) /\ ret.kind \in {"skip", "err"} /\ ret' = Nil
              \/ /\ GoesOn(Retaining(Under, ret)) /\ ret' = Nil
                 /\ InReview(Top.node, ret) \/ Escalates(Top.node, ret)
                 /\ ret.kind \in {"ok", "deficient"}
<1>1. /\ place = "return" /\ Len(stack) > 1 /\ Tree[Under.node].kind = "cascade"
      /\ ret \in Outcome /\ UNCHANGED <<records, walked>>
  BY DEF WalkTypeOK, StepSkipped, StepFailed, StepReviewed, StepAnswered, Above, Below, Under
<1>2. Under \in Evaluations /\ Passed(Under) \in Evaluations /\ Retaining(Under, ret) \in Evaluations
      /\ Under.i \in Nat
  BY <1>1, StackIs, FramesOf DEF Evaluations
<1>3. /\ Passed(Under).node = Under.node /\ Passed(Under).i = Under.i + 1
      /\ Retaining(Under, ret).node = Under.node /\ Retaining(Under, ret).i = Under.i + 1
  BY <1>1, <1>2, FramesOf DEF Evaluations
<1>4. Tree[Under.node].kind \in LadderKinds /\ Tree[Under.node].kind # "paged"
  BY <1>1 DEF LadderKinds
<1>5. ASSUME ClimbsTo(Passed(Under)) PROVE GoesOn(Passed(Under)) /\ StackOK' /\ ret' = Nil
  BY <1>1, <1>2, <1>3, <1>4, <1>5, ClimbsToIs
<1>6. ASSUME ClimbsTo(Retaining(Under, ret))
      PROVE GoesOn(Retaining(Under, ret)) /\ StackOK' /\ ret' = Nil
  BY <1>1, <1>2, <1>3, <1>4, <1>6, ClimbsToIs
<1>7. ASSUME NEW o \in Outcome, Resolves(o) PROVE Rises(Under) /\ StackOK' /\ ret' = o
  BY <1>1, <1>7, ResolvesIs
<1>8. CASE StepSkipped
  BY <1>1, <1>5, <1>8 DEF StepSkipped
<1>9. CASE StepFailed
  <2>1. CASE FailsCascade(ret.cls, Top.node, Under.node)
    <3>1. Rises(Under) /\ StackOK' /\ ret' = ret
      BY <1>1, <1>7, <1>9, <2>1 DEF StepFailed
    <3> QED
      BY <1>1, <1>9, <3>1 DEF StepFailed, Resolved
  <2>2. CASE ~FailsCascade(ret.cls, Top.node, Under.node)
    BY <1>1, <1>5, <1>9, <2>2 DEF StepFailed
  <2> QED
    BY <2>1, <2>2
<1>10. CASE StepReviewed
  <2>0. InReview(Top.node, ret) /\ ret.kind = "ok" /\ ret.gate = "review"
    BY <1>10 DEF StepReviewed, InReview
  <2>1. CASE ClimbsTo(Retaining(Under, ret))
    BY <1>1, <1>6, <2>0, <2>1
  <2>2. CASE Resolves([ret EXCEPT !.gate = "pass"])
    <3>1. [ret EXCEPT !.gate = "pass"] \in Outcome
      BY <1>1 DEF Outcome, Verdicts
    <3>2. Rises(Under) /\ StackOK' /\ ret' = [ret EXCEPT !.gate = "pass"]
      BY <1>7, <2>2, <3>1
    <3>3. /\ ret'.kind = ret.kind /\ ret'.by = ret.by /\ ret'.q = ret.q /\ ret'.gate = "pass"
      BY <1>1, <3>2 DEF Outcome
    <3> QED
      BY <1>1, <2>0, <3>1, <3>2, <3>3 DEF Resolved, Escalates
  <2> QED
    BY <1>10, <2>1, <2>2 DEF StepReviewed
<1>11. CASE StepAnswered
  <2>1. CASE Escalates(Top.node, ret)
    BY <1>1, <1>6, <1>11, <2>1 DEF StepAnswered
  <2>2. CASE ~Escalates(Top.node, ret)
    <3>1. Rises(Under) /\ StackOK' /\ ret' = ret
      BY <1>1, <1>7, <1>11, <2>2 DEF StepAnswered
    <3> QED
      BY <1>1, <1>11, <2>2, <3>1 DEF StepAnswered, Resolved
  <2> QED
    BY <2>1, <2>2
<1> QED
  BY <1>8, <1>9, <1>10, <1>11
\* What is at a call's return is the outcome of the record just walked over, or an error.
CameInv ==
    place = "return" /\ IsCall(Top.node) /\ ret.kind # "err" =>
        /\ walked # <<>> /\ ret.by = Latest /\ PathAt(Latest) = Path
        /\ ret.kind = Record(Latest).kind /\ ret.q = Record(Latest).q
        /\ ret.gate = Record(Latest).gate

\* What the records are.
LEMMA RecordsAre ==
    ASSUME WalkTypeOK
    PROVE  /\ Len(records) \in Nat /\ DOMAIN records = 1..Len(records)
           /\ Len(walked) \in Nat /\ DOMAIN walked = 1..Len(walked)
           /\ WalkedOver \subseteq DOMAIN records
           /\ walked # <<>> => Len(walked) \in 1..Len(walked) /\ Latest \in WalkedOver
           /\ \A k \in DOMAIN records :
                /\ records[k] \in Entries /\ Record(k) \in Reply
                /\ PathAt(k) \in Seq((DOMAIN Tree) \X Nat)
                /\ Len(PathAt(k)) \in Nat /\ DOMAIN PathAt(k) = 1..Len(PathAt(k))
                /\ \A m \in 1..Len(PathAt(k)) :
                     PathAt(k)[m][1] \in DOMAIN Tree /\ PathAt(k)[m][2] \in Nat
<1>1. /\ Len(records) \in Nat /\ DOMAIN records = 1..Len(records)
      /\ \A k \in 1..Len(records) : records[k] \in Entries
  BY LenProperties, ElementOfSeq DEF WalkTypeOK
<1>2. /\ Len(walked) \in Nat /\ DOMAIN walked = 1..Len(walked)
      /\ \A k \in 1..Len(walked) : walked[k] \in DOMAIN records
  BY LenProperties, ElementOfSeq DEF WalkTypeOK
<1>3. walked # <<>> => Len(walked) # 0
  BY EmptySeq DEF WalkTypeOK
<1>4. ASSUME NEW e \in Entries
      PROVE  /\ e.reply \in Reply /\ e.path \in Seq((DOMAIN Tree) \X Nat)
             /\ Len(e.path) \in Nat /\ DOMAIN e.path = 1..Len(e.path)
             /\ \A m \in 1..Len(e.path) : e.path[m][1] \in DOMAIN Tree /\ e.path[m][2] \in Nat
  <2>1. e.reply \in Reply /\ e.path \in Seq((DOMAIN Tree) \X Nat)
    BY DEF Entries
  <2>2. \A m \in 1..Len(e.path) : e.path[m] \in (DOMAIN Tree) \X Nat
    BY <2>1, ElementOfSeq
  <2> QED
    BY <2>1, <2>2, LenProperties
<1>5. WalkedOver \subseteq DOMAIN records
  BY <1>2 DEF WalkedOver
<1>6. walked # <<>> => Len(walked) \in 1..Len(walked) /\ Latest \in WalkedOver
  BY <1>2, <1>3 DEF WalkedOver, Latest
<1>7. \A k \in DOMAIN records : records[k] \in Entries
  BY <1>1
<1> QED
  BY <1>1, <1>2, <1>4, <1>5, <1>6, <1>7 DEF Record, PathAt

\* Sequences with the same domain are as long.
LEMMA SameLength ==
    ASSUME NEW a \in Nat, NEW b \in Nat, 1..a = 1..b
    PROVE  a = b
<1>1. a <= b
  <2>1. a = 0 \/ a \in 1..a
    OBVIOUS
  <2> QED
    BY <2>1
<1>2. b <= a
  <2>1. b = 0 \/ b \in 1..b
    OBVIOUS
  <2> QED
    BY <2>1
<1> QED
  BY <1>1, <1>2

\* The path is the stack's nodes and steps, place by place.
LEMMA PathIs ==
    ASSUME WalkTypeOK
    PROVE  /\ Path \in Seq((DOMAIN Tree) \X Nat) /\ Len(Path) = Len(stack)
           /\ DOMAIN Path = 1..Len(stack)
           /\ \A m \in 1..Len(stack) :
                /\ Path[m] = <<stack[m].node, stack[m].i>>
                /\ Path[m][1] = stack[m].node /\ Path[m][2] = stack[m].i
<1>1. /\ Len(stack) \in Nat /\ DOMAIN stack = 1..Len(stack)
      /\ \A m \in 1..Len(stack) : stack[m].node \in DOMAIN Tree /\ stack[m].i \in Nat
  BY StackIs
<1>2. Path = [m \in 1..Len(stack) |-> <<stack[m].node, stack[m].i>>]
  BY <1>1 DEF Path, PathOf
<1>3. Path \in [1..Len(stack) -> (DOMAIN Tree) \X Nat]
  BY <1>1, <1>2
<1>4. Path \in Seq((DOMAIN Tree) \X Nat)
  BY <1>1, <1>3, SeqDef
<1>5. DOMAIN Path = 1..Len(Path) /\ Len(Path) \in Nat /\ DOMAIN Path = 1..Len(stack)
  BY <1>3, <1>4, LenProperties
<1>6. Len(Path) = Len(stack)
  BY <1>1, <1>5, SameLength, Zenon
<1> QED
  BY <1>2, <1>3, <1>4, <1>5, <1>6

\* What is under a paged node is its rung: a leaf, asked what that rung is to read.
LEMMA RungIs ==
    ASSUME WalkTypeOK, ChainInv, Len(stack) > 1, Tree[Under.node].kind = "paged"
    PROVE  /\ Node.kind = "leaf" /\ IsCall(Top.node) /\ Rung
           /\ Tree[Under.node].steps \in Seq(LeafNodes)
           /\ Len(Tree[Under.node].steps) \in Nat
           /\ Under.i \in 1..Len(Tree[Under.node].steps)
           /\ Top.node = Tree[Under.node].steps[Under.i]
           /\ Top.ask = IF ReadsWhole(Under.node, Under.i) THEN Pages ELSE Under.ask
<1>1. Len(stack) \in Nat
  BY StackIs
<1>2. /\ Under.i \in 1..Len(Tree[Under.node].steps)
      /\ Top.node = Tree[Under.node].steps[Under.i]
      /\ Top.ask = IF ReadsWhole(Under.node, Under.i) THEN Pages ELSE Under.ask
  BY <1>1 DEF ChainInv, Under, Top, KindAt, LadderKinds
<1>3. Tree[Under.node].steps \in Seq(LeafNodes)
  BY NodeIs DEF WellCompiled
<1>4. Top.node \in LeafNodes
  BY <1>2, <1>3, ElementOfSeq
<1>5. Len(Tree[Under.node].steps) \in Nat
  BY <1>3, LenProperties
<1> QED
  BY <1>2, <1>3, <1>4, <1>5 DEF LeafNodes, Node, IsCall, Rung, Below, Under

\* A rung ends: with the pages it stitched the cascade goes on to the next, or ends.
RungStitched(pages) ==
    /\ ret.kind = "ok" /\ pages = Stitched(Under.pages, Record(ret.by).got)
    /\ \/ /\ IsLastRung(Under, Top.node) \/ Failing(pages, Top.node) = {}
          /\ Rises(Stitch(Under, pages)) /\ ret' = Document
       \/ /\ ~IsLastRung(Under, Top.node) /\ Failing(pages, Top.node) # {}
          /\ GoesOn(NextAsk(Under, pages, Top.node)) /\ ret' = Nil

\* Stitching changes an evaluation's pages alone; asking on changes its step and what it
\* asks too.
LEMMA PagesFrames ==
    ASSUME NEW f \in Evaluations, NEW pages \in Gradings, NEW n
    PROVE  /\ Stitch(f, pages) \in Evaluations
           /\ Stitch(f, pages).node = f.node /\ Stitch(f, pages).i = f.i
           /\ Stitch(f, pages).best = f.best /\ Stitch(f, pages).pages = pages
           /\ NextAsk(f, pages, n) \in Evaluations
           /\ NextAsk(f, pages, n).node = f.node /\ NextAsk(f, pages, n).i = f.i + 1
           /\ NextAsk(f, pages, n).best = f.best /\ NextAsk(f, pages, n).pages = pages
           /\ NextAsk(f, pages, n).ask = Failing(pages, n)
<1>1. Failing(pages, n) \in SUBSET Pages
  BY DEF Failing, Gradings
<1>2. f.i + 1 \in Nat
  BY DEF Evaluations
<1>3. Stitch(f, pages) = [f EXCEPT !.pages = pages]
  BY DEF Stitch
<1>4. NextAsk(f, pages, n) = [f EXCEPT !.pages = pages, !.ask = Failing(pages, n), !.i = f.i + 1]
  BY DEF NextAsk
<1> QED
  BY <1>1, <1>2, <1>3, <1>4 DEF Evaluations

\* A rung's answer is stitched into the pages of its paged node.
LEMMA RungAnsweredMoves ==
    ASSUME WalkTypeOK, ChainInv, CameInv, RungAnswered
    PROVE  /\ StackOK' /\ Tree[Under.node].kind = "paged" /\ ret' \in Outcome \cup {Nil}
           /\ place' = "return" => ret' # Nil
           /\ \E pages \in Gradings : RungStitched(pages)
<1>1. /\ place = "return" /\ Len(stack) > 1 /\ Tree[Under.node].kind = "paged"
      /\ ret \in Outcome /\ ret.kind = "ok" /\ UNCHANGED <<records, walked>>
  BY DEF WalkTypeOK, RungAnswered, Above, Below, Under
<1>2. /\ Under \in Evaluations /\ Under.pages \in Gradings /\ Under.i \in Nat
  BY <1>1, StackIs DEF Evaluations
<1>3. /\ Under.i \in 1..Len(Tree[Under.node].steps) /\ IsCall(Top.node)
      /\ Len(Tree[Under.node].steps) \in Nat
  BY <1>1, RungIs
<1>4. ret.by = Latest /\ walked # <<>>
  BY <1>1, <1>3 DEF CameInv
<1>5. Record(ret.by).got \in Gradings
  BY <1>4, RecordsAre, ReplyIs
<1> DEFINE pages == Stitched(Under.pages, Record(ret.by).got)
<1>6. pages \in Gradings
  BY <1>2, <1>5, StitchedIs
<1>7. IF IsLastRung(Under, Top.node) \/ Failing(pages, Top.node) = {}
      THEN Pop(Stitch(Under, pages)) /\ HandUp(Document)
      ELSE ClimbsTo(NextAsk(Under, pages, Top.node))
  BY DEF RungAnswered, Record
<1> HIDE DEF pages
<1>8. /\ Stitch(Under, pages) \in Evaluations /\ NextAsk(Under, pages, Top.node) \in Evaluations
      /\ Stitch(Under, pages).node = Under.node /\ Stitch(Under, pages).i = Under.i
      /\ Stitch(Under, pages).best = Under.best
      /\ NextAsk(Under, pages, Top.node).node = Under.node
      /\ NextAsk(Under, pages, Top.node).i = Under.i + 1
  BY <1>2, <1>6, PagesFrames
<1>9. CASE IsLastRung(Under, Top.node) \/ Failing(pages, Top.node) = {}
  <2>1. Pop(Stitch(Under, pages)) /\ HandUp(Document)
    BY <1>7, <1>9
  <2>2. /\ StackOK' /\ Len(stack') = Len(stack) - 1 /\ KeepsAllBut(2)
        /\ stack'[Len(stack) - 1] = Stitch(Under, pages)
    BY <1>1, <1>8, <2>1, PopIs
  <2>3. Document \in Outcome /\ Document # Nil
    BY PagedOutcomeIs, OutcomeIs
  <2>4. Rises(Stitch(Under, pages)) /\ ret' = Document
    BY <1>1, <1>8, <2>1, <2>2 DEF Rises, HandUp
  <2>5. RungStitched(pages)
    BY <1>1, <1>9, <2>4 DEF RungStitched, pages
  <2> QED
    BY <1>1, <1>6, <2>2, <2>3, <2>4, <2>5
<1>10. CASE ~(IsLastRung(Under, Top.node) \/ Failing(pages, Top.node) = {})
  <2>1. ClimbsTo(NextAsk(Under, pages, Top.node))
    BY <1>7, <1>10
  <2>2. Under.i + 1 <= Len(Tree[Under.node].steps)
    BY <1>3, <1>10 DEF IsLastRung
  <2>3. GoesOn(NextAsk(Under, pages, Top.node)) /\ StackOK' /\ ret' = Nil
    BY <1>1, <1>8, <2>1, <2>2, ClimbsToIs DEF LadderKinds
  <2>4. RungStitched(pages)
    BY <1>1, <1>10, <2>3 DEF RungStitched, pages
  <2> QED
    BY <1>1, <1>6, <2>3, <2>4 DEF GoesOn
<1> QED
  BY <1>9, <1>10

\* A failed rung ends its paged node with the pages there are.
LEMMA RungFailedRises ==
    ASSUME WalkTypeOK, RungFailed
    PROVE  /\ Rises(Under) /\ StackOK' /\ Tree[Under.node].kind = "paged"
           /\ ret' = Fallen(Under.pages) /\ ret' \in Outcome
<1>1. /\ place = "return" /\ Len(stack) > 1 /\ Tree[Under.node].kind = "paged"
      /\ UNCHANGED <<records, walked>>
  BY DEF RungFailed, Above, Below, Under
<1>2. Fallen(Under.pages) \in Outcome
  BY PagedOutcomeIs
<1> QED
  BY <1>1, <1>2, ResolvesIs DEF RungFailed, Fallen

\* A replayed call comes with a record of its own path.
LEMMA ReplayReplays ==
    ASSUME WalkTypeOK, ReplayCall
    PROVE  \E k \in DOMAIN records : Replays(k) /\ ret' \in Outcome
<1>1. Recorded \in SUBSET Nat /\ Recorded # {} /\ Recorded \subseteq DOMAIN records
  <2>1. Recorded # {}
    BY Zenon DEF ReplayCall
  <2>2. Recorded \subseteq DOMAIN records
    BY Zenon DEF Recorded
  <2>3. DOMAIN records \subseteq Nat
    <3>1. DOMAIN records = 1..Len(records)
      BY RecordsAre, Zenon
    <3>2. 1..Len(records) \subseteq Nat
      OBVIOUS
    <3> QED
      BY <3>1, <3>2, Zenon
  <2> QED
    BY <2>1, <2>2, <2>3, Zenon
<1> DEFINE k == Min(Recorded)
           reply == records[k].reply
           again == IF reply.kind = "err" THEN [reply EXCEPT !.exc = Rebuilt(@)] ELSE reply
<1>2. k \in Recorded /\ k \in Nat /\ k \in DOMAIN records
  BY <1>1, LeastIsOne
<1>3. reply \in Reply
  BY <1>2, RecordsAre DEF Record
<1>4. /\ again.kind = reply.kind /\ again.q = reply.q /\ again.gate = reply.gate
      /\ again.late = reply.late
  BY <1>3 DEF Reply
<1>5. place' = "return" /\ ret' = Came(again, k) /\ walked' = Append(walked, k)
  BY DEF ReplayCall, HandUp
<1>6. place = "enter" /\ IsCall(Top.node) /\ UNCHANGED <<stack, records>>
  BY DEF ReplayCall, Dispatches, MayRun
<1> HIDE DEF k, again
<1>7. /\ Came(again, k) \in Outcome /\ Came(again, k).kind = reply.kind
      /\ reply.kind # "err" =>
           /\ Came(again, k).by = k /\ Came(again, k).q = reply.q
           /\ Came(again, k).gate = reply.gate
  BY <1>2, <1>3, <1>4, CameIs, ReplyIs
<1>8. ComesFrom(k, records[k].reply)
  BY <1>5, <1>7 DEF ComesFrom
<1>9. Replays(k)
  BY <1>2, <1>5, <1>6, <1>8, Zenon DEF Replays, k
<1> QED
  BY <1>2, <1>5, <1>7, <1>9

\* A call settled with a fitting reply journals it.
LEMMA SettlesIs ==
    ASSUME WalkTypeOK, place \in {"enter", "calling"}, IsCall(Top.node), Recorded = {},
           NEW reply \in Reply, Settles(reply), UNCHANGED stack,
           Node.kind = "leaf" => reply.kind # "deficient",
           Node.kind = "parallel" /\ ~Rung => reply.gate # "review",
           Rung => /\ reply.kind \in {"ok", "err"} /\ reply.gate = "pass"
                   /\ reply.kind = "ok" => DOMAIN reply.got \subseteq Top.ask
    PROVE  Journals(reply) /\ ret' \in Outcome
<1> DEFINE k == Len(records) + 1
<1>1. k \in Nat
  BY RecordsAre
<1>2. /\ records' = Append(records, [path |-> Path, ask |-> Top.ask, reply |-> reply])
      /\ walked' = Append(walked, k) /\ place' = "return" /\ ret' = Came(reply, k)
  BY DEF Settles, Entry, HandUp
<1>3. /\ Came(reply, k) \in Outcome /\ Came(reply, k).kind = reply.kind
      /\ reply.kind # "err" =>
           /\ Came(reply, k).by = k /\ Came(reply, k).q = reply.q
           /\ Came(reply, k).gate = reply.gate
  BY <1>1, CameIs, ReplyIs
<1>4. ComesFrom(Len(records) + 1, reply)
  BY <1>2, <1>3 DEF ComesFrom
<1> QED
  BY <1>2, <1>3, <1>4 DEF Journals, Appends

\* A skipped call is journalled as such.
LEMMA SkipJournals ==
    ASSUME WalkTypeOK, Skip
    PROVE  \E reply \in Reply : Journals(reply) /\ ret' \in Outcome
<1> DEFINE reply == [Replied EXCEPT !.kind = "skip"]
<1>1. reply \in Reply /\ reply.kind = "skip"
  BY RepliedIs DEF Reply, Replied
<1>2. /\ place = "enter" /\ IsCall(Top.node) /\ Recorded = {} /\ Settles(reply)
      /\ UNCHANGED stack /\ Node.kind = "leaf" /\ ~Rung
  BY DEF Skip, Dispatches, MayRun, Lacks
<1> HIDE DEF reply
<1>3. Journals(reply) /\ ret' \in Outcome
  BY <1>1, <1>2, SettlesIs
<1> QED
  BY <1>1, <1>3

\* A call that returns is journalled with what it returned.
LEMMA ReturnJournals ==
    ASSUME WalkTypeOK, ChainInv, ReturnCall
    PROVE  \E reply \in Reply : Journals(reply) /\ ret' \in Outcome
<1>1. /\ place = "calling" /\ IsCall(Top.node) /\ Recorded = {} /\ UNCHANGED stack
  BY DEF ReturnCall, ChainInv
<1>2. CASE \E reply \in Answers : Settles(reply)
  <2>1. PICK reply \in Answers : Settles(reply)
    BY <1>2
  <2>2. /\ reply \in Reply /\ reply.kind \in {"ok", "deficient"}
        /\ Node.kind = "leaf" => reply.kind = "ok"
        /\ Node.kind = "parallel" /\ ~Rung => reply.gate # "review"
        /\ Rung => /\ reply.kind = "ok" /\ reply.gate = "pass"
                   /\ DOMAIN reply.got \subseteq Top.ask
    BY <2>1, AnswersAre
  <2>3. Journals(reply) /\ ret' \in Outcome
    BY <1>1, <2>1, <2>2, SettlesIs
  <2> QED
    BY <2>2, <2>3
<1>3. CASE \E e \in Errors : Settles([Replied EXCEPT !.kind = "err", !.exc = e])
  <2>1. PICK e \in Errors : Settles([Replied EXCEPT !.kind = "err", !.exc = e])
    BY <1>3
  <2> DEFINE reply == [Replied EXCEPT !.kind = "err", !.exc = e]
  <2>2. reply \in Reply /\ reply.kind = "err" /\ reply.gate = "pass"
    BY RepliedIs DEF Reply, Replied
  <2> HIDE DEF reply
  <2>3. Journals(reply) /\ ret' \in Outcome
    BY <1>1, <2>1, <2>2, SettlesIs DEF reply
  <2> QED
    BY <2>2, <2>3
<1> QED
  BY <1>2, <1>3 DEF ReturnCall

\* The process dies and the run is resumed, a call under way journalled or not.
Again ==
    /\ Restarts /\ place \notin {"done", "refused", "cycle"}
    /\ records' = records \/ \E reply \in Reply : Appends(reply)

\* What a walk may do next.
Moves ==
    \/ Deepens \/ Opens \/ Halts \/ Yields \/ Quiet
    \/ \E k \in DOMAIN records : Replays(k)
    \/ \E reply \in Reply : Journals(reply)
    \/ PassUp /\ Rises(Under) /\ ret' = Bare(ret)
    \/ FinishWalk
    \/ /\ Tree[Under.node].kind = "cascade"
       /\ \/ Resolved
          \/ GoesOn(Passed(Under)) /\ ret.kind \in {"skip", "err"}
          \/ /\ GoesOn(Retaining(Under, ret)) /\ ret.kind \in {"ok", "deficient"}
             /\ InReview(Top.node, ret) \/ Escalates(Top.node, ret)
    \/ /\ Tree[Under.node].kind = "paged"
       /\ \/ \E pages \in Gradings : RungStitched(pages)
          \/ RungFailed /\ Rises(Under) /\ ret' = Fallen(Under.pages)
    \/ Again

\* A walk that dies goes on in the run resumed, with its interrupted call journalled if it
\* was interrupted.
LEMMA AgainIs ==
    ASSUME WalkTypeOK, ChainInv, ResumeWalk \/ InterruptCall
    PROVE  Again
<1>1. CASE ResumeWalk
  BY <1>1 DEF ResumeWalk, Again
<1>2. CASE InterruptCall
  <2> DEFINE reply == [Replied EXCEPT !.kind = "skip"]
  <2>1. reply \in Reply /\ reply.kind = "skip" /\ reply.gate = "pass"
    BY RepliedIs DEF Reply, Replied
  <2>2. /\ place = "calling" /\ IsCall(Top.node) /\ Recorded = {} /\ Node.kind = "leaf"
        /\ Restarts
        /\ records' = Append(records, [path |-> Path, ask |-> Top.ask, reply |-> reply])
    BY <1>2 DEF InterruptCall, ChainInv, Entry
  <2> HIDE DEF reply
  <2>3. Appends(reply)
    BY <2>1, <2>2 DEF Appends
  <2> QED
    BY <2>1, <2>2, <2>3 DEF Again
<1> QED
  BY <1>1, <1>2

\* What a step leaves of the types that its move does not say.
Typed ==
    /\ StackOK' /\ ret' \in Outcome \cup {Nil}
    /\ place' \in {"return", "done"} => ret' # Nil

\* Every step of the walk is one of the moves, and a typed one.
LEMMA StepsMove ==
    ASSUME WalkTypeOK, ChainInv, CameInv, [WalkNext]_walkVars
    PROVE  Moves /\ Typed
<1>1. StackOK /\ ret \in Outcome \cup {Nil} /\ (place \in {"return", "done"} => ret # Nil)
  BY DEF WalkTypeOK, StackOK
<1>2. \A o \in Outcome : o # Nil
  BY OutcomeIs
<1>3. CASE UNCHANGED walkVars \/ TimePasses
  <2>1. UNCHANGED <<stack, place, ret, records, walked>>
    BY <1>3 DEF walkVars, TimePasses
  <2>2. overdue' \in 0..Len(stack)
    <3>1. CASE UNCHANGED walkVars
      BY <1>1, <3>1 DEF walkVars, StackOK
    <3>2. CASE TimePasses
      <4>1. overdue' \in DOMAIN stack
        BY <3>2 DEF TimePasses
      <4> QED
        BY <4>1, StackIs
    <3> QED
      BY <1>3, <3>1, <3>2
  <2> QED
    BY <1>1, <2>1, <2>2 DEF Moves, Quiet, Typed, StackOK
<1>4. CASE EnterSteps
  BY <1>1, <1>4, EnterOpens DEF Moves, Opens, Typed
<1>5. CASE EvalRoute \/ EvalDecide \/ NextRung
  BY <1>1, <1>5, RouteDeepens, DecideDeepens, RungDeepens DEF Moves, Deepens, Typed
<1>6. CASE EvalReference
  BY <1>1, <1>6, ReferenceMoves DEF Moves, Typed, Halts, Deepens, EvalReference, HandUp, Down
<1>7. CASE RefuseCall \/ SubmitCall
  BY <1>1, <1>7 DEF RefuseCall, SubmitCall, Dispatches, MayRun, Moves, Halts, Typed, StackOK
<1>8. CASE Unknown
  <2>1. ret' = Err("provider_error") /\ ret' \in Outcome /\ ret'.kind = "err"
    BY <1>8, ErrIs DEF Unknown, HandUp, Classes
  <2>2. place = "enter" /\ place' = "return" /\ Node.kind # "paged"
        /\ UNCHANGED <<stack, overdue, records, walked>>
    BY <1>8 DEF Unknown, HandUp, MayRun, IsCall, Node
  <2> QED
    BY <1>1, <1>2, <2>1, <2>2 DEF Moves, Yields, Typed, StackOK
<1>9. CASE ReplayCall
  <2>1. UNCHANGED <<stack, overdue>>
    BY <1>9 DEF ReplayCall
  <2> QED
    BY <1>1, <1>2, <1>9, <2>1, ReplayReplays DEF Moves, Typed, StackOK
<1>10. CASE Skip \/ ReturnCall
  <2>1. UNCHANGED <<stack, overdue>>
    BY <1>10 DEF Skip, ReturnCall
  <2> QED
    BY <1>1, <1>2, <1>10, <2>1, SkipJournals, ReturnJournals DEF Moves, Typed, StackOK
<1>11. CASE PassUp
  BY <1>2, <1>11, PassUpRises DEF Moves, Typed
<1>12. CASE FinishWalk
  BY <1>1, <1>2, <1>12, BareIs DEF Moves, Typed, FinishWalk, StackOK
<1>13. CASE NextStep
  BY <1>13, StepMoves DEF Moves, Typed, Deepens, Yields
<1>14. CASE StepSkipped \/ StepFailed \/ StepReviewed \/ StepAnswered
  <2>1. CASE Resolved
    <3>1. StackOK' /\ Tree[Under.node].kind = "cascade"
      BY <1>14, CascadeStep
    <3>2. ret' \in Outcome
      BY <2>1 DEF Resolved
    <3>3. Typed
      BY <1>2, <3>1, <3>2 DEF Typed
    <3> QED
      BY <2>1, <3>1, <3>3 DEF Moves
  <2>2. CASE ~Resolved
    BY <1>14, <2>2, CascadeStep DEF Moves, Typed, GoesOn
  <2> QED
    BY <2>1, <2>2
<1>15. CASE RungAnswered
  <2>1. place' # "done"
    BY <1>15 DEF RungAnswered, HandUp, ClimbsTo
  <2> QED
    BY <1>15, <2>1, RungAnsweredMoves DEF Moves, Typed
<1>16. CASE RungFailed
  BY <1>2, <1>16, RungFailedRises DEF Moves, Typed
<1>17. CASE ResumeWalk \/ InterruptCall
  <2>1. stack' = <<Frame(stack[1].node)>> /\ place' = "enter" /\ ret' = Nil /\ overdue' = 0
    BY <1>17 DEF ResumeWalk, InterruptCall, Restarts
  <2>2. Frame(stack[1].node) \in Evaluations
    BY StackIs, FrameIs
  <2>3. StackOK'
    BY <2>1, <2>2 DEF StackOK
  <2>4. Again
    BY <1>17, AgainIs
  <2> QED
    BY <2>1, <2>3, <2>4 DEF Moves, Typed
<1> QED
  BY <1>3, <1>4, <1>5, <1>6, <1>7, <1>8, <1>9, <1>10, <1>11, <1>12, <1>13, <1>14, <1>15,
     <1>16, <1>17 DEF WalkNext
\* Moves by what they do to the stack.
LEMMA MovesAre ==
    ASSUME Moves
    PROVE  \/ Deepens \/ Opens \/ Halts \/ Yields \/ Quiet \/ FinishWalk \/ Again
           \/ \E k \in DOMAIN records : Replays(k)
           \/ \E reply \in Reply : Journals(reply)
           \/ \E f : Rises(f)
           \/ \E f : GoesOn(f)
<1>1. Resolved => Rises(Under)
  BY DEF Resolved
<1>2. \A pages : RungStitched(pages) => \/ Rises(Stitch(Under, pages))
                                        \/ GoesOn(NextAsk(Under, pages, Top.node))
  BY DEF RungStitched
<1> QED
  BY <1>1, <1>2, Zenon DEF Moves

\* Below a paged cascade there is a leaf, and nothing below that.
LEMMA PagedIsLast ==
    ASSUME WalkTypeOK, ChainInv, NEW j \in 1..(Len(stack) - 1), KindAt(j) = "paged"
    PROVE  j = Len(stack) - 1 /\ Node.kind = "leaf"
<1>1. Len(stack) \in Nat
  BY StackIs
<1>2. /\ stack[j].i \in 1..Len(Tree[stack[j].node].steps)
      /\ stack[j + 1].node = Tree[stack[j].node].steps[stack[j].i]
  BY DEF ChainInv, LadderKinds
<1>3. stack[j].node \in DOMAIN Tree
  BY <1>1, StackIs
<1>4. Tree[stack[j].node].steps \in Seq(LeafNodes)
  BY <1>3, Walkable DEF WalkAssumption, WellCompiled, KindAt
<1>5. stack[j + 1].node \in LeafNodes
  BY <1>2, <1>4, ElementOfSeq
<1>6. IsCall(stack[j + 1].node) /\ KindAt(j + 1) = "leaf"
  BY <1>5 DEF LeafNodes, IsCall, KindAt
<1>7. j + 1 \notin 1..(Len(stack) - 1)
  BY <1>6 DEF ChainInv
<1> QED
  BY <1>1, <1>6, <1>7 DEF KindAt, Node, Top

\* Under the innermost evaluation there is no call, and a ladder stands at one of its steps.
LEMMA ChainBelow ==
    ASSUME WalkTypeOK, ChainInv, Len(stack) > 1
    PROVE  /\ ~IsCall(Under.node)
           /\ Tree[Under.node].kind \in LadderKinds =>
                Under.i \in 1..Len(Tree[Under.node].steps)
<1>1. Len(stack) - 1 \in 1..(Len(stack) - 1)
  BY StackIs
<1> QED
  BY <1>1 DEF ChainInv, Under, KindAt

\* Coming up keeps the chain.
LEMMA ChainUp ==
    ASSUME WalkTypeOK, ChainInv, NEW f, Rises(f) \/ GoesOn(f)
    PROVE  ChainInv'
<1>1. /\ Len(stack) \in Nat \ {0, 1} /\ Len(stack') = Len(stack) - 1
      /\ \A j \in 1..(Len(stack) - 2) : stack'[j] = stack[j]
      /\ stack'[Len(stack) - 1] = f /\ f.node = Under.node /\ Under = stack[Len(stack) - 1]
      /\ Top' = f
  <2>1. Len(stack) \in Nat /\ Len(stack) > 1
    BY StackIs DEF Rises, GoesOn
  <2>2. /\ Len(stack') = Len(stack) - 1 /\ stack'[Len(stack) - 1] = f /\ f.node = Under.node
        /\ \A j \in 1..(Len(stack) - 2) : stack'[j] = stack[j]
    BY DEF Rises, GoesOn, KeepsAllBut
  <2> QED
    BY <2>1, <2>2 DEF Under, Top
<1>2. ~IsCall(Under.node) /\ Under.i \in Nat
  <2>1. Len(stack) > 1
    BY <1>1
  <2> QED
    BY <2>1, ChainBelow, StackIs DEF Evaluations
<1>3. \A j \in 1..(Len(stack) - 2) :
        /\ stack'[j + 1].node = stack[j + 1].node
        /\ KindAt(j) # "paged"
  <2> TAKE j \in 1..(Len(stack) - 2)
  <2>1. j \in 1..(Len(stack) - 1) /\ j # Len(stack) - 1 /\ j + 1 \in 1..(Len(stack) - 1)
    BY <1>1
  <2>2. CASE j + 1 = Len(stack) - 1
    BY <1>1, <2>1, <2>2, PagedIsLast
  <2>3. CASE j + 1 # Len(stack) - 1
    <3>1. j + 1 \in 1..(Len(stack) - 2)
      BY <1>1, <2>1, <2>3
    <3> QED
      BY <1>1, <2>1, <3>1, PagedIsLast
  <2> QED
    BY <2>2, <2>3
<1>4. \A j \in 1..(Len(stack') - 1) :
        /\ ~IsCall(stack'[j].node)
        /\ KindAt(j)' \in LadderKinds =>
             /\ stack'[j].i \in 1..Len(Tree[stack'[j].node].steps)
             /\ stack'[j + 1].node = Tree[stack'[j].node].steps[stack'[j].i]
        /\ KindAt(j)' # "paged"
  <2> TAKE j \in 1..(Len(stack') - 1)
  <2>1. j \in 1..(Len(stack) - 2) /\ j \in 1..(Len(stack) - 1)
    BY <1>1
  <2> QED
    BY <1>1, <1>3, <2>1 DEF ChainInv, KindAt
<1>5. CASE Rises(f)
  <2>1. place' = "return" /\ f.i = Under.i
    BY <1>5 DEF Rises
  <2>2. Tree[Under.node].kind = "paged" => Under.i \in 1..Len(Tree[Under.node].steps)
    BY <1>1, ChainBelow DEF LadderKinds
  <2> QED
    BY <1>1, <1>2, <1>4, <2>1, <2>2 DEF ChainInv, Node
<1>6. CASE GoesOn(f)
  <2>1. /\ place' = "step" /\ f.i = Under.i + 1 /\ Tree[Under.node].kind \in LadderKinds
        /\ Tree[f.node].kind = "paged" => f.i <= Len(Tree[f.node].steps)
    BY <1>6 DEF GoesOn
  <2>2. Tree[f.node].kind = "paged" => Len(Tree[f.node].steps) \in Nat
    <3> SUFFICES ASSUME Tree[f.node].kind = "paged" PROVE Len(Tree[f.node].steps) \in Nat
      OBVIOUS
    <3>1. Tree[f.node].steps \in Seq(LeafNodes)
      BY <1>1, NodeIs DEF WellCompiled
    <3> QED
      BY <3>1, LenProperties
  <2> QED
    BY <1>1, <1>2, <1>4, <2>1, <2>2 DEF ChainInv, Node
<1> QED
  BY <1>5, <1>6

\* Every move keeps the stack a chain of the tree.
LEMMA ChainStep ==
    ASSUME WalkTypeOK, ChainInv, Moves
    PROVE  ChainInv'
<1>0. Len(stack) \in Nat \ {0} /\ Top.i \in Nat
  BY StackIs DEF Evaluations
<1>1. CASE Deepens
  <2>1. PICK i \in Nat : stack'[Len(stack)] = [Top EXCEPT !.i = i] /\ (place = "step" => i = Top.i)
    BY <1>1 DEF Deepens
  <2>2. /\ Len(stack') = Len(stack) + 1 /\ ~IsCall(Top.node) /\ place' = "enter"
        /\ \A j \in 1..(Len(stack) - 1) : stack'[j] = stack[j]
        /\ Top' = stack'[Len(stack) + 1]
        /\ Top'.i = 0 /\ Top'.best = Nil /\ Top'.pages = <<>>
        /\ Node.kind \in LadderKinds =>
             /\ place = "step" /\ Top.i \in 1..Len(Node.steps) /\ Top'.node = Node.steps[Top.i]
        /\ Node.kind = "paged" =>
             Top'.ask = IF ReadsWhole(Top.node, Top.i) THEN Pages ELSE Top.ask
    BY <1>0, <1>1 DEF Deepens, KeepsAllBut, Top
  <2>3. /\ stack'[Len(stack)].node = Top.node /\ stack'[Len(stack)].ask = Top.ask
        /\ place = "step" => stack'[Len(stack)].i = Top.i
    BY <2>1, StackIs DEF Evaluations
  <2>4. ASSUME NEW j \in 1..(Len(stack') - 1)
        PROVE  /\ ~IsCall(stack'[j].node)
               /\ KindAt(j)' \in LadderKinds =>
                    /\ stack'[j].i \in 1..Len(Tree[stack'[j].node].steps)
                    /\ stack'[j + 1].node = Tree[stack'[j].node].steps[stack'[j].i]
               /\ KindAt(j)' = "paged" =>
                    stack'[j + 1].ask = IF ReadsWhole(stack'[j].node, stack'[j].i) THEN Pages
                                        ELSE stack'[j].ask
    <3>1. CASE j = Len(stack)
      BY <1>0, <2>2, <2>3, <3>1 DEF Top, Node, KindAt, LadderKinds
    <3>2. CASE j # Len(stack)
      <4>1. j \in 1..(Len(stack) - 1)
        BY <1>0, <2>2, <3>2
      <4>2. stack'[j + 1].node = stack[j + 1].node /\ stack'[j + 1].ask = stack[j + 1].ask
        <5>1. CASE j + 1 = Len(stack)
          BY <2>3, <5>1 DEF Top
        <5>2. CASE j + 1 # Len(stack)
          <6>1. j + 1 \in 1..(Len(stack) - 1)
            BY <1>0, <4>1, <5>2
          <6> QED
            BY <2>2, <6>1
        <5> QED
          BY <5>1, <5>2
      <4> QED
        BY <2>2, <4>1, <4>2 DEF ChainInv, KindAt
    <3> QED
      BY <3>1, <3>2
  <2> HIDE DEF Top
  <2> QED
    BY <2>2, <2>4 DEF ChainInv
<1>2. CASE Opens
  <2>1. /\ Len(stack') = Len(stack) /\ place' = "step" /\ Node.kind \in LadderKinds
        /\ \A j \in 1..(Len(stack) - 1) : stack'[j] = stack[j]
        /\ stack'[Len(stack)] = [Top EXCEPT !.i = 1] /\ Top' = stack'[Len(stack)]
    BY <1>2 DEF Opens, KeepsAllBut, Top
  <2>2. /\ Top'.node = Top.node /\ Top'.ask = Top.ask /\ Top'.i = 1
    BY <2>1, StackIs DEF Evaluations
  <2>3. \A j \in 1..Len(stack) : stack'[j].node = stack[j].node /\ stack'[j].ask = stack[j].ask
    <3> TAKE j \in 1..Len(stack)
    <3>1. CASE j = Len(stack)
      BY <2>1, <2>2, <3>1 DEF Top
    <3>2. CASE j # Len(stack)
      <4>1. j \in 1..(Len(stack) - 1)
        BY <1>0, <3>2
      <4> QED
        BY <2>1, <4>1
    <3> QED
      BY <3>1, <3>2
  <2>4. \A j \in 1..(Len(stack') - 1) :
          /\ stack'[j] = stack[j] /\ j \in 1..(Len(stack) - 1)
          /\ stack'[j + 1].node = stack[j + 1].node /\ stack'[j + 1].ask = stack[j + 1].ask
    <3> TAKE j \in 1..(Len(stack') - 1)
    <3>1. j + 1 \in 1..Len(stack) /\ j \in 1..(Len(stack) - 1)
      BY <1>0, <2>1
    <3> QED
      BY <2>1, <2>3, <3>1
  <2>5. Node.kind = "paged" => 1 \in 1..Len(Node.steps)
    <3> SUFFICES ASSUME Node.kind = "paged" PROVE 1 \in 1..Len(Node.steps)
      OBVIOUS
    <3>1. Node.steps \in Seq(LeafNodes) /\ Node.steps # <<>>
      BY NodeIs DEF WellCompiled, Node
    <3> QED
      BY <3>1, EmptySeq
  <2>6. ~IsCall(Top.node)
    BY <2>1 DEF IsCall, Node, LadderKinds
  <2>7. Node' = Node
    BY <2>2 DEF Node
  <2> QED
    BY <2>1, <2>2, <2>4, <2>5, <2>6, <2>7 DEF ChainInv, KindAt
<1>3. CASE Halts \/ Yields \/ Quiet \/ FinishWalk \/ (\E k \in DOMAIN records : Replays(k))
           \/ (\E reply \in Reply : Journals(reply))
  <2>1. stack' = stack
    BY <1>3 DEF Halts, Yields, Quiet, FinishWalk, Replays, Journals, Appends
  <2>2. /\ \A j : KindAt(j)' = KindAt(j)
        /\ Top' = Top /\ Node' = Node
    BY <2>1 DEF KindAt, Top, Node
  <2>3. place' \in {"enter", "calling", "refused", "cycle"} \/ IsCall(Top.node) =>
          Top.i = 0 /\ Top.best = Nil /\ Top.pages = <<>>
    BY <1>3 DEF ChainInv, Halts, Yields, Quiet, FinishWalk, Replays, Journals, Appends
  <2>4. place' = "step" => Node.kind \in LadderKinds /\ Top.i >= 1
    BY <1>3 DEF ChainInv, Halts, Yields, Quiet, FinishWalk, Replays, Journals, Appends
  <2>5. Node.kind = "paged" /\ place' \in {"step", "return", "done"} => Top.i \in 1..Len(Node.steps)
    BY <1>3 DEF ChainInv, Halts, Yields, Quiet, FinishWalk, Replays, Journals, Appends, IsCall, Node
  <2>6. place' = "calling" => IsCall(Top.node) /\ Recorded = {} /\ records' = records
    BY <1>3 DEF ChainInv, Halts, Yields, Quiet, FinishWalk, Replays, Journals, Appends
  <2>7. records' = records => Recorded' = Recorded
    BY <2>1 DEF Recorded, Path, PathOf
  <2>8. place' = "calling" => Recorded' = {}
    BY <2>6, <2>7
  <2> QED
    BY <2>1, <2>2, <2>3, <2>4, <2>5, <2>6, <2>8 DEF ChainInv
<1>4. CASE Again
  <2>1. stack' = <<Frame(stack[1].node)>> /\ place' = "enter"
    BY <1>4 DEF Again, Restarts
  <2>2. Frame(stack[1].node).i = 0 /\ Frame(stack[1].node).best = Nil
        /\ Frame(stack[1].node).pages = <<>>
    BY <1>0, StackIs, FrameIs
  <2>3. Len(stack') = 1 /\ Top' = Frame(stack[1].node)
    BY <2>1 DEF Top
  <2> QED
    BY <2>1, <2>2, <2>3 DEF ChainInv
<1>5. CASE \E f : Rises(f)
  BY <1>5, ChainUp
<1>6. CASE \E f : GoesOn(f)
  BY <1>6, ChainUp
<1> QED
  BY <1>1, <1>2, <1>3, <1>4, <1>5, <1>6, MovesAre

\* A reply put at the end of the ledger is an entry of it.
LEMMA EntriesStay ==
    ASSUME WalkTypeOK, NEW reply \in Reply, Appends(reply)
    PROVE  records' \in Seq(Entries) /\ Len(records') = Len(records) + 1
<1> DEFINE e == [path |-> Path, ask |-> Top.ask, reply |-> reply]
<1>1. e \in Entries
  BY PathIs, StackIs DEF Entries, Evaluations
<1>2. records' = Append(records, e) /\ records \in Seq(Entries)
  BY DEF Appends, WalkTypeOK
<1> HIDE DEF e
<1> QED
  BY <1>1, <1>2, AppendProperties

\* Every step of the walk keeps the types.
LEMMA TypeStep ==
    ASSUME WalkTypeOK, ChainInv, CameInv, [WalkNext]_walkVars
    PROVE  WalkTypeOK'
<1>1. Moves /\ Typed
  BY StepsMove
<1>2. /\ facts' \subseteq Facts /\ decider' \in {"engine", "llm"}
      /\ ticks' \in 0..MaxTicks /\ kills' \in 0..MaxKills
      /\ turns' \subseteq {"deadline", "decider", "class"}
  <2>1. MaxTicks \in Nat /\ MaxKills \in Nat
    BY Walkable DEF WalkAssumption
  <2>2. /\ facts' = facts
        /\ decider' = decider \/ decider' = "engine"
        /\ ticks' = ticks \/ (ticks < MaxTicks /\ ticks' = ticks + 1)
        /\ kills' = kills \/ (kills < MaxKills /\ kills' = kills + 1)
    BY Zenon DEF WalkNext, walkVars, EnterSteps, EvalRoute, EvalDecide, EvalReference, RefuseCall,
           Unknown, ReplayCall, Skip, SubmitCall, ReturnCall, PassUp, FinishWalk, NextStep,
           StepSkipped, StepFailed, StepReviewed, StepAnswered, NextRung, RungAnswered,
           RungFailed, TimePasses, ResumeWalk, InterruptCall, Restarts
  <2>3. turns' = turns \/ (\E r \in {"deadline", "decider", "class"} : turns' = turns \cup {r})
    BY DEF WalkNext, walkVars, EnterSteps, EvalRoute, EvalDecide, EvalReference, RefuseCall,
           Unknown, ReplayCall, Skip, SubmitCall, ReturnCall, PassUp, FinishWalk, NextStep,
           StepSkipped, StepFailed, StepReviewed, StepAnswered, NextRung, RungAnswered,
           RungFailed, TimePasses, ResumeWalk, InterruptCall, Restarts, TurnsBy
  <2>4. ticks' \in 0..MaxTicks /\ kills' \in 0..MaxKills
    BY <2>1, <2>2 DEF WalkTypeOK
  <2>5. facts' \subseteq Facts /\ decider' \in {"engine", "llm"}
    BY <2>2 DEF WalkTypeOK
  <2>6. turns' \subseteq {"deadline", "decider", "class"}
    BY <2>3 DEF WalkTypeOK
  <2> QED
    BY <2>4, <2>5, <2>6
<1>3. place' \in {"enter", "step", "calling", "return", "done", "refused", "cycle"}
  BY <1>1, MovesAre DEF WalkTypeOK, Deepens, Opens, Halts, Yields, Quiet, FinishWalk,
     Again, Restarts, Replays, Journals, Appends, Rises, GoesOn
<1>4. records' \in Seq(Entries) /\ walked' \in Seq(DOMAIN records')
  <2>0. records \in Seq(Entries) /\ walked \in Seq(DOMAIN records)
    BY DEF WalkTypeOK
  <2>1. CASE \E k \in DOMAIN records : Replays(k)
    <3>1. PICK k \in DOMAIN records : walked' = Append(walked, k) /\ records' = records
      BY <2>1 DEF Replays, ComesFrom
    <3> QED
      BY <2>0, <3>1, AppendProperties
  <2>2. CASE \E reply \in Reply : Journals(reply)
    <3>1. PICK reply \in Reply : Journals(reply)
      BY <2>2
    <3>3. walked' = Append(walked, Len(records) + 1)
      BY <3>1 DEF Journals, ComesFrom
    <3>4. records' \in Seq(Entries) /\ Len(records') = Len(records) + 1
      BY <3>1, EntriesStay DEF Journals
    <3>5. DOMAIN records' = 1..Len(records) + 1 /\ DOMAIN records = 1..Len(records)
          /\ Len(records) \in Nat
      BY <3>4, RecordsAre, LenProperties
    <3>6. walked \in Seq(DOMAIN records') /\ Len(records) + 1 \in DOMAIN records'
      BY <2>0, <3>5, SeqMonotonic
    <3> QED
      BY <3>3, <3>4, <3>6, AppendProperties
  <2>3. CASE Again
    BY <2>0, <2>3, EntriesStay, EmptySeq DEF Again, Restarts
  <2>4. CASE records' = records /\ walked' = walked
    BY <2>0, <2>4
  <2> QED
    BY <1>1, <2>1, <2>2, <2>3, <2>4, MovesAre
       DEF Deepens, Opens, Halts, Yields, Quiet, FinishWalk, Rises, GoesOn
<1> QED
  BY <1>1, <1>2, <1>3, <1>4 DEF WalkTypeOK, Typed, StackOK

\* What a journalled call adds.
LEMMA NewRecordIs ==
    ASSUME WalkTypeOK, NEW reply \in Reply, Appends(reply), NEW k, k = Len(records) + 1
    PROVE  /\ DOMAIN records' = 1..k /\ k \notin DOMAIN records /\ k \in Nat
           /\ records'[k] = [path |-> Path, ask |-> Top.ask, reply |-> reply]
           /\ PathAt(k)' = Path /\ Record(k)' = reply
           /\ \A l \in DOMAIN records : l \in DOMAIN records' /\ records'[l] = records[l]
                                        /\ PathAt(l)' = PathAt(l) /\ Record(l)' = Record(l)
<1> DEFINE e == [path |-> Path, ask |-> Top.ask, reply |-> reply]
<1>1. e \in Entries
  BY PathIs, StackIs DEF Entries, Evaluations
<1>2. records' = Append(records, e)
  BY DEF Appends
<1>3. e.path = Path /\ e.reply = reply
  OBVIOUS
<1> HIDE DEF e
<1>4. /\ records' \in Seq(Entries) /\ Len(records') = Len(records) + 1
      /\ \A l \in 1..Len(records) : records'[l] = records[l]
      /\ records'[Len(records) + 1] = e
  BY <1>1, <1>2, AppendProperties DEF WalkTypeOK
<1>5. DOMAIN records' = 1..(Len(records) + 1) /\ DOMAIN records = 1..Len(records)
      /\ Len(records) \in Nat
  BY <1>4, RecordsAre, LenProperties
<1>6. PathAt(k)' = Path /\ Record(k)' = reply
  BY <1>3, <1>4 DEF PathAt, Record
<1>7. \A l \in DOMAIN records : l \in DOMAIN records' /\ records'[l] = records[l]
  BY <1>4, <1>5
<1>8. \A l \in DOMAIN records : PathAt(l)' = PathAt(l) /\ Record(l)' = Record(l)
  BY <1>7 DEF PathAt, Record
<1>9. records'[Len(records) + 1] = [path |-> Path, ask |-> Top.ask, reply |-> reply]
  BY <1>4 DEF e
<1>10. Len(records) + 1 \notin DOMAIN records /\ Len(records) + 1 \in Nat
  BY <1>5
<1> QED
  BY <1>2, <1>5, <1>6, <1>7, <1>8, <1>9, <1>10

\* Walking over a record makes it the latest.
LEMMA WalkedIs ==
    ASSUME WalkTypeOK, NEW k, walked' = Append(walked, k)
    PROVE  /\ WalkedOver' = WalkedOver \cup {k} /\ Latest' = k /\ walked' # <<>>
<1>1. walked \in Seq(WalkedOver \cup {k}) /\ k \in WalkedOver \cup {k}
  <2>1. walked \in [1..Len(walked) -> WalkedOver \cup {k}]
    BY LenProperties DEF WalkTypeOK, WalkedOver
  <2> QED
    BY <2>1, RecordsAre, SeqDef
<1>2. /\ walked' \in Seq(WalkedOver \cup {k}) /\ walked' # <<>> /\ Len(walked') = Len(walked) + 1
      /\ \A j \in 1..Len(walked) : walked'[j] = walked[j]
      /\ walked'[Len(walked) + 1] = k
  BY <1>1, AppendProperties
<1>3. /\ DOMAIN walked' = 1..(Len(walked) + 1) /\ DOMAIN walked = 1..Len(walked)
      /\ Len(walked) \in Nat
  BY <1>2, RecordsAre, LenProperties
<1>4. WalkedOver' = {walked'[j] : j \in 1..(Len(walked) + 1)}
  BY <1>3 DEF WalkedOver
<1>5. WalkedOver = {walked[j] : j \in 1..Len(walked)}
  BY <1>3 DEF WalkedOver
<1>6. \A j \in 1..(Len(walked) + 1) : j \in 1..Len(walked) \/ j = Len(walked) + 1
  BY <1>3
<1>7. \A j \in 1..Len(walked) : j \in 1..(Len(walked) + 1)
  BY <1>3
<1> QED
  BY <1>2, <1>3, <1>4, <1>5, <1>6, <1>7 DEF Latest

\* Every move keeps that what a call has come to is the outcome of its latest record.
LEMMA CameStep ==
    ASSUME WalkTypeOK, ChainInv, CameInv, Moves
    PROVE  CameInv'
<1> SUFFICES ASSUME place' = "return", IsCall(Top.node)', ret'.kind # "err"
             PROVE  /\ walked' # <<>> /\ ret'.by = Latest' /\ PathAt(Latest)' = Path'
                    /\ ret'.kind = Record(Latest)'.kind /\ ret'.q = Record(Latest)'.q
                    /\ ret'.gate = Record(Latest)'.gate
  BY DEF CameInv
<1>1. CASE \E k \in DOMAIN records : Replays(k)
  <2>1. PICK k \in DOMAIN records : Replays(k)
    BY <1>1
  <2>2. walked' # <<>> /\ Latest' = k
    BY <2>1, WalkedIs DEF Replays, ComesFrom
  <2>3. PathAt(k) = Path /\ records' = records /\ stack' = stack
    BY <2>1 DEF Replays, Recorded, PathAt
  <2>4. PathAt(Latest)' = Path' /\ Record(Latest)' = records[k].reply
    BY <2>2, <2>3 DEF PathAt, Path, PathOf, Record
  <2> QED
    BY <2>1, <2>2, <2>4 DEF Replays, ComesFrom
<1>2. CASE \E reply \in Reply : Journals(reply)
  <2>1. PICK reply \in Reply : Journals(reply)
    BY <1>2
  <2>0. PICK k : k = Len(records) + 1
    OBVIOUS
  <2>2. walked' # <<>> /\ Latest' = k /\ stack' = stack
    BY <2>0, <2>1, WalkedIs DEF Journals, Appends, ComesFrom
  <2>6. Appends(reply)
    BY <2>1 DEF Journals
  <2>3. records'[k] = [path |-> Path, ask |-> Top.ask, reply |-> reply]
    BY <2>0, <2>6, NewRecordIs, Zenon
  <2>4. records'[k].path = Path /\ records'[k].reply = reply
    BY <2>3
  <2>5. PathAt(Latest)' = Path' /\ Record(Latest)' = reply
    BY <2>2, <2>4 DEF PathAt, Path, PathOf, Record
  <2> QED
    BY <2>0, <2>1, <2>2, <2>5 DEF Journals, Appends, ComesFrom
<1>3. CASE Quiet
  <2>1. place = "return" /\ IsCall(Top.node) /\ ret.kind # "err"
    BY <1>3 DEF Quiet, Top
  <2> QED
    BY <1>3, <2>1 DEF Quiet, CameInv, Latest, PathAt, Path, PathOf, Record
<1>4. CASE Yields
  <2>1. place = "step" /\ stack' = stack
    BY <1>4 DEF Yields
  <2> QED
    BY <2>1 DEF ChainInv, Top, IsCall, Node, LadderKinds
<1>5. CASE \E f : Rises(f)
  <2>1. PICK f : Rises(f)
    BY <1>5
  <2>2. Len(stack) \in Nat /\ Len(stack) > 1
    BY <2>1, StackIs DEF Rises
  <2>3. Top'.node = Under.node
    BY <2>1, <2>2 DEF Rises, Top
  <2> QED
    BY <2>2, <2>3, ChainBelow DEF IsCall
<1>6. place' = "return"
  OBVIOUS
<1> QED
  BY <1>1, <1>2, <1>3, <1>4, <1>5, <1>6, MovesAre
     DEF Deepens, Opens, Halts, FinishWalk, Again, Restarts, GoesOn

\* A call is recorded once, at a leaf or a parallel node, at the rung it was made for.
RecordAt(a, r) ==
    LET n == Len(a) IN
    /\ n >= 1 /\ IsCall(a[n][1]) /\ a[n][2] = 0
    /\ Tree[a[n][1]].kind = "leaf" => r.kind # "deficient"
    /\ Tree[a[n][1]].kind = "parallel" => r.gate # "review"
    /\ n > 1 /\ Tree[a[n - 1][1]].kind = "paged" =>
         /\ a[n - 1][2] \in 1..Len(Tree[a[n - 1][1]].steps)
         /\ a[n][1] = Tree[a[n - 1][1]].steps[a[n - 1][2]]
         /\ r.kind # "deficient" /\ r.gate = "pass"

RecordsInv ==
    /\ \A k, l \in DOMAIN records : PathAt(k) = PathAt(l) => k = l
    /\ \A k \in DOMAIN records : RecordAt(PathAt(k), Record(k))

\* Every move keeps that the records are of different paths and of the kind their nodes
\* give.
LEMMA RecordsStep ==
    ASSUME WalkTypeOK, ChainInv, RecordsInv, Moves
    PROVE  RecordsInv'
<1>1. CASE records' = records
  BY <1>1 DEF RecordsInv, PathAt, Record, RecordAt
<1>2. CASE \E reply \in Reply : Appends(reply)
  <2>1. PICK reply \in Reply : Appends(reply)
    BY <1>2
  <2>0. PICK k : k = Len(records) + 1
    OBVIOUS
  <2>2. /\ DOMAIN records' = 1..k /\ DOMAIN records = 1..Len(records) /\ Len(records) \in Nat
        /\ PathAt(k)' = Path /\ Record(k)' = reply
        /\ \A l \in DOMAIN records : l \in DOMAIN records' /\ PathAt(l)' = PathAt(l)
                                     /\ Record(l)' = Record(l)
    BY <2>0, <2>1, NewRecordIs, RecordsAre
  <2>3. \A l \in DOMAIN records' : l \in DOMAIN records \/ l = k
    BY <2>0, <2>2
  <2>4. \A l \in DOMAIN records : PathAt(l) # Path
    BY <2>1 DEF Appends, Recorded, PathAt
  <2>5. \A l, m \in DOMAIN records' : PathAt(l)' = PathAt(m)' => l = m
    BY <2>2, <2>3, <2>4 DEF RecordsInv
  <2>6. /\ Len(Path) = Len(stack) /\ Len(stack) \in Nat \ {0}
        /\ Path[Len(stack)][1] = Top.node /\ Path[Len(stack)][2] = Top.i
        /\ Len(stack) > 1 => /\ Path[Len(stack) - 1][1] = Under.node
                             /\ Path[Len(stack) - 1][2] = Under.i
    BY PathIs, StackIs DEF Top, Under
  <2>7. IsCall(Top.node) /\ Top.i = 0
    BY <2>1 DEF Appends, ChainInv
  <2>8. /\ Rung => /\ Len(stack) > 1 /\ Tree[Under.node].kind = "paged"
                    /\ Under.i \in 1..Len(Tree[Under.node].steps)
                    /\ Top.node = Tree[Under.node].steps[Under.i]
                    /\ Node.kind = "leaf"
        /\ ~Rung => (Len(stack) > 1 => Tree[Under.node].kind # "paged")
    BY RungIs DEF Rung, Below, Under
  <2>9. RecordAt(Path, reply)
    <3>1. /\ Node.kind = "leaf" => reply.kind # "deficient"
          /\ Node.kind = "parallel" /\ ~Rung => reply.gate # "review"
          /\ Rung => reply.kind # "deficient" /\ reply.gate = "pass"
      BY <2>1 DEF Appends
    <3>2. Node.kind = "parallel" => reply.gate # "review"
      BY <2>8, <3>1
    <3> HIDE DEF Path, Top, Under, Rung
    <3> QED
      BY <2>6, <2>7, <2>8, <3>1, <3>2 DEF RecordAt, Node
  <2>10. ASSUME NEW l \in DOMAIN records'
         PROVE  RecordAt(PathAt(l)', Record(l)')
    <3>1. CASE l = k
      BY <2>2, <2>9, <3>1
    <3>2. CASE l # k
      <4>1. l \in DOMAIN records
        BY <2>3, <3>2
      <4> QED
        BY <2>2, <4>1 DEF RecordsInv
    <3> QED
      BY <3>1, <3>2
  <2> QED
    BY <2>5, <2>10 DEF RecordsInv, RecordAt
<1> QED
  BY <1>1, <1>2, MovesAre
     DEF Deepens, Opens, Halts, Yields, Quiet, FinishWalk, Again, Journals, Replays, Rises, GoesOn
-----------------------------------------------------------------------------
(* Where the calls walked over lie                                         *)

Paths == Seq((DOMAIN Tree) \X Nat)

\* A path that goes through the j-th of the evaluations, or left it at an earlier step.
Through(a, f, j) ==
    /\ Len(a) >= j /\ a[j][1] = f[j].node
    /\ \A m \in 1..(j - 1) : a[m] = <<f[m].node, f[m].i>>
LeftAt(a, f, j) == Through(a, f, j) /\ Tree[f[j].node].kind \in LadderKinds /\ a[j][2] < f[j].i
Left(a, f) == \E j \in 1..Len(f) : LeftAt(a, f, j)

\* What has been walked over lies at steps that the walk has left, or just ended below
\* the innermost.
OrderInv ==
    \A k \in WalkedOver :
        \/ Left(PathAt(k), stack)
        \/ WalkEnded /\ Through(PathAt(k), stack, Len(stack))

\* What a path is, place by place.
LEMMA PathsAre ==
    ASSUME NEW a \in Paths
    PROVE  /\ Len(a) \in Nat /\ DOMAIN a = 1..Len(a)
           /\ \A m \in 1..Len(a) : /\ a[m][1] \in DOMAIN Tree /\ a[m][2] \in Nat
                                   /\ a[m] = <<a[m][1], a[m][2]>>
<1>1. Len(a) \in Nat /\ DOMAIN a = 1..Len(a)
      /\ \A m \in 1..Len(a) : a[m] \in (DOMAIN Tree) \X Nat
  BY LenProperties, ElementOfSeq DEF Paths
<1> QED
  BY <1>1

\* Evaluations that agree up to some depth are gone through alike.
LEMMA ThroughAgrees ==
    ASSUME NEW a, NEW f, NEW g, NEW j \in Nat, g[j].node = f[j].node,
           \A m \in 1..(j - 1) : g[m].node = f[m].node /\ g[m].i = f[m].i
    PROVE  Through(a, f, j) <=> Through(a, g, j)
  BY DEF Through

\* What an evaluation has left behind stays so when the walk goes down.
LEMMA LeftDeeper ==
    ASSUME WalkTypeOK, ChainInv, NEW a \in Paths, NEW j \in 1..Len(stack), LeftAt(a, stack, j),
           Deepens \/ Opens
    PROVE  j \in 1..Len(stack') /\ LeftAt(a, stack', j)
<1>0. Len(stack) \in Nat \ {0} /\ Len(stack') >= Len(stack) /\ Len(stack') \in Nat
      /\ \A m \in 1..(Len(stack) - 1) : stack'[m] = stack[m]
  BY StackIs DEF Deepens, Opens, KeepsAllBut
<1>1. PICK i : stack'[Len(stack)] = [Top EXCEPT !.i = i]
  BY DEF Deepens, Opens
<1>2. stack'[Len(stack)].node = Top.node /\ stack'[Len(stack)].i = i
  BY <1>1, StackIs DEF Evaluations
<1>3. CASE j = Len(stack)
  <2>1. Node.kind \in LadderKinds /\ a[j][2] < Top.i
    BY <1>3 DEF LeftAt, Node, Top
  <2>2. ~Opens
    <3> SUFFICES ASSUME Opens PROVE FALSE
      OBVIOUS
    <3>1. Top.i = 0
      BY DEF Opens, ChainInv
    <3>2. a[j][2] \in Nat
      BY <1>0, <1>3, PathsAre DEF LeftAt, Through
    <3> QED
      BY <2>1, <3>1, <3>2
  <2>3. Deepens /\ place = "step"
    BY <2>1, <2>2 DEF Deepens
  <2>4. stack'[Len(stack)] = Top
    <3>1. stack'[Len(stack)] = [Top EXCEPT !.i = Top.i]
      BY <2>3 DEF Deepens
    <3> QED
      BY <3>1, StackIs DEF Evaluations
  <2> QED
    BY <1>0, <1>3, <2>4 DEF LeftAt, Through, Top
<1>4. CASE j # Len(stack)
  <2>1. j \in Nat /\ j \in 1..(Len(stack) - 1) /\ j \in 1..Len(stack')
        /\ \A m \in 1..(j - 1) : m \in 1..(Len(stack) - 1)
    BY <1>0, <1>4
  <2>2. stack'[j] = stack[j] /\ \A m \in 1..(j - 1) : stack'[m] = stack[m]
    BY <1>0, <2>1
  <2>3. Through(a, stack', j)
    BY <2>1, <2>2, ThroughAgrees DEF LeftAt
  <2> QED
    BY <2>1, <2>2, <2>3 DEF LeftAt
<1> QED
  BY <1>3, <1>4

\* Going up takes the innermost evaluation off and changes at most the one under it.
LEMMA UpIs ==
    ASSUME WalkTypeOK, NEW f, Rises(f) \/ GoesOn(f)
    PROVE  /\ Len(stack) \in Nat \ {0, 1} /\ Len(stack') = Len(stack) - 1
           /\ \A m \in 1..(Len(stack) - 2) : stack'[m] = stack[m]
           /\ stack'[Len(stack) - 1] = f /\ f.node = Under.node
           /\ f.i = Under.i \/ f.i = Under.i + 1
           /\ Under.i \in Nat /\ Under = stack[Len(stack) - 1] /\ Top' = f
<1>1. Len(stack) \in Nat /\ Len(stack) > 1
  BY StackIs DEF Rises, GoesOn
<1>2. Under.i \in Nat
  BY <1>1, StackIs DEF Evaluations
<1>3. /\ Len(stack') = Len(stack) - 1 /\ stack'[Len(stack) - 1] = f /\ f.node = Under.node
      /\ f.i = Under.i \/ f.i = Under.i + 1
      /\ \A m \in 1..(Len(stack) - 2) : stack'[m] = stack[m]
  BY DEF Rises, GoesOn, KeepsAllBut
<1> QED
  BY <1>1, <1>2, <1>3 DEF Under, Top

\* Coming up, what went through the step it comes from has been left if the walk goes on.
LEMMA LeftUp ==
    ASSUME WalkTypeOK, ChainInv, NEW a \in Paths, NEW f, Rises(f) \/ GoesOn(f),
           NEW j \in 1..Len(stack), LeftAt(a, stack, j)
    PROVE  \/ j \in 1..Len(stack') /\ LeftAt(a, stack', j)
           \/ j = Len(stack) /\ Through(a, stack, j)
<1>0. /\ Len(stack) \in Nat \ {0, 1} /\ Len(stack') = Len(stack) - 1
      /\ \A m \in 1..(Len(stack) - 2) : stack'[m] = stack[m]
      /\ stack'[Len(stack) - 1] = f /\ f.node = Under.node
      /\ f.i = Under.i \/ f.i = Under.i + 1
      /\ Under.i \in Nat
  BY UpIs
<1>1. CASE j = Len(stack)
  BY <1>1 DEF LeftAt
<1>2. CASE j = Len(stack) - 1
  <2>1. j - 1 = Len(stack) - 2 /\ j \in 1..Len(stack')
    BY <1>0, <1>2
  <2>2. stack'[j].node = stack[j].node /\ stack[j] = Under /\ stack'[j] = f
    BY <1>0, <1>2 DEF Under
  <2>3. a[j][2] \in Nat
    BY <1>0, PathsAre DEF LeftAt, Through
  <2>4. Through(a, stack', j)
    BY <1>0, <2>1, <2>2 DEF LeftAt, Through
  <2> QED
    BY <1>0, <2>1, <2>2, <2>3, <2>4 DEF LeftAt
<1>3. CASE j # Len(stack) /\ j # Len(stack) - 1
  <2>1. j \in 1..(Len(stack) - 2) /\ j \in 1..Len(stack')
        /\ \A m \in 1..(j - 1) : m \in 1..(Len(stack) - 2)
    BY <1>0, <1>3
  <2> QED
    BY <1>0, <2>1 DEF LeftAt, Through
<1> QED
  BY <1>1, <1>2, <1>3

\* A path through the innermost evaluation leads through the one under it, and is left when
\* that goes on.
LEMMA ThroughUp ==
    ASSUME WalkTypeOK, ChainInv, NEW a \in Paths, NEW f, Rises(f) \/ GoesOn(f),
           Through(a, stack, Len(stack))
    PROVE  /\ Through(a, stack', Len(stack'))
           /\ a[Len(stack) - 1] = <<Under.node, Under.i>>
           /\ GoesOn(f) => LeftAt(a, stack', Len(stack'))
<1>0. /\ Len(stack) \in Nat \ {0, 1} /\ Len(stack') = Len(stack) - 1
      /\ \A m \in 1..(Len(stack) - 2) : stack'[m] = stack[m]
      /\ stack'[Len(stack) - 1] = f /\ f.node = Under.node
      /\ Under.i \in Nat
  BY UpIs
<1>1. /\ Len(stack) - 1 \in 1..(Len(stack) - 1)
      /\ \A m \in 1..(Len(stack) - 2) : m \in 1..(Len(stack) - 1)
  BY <1>0
<1>2. a[Len(stack) - 1] = <<Under.node, Under.i>>
  BY <1>1 DEF Through, Under
<1>3. \A m \in 1..(Len(stack) - 2) : a[m] = <<stack'[m].node, stack'[m].i>>
  BY <1>0, <1>1 DEF Through
<1>4. Len(a) >= Len(stack) - 1
  BY <1>0, PathsAre DEF Through
<1>5. Len(stack') - 1 = Len(stack) - 2
  BY <1>0
<1>6. Through(a, stack', Len(stack'))
  BY <1>0, <1>2, <1>3, <1>4, <1>5 DEF Through
<1>7. GoesOn(f) => f.i = Under.i + 1 /\ Tree[f.node].kind \in LadderKinds
  BY DEF GoesOn
<1> QED
  BY <1>0, <1>2, <1>6, <1>7 DEF LeftAt
\* A call that is over, now or long ago.
Calls(k, reply) ==
    /\ place \in {"enter", "calling"} /\ place' = "return" /\ IsCall(Top.node)
    /\ stack' = stack
    /\ k \in DOMAIN records' /\ PathAt(k)' = Path /\ Record(k)' = reply /\ reply \in Reply
    /\ WalkedOver' = WalkedOver \cup {k} /\ Latest' = k /\ walked' # <<>>
    /\ ret'.kind = reply.kind
    /\ reply.kind # "err" => ret'.by = k /\ ret'.q = reply.q /\ ret'.gate = reply.gate

\* A replay and a journalled reply are both calls.
LEMMA CallsAre ==
    ASSUME WalkTypeOK
    PROVE  /\ \A k \in DOMAIN records : Replays(k) => Calls(k, Record(k))
           /\ \A reply \in Reply : Journals(reply) => \E k : Calls(k, reply)
<1>1. ASSUME NEW k \in DOMAIN records, Replays(k)
      PROVE  Calls(k, Record(k))
  <2>1. /\ WalkedOver' = WalkedOver \cup {k} /\ Latest' = k /\ walked' # <<>>
    BY <1>1, WalkedIs DEF Replays, ComesFrom
  <2>2. PathAt(k) = Path /\ records' = records
    BY <1>1 DEF Replays, Recorded, PathAt
  <2>3. Record(k) \in Reply
    BY RecordsAre
  <2> QED
    BY <1>1, <2>1, <2>2, <2>3 DEF Calls, Replays, ComesFrom, PathAt, Record
<1>2. ASSUME NEW reply \in Reply, Journals(reply)
      PROVE  \E k : Calls(k, reply)
  <2>0. PICK k : k = Len(records) + 1
    OBVIOUS
  <2>1. /\ WalkedOver' = WalkedOver \cup {k} /\ Latest' = k /\ walked' # <<>>
    BY <1>2, <2>0, WalkedIs DEF Journals, Appends, ComesFrom
  <2>6. Appends(reply)
    BY <1>2 DEF Journals
  <2>2. /\ records'[k] = [path |-> Path, ask |-> Top.ask, reply |-> reply]
        /\ DOMAIN records' = 1..k /\ k \in Nat
    BY <2>0, <2>6, NewRecordIs, Zenon
  <2>4. k \in DOMAIN records'
    BY <2>0, <2>2, RecordsAre
  <2>5. PathAt(k)' = Path /\ Record(k)' = reply
    BY <2>2 DEF PathAt, Record
  <2>3. Calls(k, reply)
    BY <1>2, <2>0, <2>1, <2>4, <2>5 DEF Calls, Journals, Appends, ComesFrom
  <2> QED
    BY <2>3
<1> QED
  BY <1>1, <1>2

\* The moves, with every replay and every journalled reply told as a call.
LEMMA MovesCall ==
    ASSUME WalkTypeOK, Moves
    PROVE  \/ Deepens \/ Opens \/ Halts \/ Yields \/ Quiet \/ FinishWalk \/ Again
           \/ \E k, reply : Calls(k, reply)
           \/ \E f : Rises(f)
           \/ \E f : GoesOn(f)
<1>1. (\E k \in DOMAIN records : Replays(k)) => \E k, reply : Calls(k, reply)
  BY CallsAre, RecordsAre
<1>2. (\E reply \in Reply : Journals(reply)) => \E k, reply : Calls(k, reply)
  BY CallsAre
<1> QED
  BY <1>1, <1>2, MovesAre

\* Records stay.
LEMMA RecordsStay ==
    ASSUME WalkTypeOK, Moves, NEW k \in DOMAIN records
    PROVE  /\ k \in DOMAIN records' /\ records'[k] = records[k]
           /\ PathAt(k)' = PathAt(k) /\ Record(k)' = Record(k)
<1>1. CASE records' = records
  BY <1>1 DEF PathAt, Record
<1>2. CASE \E reply \in Reply : Appends(reply)
  BY <1>2, NewRecordIs
<1> QED
  BY <1>1, <1>2, MovesAre
     DEF Deepens, Opens, Halts, Yields, Quiet, FinishWalk, Again, Journals, Replays, Rises, GoesOn

\* What is walked over: nothing anew, but where a call is over or the run is resumed.
LEMMA WalkedStays ==
    ASSUME WalkTypeOK,
           Deepens \/ Opens \/ Halts \/ Yields \/ Quiet \/ FinishWalk \/ (\E f : Rises(f))
           \/ (\E f : GoesOn(f))
    PROVE  /\ walked' = walked /\ records' = records
           /\ WalkedOver' = WalkedOver /\ Latest' = Latest
           /\ \A k : PathAt(k)' = PathAt(k) /\ Record(k)' = Record(k)
<1>1. walked' = walked /\ records' = records
  BY DEF Deepens, Opens, Halts, Yields, Quiet, FinishWalk, Rises, GoesOn
<1> QED
  BY <1>1 DEF WalkedOver, Latest, PathAt, Record

\* What is walked over is a record, on a path of the tree.
LEMMA WalkedPaths ==
    ASSUME WalkTypeOK, NEW k \in WalkedOver
    PROVE  k \in DOMAIN records /\ PathAt(k) \in Paths /\ Record(k) \in Reply
  BY RecordsAre DEF Paths

\* The walk's own path leads through its stack.
LEMMA OwnPath ==
    ASSUME WalkTypeOK
    PROVE  Through(Path, stack, Len(stack)) /\ Path \in Paths
<1>1. \A m \in 1..(Len(stack) - 1) : m \in 1..Len(stack)
  BY StackIs
<1>2. Len(stack) \in 1..Len(stack) /\ Len(stack) \in Nat
  BY StackIs
<1> QED
  BY <1>1, <1>2, PathIs DEF Through, Paths

\* Every move keeps that what was walked over has been left, or has just ended.
LEMMA OrderStep ==
    ASSUME WalkTypeOK, ChainInv, OrderInv, Moves
    PROVE  OrderInv'
<1> SUFFICES ASSUME NEW k \in WalkedOver'
             PROVE  \/ Left(PathAt(k)', stack')
                    \/ WalkEnded' /\ Through(PathAt(k)', stack', Len(stack'))
  BY DEF OrderInv
<1>1. CASE Deepens \/ Opens
  <2>1. k \in WalkedOver /\ PathAt(k)' = PathAt(k) /\ ~WalkEnded
    BY <1>1, WalkedStays DEF Deepens, Opens, WalkEnded
  <2>2. PICK j \in 1..Len(stack) : LeftAt(PathAt(k), stack, j)
    BY <2>1 DEF OrderInv, Left
  <2> QED
    BY <1>1, <2>1, <2>2, WalkedPaths, LeftDeeper DEF Left
<1>2. CASE Halts \/ Yields \/ Quiet \/ FinishWalk
  <2>1. k \in WalkedOver /\ PathAt(k)' = PathAt(k) /\ stack' = stack
    BY <1>2, WalkedStays DEF Halts, Yields, Quiet, FinishWalk
  <2>2. ~WalkEnded \/ WalkEnded'
    BY <1>2 DEF Halts, Yields, Quiet, FinishWalk, WalkEnded
  <2> QED
    BY <2>1, <2>2 DEF OrderInv
<1>3. CASE \E l, reply : Calls(l, reply)
  <2>1. PICK l, reply : Calls(l, reply)
    BY <1>3
  <2>2. CASE k = l
    BY <2>1, <2>2, OwnPath DEF Calls, WalkEnded
  <2>3. CASE k # l
    <3>1. k \in WalkedOver /\ stack' = stack /\ ~WalkEnded
      BY <2>1, <2>3 DEF Calls, WalkEnded
    <3>2. PathAt(k)' = PathAt(k)
      BY <3>1, WalkedPaths, RecordsStay
    <3> QED
      BY <3>1, <3>2 DEF OrderInv
  <2> QED
    BY <2>2, <2>3
<1>4. CASE (\E f : Rises(f)) \/ (\E f : GoesOn(f))
  <2>1. PICK f : Rises(f) \/ GoesOn(f)
    BY <1>4
  <2>2. k \in WalkedOver /\ PathAt(k)' = PathAt(k)
    BY <1>4, WalkedStays
  <2>0. Len(stack) \in Nat \ {0, 1} /\ Len(stack') = Len(stack) - 1
    BY <2>1, UpIs, Zenon
  <2>3. PathAt(k) \in Paths /\ Len(stack') \in 1..Len(stack')
    BY <2>0, <2>2, WalkedPaths
  <2>4. GoesOn(f) \/ WalkEnded'
    BY <2>1 DEF Rises, WalkEnded
  <2>5. CASE Through(PathAt(k), stack, Len(stack))
    BY <2>1, <2>2, <2>3, <2>4, <2>5, ThroughUp DEF Left
  <2>6. CASE ~Through(PathAt(k), stack, Len(stack))
    <3>1. PICK j \in 1..Len(stack) : LeftAt(PathAt(k), stack, j)
      BY <2>2, <2>6 DEF OrderInv, Left
    <3> QED
      BY <2>1, <2>2, <2>3, <2>6, <3>1, LeftUp DEF Left
  <2> QED
    BY <2>5, <2>6
<1>5. CASE Again
  BY <1>5 DEF Again, Restarts, WalkedOver
<1> QED
  BY <1>1, <1>2, <1>3, <1>4, <1>5, MovesCall

\* When a call is over, what is at its path is that call.
CallInv ==
    place = "return" /\ IsCall(Top.node) => \A k \in WalkedOver :
        \/ Left(PathAt(k), stack)
        \/ PathAt(k) = Path /\ k = Latest /\ Record(k).kind = ret.kind

\* Every move keeps that what is at the path of a call that is over is that call.
LEMMA CallStep ==
    ASSUME WalkTypeOK, ChainInv, OrderInv, CallInv, Moves
    PROVE  CallInv'
<1> SUFFICES ASSUME place' = "return", IsCall(Top.node)', NEW k \in WalkedOver'
             PROVE  \/ Left(PathAt(k)', stack')
                    \/ PathAt(k)' = Path' /\ k = Latest' /\ Record(k)'.kind = ret'.kind
  BY DEF CallInv
<1>1. CASE Quiet
  <2>1. place = "return" /\ IsCall(Top.node) /\ stack' = stack /\ ret' = ret
    BY <1>1 DEF Quiet, Top
  <2>2. k \in WalkedOver /\ PathAt(k)' = PathAt(k) /\ Record(k)' = Record(k) /\ Latest' = Latest
    BY <1>1, WalkedStays
  <2>3. Path' = Path
    BY <2>1 DEF Path, PathOf
  <2> QED
    BY <2>1, <2>2, <2>3 DEF CallInv
<1>2. CASE Yields
  <2>1. k \in WalkedOver /\ PathAt(k)' = PathAt(k) /\ stack' = stack /\ ~WalkEnded
    BY <1>2, WalkedStays DEF Yields, WalkEnded
  <2> QED
    BY <2>1 DEF OrderInv
<1>3. CASE \E l, reply : Calls(l, reply)
  <2>1. PICK l, reply : Calls(l, reply)
    BY <1>3
  <2>2. CASE k = l
    <3>1. Path' = Path
      BY <2>1 DEF Calls, Path, PathOf
    <3> QED
      BY <2>1, <2>2, <3>1 DEF Calls
  <2>3. CASE k # l
    <3>1. k \in WalkedOver /\ stack' = stack /\ ~WalkEnded
      BY <2>1, <2>3 DEF Calls, WalkEnded
    <3>2. PathAt(k)' = PathAt(k)
      BY <3>1, WalkedPaths, RecordsStay
    <3> QED
      BY <3>1, <3>2 DEF OrderInv
  <2> QED
    BY <2>2, <2>3
<1>4. ~(\E f : Rises(f))
  <2> SUFFICES ASSUME NEW f, Rises(f) PROVE FALSE
    OBVIOUS
  <2>1. Top' = f /\ f.node = Under.node
    BY UpIs, Zenon
  <2>2. Len(stack) > 1
    BY DEF Rises
  <2> QED
    BY <2>1, <2>2, ChainBelow DEF IsCall
<1> QED
  BY <1>1, <1>2, <1>3, <1>4, MovesCall DEF Deepens, Opens, Halts, FinishWalk, Again, Restarts, GoesOn
-----------------------------------------------------------------------------
(* What a cascade keeps                                                    *)

\* What was called right below the j-th, at a step it has left.
ChildAt(a, f, j) == Len(a) = j + 1 /\ LeftAt(a, f, j)

NoBetter(k, l) ==
    /\ Record(k).q <= Record(l).q
    /\ Record(k).q = Record(l).q => StepOf(k) >= StepOf(l)

\* The best a cascade keeps is the first of the best it retained.
BestAt(j) ==
    LET best == stack[j].best IN
    /\ best # Nil =>
         /\ KindAt(j) = "cascade" /\ best.by \in WalkedOver
         /\ ChildAt(PathAt(best.by), stack, j) /\ WasRetained(best.by)
         /\ best.q = Record(best.by).q
    /\ KindAt(j) = "cascade" => \A k \in WalkedOver :
         ChildAt(PathAt(k), stack, j) /\ WasRetained(k) => best # Nil /\ NoBetter(k, best.by)
BestInv == \A j \in 1..Len(stack) : BestAt(j)

\* A path goes on only until the step at which it was left.
LEMMA LeftOnce ==
    ASSUME WalkTypeOK, NEW a \in Paths, NEW i \in 1..Len(stack), NEW j \in 1..Len(stack),
           LeftAt(a, stack, i), Through(a, stack, j)
    PROVE  j <= i
<1> SUFFICES ASSUME i < j PROVE FALSE
  BY StackIs
<1>1. i \in 1..(j - 1)
  BY StackIs
<1>2. a[i] = <<stack[i].node, stack[i].i>>
  BY <1>1 DEF Through
<1>3. a[i][2] = stack[i].i /\ stack[i].i \in Nat
  BY <1>2, StackIs
<1> QED
  BY <1>3 DEF LeftAt

\* Whether a path is left depends on the nodes and steps of the evaluations alone.
LEMMA LeftAgrees ==
    ASSUME NEW a, NEW f, NEW g, NEW j \in Nat, g[j].node = f[j].node, g[j].i = f[j].i,
           \A m \in 1..(j - 1) : g[m].node = f[m].node /\ g[m].i = f[m].i
    PROVE  LeftAt(a, f, j) <=> LeftAt(a, g, j)
  BY ThroughAgrees DEF LeftAt

\* An evaluation's best stays right while nothing it rests on changes.
LEMMA BestStays ==
    ASSUME WalkTypeOK, UNCHANGED <<walked, records>>, NEW j \in Nat, BestAt(j),
           stack'[j].node = stack[j].node, stack'[j].i = stack[j].i,
           stack'[j].best = stack[j].best,
           \A m \in 1..(j - 1) : stack'[m].node = stack[m].node /\ stack'[m].i = stack[m].i
    PROVE  BestAt(j)'
<1>1. /\ WalkedOver' = WalkedOver
      /\ \A k : PathAt(k)' = PathAt(k) /\ Record(k)' = Record(k) /\ StepOf(k)' = StepOf(k)
  BY DEF WalkedOver, PathAt, Record, StepOf
<1>2. \A k : WasRetained(k)' = WasRetained(k) /\ \A l : NoBetter(k, l)' <=> NoBetter(k, l)
  BY <1>1 DEF WasRetained, NoBetter
<1>3. \A a : ChildAt(a, stack', j) <=> ChildAt(a, stack, j)
  BY LeftAgrees DEF ChildAt
<1>4. KindAt(j)' = KindAt(j)
  BY DEF KindAt
<1> QED
  BY <1>1, <1>2, <1>3, <1>4 DEF BestAt
\* What was called right below a cascade at the step it comes back from is the call that
\* is just over.
LEMMA OwnChild ==
    ASSUME WalkTypeOK, ChainInv, RecordsInv, OrderInv, CallInv,
           place = "return", Len(stack) > 1, NEW k \in WalkedOver,
           Len(PathAt(k)) = Len(stack), Through(PathAt(k), stack, Len(stack) - 1),
           PathAt(k)[Len(stack) - 1][2] = Under.i
    PROVE  IsCall(Top.node) /\ k = Latest /\ PathAt(k) = Path /\ Record(k).kind = ret.kind
<1>0. Len(stack) \in Nat \ {0, 1} /\ Len(stack) - 1 \in 1..Len(stack)
      /\ Len(stack) \in 1..Len(stack)
  BY StackIs
<1>1. k \in DOMAIN records /\ PathAt(k) \in Paths
  BY WalkedPaths
<1>2. ASSUME NEW j \in 1..Len(stack), LeftAt(PathAt(k), stack, j)
      PROVE  j = Len(stack)
  <2>1. Len(stack) - 1 <= j
    BY <1>0, <1>1, <1>2, LeftOnce
  <2>2. j # Len(stack) - 1
    <3> SUFFICES ASSUME j = Len(stack) - 1 PROVE FALSE
      OBVIOUS
    <3>1. Under.i < Under.i /\ Under.i \in Nat
      BY <1>0, <1>2, StackIs DEF LeftAt, Under
    <3> QED
      BY <3>1
  <2> QED
    BY <1>0, <2>1, <2>2
<1>3. Through(PathAt(k), stack, Len(stack))
  <2>1. CASE Left(PathAt(k), stack)
    BY <1>2, <2>1 DEF Left, LeftAt
  <2> QED
    BY <2>1 DEF OrderInv
<1>4. IsCall(Top.node)
  <2>1. PathAt(k)[Len(stack)][1] = Top.node
    BY <1>3 DEF Through, Top
  <2>2. IsCall(PathAt(k)[Len(stack)][1])
    BY <1>0, <1>1 DEF RecordsInv, RecordAt
  <2> QED
    BY <2>1, <2>2
<1>5. ~Left(PathAt(k), stack)
  <2> SUFFICES ASSUME NEW j \in 1..Len(stack), LeftAt(PathAt(k), stack, j) PROVE FALSE
    BY DEF Left
  <2>1. j = Len(stack)
    BY <1>2
  <2>2. PathAt(k)[Len(stack)][2] < Top.i
    BY <2>1 DEF LeftAt, Top
  <2>3. Top.i = 0 /\ PathAt(k)[Len(stack)][2] \in Nat
    BY <1>0, <1>1, <1>4, PathsAre DEF ChainInv
  <2> QED
    BY <2>2, <2>3
<1> QED
  BY <1>4, <1>5 DEF CallInv

\* Nothing was called yet at the step that the innermost is about to take.
LEMMA NoneYet ==
    ASSUME WalkTypeOK, OrderInv, ~WalkEnded, NEW k \in WalkedOver,
           Through(PathAt(k), stack, Len(stack))
    PROVE  Node.kind \in LadderKinds /\ PathAt(k)[Len(stack)][2] < Top.i
<1>1. PICK i \in 1..Len(stack) : LeftAt(PathAt(k), stack, i)
  BY DEF OrderInv, Left
<1>2. Len(stack) \in Nat /\ Len(stack) \in 1..Len(stack)
  BY StackIs
<1>3. PathAt(k) \in Paths /\ Len(stack) <= i
  BY <1>1, <1>2, WalkedPaths, LeftOnce
<1>4. i = Len(stack)
  BY <1>2, <1>3
<1> QED
  BY <1>1, <1>4 DEF LeftAt, Node, Top

\* A call leaves the best of every evaluation as it is.
LEMMA CallsKeepBest ==
    ASSUME WalkTypeOK, BestInv, Moves, NEW l, NEW reply, Calls(l, reply)
    PROVE  BestInv'
<1> SUFFICES ASSUME NEW j \in 1..Len(stack) PROVE BestAt(j)'
  BY DEF Calls, BestInv
<1>1. stack' = stack /\ WalkedOver' = WalkedOver \cup {l} /\ PathAt(l)' = Path
  BY DEF Calls
<1>2. \A k \in WalkedOver : /\ PathAt(k)' = PathAt(k) /\ Record(k)' = Record(k)
                            /\ StepOf(k)' = StepOf(k)
  <2> TAKE k \in WalkedOver
  <2>1. PathAt(k)' = PathAt(k) /\ Record(k)' = Record(k) /\ records'[k] = records[k]
    BY WalkedPaths, RecordsStay
  <2> QED
    BY <2>1 DEF StepOf
<1>3. \A k \in WalkedOver : /\ WasRetained(k)' = WasRetained(k)
                            /\ \A m \in WalkedOver : NoBetter(k, m)' <=> NoBetter(k, m)
  BY <1>2 DEF WasRetained, NoBetter
<1>4. ~ChildAt(Path, stack, j)
  <2>1. Path[j][2] = stack[j].i /\ stack[j].i \in Nat
    BY PathIs, StackIs
  <2> QED
    BY <2>1 DEF ChildAt, LeftAt
<1>5. BestAt(j) /\ KindAt(j)' = KindAt(j)
  BY <1>1 DEF BestInv, KindAt
<1>6. \A k \in WalkedOver' : ChildAt(PathAt(k)', stack, j) =>
         k \in WalkedOver /\ ChildAt(PathAt(k), stack, j)
  BY <1>1, <1>2, <1>4
<1>7. stack[j].best # Nil => stack[j].best.by \in WalkedOver
  BY <1>5 DEF BestAt
<1> QED
  BY <1>1, <1>2, <1>3, <1>5, <1>6, <1>7 DEF BestAt

\* Going down leaves the best of every evaluation as it is, and begins one with none.
LEMMA DeeperKeepsBest ==
    ASSUME WalkTypeOK, ChainInv, OrderInv, BestInv, Deepens \/ Opens
    PROVE  BestInv'
<1> SUFFICES ASSUME NEW j \in 1..Len(stack') PROVE BestAt(j)'
  BY DEF BestInv
<1>0. /\ Len(stack) \in Nat \ {0}
      /\ \A m \in 1..(Len(stack) - 1) : stack'[m] = stack[m]
      /\ Deepens => Len(stack') = Len(stack) + 1
      /\ Opens => Len(stack') = Len(stack)
      /\ UNCHANGED <<walked, records>>
      /\ ~WalkEnded
  BY StackIs DEF Deepens, Opens, KeepsAllBut, WalkEnded
<1>1. \A k : PathAt(k)' = PathAt(k) /\ WalkedOver' = WalkedOver
  BY <1>0 DEF PathAt, WalkedOver
<1>2. PICK i : stack'[Len(stack)] = [Top EXCEPT !.i = i]
  BY DEF Deepens, Opens
<1>3. /\ stack'[Len(stack)].node = Top.node /\ stack'[Len(stack)].i = i
      /\ stack'[Len(stack)].best = Top.best
  BY <1>2, StackIs DEF Evaluations
<1>4. CASE j \in 1..(Len(stack) - 1)
  <2>1. j \in 1..Len(stack) /\ \A m \in 1..(j - 1) : m \in 1..(Len(stack) - 1)
    BY <1>0, <1>4
  <2>2. stack'[j] = stack[j] /\ \A m \in 1..(j - 1) : stack'[m] = stack[m]
    BY <1>0, <1>4, <2>1
  <2>3. BestAt(j)
    BY <2>1 DEF BestInv
  <2> QED
    BY <1>0, <2>1, <2>2, <2>3, BestStays
<1>5. CASE j = Len(stack) /\ Node.kind = "cascade" /\ Deepens
  <2>1. stack'[j] = Top
    <3>1. stack'[Len(stack)] = [Top EXCEPT !.i = Top.i]
      BY <1>5 DEF Deepens, LadderKinds
    <3> QED
      BY <1>5, <3>1, StackIs DEF Evaluations
  <2>2. stack'[j] = stack[j] /\ BestAt(j)
    BY <1>0, <1>5, <2>1 DEF Top, BestInv
  <2> QED
    BY <1>0, <1>5, <2>2, BestStays
<1>6. CASE j = Len(stack) /\ ~(Node.kind = "cascade" /\ Deepens)
  <2>1. stack[j].best = Nil
    <3>1. CASE Opens
      BY <1>6, <3>1 DEF Opens, ChainInv, Top
    <3>2. CASE Node.kind # "cascade"
      BY <1>0, <1>6, <3>2 DEF BestInv, BestAt, KindAt, Node, Top
    <3> QED
      BY <1>6, <3>1, <3>2
  <2>2. stack'[j].best = Nil /\ stack'[j].node = Top.node
    BY <1>3, <1>6, <2>1 DEF Top
  <2>3. ASSUME NEW k \in WalkedOver, KindAt(j)' = "cascade", ChildAt(PathAt(k), stack', j)
        PROVE  FALSE
    <3>1. Opens /\ Node.kind = "cascade"
      BY <1>6, <2>2, <2>3 DEF KindAt, Node
    <3>2. Through(PathAt(k), stack, Len(stack))
      <4>1. Through(PathAt(k), stack', Len(stack))
        BY <1>6, <2>3 DEF ChildAt, LeftAt
      <4> QED
        BY <1>0, <1>3, <4>1, ThroughAgrees DEF Top
    <3>3. PathAt(k)[Len(stack)][2] < Top.i
      BY <1>0, <3>2, NoneYet
    <3>4. Top.i = 0
      BY <3>1 DEF Opens, ChainInv
    <3>5. PathAt(k)[Len(stack)][2] \in Nat
      BY <1>0, <3>2, PathsAre, WalkedPaths DEF Through
    <3> QED
      BY <3>3, <3>4, <3>5
  <2> QED
    BY <1>1, <2>2, <2>3 DEF BestAt
<1>7. CASE j = Len(stack) + 1
  <2>1. stack'[j].best = Nil /\ stack'[j].i = 0
    BY <1>0, <1>7 DEF Deepens, Opens
  <2>2. ASSUME NEW k \in WalkedOver, ChildAt(PathAt(k), stack', j)
        PROVE  FALSE
    <3>1. PathAt(k) \in Paths /\ Len(PathAt(k)) >= j /\ PathAt(k)[j][2] < 0
      BY <2>1, <2>2, WalkedPaths DEF ChildAt, LeftAt, Through
    <3>2. PathAt(k)[j][2] \in Nat
      BY <1>0, <1>7, <3>1, PathsAre
    <3> QED
      BY <3>1, <3>2
  <2> QED
    BY <1>1, <2>1, <2>2 DEF BestAt
<1> QED
  BY <1>0, <1>4, <1>5, <1>6, <1>7
\* Coming up leaves alone what lies below the evaluation that takes over.
LEMMA UpKeepsBelow ==
    ASSUME WalkTypeOK, BestInv, NEW f, Rises(f) \/ GoesOn(f), NEW j \in 1..(Len(stack) - 2)
    PROVE  BestAt(j)'
<1>1. Len(stack) \in Nat \ {0, 1} /\ \A m \in 1..(Len(stack) - 2) : stack'[m] = stack[m]
  BY UpIs, Zenon
<1>2. j \in Nat /\ j \in 1..Len(stack) /\ \A m \in 1..(j - 1) : m \in 1..(Len(stack) - 2)
  BY <1>1
<1>3. stack'[j] = stack[j] /\ \A m \in 1..(j - 1) : stack'[m] = stack[m]
  BY <1>1, <1>2
<1>4. UNCHANGED <<walked, records>> /\ BestAt(j)
  BY <1>2 DEF Rises, GoesOn, BestInv
<1> QED
  BY <1>2, <1>3, <1>4, BestStays

\* Handing up leaves the best of the evaluations that remain.
LEMMA RisesKeepsBest ==
    ASSUME WalkTypeOK, BestInv, NEW f, Rises(f)
    PROVE  BestInv'
<1> SUFFICES ASSUME NEW j \in 1..Len(stack') PROVE BestAt(j)'
  BY DEF BestInv
<1>1. /\ Len(stack) \in Nat \ {0, 1} /\ Len(stack') = Len(stack) - 1
      /\ \A m \in 1..(Len(stack) - 2) : stack'[m] = stack[m]
      /\ stack'[Len(stack) - 1] = f /\ Under = stack[Len(stack) - 1]
  BY UpIs, Zenon
<1>2. CASE j # Len(stack) - 1
  <2>1. j \in 1..(Len(stack) - 2)
    BY <1>1, <1>2
  <2> QED
    BY <2>1, UpKeepsBelow
<1>3. CASE j = Len(stack) - 1
  <2>1. /\ stack'[j].node = stack[j].node /\ stack'[j].i = stack[j].i
        /\ stack'[j].best = stack[j].best /\ UNCHANGED <<walked, records>>
    BY <1>1, <1>3 DEF Rises
  <2>2. j \in Nat /\ j \in 1..Len(stack) /\ \A m \in 1..(j - 1) : stack'[m] = stack[m]
    BY <1>1, <1>3
  <2>3. BestAt(j)
    BY <2>2 DEF BestInv
  <2> QED
    BY <2>1, <2>2, <2>3, BestStays
<1> QED
  BY <1>2, <1>3

\* When a cascade goes on, the step it left adds the call just over, or nothing.
LEMMA GoesOnAdds ==
    ASSUME WalkTypeOK, ChainInv, RecordsInv, OrderInv, CallInv,
           NEW f, GoesOn(f), NEW k \in WalkedOver,
           ChildAt(PathAt(k), stack', Len(stack) - 1)
    PROVE  \/ ChildAt(PathAt(k), stack, Len(stack) - 1)
           \/ /\ IsCall(Top.node) /\ k = Latest /\ PathAt(k) = Path
              /\ Record(k).kind = ret.kind
<1>1. /\ Len(stack) \in Nat \ {0, 1}
      /\ \A m \in 1..(Len(stack) - 2) : stack'[m] = stack[m]
      /\ stack'[Len(stack) - 1] = f /\ Under = stack[Len(stack) - 1] /\ f.node = Under.node
      /\ Under.i \in Nat
  BY UpIs, Zenon
<1>2. Len(stack) > 1 /\ place = "return" /\ f.i = Under.i + 1
  BY DEF GoesOn
<1> DEFINE n == Len(stack) - 1
<1>3. n \in Nat \ {0} /\ \A m \in 1..(n - 1) : m \in 1..(Len(stack) - 2)
  BY <1>1
<1>4. Through(PathAt(k), stack, n)
  <2>1. Through(PathAt(k), stack', n)
    BY DEF ChildAt, LeftAt
  <2>2. \A m \in 1..(n - 1) : stack'[m] = stack[m]
    BY <1>1, <1>3
  <2>3. stack[n].node = stack'[n].node
    BY <1>1
  <2> HIDE DEF n
  <2> QED
    BY <1>3, <2>1, <2>2, <2>3, ThroughAgrees
<1>5. /\ Len(PathAt(k)) = n + 1 /\ PathAt(k)[n][2] < Under.i + 1
      /\ Tree[Under.node].kind \in LadderKinds
  BY <1>1, <1>2 DEF ChildAt, LeftAt
<1>6. PathAt(k)[n][2] \in Nat /\ n + 1 = Len(stack)
  <2>1. PathAt(k) \in Paths
    BY WalkedPaths
  <2>2. n \in 1..Len(PathAt(k)) /\ n + 1 = Len(stack)
    BY <1>1, <1>5
  <2> QED
    BY <2>1, <2>2, PathsAre
<1>7. CASE PathAt(k)[n][2] < Under.i
  BY <1>1, <1>4, <1>5, <1>7 DEF ChildAt, LeftAt
<1>8. CASE PathAt(k)[n][2] = Under.i
  BY <1>2, <1>4, <1>5, <1>6, <1>8, OwnChild
<1> QED
  BY <1>1, <1>5, <1>6, <1>7, <1>8

\* Going on past a step that gave nothing to keep leaves the best as it is.
LEMMA PassedKeepsBest ==
    ASSUME WalkTypeOK, ChainInv, RecordsInv, OrderInv, CallInv, BestInv, NEW f, GoesOn(f),
           f.best = Under.best,
           \/ Tree[Under.node].kind # "cascade"
           \/ ret.kind \in {"skip", "err"},
           NEW n \in Nat, n = Len(stack) - 1
    PROVE  BestAt(n)'
<1>1. /\ Len(stack) \in Nat \ {0, 1}
      /\ \A m \in 1..(Len(stack) - 2) : stack'[m] = stack[m]
      /\ stack'[Len(stack) - 1] = f /\ Under = stack[Len(stack) - 1] /\ f.node = Under.node
      /\ Under.i \in Nat
  BY UpIs, Zenon
<1>3. /\ WalkedOver' = WalkedOver
      /\ \A k : /\ PathAt(k)' = PathAt(k) /\ Record(k)' = Record(k)
                /\ StepOf(k)' = StepOf(k) /\ WasRetained(k)' = WasRetained(k)
                /\ \A l : NoBetter(k, l)' <=> NoBetter(k, l)
  BY DEF GoesOn, WalkedOver, PathAt, Record, StepOf, WasRetained, NoBetter
<1>4. BestAt(n) /\ f.i = Under.i + 1
  BY <1>1 DEF BestInv, GoesOn
<1>5. stack'[n].best = stack[n].best /\ KindAt(n)' = KindAt(n)
      /\ KindAt(n) = Tree[Under.node].kind
  BY <1>1 DEF KindAt
<1>6. ASSUME NEW k \in WalkedOver, ChildAt(PathAt(k), stack, n)
      PROVE  ChildAt(PathAt(k), stack', n)
  <2>1. /\ \A m \in 1..(n - 1) : stack'[m] = stack[m]
        /\ stack'[n].node = stack[n].node
        /\ stack'[n].i = stack[n].i + 1 /\ stack[n].i \in Nat
    BY <1>1, <1>4
  <2>2. Through(PathAt(k), stack', n)
    BY <1>6, <2>1, ThroughAgrees DEF ChildAt, LeftAt
  <2>3. PathAt(k)[n][2] \in Nat
    <3>1. PathAt(k) \in Paths /\ n \in 1..Len(PathAt(k))
      BY <1>1, <1>6, WalkedPaths DEF ChildAt
    <3> QED
      BY <3>1, PathsAre
  <2> QED
    BY <1>6, <2>1, <2>2, <2>3 DEF ChildAt, LeftAt
<1>7. ASSUME NEW k \in WalkedOver, KindAt(n) = "cascade", ChildAt(PathAt(k), stack', n),
             WasRetained(k)
      PROVE  ChildAt(PathAt(k), stack, n)
  <2>1. ret.kind \in {"skip", "err"}
    BY <1>5, <1>7
  <2>2. Record(k).kind # ret.kind
    BY <1>7, <2>1 DEF WasRetained
  <2> QED
    BY <1>7, <2>2, GoesOnAdds
<1> QED
  BY <1>3, <1>4, <1>5, <1>6, <1>7 DEF BestAt

\* Retaining an answer makes it the best when, and only when, it is better.
LEMMA RetainingKeepsBest ==
    ASSUME WalkTypeOK, ChainInv, CameInv, RecordsInv, OrderInv, CallInv, BestInv,
           NEW f, f = Retaining(Under, ret), GoesOn(f),
           Tree[Under.node].kind = "cascade", ret.kind \in {"ok", "deficient"},
           InReview(Top.node, ret) \/ Escalates(Top.node, ret),
           NEW n \in Nat, n = Len(stack) - 1
    PROVE  BestAt(n)'
<1>1. /\ Len(stack) \in Nat \ {0, 1}
      /\ \A m \in 1..(Len(stack) - 2) : stack'[m] = stack[m]
      /\ stack'[Len(stack) - 1] = f /\ Under = stack[Len(stack) - 1] /\ f.node = Under.node
      /\ Under.i \in Nat
  BY UpIs, Zenon
<1>0. /\ place = "return" /\ Len(stack) > 1
      /\ ret \in Outcome \cup {Nil} /\ (place = "return" => ret # Nil)
  BY DEF GoesOn, WalkTypeOK
<1>2. /\ place = "return" /\ Len(stack) > 1 /\ n \in 1..Len(stack) /\ n # 0
      /\ ret \in Outcome /\ Under \in Evaluations
  BY <1>0, <1>1, StackIs
<1>3. /\ WalkedOver' = WalkedOver
      /\ \A k : /\ PathAt(k)' = PathAt(k) /\ Record(k)' = Record(k)
                /\ StepOf(k)' = StepOf(k) /\ WasRetained(k)' = WasRetained(k)
                /\ \A l : NoBetter(k, l)' <=> NoBetter(k, l)
  BY DEF GoesOn, WalkedOver, PathAt, Record, StepOf, WasRetained, NoBetter
<1>4. BestAt(n) /\ f.i = Under.i + 1 /\ KindAt(n) = "cascade"
  BY <1>1, <1>2 DEF BestInv, GoesOn, KindAt
<1>5. /\ f.best = IF Better(ret, Under.best) THEN ret ELSE Under.best
      /\ stack'[n].best = f.best /\ KindAt(n)' = KindAt(n)
  <2>1. f.best = IF Better(ret, Under.best) THEN ret ELSE Under.best
    BY <1>2, FramesOf
  <2> QED
    BY <1>1, <2>1 DEF KindAt
\* What is retained is the call just over.
<1>6. IsCall(Top.node) /\ ret.gate \in {"fires", "review"}
  BY DEF InReview, Escalates, IsCall
<1>7. /\ walked # <<>> /\ ret.by = Latest /\ PathAt(Latest) = Path
      /\ ret.kind = Record(Latest).kind /\ ret.q = Record(Latest).q
      /\ ret.gate = Record(Latest).gate
  BY <1>2, <1>6 DEF CameInv
<1>8. Latest \in WalkedOver /\ WasRetained(Latest)
  <2>1. Latest \in WalkedOver
    BY <1>7, RecordsAre
  <2> QED
    BY <1>6, <1>7, <2>1 DEF WasRetained
<1>9. ChildAt(PathAt(Latest), stack', n) /\ StepOf(Latest) = Under.i
  <2>1. Path \in Paths /\ Through(Path, stack, Len(stack)) /\ Len(Path) = Len(stack)
    BY OwnPath, PathIs
  <2>2. Path[Len(stack) - 1] = <<Under.node, Under.i>> /\ LeftAt(Path, stack', Len(stack'))
    BY <2>1, ThroughUp
  <2>3. Len(stack') = n /\ Len(Path) = n + 1
    BY <1>1, <2>1 DEF GoesOn
  <2> QED
    BY <1>7, <2>1, <2>2, <2>3 DEF ChildAt, StepOf, PathAt
<1>10. ASSUME NEW k \in WalkedOver, ChildAt(PathAt(k), stack, n)
       PROVE  ChildAt(PathAt(k), stack', n) /\ StepOf(k) < Under.i /\ StepOf(k) \in Nat
  <2>1. /\ \A m \in 1..(n - 1) : stack'[m] = stack[m]
        /\ stack'[n].node = stack[n].node
        /\ stack'[n].i = stack[n].i + 1 /\ stack[n].i \in Nat
    BY <1>1, <1>4
  <2>2. Through(PathAt(k), stack', n)
    BY <1>10, <2>1, ThroughAgrees DEF ChildAt, LeftAt
  <2>3. PathAt(k)[n][2] \in Nat
    <3>1. PathAt(k) \in Paths /\ n \in 1..Len(PathAt(k))
      BY <1>1, <1>10, WalkedPaths DEF ChildAt
    <3> QED
      BY <3>1, PathsAre
  <2>4. PathAt(k)[n][2] < stack[n].i
    BY <1>10 DEF ChildAt, LeftAt
  <2>5. StepOf(k) = PathAt(k)[n][2]
    <3>1. Len(PathAt(k)) = n + 1
      BY <1>10 DEF ChildAt
    <3> QED
      BY <3>1 DEF StepOf, PathAt
  <2>6. ChildAt(PathAt(k), stack', n)
    BY <1>10, <2>1, <2>2, <2>3, <2>4 DEF ChildAt, LeftAt
  <2> QED
    BY <1>1, <2>3, <2>4, <2>5, <2>6
<1>11. \A k \in WalkedOver : ChildAt(PathAt(k), stack', n) =>
          ChildAt(PathAt(k), stack, n) \/ k = Latest
  BY GoesOnAdds
<1>12. \A k \in WalkedOver : Record(k).q \in Nat
  BY WalkedPaths, ReplyIs
<1>13. CASE Better(ret, Under.best)
  <2>1. stack'[n].best = ret
    BY <1>5, <1>13
  <2>2. ASSUME NEW k \in WalkedOver, ChildAt(PathAt(k), stack', n), WasRetained(k)
        PROVE  NoBetter(k, Latest)
    <3>1. CASE k = Latest
      BY <1>9, <1>12, <3>1, <1>1 DEF NoBetter
    <3>2. CASE ChildAt(PathAt(k), stack, n)
      <4>1. /\ Under.best # Nil /\ NoBetter(k, Under.best.by)
            /\ Under.best.by \in WalkedOver /\ Under.best.q = Record(Under.best.by).q
        BY <1>1, <1>4, <2>2, <3>2 DEF BestAt
      <4>2. ret.q > Under.best.q
        BY <1>13, <4>1 DEF Better
      <4> QED
        BY <1>7, <1>8, <1>12, <4>1, <4>2 DEF NoBetter
    <3> QED
      BY <1>11, <2>2, <3>1, <3>2
  <2>3. ret # Nil
    BY <1>2, OutcomeIs
  <2> QED
    BY <1>3, <1>4, <1>5, <1>7, <1>8, <1>9, <2>1, <2>2, <2>3 DEF BestAt
<1>14. CASE ~Better(ret, Under.best)
  <2>1. stack'[n].best = Under.best /\ Under.best = stack[n].best
    BY <1>1, <1>5, <1>14
  <2>2. Under.best # Nil /\ ~(ret.q > Under.best.q)
    BY <1>14 DEF Better
  <2>3. /\ Under.best.by \in WalkedOver /\ Under.best.q = Record(Under.best.by).q
        /\ ChildAt(PathAt(Under.best.by), stack, n) /\ WasRetained(Under.best.by)
    BY <1>4, <2>1, <2>2 DEF BestAt
  <2>4. ASSUME NEW k \in WalkedOver, ChildAt(PathAt(k), stack', n), WasRetained(k)
        PROVE  NoBetter(k, Under.best.by)
    <3>1. CASE k = Latest
      <4>1. Record(k).q <= Record(Under.best.by).q
        BY <1>7, <1>8, <1>12, <2>2, <2>3, <3>1
      <4>2. StepOf(k) >= StepOf(Under.best.by)
        BY <1>1, <1>9, <1>10, <2>3, <3>1
      <4> QED
        BY <4>1, <4>2 DEF NoBetter
    <3>2. CASE ChildAt(PathAt(k), stack, n)
      BY <1>4, <2>1, <2>4, <3>2 DEF BestAt
    <3> QED
      BY <1>11, <2>4, <3>1, <3>2
  <2> QED
    BY <1>3, <1>4, <1>5, <1>10, <2>1, <2>2, <2>3, <2>4 DEF BestAt
<1> QED
  BY <1>13, <1>14

\* Every move keeps every evaluation's best what the records make it.
LEMMA BestStep ==
    ASSUME WalkTypeOK, ChainInv, CameInv, RecordsInv, OrderInv, CallInv, BestInv, Moves
    PROVE  BestInv'
<1>1. CASE Deepens \/ Opens
  BY <1>1, DeeperKeepsBest
<1>2. CASE \E l, reply : Calls(l, reply)
  BY <1>2, CallsKeepBest
<1>3. CASE \E f : Rises(f)
  BY <1>3, RisesKeepsBest
<1>4. CASE Halts \/ Yields \/ Quiet \/ FinishWalk
  <2>1. UNCHANGED <<walked, records, stack>>
    BY <1>4 DEF Halts, Yields, Quiet, FinishWalk
  <2> SUFFICES ASSUME NEW j \in 1..Len(stack) PROVE BestAt(j)'
    BY <2>1 DEF BestInv
  <2>2. j \in Nat /\ BestAt(j)
    BY DEF BestInv
  <2> QED
    BY <2>1, <2>2, BestStays
<1>5. CASE Again
  <2>1. stack' = <<Frame(stack[1].node)>> /\ walked' = <<>>
    BY <1>5 DEF Again, Restarts
  <2>2. Frame(stack[1].node).best = Nil
    BY StackIs, FrameIs
  <2>3. WalkedOver' = {}
    BY <2>1 DEF WalkedOver
  <2> SUFFICES ASSUME NEW j \in 1..Len(stack') PROVE BestAt(j)'
    BY DEF BestInv
  <2>4. stack'[j].best = Nil
    BY <2>1, <2>2
  <2> QED
    BY <2>3, <2>4 DEF BestAt
<1>6. CASE \E f : GoesOn(f)
  <2> SUFFICES ASSUME NEW j \in 1..Len(stack') PROVE BestAt(j)'
    BY DEF BestInv
  <2>1. PICK f : GoesOn(f)
    BY <1>6
  <2>2. Len(stack) \in Nat \ {0, 1} /\ Len(stack') = Len(stack) - 1
        /\ Under = stack[Len(stack) - 1]
    BY <2>1, UpIs, Zenon
  <2>3. CASE j # Len(stack) - 1
    <3>1. j \in 1..(Len(stack) - 2)
      BY <2>2, <2>3
    <3> QED
      BY <2>1, <3>1, UpKeepsBelow
  <2>4. CASE j = Len(stack) - 1
    <3>1. j \in Nat /\ Len(stack) > 1 /\ place = "return" /\ place' = "step"
      BY <2>1, <2>2 DEF GoesOn
    <3>2. Under \in Evaluations /\ ret \in Outcome
      BY <3>1, StackIs DEF WalkTypeOK
    <3>3. CASE Tree[Under.node].kind = "cascade" /\ GoesOn(Passed(Under)) /\ ret.kind \in {"skip", "err"}
      <4>1. Passed(Under).best = Under.best
        BY <3>2, FramesOf
      <4> QED
        BY <2>4, <3>1, <3>3, <4>1, PassedKeepsBest
    <3>4. CASE /\ Tree[Under.node].kind = "cascade"
               /\ GoesOn(Retaining(Under, ret)) /\ ret.kind \in {"ok", "deficient"}
               /\ InReview(Top.node, ret) \/ Escalates(Top.node, ret)
      BY <2>4, <3>1, <3>4, RetainingKeepsBest
    <3>5. CASE Tree[Under.node].kind = "paged" /\ \E pages \in Gradings : RungStitched(pages)
      <4>1. PICK pages \in Gradings : RungStitched(pages)
        BY <3>5
      <4>2. GoesOn(NextAsk(Under, pages, Top.node))
        BY <3>1, <4>1 DEF RungStitched, Rises
      <4>3. NextAsk(Under, pages, Top.node).best = Under.best
        BY <3>2, PagesFrames
      <4> QED
        BY <2>4, <3>1, <3>5, <4>2, <4>3, PassedKeepsBest
    <3> QED
      BY <3>1, <3>3, <3>4, <3>5 DEF Moves, Deepens, Opens, Halts, Yields, Quiet, Replays, Journals, Appends,
         Rises, FinishWalk, Resolved, Again, Restarts
  <2> QED
    BY <2>3, <2>4
<1> QED
  BY <1>1, <1>2, <1>3, <1>4, <1>5, <1>6, MovesCall
-----------------------------------------------------------------------------
(* What a walk hands up                                                    *)

AnswerInv ==
    WalkEnded =>
        /\ ret.kind = "ok" => ret.by = 0 \/ (walked # <<>> /\ ret.by = Latest)
        /\ ret.kind = "deficient" => ret.by \in WalkedOver /\ ret.q = Record(ret.by).q

\* What is handed up, by the kind of the node that hands it.
LEMMA HandsUp ==
    ASSUME WalkTypeOK, Moves, NEW f, Rises(f)
    PROVE  \/ Tree[Under.node].kind = "cascade" /\ Resolved
           \/ Tree[Under.node].kind \in {"route", "decide", "use"} /\ ret' = Bare(ret)
           \/ /\ Tree[Under.node].kind = "paged" /\ ret.kind = "ok"
              /\ \E pages \in Gradings : RungStitched(pages) /\ ret' = Document
           \/ /\ Tree[Under.node].kind = "paged" /\ ret.kind \in {"err", "skip"}
              /\ ret' = Fallen(Under.pages)
<1>1. place = "return" /\ place' = "return" /\ Len(stack) \in Nat /\ Len(stack') # Len(stack)
      /\ Len(stack') = Len(stack) - 1
  BY StackIs DEF Rises
<1>2. PassUp => Tree[Under.node].kind \in {"route", "decide", "use"}
  BY DEF PassUp, Above, Below, Under
<1>3. \A pages : RungStitched(pages) => ret.kind = "ok" /\ ret' = Document
  BY <1>1 DEF RungStitched, GoesOn
<1>4. RungFailed => ret.kind \in {"err", "skip"}
  BY DEF RungFailed
<1> QED
  BY <1>1, <1>2, <1>3, <1>4
     DEF Moves, Deepens, Opens, Halts, Yields, Quiet, Replays, Journals, Appends, FinishWalk, Again, Restarts,
         GoesOn

\* Every move keeps that an answer in hand is that of its record.
LEMMA AnswerStep ==
    ASSUME WalkTypeOK, BestInv, AnswerInv, Moves
    PROVE  AnswerInv'
<1>1. CASE \E l, reply : Calls(l, reply)
  <2>1. PICK l, reply : Calls(l, reply)
    BY <1>1
  <2> QED
    BY <2>1 DEF Calls, AnswerInv
<1>2. CASE Yields
  <2>1. UNCHANGED <<walked, records>> /\ WalkedOver' = WalkedOver
    BY <1>2 DEF Yields, WalkedOver
  <2>2. CASE ret'.kind = "err"
    BY <2>2 DEF AnswerInv
  <2>3. CASE ret'.kind # "err"
    <3>1. ret'.kind = "deficient" /\ Top.best # Nil /\ ret'.by = Top.best.by /\ ret'.q = Top.best.q
      BY <1>2, <2>3 DEF Yields
    <3>2. BestAt(Len(stack))
      BY StackIs DEF BestInv
    <3>3. Top.best.by \in WalkedOver /\ Top.best.q = Record(Top.best.by).q
      BY <3>1, <3>2 DEF BestAt, Top
    <3> QED
      BY <2>1, <3>1, <3>3 DEF AnswerInv, Record
  <2> QED
    BY <2>2, <2>3
<1>3. CASE Quiet
  BY <1>3 DEF Quiet, AnswerInv, WalkEnded, Latest, WalkedOver, Record
<1>4. ASSUME WalkEnded, UNCHANGED <<walked, records>>,
             ret'.kind = "err" \/ (ret'.kind = "ok" /\ ret'.by = 0)
             \/ (ret'.kind = ret.kind /\ ret'.by = ret.by /\ ret'.q = ret.q)
      PROVE  AnswerInv'
  BY <1>4 DEF AnswerInv, Latest, WalkedOver, Record
<1>5. CASE FinishWalk
  <2>1. ret' = Bare(ret) /\ ret \in Outcome /\ WalkEnded /\ UNCHANGED <<walked, records>>
    BY <1>5 DEF FinishWalk, WalkEnded, WalkTypeOK
  <2> QED
    BY <1>4, <2>1, BareIs
<1>6. CASE \E f : Rises(f)
  <2>1. PICK f : Rises(f)
    BY <1>6
  <2>2. ret \in Outcome /\ WalkEnded /\ UNCHANGED <<walked, records>>
    BY <2>1 DEF Rises, WalkEnded, WalkTypeOK
  <2>3. CASE Resolved
    BY <1>4, <2>2, <2>3 DEF Resolved
  <2>4. CASE ret' = Bare(ret)
    BY <1>4, <2>2, <2>4, BareIs
  <2>5. CASE ret' = Document \/ \E pages : ret' = Fallen(pages)
    BY <1>4, <2>2, <2>5, PagedOutcomeIs
  <2> QED
    BY <2>1, <2>3, <2>4, <2>5, HandsUp
<1> QED
  BY <1>1, <1>2, <1>3, <1>5, <1>6, MovesCall
     DEF AnswerInv, WalkEnded, Deepens, Opens, Halts, GoesOn, Again, Restarts

\* A deficient answer that a cascade kept is the best of those it retained.
KeptInv ==
    WalkEnded /\ ret.kind = "deficient" /\ WasRetained(ret.by)
    /\ ~(place = "return" /\ IsCall(Top.node)) =>
        \A k \in WalkedOver :
            SameCascade(k, ret.by) /\ WasRetained(k) => NoBetter(k, ret.by)

\* Of one pass of the cascade at work, the calls are its children.
LEMMA SameChild ==
    ASSUME WalkTypeOK, OrderInv, ~WalkEnded, Node.kind = "cascade",
           NEW k \in WalkedOver, NEW l \in WalkedOver, ChildAt(PathAt(l), stack, Len(stack)),
           SameCascade(k, l)
    PROVE  ChildAt(PathAt(k), stack, Len(stack))
<1>1. Len(stack) \in Nat \ {0} /\ PathAt(k) \in Paths /\ PathAt(l) \in Paths
  BY StackIs, WalkedPaths
<1>2. PICK n \in Nat : n = Len(stack)
  BY <1>1
<1>3. /\ Len(PathAt(k)) = Len(PathAt(l)) /\ Len(PathAt(l)) = n + 1
      /\ \A m \in 1..(n - 1) : PathAt(k)[m] = PathAt(l)[m]
      /\ PathAt(k)[n][1] = PathAt(l)[n][1]
  BY <1>1, <1>2 DEF SameCascade, ChildAt, PathAt
<1>4. Through(PathAt(k), stack, n)
  BY <1>1, <1>2, <1>3 DEF Through, ChildAt, LeftAt
<1>5. PathAt(k)[n][2] < Top.i /\ Node.kind \in LadderKinds
  BY <1>2, <1>4, NoneYet
<1> QED
  BY <1>2, <1>3, <1>4, <1>5 DEF ChildAt, LeftAt, Top, Node

\* Every move keeps that a deficient answer a cascade kept is the best of those it retained.
LEMMA KeptStep ==
    ASSUME WalkTypeOK, ChainInv, CameInv, RecordsInv, OrderInv, CallInv, BestInv, AnswerInv,
           KeptInv, Moves
    PROVE  KeptInv'
<1> DEFINE Best(l) == \A k \in WalkedOver : SameCascade(k, l) /\ WasRetained(k) => NoBetter(k, l)
<1>0. ASSUME UNCHANGED <<walked, records>>
      PROVE  /\ WalkedOver' = WalkedOver
             /\ \A l : WasRetained(l)' = WasRetained(l) /\ (Best(l) => Best(l)')
  <2>0. walked' = walked /\ records' = records
    BY <1>0
  <2>1. WalkedOver' = WalkedOver
    BY <2>0, Zenon DEF WalkedOver
  <2>2. ASSUME NEW l PROVE Record(l)' = Record(l) /\ StepOf(l)' = StepOf(l)
    BY <2>0 DEF Record, StepOf
  <2>3. ASSUME NEW l PROVE WasRetained(l)' = WasRetained(l)
    BY <2>2 DEF WasRetained
  <2>4. ASSUME NEW k, NEW l PROVE SameCascade(k, l)' = SameCascade(k, l)
    BY <2>0 DEF SameCascade
  <2>5. ASSUME NEW k, NEW l PROVE NoBetter(k, l)' = NoBetter(k, l)
    BY <2>2 DEF NoBetter
  <2>6. ASSUME NEW l, Best(l) PROVE Best(l)'
    BY <2>1, <2>3, <2>4, <2>5, <2>6, Zenon
  <2> QED
    BY <2>1, <2>3, <2>6, Zenon
<1>1. CASE Yields
  <2>1. (UNCHANGED <<walked, records>> /\ place = "step") \/ ret'.kind = "err"
    BY <1>1 DEF Yields
  <2>2. CASE ret'.kind = "err"
    BY <2>2 DEF KeptInv
  <2>3. CASE ret'.kind # "err"
    <3>1. /\ UNCHANGED <<walked, records>> /\ ~WalkEnded
          /\ Top.best # Nil /\ ret'.by = Top.best.by
      BY <1>1, <2>3 DEF Yields, WalkEnded
    <3>2. BestAt(Len(stack))
      BY StackIs DEF BestInv
    <3>3. /\ Top.best.by \in WalkedOver /\ Node.kind = "cascade"
          /\ ChildAt(PathAt(Top.best.by), stack, Len(stack))
          /\ \A k \in WalkedOver : ChildAt(PathAt(k), stack, Len(stack)) /\ WasRetained(k) =>
               NoBetter(k, Top.best.by)
      BY <3>1, <3>2 DEF BestAt, Top, KindAt, Node
    <3>4. \A k \in WalkedOver : SameCascade(k, Top.best.by) =>
             ChildAt(PathAt(k), stack, Len(stack))
      BY <3>1, <3>3, SameChild
    <3>5. Best(Top.best.by)
      BY <3>3, <3>4
    <3> QED
      BY <1>0, <3>1, <3>5 DEF KeptInv
  <2> QED
    BY <2>2, <2>3
<1>2. CASE Quiet
  <2>1. UNCHANGED <<walked, records, ret, place, stack>>
    BY <1>2 DEF Quiet
  <2>2. WalkEnded' = WalkEnded /\ IsCall(Top.node)' = IsCall(Top.node)
    BY <2>1 DEF WalkEnded, Top
  <2> QED
    BY <1>0, <2>1, <2>2 DEF KeptInv
<1>3. ASSUME WalkEnded, UNCHANGED <<walked, records>>, ~(place = "return" /\ IsCall(Top.node)),
             ret'.kind = "deficient" => ret.kind = "deficient" /\ ret'.by = ret.by
      PROVE  KeptInv'
  BY <1>0, <1>3 DEF KeptInv
<1>4. CASE FinishWalk
  <2>1. ret' = Bare(ret) /\ ret \in Outcome /\ WalkEnded /\ UNCHANGED <<walked, records>>
        /\ place = "return" /\ Len(stack) = 1 /\ place' = "done" /\ stack' = stack
    BY <1>4 DEF FinishWalk, WalkEnded, WalkTypeOK
  <2>2. ret'.kind = "deficient" => ret.kind = "deficient" /\ ret'.by = ret.by
    BY <2>1, BareIs
  <2>3. CASE ~IsCall(Top.node)
    BY <1>3, <2>1, <2>2, <2>3
  <2>4. CASE IsCall(Top.node) /\ ret'.kind = "deficient"
    <3>1. ret.by = Latest /\ PathAt(Latest) = Path
      BY <2>1, <2>2, <2>4 DEF CameInv
    <3>2. Len(PathAt(ret.by)) = 1
      BY <2>1, <3>1, PathIs
    <3>3. Best(ret.by)
      BY <3>2 DEF SameCascade, PathAt
    <3> QED
      BY <1>0, <2>1, <2>2, <2>4, <3>3 DEF KeptInv
  <2> QED
    BY <2>3, <2>4 DEF KeptInv
<1>5. CASE \E f : Rises(f)
  <2>1. PICK f : Rises(f)
    BY <1>5
  <2>2. /\ ret \in Outcome /\ WalkEnded /\ UNCHANGED <<walked, records>>
        /\ place = "return" /\ Len(stack) > 1
    BY <2>1 DEF Rises, WalkEnded, WalkTypeOK
  <2>3. CASE Tree[Under.node].kind = "cascade" /\ Resolved
    <3>1. CASE ~IsCall(Top.node)
      BY <1>3, <2>2, <2>3, <3>1 DEF Resolved
    <3>2. CASE IsCall(Top.node) /\ ret'.kind = "deficient"
      <4>1. /\ ret.kind = "deficient" /\ ret'.by = ret.by /\ ~Escalates(Top.node, ret)
        BY <2>3, <3>2 DEF Resolved
      <4>2. /\ walked # <<>> /\ ret.by = Latest /\ PathAt(Latest) = Path
            /\ ret.kind = Record(Latest).kind /\ ret.gate = Record(Latest).gate
        BY <2>2, <3>2, <4>1 DEF CameInv
      <4>3. Latest \in WalkedOver /\ Latest \in DOMAIN records
        BY <4>2, RecordsAre
      <4>4. RecordAt(Path, Record(Latest))
        BY <4>2, <4>3 DEF RecordsInv
      <4>5. Node.kind # "leaf" /\ (Node.kind = "parallel" => ret.gate # "review")
        <5>1. Path[Len(Path)][1] = Top.node
          BY PathIs, StackIs DEF Top
        <5> QED
          BY <4>1, <4>2, <4>4, <5>1 DEF RecordAt, Node
      <4>6. ret.gate = "pass"
        BY <2>2, <3>2, <4>1, <4>5, OutcomeIs DEF IsCall, Node, Escalates, Verdicts
      <4>7. ~WasRetained(ret.by)
        BY <4>2, <4>6 DEF WasRetained
      <4> QED
        BY <1>0, <2>2, <4>1, <4>7 DEF KeptInv
    <3> QED
      BY <3>1, <3>2 DEF KeptInv
  <2>4. CASE Tree[Under.node].kind \in {"route", "decide", "use"} /\ ret' = Bare(ret)
    <3>1. ret'.kind = "deficient" => ret.kind = "deficient" /\ ret'.by = ret.by
      BY <2>2, <2>4, BareIs
    <3>2. CASE ~IsCall(Top.node)
      BY <1>3, <2>2, <3>1, <3>2
    <3>3. CASE IsCall(Top.node) /\ ret'.kind = "deficient"
      <4>1. ret.by = Latest /\ PathAt(Latest) = Path /\ Latest \in WalkedOver
        BY <2>2, <3>1, <3>3, RecordsAre DEF CameInv
      <4>2. ASSUME NEW k \in WalkedOver, SameCascade(k, Latest), k # Latest
            PROVE  FALSE
        <5>1. Left(PathAt(k), stack)
          BY <2>2, <3>3, <4>2 DEF CallInv
        <5>2. PICK j \in 1..Len(stack) : LeftAt(PathAt(k), stack, j)
          BY <5>1 DEF Left
        <5>3. /\ Len(PathAt(k)) = Len(stack) /\ Len(Path) = Len(stack)
              /\ \A m \in 1..(Len(stack) - 2) : PathAt(k)[m] = Path[m]
          BY <4>1, <4>2, PathIs DEF SameCascade, PathAt
        <5>4. CASE j = Len(stack)
          <6>1. PathAt(k)[j][2] < 0
            BY <3>3, <5>2, <5>4 DEF LeftAt, Top, ChainInv
          <6>2. PathAt(k)[j][2] \in Nat
            BY <5>3, <5>4, WalkedPaths, PathsAre
          <6> QED
            BY <6>1, <6>2
        <5>5. CASE j = Len(stack) - 1
          BY <2>4, <5>2, <5>5 DEF LeftAt, LadderKinds, Under
        <5>6. CASE j # Len(stack) /\ j # Len(stack) - 1
          <6>0. Len(stack) \in Nat
            BY StackIs
          <6>1. j \in 1..(Len(stack) - 2)
            BY <5>6, <6>0
          <6>2. PathAt(k)[j][2] = stack[j].i /\ stack[j].i \in Nat
            BY <5>3, <6>1, PathIs, StackIs
          <6> QED
            BY <5>2, <6>2 DEF LeftAt
        <5> QED
          BY <5>4, <5>5, <5>6
      <4>3. NoBetter(Latest, Latest)
        <5>1. Record(Latest).q \in Nat
          BY <4>1, WalkedPaths, ReplyIs
        <5>2. Len(Path) = Len(stack) /\ Len(stack) - 1 \in 1..Len(stack)
          BY <2>2, PathIs, StackIs
        <5>3. StepOf(Latest) = Path[Len(stack) - 1][2]
          BY <4>1, <5>2 DEF StepOf, PathAt
        <5>4. StepOf(Latest) \in Nat
          BY <5>2, <5>3, PathIs, StackIs
        <5> QED
          BY <5>1, <5>4 DEF NoBetter
      <4>4. Best(Latest)
        BY <4>2, <4>3
      <4> QED
        BY <1>0, <2>2, <3>1, <3>3, <4>1, <4>4 DEF KeptInv
    <3> QED
      BY <3>2, <3>3 DEF KeptInv
  <2>5. CASE ret' = Document \/ \E pages : ret' = Fallen(pages)
    <3>1. ret'.kind # "deficient"
      BY <2>5, PagedOutcomeIs
    <3> QED
      BY <3>1 DEF KeptInv
  <2> QED
    BY <2>1, <2>3, <2>4, <2>5, HandsUp
<1>6. CASE \E l, reply : Calls(l, reply)
  <2>1. place' = "return" /\ IsCall(Top.node)'
    BY <1>6 DEF Calls, Top
  <2> QED
    BY <2>1 DEF KeptInv
<1> QED
  BY <1>1, <1>2, <1>4, <1>5, <1>6, MovesCall
     DEF KeptInv, WalkEnded, Deepens, Opens, Halts, GoesOn, Again, Restarts
\* A good enough response is either on its way up or among the pages of a cascade.
SomeGood == \E k \in WalkedOver : Record(k).kind = "ok" /\ Record(k).gate = "pass"
GoodInv ==
    SomeGood =>
        \/ \E j \in 1..Len(stack) : /\ KindAt(j) = "paged" /\ stack[j].pages # <<>>
                                    /\ WalkEnded => j < Len(stack)
        \/ WalkEnded /\ ret.kind = "ok" /\ ret.gate = "pass"

\* What the rung just over has brought.
LEMMA RungBrought ==
    ASSUME WalkTypeOK, ChainInv, CameInv, RecordsInv, Tree[Under.node].kind = "paged",
           NEW pages, RungStitched(pages)
    PROVE  /\ walked # <<>> /\ ret.by = Latest /\ Latest \in WalkedOver /\ PathAt(Latest) = Path
           /\ Record(Latest).kind = "ok" /\ Record(Latest).got \in Gradings
           /\ pages = Stitched(Under.pages, Record(Latest).got)
           /\ place = "return" /\ Len(stack) > 1 /\ Under \in Evaluations /\ IsCall(Top.node)
<1>1. place = "return" /\ Len(stack) > 1 /\ ret.kind = "ok"
      /\ pages = Stitched(Under.pages, Record(ret.by).got)
  BY DEF RungStitched, Rises, GoesOn
<1>2. IsCall(Top.node) /\ Under \in Evaluations /\ Len(stack) \in Nat /\ Under.pages \in Gradings
  BY <1>1, RungIs, StackIs DEF Evaluations
<1>3. /\ walked # <<>> /\ ret.by = Latest /\ PathAt(Latest) = Path
      /\ Record(Latest).kind = "ok"
  BY <1>1, <1>2 DEF CameInv
<1>4. Latest \in WalkedOver /\ Latest \in DOMAIN records /\ Record(Latest).got \in Gradings
  BY <1>3, RecordsAre, ReplyIs
<1> QED
  BY <1>1, <1>2, <1>3, <1>4

\* Every move keeps that a good enough response is on its way up, or among the pages of a
\* paged cascade.
LEMMA GoodStep ==
    ASSUME WalkTypeOK, ChainInv, CameInv, RecordsInv, GoodInv, Moves
    PROVE  GoodInv'
<1>0. Len(stack) \in Nat \ {0} /\ Len(stack) \in 1..Len(stack)
  BY StackIs
<1>1. CASE Deepens \/ Opens
  <2>1. /\ SomeGood' => SomeGood
        /\ ~WalkEnded /\ ~WalkEnded'
        /\ \A j \in 1..(Len(stack) - 1) : stack'[j] = stack[j]
        /\ Len(stack') >= Len(stack) /\ Len(stack') \in Nat
    BY <1>0, <1>1 DEF Deepens, Opens, SomeGood, WalkedOver, Record, WalkEnded, KeepsAllBut
  <2>2. PICK i : stack'[Len(stack)] = [Top EXCEPT !.i = i]
    BY <1>1 DEF Deepens, Opens
  <2>3. stack'[Len(stack)].node = Top.node /\ stack'[Len(stack)].pages = Top.pages
    BY <2>2, StackIs DEF Evaluations
  <2>4. \A j \in 1..Len(stack) : /\ stack'[j].node = stack[j].node /\ j \in 1..Len(stack')
                                 /\ stack'[j].pages = stack[j].pages
    <3> TAKE j \in 1..Len(stack)
    <3>1. CASE j = Len(stack)
      BY <2>1, <2>3, <3>1 DEF Top
    <3>2. CASE j # Len(stack)
      <4>1. j \in 1..(Len(stack) - 1)
        BY <1>0, <3>2
      <4> QED
        BY <2>1, <4>1
    <3> QED
      BY <3>1, <3>2
  <2> QED
    BY <2>1, <2>4 DEF GoodInv, KindAt
<1>2. CASE Halts \/ Yields \/ Quiet
  <2>1. (SomeGood' => SomeGood) /\ stack' = stack
    BY <1>2 DEF Halts, Yields, Quiet, SomeGood, WalkedOver, Record
  <2>2. CASE Quiet
    BY <2>1, <2>2 DEF Quiet, GoodInv, WalkEnded, KindAt
  <2>3. CASE Halts
    BY <2>1, <2>3 DEF Halts, GoodInv, WalkEnded, KindAt
  <2>4. CASE Yields
    <3>1. Node.kind # "paged" /\ ~WalkEnded
      BY <2>4 DEF Yields, WalkEnded
    <3>2. ASSUME NEW j \in 1..Len(stack), KindAt(j) = "paged"
          PROVE  j < Len(stack)
      BY <1>0, <3>1, <3>2 DEF KindAt, Node, Top
    <3> QED
      BY <2>1, <3>1, <3>2 DEF GoodInv, KindAt
  <2> QED
    BY <1>2, <2>2, <2>3, <2>4
<1>3. CASE FinishWalk
  <2>1. /\ (SomeGood' => SomeGood) /\ stack' = stack /\ Len(stack) = 1 /\ WalkEnded
        /\ ret' = Bare(ret) /\ ret \in Outcome /\ WalkEnded'
    BY <1>3 DEF FinishWalk, SomeGood, WalkedOver, Record, WalkEnded, WalkTypeOK
  <2> QED
    BY <2>1, BareIs DEF GoodInv
<1>4. CASE Again
  BY <1>4 DEF Again, Restarts, GoodInv, SomeGood, WalkedOver
<1>5. CASE \E l, reply : Calls(l, reply)
  <2>1. PICK l, reply : Calls(l, reply)
    BY <1>5
  <2>2. CASE reply.kind = "ok" /\ reply.gate = "pass"
    BY <2>1, <2>2 DEF Calls, GoodInv, WalkEnded
  <2>3. CASE ~(reply.kind = "ok" /\ reply.gate = "pass")
    <3>1. ASSUME SomeGood' PROVE SomeGood
      <4>1. PICK k \in WalkedOver' : Record(k)'.kind = "ok" /\ Record(k)'.gate = "pass"
        BY <3>1 DEF SomeGood
      <4>2. k # l /\ k \in WalkedOver
        BY <2>1, <2>3, <4>1 DEF Calls
      <4>3. Record(k)' = Record(k)
        BY <4>2, WalkedPaths, RecordsStay
      <4> QED
        BY <4>1, <4>2, <4>3 DEF SomeGood
    <3>2. ~WalkEnded /\ stack' = stack /\ IsCall(Top.node)
      BY <2>1 DEF Calls, WalkEnded
    <3>3. ASSUME NEW j \in 1..Len(stack), KindAt(j) = "paged"
          PROVE  j < Len(stack)
      BY <1>0, <3>2, <3>3 DEF KindAt, IsCall, Top
    <3> QED
      BY <3>1, <3>2, <3>3 DEF GoodInv, KindAt
  <2> QED
    BY <2>2, <2>3
<1>6. CASE \E f : Rises(f) \/ GoesOn(f)
  <2>1. PICK f : Rises(f) \/ GoesOn(f)
    BY <1>6
  <2>2. /\ (SomeGood' => SomeGood) /\ WalkEnded /\ Len(stack) > 1 /\ place = "return"
        /\ ret \in Outcome
    BY <2>1 DEF Rises, GoesOn, SomeGood, WalkedOver, Record, WalkEnded, WalkTypeOK
  <2>3. ASSUME NEW j \in 1..Len(stack), KindAt(j) = "paged", j < Len(stack)
        PROVE  Tree[Under.node].kind = "paged" /\ Under = stack[j]
    <3>1. j \in 1..(Len(stack) - 1)
      BY <1>0, <2>3
    <3>2. j = Len(stack) - 1
      BY <2>3, <3>1, PagedIsLast
    <3> QED
      BY <2>3, <3>2 DEF Under, KindAt
  <2>4. ASSUME SomeGood
        PROVE  \/ Tree[Under.node].kind = "paged" /\ Under.pages # <<>>
               \/ ret.kind = "ok" /\ ret.gate = "pass"
    BY <2>2, <2>3, <2>4 DEF GoodInv
  <2>5. ASSUME NEW g, Rises(g), SomeGood
        PROVE  WalkEnded' /\ ret'.kind = "ok" /\ ret'.gate = "pass"
    <3>1. WalkEnded'
      BY <2>5 DEF Rises, WalkEnded
    <3>2. CASE Tree[Under.node].kind = "cascade" /\ Resolved
      BY <2>4, <2>5, <3>1, <3>2 DEF Resolved, InReview
    <3>3. CASE Tree[Under.node].kind \in {"route", "decide", "use"} /\ ret' = Bare(ret)
      BY <2>2, <2>4, <2>5, <3>1, <3>3, BareIs
    <3>4. CASE /\ Tree[Under.node].kind = "paged"
               /\ \E pages \in Gradings : RungStitched(pages) /\ ret' = Document
      BY <3>1, <3>4, RungBrought, PagedOutcomeIs
    <3>5. CASE /\ Tree[Under.node].kind = "paged" /\ ret.kind \in {"err", "skip"}
               /\ ret' = Fallen(Under.pages)
      BY <2>4, <2>5, <3>1, <3>5, PagedOutcomeIs
    <3> QED
      BY <2>5, <3>2, <3>3, <3>4, <3>5, HandsUp
  <2>6. ASSUME NEW g, GoesOn(g), SomeGood
        PROVE  \E j \in 1..Len(stack') : /\ KindAt(j)' = "paged" /\ stack'[j].pages # <<>>
                                         /\ ~WalkEnded'
    <3>1. place' = "step" /\ ~WalkEnded' /\ Len(stack') # Len(stack) /\ ~Rises(g)
      BY <1>0, <2>6 DEF GoesOn, WalkEnded, Rises
    <3>2. PICK pages \in Gradings : RungStitched(pages) /\ Tree[Under.node].kind = "paged"
      <4>1. ~((GoesOn(Passed(Under)) /\ ret.kind \in {"skip", "err"}) /\ Tree[Under.node].kind = "cascade")
        BY <2>4, <2>6
      <4>2. ~(/\ Tree[Under.node].kind = "cascade"
              /\ GoesOn(Retaining(Under, ret)) /\ ret.kind \in {"ok", "deficient"}
              /\ InReview(Top.node, ret) \/ Escalates(Top.node, ret))
        BY <2>4, <2>6 DEF InReview, Escalates
      <4> QED
        BY <2>2, <3>1, <4>1, <4>2 DEF Moves, Deepens, Opens, Halts, Yields, Quiet, Replays, Journals, Appends,
           Rises, FinishWalk, Resolved, Again, Restarts
    <3>3. pages # <<>> /\ Under \in Evaluations /\ GoesOn(NextAsk(Under, pages, Top.node))
      <4>1. Failing(pages, Top.node) # {} /\ GoesOn(NextAsk(Under, pages, Top.node))
        BY <3>1, <3>2 DEF RungStitched, Rises
      <4>2. Failing(<<>>, Top.node) = {}
        BY NothingGraded DEF Failing
      <4> QED
        BY <3>2, <4>1, <4>2, RungBrought
    <3>4. NextAsk(Under, pages, Top.node).pages = pages
      BY <3>2, <3>3, PagesFrames
    <3>5. PICK n \in 1..Len(stack') : stack'[n] = NextAsk(Under, pages, Top.node)
      <4>1. Len(stack') = Len(stack) - 1 /\ stack'[Len(stack) - 1] = NextAsk(Under, pages, Top.node)
        BY <3>3 DEF GoesOn
      <4> QED
        BY <1>0, <2>2, <4>1
    <3>6. NextAsk(Under, pages, Top.node).node = Under.node
      BY <3>2, <3>3, PagesFrames
    <3> QED
      BY <3>1, <3>2, <3>3, <3>4, <3>5, <3>6 DEF KindAt
  <2> QED
    BY <2>1, <2>2, <2>5, <2>6 DEF GoodInv
<1> QED
  BY <1>1, <1>2, <1>3, <1>4, <1>5, <1>6, MovesCall
-----------------------------------------------------------------------------
(* The invariant of the walk                                               *)

DoneInv == place = "done" => Len(stack) = 1

AnswersInv ==
    /\ WalkTypeOK /\ ChainInv /\ CameInv /\ RecordsInv /\ OrderInv /\ CallInv
    /\ BestInv /\ AnswerInv /\ KeptInv /\ GoodInv /\ DoneInv

\* Before its first step the walk satisfies the invariant.
LEMMA AnswersInit == WalkInit => AnswersInv
<1> SUFFICES ASSUME WalkInit PROVE AnswersInv
  OBVIOUS
<1>1. PICK n \in Starts : stack = <<Frame(n)>>
  BY DEF WalkInit
<1>2. n \in DOMAIN Tree /\ Frame(n) \in Evaluations
  BY Walkable, FrameIs DEF WalkAssumption
<1>3. /\ stack \in Seq(Evaluations) /\ stack # <<>> /\ Len(stack) = 1 /\ Top = Frame(n)
      /\ stack[1] = Frame(n)
  BY <1>1, <1>2 DEF Top
<1>4. /\ place = "enter" /\ ret = Nil /\ overdue = 0 /\ records = <<>> /\ walked = <<>>
      /\ ticks = 0 /\ kills = 0 /\ turns = {} /\ facts \in SUBSET Facts
      /\ decider \in {"engine", "llm"}
  BY DEF WalkInit
<1>5. records \in Seq(Entries) /\ walked \in Seq(DOMAIN records)
  BY <1>4, EmptySeq
<1>6. WalkTypeOK
  <2>1. ticks \in 0..MaxTicks /\ kills \in 0..MaxKills
    BY <1>4, Walkable DEF WalkAssumption
  <2> QED
    BY <1>3, <1>4, <1>5, <2>1 DEF WalkTypeOK
<1>7. WalkedOver = {} /\ DOMAIN records = {}
  BY <1>4 DEF WalkedOver
<1>8. ChainInv
  BY <1>2, <1>3, <1>4, FrameIs DEF ChainInv
<1>9. BestInv
  <2>1. stack[1].best = Nil
    BY <1>2, <1>3, FrameIs
  <2> QED
    BY <1>3, <1>7, <2>1 DEF BestInv, BestAt
<1> QED
  BY <1>4, <1>6, <1>7, <1>8, <1>9
     DEF AnswersInv, CameInv, RecordsInv, OrderInv, CallInv, AnswerInv, KeptInv, GoodInv, SomeGood,
         DoneInv, WalkEnded

\* Every step of the walk keeps the invariant.
LEMMA AnswersStep == AnswersInv /\ [WalkNext]_walkVars => AnswersInv'
<1> SUFFICES ASSUME AnswersInv, [WalkNext]_walkVars PROVE AnswersInv'
  OBVIOUS
<1> USE DEF AnswersInv
<1>1. Moves
  BY StepsMove
<1>2. WalkTypeOK' /\ ChainInv' /\ CameInv' /\ RecordsInv'
  BY <1>1, TypeStep, ChainStep, CameStep, RecordsStep
<1>3. OrderInv' /\ CallInv' /\ BestInv'
  BY <1>1, OrderStep, CallStep, BestStep
<1>4. AnswerInv' /\ KeptInv' /\ GoodInv'
  BY <1>1, AnswerStep, KeptStep, GoodStep
<1>5. DoneInv'
  <2>1. CASE FinishWalk \/ Quiet
    BY <2>1 DEF DoneInv, FinishWalk, Quiet
  <2> QED
    BY <1>1, <2>1, MovesAre DEF DoneInv, Deepens, Opens, Halts, Yields, Again, Restarts, Replays,
       Journals, Appends, Rises, GoesOn
<1> QED
  BY <1>2, <1>3, <1>4, <1>5

\* The inductive invariant of the walk's answers holds in every reachable state.
LEMMA AnswersHold == WalkSpec => []AnswersInv
  BY AnswersInit, AnswersStep, PTL DEF WalkSpec

\* Whatever the tree, the stack is a chain of evaluations of its nodes, the records are
\* numbered and what is walked over are records.
THEOREM WalkTypes == WalkSpec => []WalkTypeOK
<1>1. AnswersInv => WalkTypeOK
  BY DEF AnswersInv
<1> QED
  BY <1>1, AnswersHold, PTL

\* Whatever the tree and wherever deadlines, deaths and deciders strike, a walk answers
\* with the last good response it came to, and a kept answer is the first of the best.
THEOREM AnswersAreDue == WalkSpec => []AnswerIsDue
<1>1. AnswersInv => AnswerIsDue
  <2> SUFFICES ASSUME AnswersInv, place = "done"
               PROVE  /\ ret.kind = "ok" => ret.by = 0 \/ ret.by = walked[Len(walked)]
                      /\ ret.kind = "err" => \A k \in WalkedOver :
                            ~(Record(k).kind = "ok" /\ Record(k).gate = "pass")
                      /\ ret.kind = "deficient" /\ WasRetained(ret.by) => \A k \in WalkedOver :
                            SameCascade(k, ret.by) /\ WasRetained(k) =>
                                /\ Record(k).q <= ret.q
                                /\ Record(k).q = ret.q => StepOf(k) >= StepOf(ret.by)
    BY DEF AnswerIsDue
  <2> USE DEF AnswersInv
  <2>1. WalkEnded
    BY DEF WalkEnded
  <2>2. ret.kind = "ok" => ret.by = 0 \/ ret.by = walked[Len(walked)]
    BY <2>1 DEF AnswerInv, Latest
  <2>3. ret.kind = "err" => ~SomeGood
    <3>0. Len(stack) = 1
      BY DEF DoneInv
    <3>1. \A j \in 1..Len(stack) : ~(j < Len(stack))
      BY <3>0
    <3> QED
      BY <2>1, <3>1 DEF GoodInv
  <2>4. ret.kind = "deficient" /\ WasRetained(ret.by) => \A k \in WalkedOver :
           SameCascade(k, ret.by) /\ WasRetained(k) =>
               NoBetter(k, ret.by) /\ ret.q = Record(ret.by).q
    BY <2>1 DEF KeptInv, AnswerInv
  <2> QED
    BY <2>2, <2>3, <2>4 DEF SomeGood, NoBetter
<1> QED
  BY <1>1, AnswersHold, PTL
-----------------------------------------------------------------------------
(* The pages of several rungs in one document                              *)

\* The answers of the rungs of the j-th, a paged cascade, that are in its pages.
RungAt(k, j) ==
    /\ k \in WalkedOver /\ Record(k).kind = "ok"
    /\ Len(PathAt(k)) = j + 1 /\ Through(PathAt(k), stack, j)
    /\ j < Len(stack) => PathAt(k)[j][2] < stack[j].i

\* A grade that the gate of the i-th rung lets fail.
Gated(n, i, grade) ==
    Holds(Tree[n].steps[i], "escalate_if") /\ grade < Tree[Tree[n].steps[i]].escalate_if

PagesAt(j) ==
    LET f == stack[j] IN
    /\ \A p : p \in DOMAIN f.pages <=> \E k : RungAt(k, j) /\ p \in DOMAIN Record(k).got
    /\ \A k : \A p \in DOMAIN f.pages :
         RungAt(k, j) /\ p \in DOMAIN Record(k).got
         /\ (\A l : RungAt(l, j) /\ p \in DOMAIN Record(l).got => StepOf(l) <= StepOf(k)) =>
             f.pages[p] = Record(k).got[p]
    /\ ~(WalkEnded /\ j = Len(stack)) /\ f.i > 1 =>
         /\ \E k : RungAt(k, j) /\ StepOf(k) = f.i - 1
         /\ Holds(Tree[f.node].steps[f.i - 1], "escalate_if")
         /\ f.ask = Failing(f.pages, Tree[f.node].steps[f.i - 1])

\* A page that the last rung lets fail had none left that it could be asked of.
DueAt(j) ==
    LET f == stack[j] IN
    \A p \in DOMAIN f.pages : Gated(f.node, f.i, f.pages[p]) =>
        \/ f.i = Len(Tree[f.node].steps) \/ ReadsWhole(f.node, f.i)
        \/ \A k : RungAt(k, j) => StepOf(k) # f.i

PagesInv ==
    \A j \in 1..Len(stack) : KindAt(j) = "paged" =>
        PagesAt(j) /\ (WalkEnded /\ j = Len(stack) => DueAt(j))

\* A rung's record says which step of its paged node it was.
LEMMA RungSteps ==
    ASSUME WalkTypeOK, NEW j \in 1..Len(stack), NEW k, RungAt(k, j)
    PROVE  /\ StepOf(k) = PathAt(k)[j][2] /\ StepOf(k) \in Nat
           /\ k \in DOMAIN records /\ PathAt(k) \in Paths /\ Record(k).got \in Gradings
<1>1. k \in DOMAIN records /\ PathAt(k) \in Paths /\ Record(k) \in Reply
  BY WalkedPaths DEF RungAt
<1>2. Len(PathAt(k)) = j + 1 /\ Len(stack) \in Nat
  BY StackIs DEF RungAt
<1>3. j \in 1..Len(PathAt(k)) /\ Len(PathAt(k)) - 1 = j
  BY <1>2
<1>4. StepOf(k) = PathAt(k)[j][2]
  BY <1>3 DEF StepOf, PathAt
<1> QED
  BY <1>1, <1>3, <1>4, PathsAre, ReplyIs

\* Where nothing of it changes, what its pages are does not change.
LEMMA PagesStay ==
    ASSUME WalkTypeOK, UNCHANGED <<walked, records>>, NEW j \in Nat, PagesAt(j),
           stack'[j] = stack[j], \A m \in 1..(j - 1) : stack'[m] = stack[m],
           \A k : RungAt(k, j) => (j < Len(stack') => PathAt(k)[j][2] < stack[j].i),
           j < Len(stack) => j < Len(stack'),
           WalkEnded /\ j = Len(stack) => WalkEnded' /\ j = Len(stack')
    PROVE  PagesAt(j)' /\ \A k : RungAt(k, j)' <=> RungAt(k, j)
<1>1. /\ WalkedOver' = WalkedOver
      /\ \A k : PathAt(k)' = PathAt(k) /\ Record(k)' = Record(k) /\ StepOf(k)' = StepOf(k)
  BY DEF WalkedOver, PathAt, Record, StepOf
<1>2. \A a : Through(a, stack', j) <=> Through(a, stack, j)
  BY ThroughAgrees
<1>3. \A k : RungAt(k, j)' <=> RungAt(k, j)
  BY <1>1, <1>2 DEF RungAt
<1>4. \A pages, n : Failing(pages, n)' = Failing(pages, n)
  BY DEF Failing
<1> QED
  BY <1>1, <1>3, <1>4 DEF PagesAt

\* An evaluation that has just begun has no pages yet.
LEMMA NoPagesYet ==
    ASSUME NEW j, stack'[j].pages = <<>>, stack'[j].i <= 1, stack'[j].i \in Nat,
           \A k : ~RungAt(k, j)'
    PROVE  PagesAt(j)'
<1>1. DOMAIN stack'[j].pages = {}
  BY NothingGraded
<1>2. ~(stack'[j].i > 1)
  OBVIOUS
<1> QED
  BY <1>1, <1>2 DEF PagesAt

\* A call leaves the pages of every evaluation as they are.
LEMMA CallsKeepPages ==
    ASSUME WalkTypeOK, ChainInv, PagesInv, Moves, NEW l, NEW reply, Calls(l, reply)
    PROVE  PagesInv'
<1> SUFFICES ASSUME NEW j \in 1..Len(stack), KindAt(j) = "paged"
             PROVE  PagesAt(j)' /\ (WalkEnded /\ j = Len(stack) => DueAt(j))'
  BY DEF PagesInv, Calls, KindAt
<1>1. stack' = stack /\ WalkedOver' = WalkedOver \cup {l} /\ PathAt(l)' = Path /\ IsCall(Top.node)
      /\ ~WalkEnded
  BY DEF Calls, WalkEnded
<1>2. j # Len(stack) /\ j < Len(stack) /\ j \in Nat
  BY <1>1, StackIs DEF KindAt, IsCall, Top
<1>3. \A k \in WalkedOver : /\ PathAt(k)' = PathAt(k) /\ Record(k)' = Record(k)
                            /\ StepOf(k)' = StepOf(k)
  <2> TAKE k \in WalkedOver
  <2>1. PathAt(k)' = PathAt(k) /\ Record(k)' = Record(k) /\ records'[k] = records[k]
    BY WalkedPaths, RecordsStay
  <2> QED
    BY <2>1 DEF StepOf
<1>4. ~(PathAt(l)'[j][2] < stack[j].i)
  BY <1>1, PathIs, StackIs
<1>5. \A k : RungAt(k, j)' <=> RungAt(k, j)
  BY <1>1, <1>2, <1>3, <1>4 DEF RungAt
<1>6. \A k : RungAt(k, j) => Record(k)' = Record(k) /\ StepOf(k)' = StepOf(k)
  BY <1>3 DEF RungAt
<1>7. \A pages, n : Failing(pages, n)' = Failing(pages, n)
  BY DEF Failing
<1>8. PagesAt(j)
  BY DEF PagesInv
<1> QED
  BY <1>1, <1>2, <1>5, <1>6, <1>7, <1>8 DEF PagesAt

\* A move that leaves the stack's pages alone keeps them.
LEMMA StillKeepsPages ==
    ASSUME WalkTypeOK, PagesInv, Halts \/ Yields \/ Quiet \/ FinishWalk
    PROVE  PagesInv'
<1> SUFFICES ASSUME NEW j \in 1..Len(stack), KindAt(j) = "paged"
             PROVE  PagesAt(j)' /\ (WalkEnded /\ j = Len(stack) => DueAt(j))'
  BY DEF PagesInv, Halts, Yields, Quiet, FinishWalk, KindAt
<1>1. UNCHANGED <<stack, walked, records>>
  BY DEF Halts, Yields, Quiet, FinishWalk
<1>2. PagesAt(j) /\ j \in Nat /\ (WalkEnded /\ j = Len(stack) => DueAt(j))
  BY DEF PagesInv
<1>3. WalkEnded => WalkEnded'
  BY DEF Halts, Yields, Quiet, FinishWalk, WalkEnded
<1>4. \A k : RungAt(k, j) => (j < Len(stack') => PathAt(k)[j][2] < stack[j].i)
  BY <1>1 DEF RungAt
<1>5. PagesAt(j)' /\ \A k : RungAt(k, j)' <=> RungAt(k, j)
  BY <1>1, <1>2, <1>3, <1>4, PagesStay
<1>6. WalkEnded' /\ j = Len(stack) => WalkEnded
  BY DEF Halts, Yields, Quiet, FinishWalk, WalkEnded, KindAt, Node, Top
<1>7. \A k : StepOf(k)' = StepOf(k)
  BY <1>1 DEF StepOf
<1>8. DueAt(j) => DueAt(j)'
  BY <1>1, <1>5, <1>7 DEF DueAt
<1> QED
  BY <1>1, <1>2, <1>5, <1>6, <1>8

\* Going down leaves the pages of every evaluation as they are, and begins one with none.
LEMMA DeeperKeepsPages ==
    ASSUME WalkTypeOK, ChainInv, OrderInv, PagesInv, Deepens \/ Opens
    PROVE  PagesInv'
<1>0. /\ Len(stack) \in Nat \ {0}
      /\ \A m \in 1..(Len(stack) - 1) : stack'[m] = stack[m]
      /\ Deepens => Len(stack') = Len(stack) + 1
      /\ Opens => Len(stack') = Len(stack)
      /\ UNCHANGED <<walked, records>>
      /\ ~WalkEnded /\ ~WalkEnded'
  BY StackIs DEF Deepens, Opens, KeepsAllBut, WalkEnded
<1> SUFFICES ASSUME NEW j \in 1..Len(stack'), KindAt(j)' = "paged"
             PROVE  PagesAt(j)'
  BY <1>0 DEF PagesInv
<1>1. \A k : PathAt(k)' = PathAt(k) /\ WalkedOver' = WalkedOver
  BY <1>0 DEF PathAt, WalkedOver
<1>2. PICK i : stack'[Len(stack)] = [Top EXCEPT !.i = i]
  BY DEF Deepens, Opens
<1>3. /\ stack'[Len(stack)].node = Top.node /\ stack'[Len(stack)].i = i
      /\ stack'[Len(stack)].pages = Top.pages
  BY <1>2, StackIs DEF Evaluations
<1>4. CASE j \in 1..(Len(stack) - 1)
  <2>1. j \in Nat /\ j \in 1..Len(stack) /\ \A m \in 1..(j - 1) : m \in 1..(Len(stack) - 1)
    BY <1>0, <1>4
  <2>2. stack'[j] = stack[j] /\ \A m \in 1..(j - 1) : stack'[m] = stack[m]
    BY <1>0, <1>4, <2>1
  <2>3. PagesAt(j) /\ j < Len(stack) /\ j < Len(stack')
    BY <1>0, <1>4, <2>1, <2>2 DEF PagesInv, KindAt
  <2> QED
    BY <1>0, <2>1, <2>2, <2>3, PagesStay DEF RungAt
<1>5. CASE j = Len(stack) /\ Deepens
  <2>1. Node.kind = "paged"
    BY <1>3, <1>5 DEF KindAt, Node
  <2>2. stack'[j] = Top
    <3>1. stack'[Len(stack)] = [Top EXCEPT !.i = Top.i]
      BY <1>5, <2>1 DEF Deepens, LadderKinds
    <3> QED
      BY <1>5, <3>1, StackIs DEF Evaluations
  <2>3. j \in Nat /\ stack'[j] = stack[j] /\ \A m \in 1..(j - 1) : stack'[m] = stack[m]
    BY <1>0, <1>5, <2>2 DEF Top
  <2>4. PagesAt(j) /\ j < Len(stack')
    BY <1>0, <1>5, <2>1 DEF PagesInv, KindAt, Node, Top
  <2>5. \A k : RungAt(k, j) => PathAt(k)[j][2] < stack[j].i
    BY <1>0, <1>5, NoneYet DEF RungAt, Top
  <2> QED
    BY <1>0, <1>5, <2>3, <2>4, <2>5, PagesStay
<1>6. CASE j = Len(stack) /\ Opens
  <2>1. Top.i = 0 /\ Top.pages = <<>> /\ stack'[j].i = 1 /\ stack'[j].pages = <<>>
    <3>1. Top.i = 0 /\ Top.pages = <<>>
      BY <1>6 DEF Opens, ChainInv
    <3>2. stack'[j] = [Top EXCEPT !.i = 1]
      BY <1>6 DEF Opens
    <3> QED
      BY <1>3, <1>6, <3>1, <3>2, StackIs DEF Evaluations
  <2>2. ASSUME NEW k, RungAt(k, j)' PROVE FALSE
    <3>1. k \in WalkedOver /\ Through(PathAt(k), stack', Len(stack))
      BY <1>1, <1>6, <2>2 DEF RungAt
    <3>2. Through(PathAt(k), stack, Len(stack))
      BY <1>0, <1>3, <3>1, ThroughAgrees DEF Top
    <3>3. PathAt(k)[Len(stack)][2] < Top.i
      BY <1>0, <3>1, <3>2, NoneYet
    <3>4. PathAt(k)[Len(stack)][2] \in Nat
      BY <1>0, <3>1, <3>2, PathsAre, WalkedPaths DEF Through
    <3> QED
      BY <2>1, <3>3, <3>4
  <2> QED
    BY <2>1, <2>2, NoPagesYet
<1>7. CASE j = Len(stack) + 1
  <2>0. Deepens
    BY <1>0, <1>7
  <2>1. Deepens /\ stack'[j].pages = <<>> /\ stack'[j].i = 0
    BY <1>7, <2>0, Zenon DEF Deepens
  <2>2. ASSUME NEW k, RungAt(k, j)' PROVE FALSE
    <3>1. k \in WalkedOver /\ Through(PathAt(k), stack', Len(stack) + 1)
      BY <1>1, <1>7, <2>2 DEF RungAt
    <3>0. /\ Len(stack) + 1 - 1 = Len(stack) /\ Len(stack) \in 1..Len(stack)
          /\ \A m \in 1..(Len(stack) - 1) : m \in 1..Len(stack)
      BY <1>0
    <3>2. /\ \A m \in 1..Len(stack) : PathAt(k)[m] = <<stack'[m].node, stack'[m].i>>
          /\ Len(PathAt(k)) >= Len(stack) + 1
      BY <3>0, <3>1 DEF Through
    <3>8. /\ PathAt(k)[Len(stack)] = <<Top.node, i>>
          /\ \A m \in 1..(Len(stack) - 1) : PathAt(k)[m] = <<stack[m].node, stack[m].i>>
      BY <1>0, <1>3, <3>0, <3>2
    <3>9. Len(PathAt(k)) >= Len(stack)
      BY <1>0, <3>1, <3>2, PathsAre, WalkedPaths
    <3>3. Through(PathAt(k), stack, Len(stack))
      BY <3>8, <3>9 DEF Through, Top
    <3>4. Node.kind \in LadderKinds /\ PathAt(k)[Len(stack)][2] < Top.i
      BY <1>0, <3>1, <3>3, NoneYet
    <3>5. place = "step"
      BY <2>1, <3>4 DEF Deepens
    <3>6. stack'[Len(stack)] = [Top EXCEPT !.i = Top.i]
      BY <2>1, <3>5 DEF Deepens
    <3>7. stack'[Len(stack)].i = Top.i /\ Top.i \in Nat
      BY <3>6, StackIs DEF Evaluations
    <3> QED
      BY <1>3, <3>8, <3>4, <3>7
  <2> QED
    BY <2>1, <2>2, NoPagesYet
<1> QED
  BY <1>0, <1>4, <1>5, <1>6, <1>7
\* Coming up to a paged cascade adds the answer of the rung just over, if it answered.
LEMMA RungsUp ==
    ASSUME WalkTypeOK, ChainInv, RecordsInv, OrderInv, CallInv,
           NEW f, Rises(f) \/ GoesOn(f), NEW n \in Nat, n = Len(stack) - 1, NEW k
    PROVE  /\ RungAt(k, n)' => \/ RungAt(k, n)
                               \/ k = Latest /\ PathAt(k) = Path /\ Record(k).kind = ret.kind
           /\ RungAt(k, n) => RungAt(k, n)'
           /\ k \in WalkedOver /\ PathAt(k) = Path /\ Record(k).kind = "ok" => RungAt(k, n)'
<1>1. /\ Len(stack) \in Nat \ {0, 1} /\ Len(stack') = Len(stack) - 1
      /\ \A m \in 1..(Len(stack) - 2) : stack'[m] = stack[m]
      /\ stack'[Len(stack) - 1] = f /\ Under = stack[Len(stack) - 1] /\ f.node = Under.node
  BY UpIs, Zenon
<1>2. /\ WalkedOver' = WalkedOver /\ place = "return" /\ Len(stack) > 1
      /\ \A l : PathAt(l)' = PathAt(l) /\ Record(l)' = Record(l)
  BY DEF Rises, GoesOn, WalkedOver, PathAt, Record
<1>3. /\ stack'[n].node = stack[n].node /\ Len(stack') = n /\ n \in 1..Len(stack)
      /\ n + 1 = Len(stack)
      /\ \A m \in 1..(n - 1) : stack'[m] = stack[m]
  BY <1>1
<1>4. Through(PathAt(k), stack', n) <=> Through(PathAt(k), stack, n)
  BY <1>3, ThroughAgrees
<1>5. RungAt(k, n) => RungAt(k, n)'
  BY <1>2, <1>3, <1>4 DEF RungAt
<1>6. k \in WalkedOver /\ PathAt(k) = Path /\ Record(k).kind = "ok" => RungAt(k, n)'
  <2>1. Path \in Paths /\ Through(Path, stack, Len(stack)) /\ Len(Path) = Len(stack)
    BY OwnPath, PathIs
  <2>2. Through(Path, stack', Len(stack'))
    BY <2>1, ThroughUp
  <2> QED
    BY <1>2, <1>3, <2>1, <2>2 DEF RungAt
<1>7. ASSUME RungAt(k, n)', ~RungAt(k, n)
      PROVE  k = Latest /\ PathAt(k) = Path /\ Record(k).kind = ret.kind
  <2>1. k \in WalkedOver /\ Len(PathAt(k)) = n + 1 /\ Through(PathAt(k), stack, n)
        /\ Record(k).kind = "ok"
    BY <1>2, <1>4, <1>7 DEF RungAt
  <2>2. ~(PathAt(k)[n][2] < Under.i) /\ PathAt(k) \in Paths
    BY <1>1, <1>7, <2>1, WalkedPaths DEF RungAt
  <2>3. Through(PathAt(k), stack, Len(stack))
    <3>1. CASE Left(PathAt(k), stack)
      <4>1. PICK j \in 1..Len(stack) : LeftAt(PathAt(k), stack, j)
        BY <3>1 DEF Left
      <4>2. n <= j
        BY <1>3, <2>1, <2>2, <4>1, LeftOnce
      <4>3. j # n
        BY <1>1, <2>2, <4>1 DEF LeftAt
      <4>4. j = Len(stack)
        BY <1>1, <1>3, <4>2, <4>3
      <4> QED
        BY <4>1, <4>4 DEF LeftAt
    <3> QED
      BY <2>1, <3>1 DEF OrderInv
  <2>4. PathAt(k)[Len(stack) - 1] = <<Under.node, Under.i>>
    BY <2>2, <2>3, ThroughUp
  <2>5. PathAt(k)[Len(stack) - 1][2] = Under.i
    BY <2>4
  <2> QED
    BY <1>2, <1>3, <2>1, <2>5, OwnChild
<1> QED
  BY <1>5, <1>6, <1>7

\* A stitched answer leaves its paged cascade the pages the records make due.
LEMMA StitchedKeepsPages ==
    ASSUME WalkTypeOK, ChainInv, CameInv, RecordsInv, OrderInv, CallInv, PagesInv,
           Tree[Under.node].kind = "paged", NEW pages \in Gradings, RungStitched(pages),
           NEW n \in Nat, n = Len(stack) - 1
    PROVE  PagesAt(n)' /\ (WalkEnded /\ n = Len(stack) => DueAt(n))'
<1>1. PICK f : /\ (Rises(f) \/ GoesOn(f)) /\ f.pages = pages /\ f.node = Under.node
               /\ \/ /\ Rises(f) /\ f.i = Under.i
                     /\ IsLastRung(Under, Top.node) \/ Failing(pages, Top.node) = {}
                  \/ /\ GoesOn(f) /\ f.i = Under.i + 1 /\ ~IsLastRung(Under, Top.node)
                     /\ f.ask = Failing(pages, Top.node)
  <2>1. Under \in Evaluations
    BY RungBrought
  <2>2. CASE Rises(Stitch(Under, pages))
             /\ (IsLastRung(Under, Top.node) \/ Failing(pages, Top.node) = {})
    <3>1. /\ Stitch(Under, pages).pages = pages /\ Stitch(Under, pages).i = Under.i
          /\ Stitch(Under, pages).node = Under.node
      BY <2>1, PagesFrames
    <3> QED
      BY <2>2, <3>1
  <2>3. CASE GoesOn(NextAsk(Under, pages, Top.node)) /\ ~IsLastRung(Under, Top.node)
    <3>1. /\ NextAsk(Under, pages, Top.node).pages = pages
          /\ NextAsk(Under, pages, Top.node).i = Under.i + 1
          /\ NextAsk(Under, pages, Top.node).node = Under.node
          /\ NextAsk(Under, pages, Top.node).ask = Failing(pages, Top.node)
      BY <2>1, PagesFrames
    <3> QED
      BY <2>3, <3>1
  <2> QED
    BY <2>2, <2>3 DEF RungStitched
<1>2. /\ Len(stack) \in Nat \ {0, 1} /\ Len(stack') = Len(stack) - 1
      /\ stack'[Len(stack) - 1] = f /\ Under = stack[Len(stack) - 1] /\ Under.i \in Nat
  BY <1>1, UpIs, Zenon
<1>3. /\ WalkedOver' = WalkedOver /\ place = "return" /\ Len(stack) > 1
      /\ \A l : PathAt(l)' = PathAt(l) /\ Record(l)' = Record(l) /\ StepOf(l)' = StepOf(l)
  BY <1>1 DEF Rises, GoesOn, WalkedOver, PathAt, Record, StepOf
<1>4. /\ stack'[n] = f /\ Len(stack') = n /\ n \in 1..Len(stack) /\ stack[n] = Under
      /\ n < Len(stack)
  BY <1>2
<1>18. PICK new : new = Latest
  OBVIOUS
<1>19. PICK got : got = Record(new).got
  OBVIOUS
<1>5. /\ new \in WalkedOver /\ PathAt(new) = Path /\ Record(new).kind = "ok"
      /\ got \in Gradings /\ pages = Stitched(Under.pages, got)
      /\ Under.pages \in Gradings /\ Under \in Evaluations
  <2>1. Under \in Evaluations /\ Under.pages \in Gradings
    BY <1>3, StackIs DEF Evaluations
  <2> QED
    BY <1>18, <1>19, <2>1, RungBrought
<1>6. StepOf(new) = Under.i
  <2>1. Len(stack) - 1 \in 1..Len(stack)
    BY <1>2
  <2>2. Len(Path) = Len(stack) /\ Path[Len(stack) - 1][2] = stack[Len(stack) - 1].i
    BY <2>1, PathIs
  <2> QED
    BY <1>2, <1>5, <2>2 DEF StepOf, PathAt
<1>7. \A k : RungAt(k, n)' <=> RungAt(k, n) \/ k = new
  <2>1. \A k : RungAt(k, n)' => RungAt(k, n) \/ k = new
    BY <1>1, <1>18, RungsUp
  <2>2. \A k : RungAt(k, n) => RungAt(k, n)'
    BY <1>1, RungsUp
  <2>3. RungAt(new, n)'
    BY <1>1, <1>5, RungsUp
  <2> QED
    BY <2>1, <2>2, <2>3
<1>8. \A k : RungAt(k, n) => StepOf(k) < Under.i /\ k # new /\ StepOf(k) \in Nat
  <2> SUFFICES ASSUME NEW k, RungAt(k, n) PROVE StepOf(k) < Under.i /\ StepOf(k) \in Nat
    BY <1>6, <1>2
  <2>1. StepOf(k) = PathAt(k)[n][2] /\ StepOf(k) \in Nat
    BY <1>4, RungSteps
  <2> QED
    BY <1>4, <2>1 DEF RungAt
<1>9. PagesAt(n)
  BY <1>2, <1>4 DEF PagesInv, KindAt
<1>10. /\ DOMAIN pages = DOMAIN Under.pages \cup DOMAIN got
       /\ \A p \in DOMAIN got : pages[p] = got[p]
       /\ \A p \in DOMAIN Under.pages \ DOMAIN got : pages[p] = Under.pages[p]
  <2>1. got \in Gradings /\ Under.pages \in Gradings /\ pages = Stitched(Under.pages, got)
    BY <1>5
  <2>2. PICK held \in Gradings : held = Under.pages
    BY <2>1
  <2>3. /\ DOMAIN Stitched(held, got) = DOMAIN held \cup DOMAIN got
        /\ \A p \in DOMAIN got : Stitched(held, got)[p] = got[p]
        /\ \A p \in DOMAIN held \ DOMAIN got : Stitched(held, got)[p] = held[p]
    BY <2>1, StitchedIs, Zenon
  <2> QED
    BY <2>1, <2>2, <2>3, Zenon
<1>12. ASSUME NEW p
       PROVE  p \in DOMAIN pages <=> \E k : RungAt(k, n)' /\ p \in DOMAIN Record(k)'.got
  <2>1. p \in DOMAIN Under.pages <=> \E k : RungAt(k, n) /\ p \in DOMAIN Record(k).got
    BY <1>4, <1>9, Zenon DEF PagesAt
  <2>2. p \in DOMAIN pages <=> p \in DOMAIN Under.pages \/ p \in DOMAIN got
    BY <1>10, Zenon
  <2>3. \A k : Record(k)'.got = Record(k).got
    BY <1>3, Zenon
  <2>4. p \in DOMAIN got <=> p \in DOMAIN Record(new).got
    BY <1>19, Zenon
  <2>5. (\E k : RungAt(k, n)' /\ p \in DOMAIN Record(k)'.got)
          <=> \/ \E k : RungAt(k, n) /\ p \in DOMAIN Record(k).got
              \/ p \in DOMAIN Record(new).got
    BY <1>7, <2>3, Zenon
  <2> QED
    BY <2>1, <2>2, <2>4, <2>5, Zenon
<1>13. ASSUME NEW k, NEW p \in DOMAIN pages, RungAt(k, n)', p \in DOMAIN Record(k).got,
              \A l : RungAt(l, n)' /\ p \in DOMAIN Record(l).got => StepOf(l) <= StepOf(k)
       PROVE  pages[p] = Record(k).got[p]
  <2>1. CASE p \in DOMAIN got
    <3>1. StepOf(new) <= StepOf(k)
      BY <1>7, <1>19, <1>13, <2>1
    <3>2. k = new
      BY <1>2, <1>6, <1>7, <1>8, <1>13, <3>1
    <3> QED
      BY <1>10, <1>19, <2>1, <3>2
  <2>2. CASE p \notin DOMAIN got
    <3>1. k # new /\ RungAt(k, n) /\ p \in DOMAIN Under.pages
      BY <1>7, <1>10, <1>19, <1>13, <2>2
    <3>2. \A l : RungAt(l, n) /\ p \in DOMAIN Record(l).got => StepOf(l) <= StepOf(k)
      BY <1>7, <1>13
    <3>3. Under.pages[p] = Record(k).got[p]
      BY <1>4, <1>9, <1>13, <3>1, <3>2 DEF PagesAt
    <3> QED
      BY <1>10, <2>2, <3>1, <3>3
  <2> QED
    BY <2>1, <2>2
<1>14. Top.node = Tree[Under.node].steps[Under.i]
  BY <1>3, RungIs
<1>15. ASSUME ~(WalkEnded' /\ n = Len(stack'))
       PROVE  /\ \E k : RungAt(k, n)' /\ StepOf(k) = f.i - 1
              /\ Holds(Tree[f.node].steps[f.i - 1], "escalate_if")
              /\ f.ask = Failing(f.pages, Tree[f.node].steps[f.i - 1])
  <2>1. GoesOn(f) /\ f.i = Under.i + 1 /\ ~IsLastRung(Under, Top.node)
        /\ f.ask = Failing(pages, Top.node)
    BY <1>1, <1>4, <1>15 DEF Rises, WalkEnded
  <2>2. f.i - 1 = Under.i
    BY <1>2, <2>1
  <2>3. Holds(Top.node, "escalate_if")
    BY <2>1 DEF IsLastRung
  <2> QED
    BY <1>1, <1>6, <1>7, <1>14, <2>1, <2>2, <2>3
<1>16. PagesAt(n)'
  <2>1. \A g, m : Failing(g, m)' = Failing(g, m)
    BY DEF Failing
  <2>2. f.pages = pages
    BY <1>1
  <2> QED
    BY <1>3, <1>4, <1>12, <1>13, <1>15, <2>1, <2>2 DEF PagesAt
<1>17. WalkEnded' => DueAt(n)'
  <2> SUFFICES ASSUME WalkEnded', NEW p \in DOMAIN pages, Gated(Under.node, Under.i, pages[p])
               PROVE  Under.i = Len(Tree[Under.node].steps) \/ ReadsWhole(Under.node, Under.i)
    <3>1. WalkEnded' => f.i = Under.i
      BY <1>1 DEF GoesOn, WalkEnded
    <3> QED
      BY <1>1, <1>4, <3>1 DEF DueAt
  <2>1. IsLastRung(Under, Top.node) \/ Failing(pages, Top.node) = {}
    BY <1>1 DEF GoesOn, WalkEnded
  <2>2. Holds(Top.node, "escalate_if") /\ pages[p] < Tree[Top.node].escalate_if
    BY <1>14 DEF Gated
  <2>3. p \in Failing(pages, Top.node)
    BY <2>2 DEF Failing
  <2> QED
    BY <2>1, <2>2, <2>3 DEF IsLastRung
<1> QED
  BY <1>16, <1>17

\* A failed rung leaves its paged cascade the pages it had, which are still due.
LEMMA FailedKeepsPages ==
    ASSUME WalkTypeOK, ChainInv, RecordsInv, OrderInv, CallInv, PagesInv,
           Tree[Under.node].kind = "paged", RungFailed, Rises(Under),
           NEW n \in Nat, n = Len(stack) - 1
    PROVE  PagesAt(n)' /\ (WalkEnded /\ n = Len(stack) => DueAt(n))'
<1>1. /\ Len(stack) \in Nat \ {0, 1} /\ Len(stack') = Len(stack) - 1
      /\ \A m \in 1..(Len(stack) - 2) : stack'[m] = stack[m]
      /\ stack'[Len(stack) - 1] = Under /\ Under = stack[Len(stack) - 1]
  BY UpIs, Zenon
<1>2. /\ WalkedOver' = WalkedOver /\ ret.kind # "ok" /\ WalkEnded'
      /\ \A l : PathAt(l)' = PathAt(l) /\ Record(l)' = Record(l) /\ StepOf(l)' = StepOf(l)
  BY DEF RungFailed, Rises, WalkedOver, PathAt, Record, StepOf, WalkEnded
<1>3. /\ stack'[n] = stack[n] /\ Len(stack') = n /\ n \in 1..Len(stack) /\ n < Len(stack)
      /\ stack[n] = Under
  BY <1>1
<1>4. \A k : RungAt(k, n)' <=> RungAt(k, n)
  <2> TAKE k
  <2>1. RungAt(k, n)' => Record(k).kind = "ok"
    BY <1>2 DEF RungAt
  <2> QED
    BY <1>2, <2>1, RungsUp
<1>5. PagesAt(n)
  BY <1>3 DEF PagesInv, KindAt
<1>6. PagesAt(n)'
  BY <1>2, <1>3, <1>4, <1>5 DEF PagesAt
<1>7. \A k : RungAt(k, n)' => StepOf(k)' # Under.i
  <2> SUFFICES ASSUME NEW k, RungAt(k, n) PROVE StepOf(k) # Under.i
    BY <1>2, <1>4
  <2>1. StepOf(k) = PathAt(k)[n][2] /\ StepOf(k) \in Nat
    BY <1>3, RungSteps
  <2>2. PathAt(k)[n][2] < Under.i /\ Under.i \in Nat
    BY <1>3, StackIs DEF RungAt
  <2> QED
    BY <2>1, <2>2
<1> QED
  BY <1>3, <1>6, <1>7 DEF DueAt

\* Every move keeps every paged cascade's pages what the records make due.
LEMMA PagesStep ==
    ASSUME WalkTypeOK, ChainInv, CameInv, RecordsInv, OrderInv, CallInv, PagesInv, Moves
    PROVE  PagesInv'
<1>1. CASE Deepens \/ Opens
  BY <1>1, DeeperKeepsPages
<1>2. CASE Halts \/ Yields \/ Quiet \/ FinishWalk
  BY <1>2, StillKeepsPages
<1>3. CASE \E l, reply : Calls(l, reply)
  BY <1>3, CallsKeepPages
<1>4. CASE Again
  <2>1. stack' = <<Frame(stack[1].node)>> /\ walked' = <<>> /\ ~WalkEnded'
    BY <1>4 DEF Again, Restarts, WalkEnded
  <2>2. Frame(stack[1].node).pages = <<>> /\ Frame(stack[1].node).i = 0
    BY StackIs, FrameIs
  <2>3. \A k, j : ~RungAt(k, j)'
    BY <2>1 DEF RungAt, WalkedOver
  <2> SUFFICES ASSUME NEW j \in 1..Len(stack') PROVE PagesAt(j)'
    BY <2>1 DEF PagesInv
  <2>4. stack'[j].pages = <<>> /\ stack'[j].i = 0
    BY <2>1, <2>2
  <2> QED
    BY <2>3, <2>4, NoPagesYet
<1>5. CASE \E f : Rises(f) \/ GoesOn(f)
  <2>1. PICK f : Rises(f) \/ GoesOn(f)
    BY <1>5
  <2>2. /\ Len(stack) \in Nat \ {0, 1} /\ Len(stack') = Len(stack) - 1
        /\ \A m \in 1..(Len(stack) - 2) : stack'[m] = stack[m]
        /\ stack'[Len(stack) - 1] = f /\ f.node = Under.node
    BY <2>1, UpIs, Zenon
  <2> SUFFICES ASSUME NEW j \in 1..Len(stack'), KindAt(j)' = "paged"
               PROVE  PagesAt(j)' /\ (WalkEnded /\ j = Len(stack) => DueAt(j))'
    BY DEF PagesInv
  <2>3. j = Len(stack) - 1 /\ j \in Nat
    <3> SUFFICES ASSUME j # Len(stack) - 1 PROVE FALSE
      BY <2>2
    <3>1. j \in 1..(Len(stack) - 2) /\ j \in 1..(Len(stack) - 1)
      BY <2>2
    <3>2. KindAt(j) = "paged"
      BY <2>2, <3>1 DEF KindAt
    <3> QED
      BY <3>1, <3>2, PagedIsLast
  <2>4. Tree[Under.node].kind = "paged"
    BY <2>2, <2>3 DEF KindAt
  <2>5. place = "return" /\ Len(stack') # Len(stack)
    BY <2>1, <2>2 DEF Rises, GoesOn
  <2>6. ~PassUp
    BY <2>4 DEF PassUp, Above, Below, Under
  <2>7. \/ \E pages \in Gradings : RungStitched(pages)
        \/ RungFailed /\ Rises(Under)
    BY <2>1, <2>4, <2>5, <2>6 DEF Moves, Deepens, Opens, Halts, Yields, Quiet, Replays, Journals, Appends,
       FinishWalk, Again, Restarts, Rises, GoesOn
  <2> QED
    BY <2>3, <2>4, <2>7, StitchedKeepsPages, FailedKeepsPages
<1> QED
  BY <1>1, <1>2, <1>3, <1>4, <1>5, MovesCall
\* A rung was only called where the rung before it had answered, and only for the pages
\* that its gate let fail.
PagedRecord(k) ==
    LET a == PathAt(k) IN Len(a) > 1 /\ Tree[a[Len(a) - 1][1]].kind = "paged"
CascadeOf(k) == LET a == PathAt(k) IN a[Len(a) - 1][1]

Follows(l, k) == PagedRecord(l) /\ SameCascade(k, l) /\ StepOf(l) = StepOf(k) + 1

AskedInv ==
    /\ \A l \in DOMAIN records : PagedRecord(l) /\ StepOf(l) > 1 =>
         \E k \in DOMAIN records : Follows(l, k)
    /\ \A k, l \in DOMAIN records :
         Follows(l, k) /\ Record(k).kind = "ok" /\ Record(l).kind = "ok"
         /\ ~ReadsWhole(CascadeOf(l), StepOf(l)) =>
             \A p \in DOMAIN Record(k).got \cap DOMAIN Record(l).got :
                 Gated(CascadeOf(l), StepOf(k), Record(k).got[p])

\* The rungs of one step of one paged cascade are called by one path.
LEMMA OneRung ==
    ASSUME NEW a \in Paths, NEW b \in Paths, NEW r, NEW s, RecordAt(a, r), RecordAt(b, s),
           NEW n \in Nat, Len(a) = n + 1, Len(b) = n + 1, n > 0,
           \A m \in 1..(n - 1) : a[m] = b[m], a[n][1] = b[n][1], a[n][2] = b[n][2],
           Tree[a[n][1]].kind = "paged"
    PROVE  a = b
<1>1. \A m \in 1..(n + 1) : a[m] = <<a[m][1], a[m][2]>> /\ b[m] = <<b[m][1], b[m][2]>>
  BY PathsAre
<1>2. a[n] = b[n]
  BY <1>1
<1>3. n + 1 - 1 = n /\ n + 1 > 1
  OBVIOUS
<1>4. /\ a[n + 1][1] = Tree[a[n][1]].steps[a[n][2]] /\ a[n + 1][2] = 0
      /\ b[n + 1][1] = Tree[b[n][1]].steps[b[n][2]] /\ b[n + 1][2] = 0
  BY <1>3 DEF RecordAt
<1>5. a[n + 1] = b[n + 1]
  BY <1>1, <1>4
<1>6. \A m \in 1..(n + 1) : a[m] = b[m]
  <2> TAKE m \in 1..(n + 1)
  <2>1. m \in 1..(n - 1) \/ m = n \/ m = n + 1
    OBVIOUS
  <2> QED
    BY <1>2, <1>5, <2>1
<1> QED
  BY <1>6, SeqEqual DEF Paths

\* Every move keeps that a rung follows the one before it and is not graded on a page that
\* one had settled.
LEMMA AskedStep ==
    ASSUME WalkTypeOK, ChainInv, RecordsInv, OrderInv, PagesInv, AskedInv, Moves
    PROVE  AskedInv'
<1>1. CASE records' = records
  BY <1>1 DEF AskedInv, PagedRecord, CascadeOf, Follows, SameCascade, StepOf, PathAt, Record
<1>2. CASE \E reply \in Reply : Appends(reply)
  <2>1. PICK reply \in Reply : Appends(reply)
    BY <1>2
  <2>2. PICK new : new = Len(records) + 1
    OBVIOUS
  <2>3. PICK n : n = Len(stack) - 1
    OBVIOUS
  <2>4. /\ records'[new] = [path |-> Path, ask |-> Top.ask, reply |-> reply]
        /\ DOMAIN records' = 1..new /\ new \in Nat
    BY <2>1, <2>2, NewRecordIs, Zenon
  <2>5. /\ PathAt(new)' = Path /\ Record(new)' = reply
        /\ new \in DOMAIN records' /\ \A l \in DOMAIN records' : l \in DOMAIN records \/ l = new
    BY <2>2, <2>4, RecordsAre DEF PathAt, Record
  <2>6. \A l \in DOMAIN records : l \in DOMAIN records' /\ records'[l] = records[l]
    BY RecordsStay
  <2>7. \A l \in DOMAIN records :
          /\ PathAt(l)' = PathAt(l) /\ Record(l)' = Record(l) /\ StepOf(l)' = StepOf(l)
          /\ PagedRecord(l)' = PagedRecord(l) /\ CascadeOf(l)' = CascadeOf(l)
          /\ \A k \in DOMAIN records : Follows(l, k)' <=> Follows(l, k)
    BY <2>6 DEF PathAt, Record, StepOf, PagedRecord, CascadeOf, Follows, SameCascade
  <2>8. /\ Len(stack) \in Nat \ {0} /\ Len(Path) = Len(stack) /\ n \in Nat
        /\ n + 1 = Len(stack) /\ Path \in Paths
    BY <2>3, StackIs, PathIs, OwnPath
  <2>9. n > 0 => /\ n \in 1..Len(stack) /\ Path[n][1] = Under.node /\ Path[n][2] = Under.i
                 /\ StepOf(new)' = Under.i /\ CascadeOf(new)' = Under.node
                 /\ Len(stack) > 1 /\ stack[n] = Under /\ Under.i \in Nat
    <3> SUFFICES ASSUME n > 0
                 PROVE  /\ n \in 1..Len(stack) /\ Path[n][1] = Under.node /\ Path[n][2] = Under.i
                        /\ StepOf(new)' = Under.i /\ CascadeOf(new)' = Under.node
                        /\ Len(stack) > 1 /\ stack[n] = Under /\ Under.i \in Nat
      OBVIOUS
    <3>1. n \in 1..Len(stack) /\ stack[n] = Under
      BY <2>3, <2>8 DEF Under
    <3>2. Path[n][1] = Under.node /\ Path[n][2] = Under.i /\ Under.i \in Nat
      BY <3>1, PathIs, StackIs
    <3>3. StepOf(new)' = Path[n][2] /\ CascadeOf(new)' = Path[n][1]
      <4>1. records'[new].path = Path /\ Len(Path) - 1 = n
        BY <2>4, <2>8
      <4> QED
        BY <4>1 DEF StepOf, CascadeOf, PathAt
    <3> QED
      BY <2>8, <3>1, <3>2, <3>3
  <2>10. PagedRecord(new)' <=> n > 0 /\ Tree[Under.node].kind = "paged"
    <3>1. PagedRecord(new)' <=> Len(Path) > 1 /\ Tree[Path[Len(Path) - 1][1]].kind = "paged"
      BY <2>5 DEF PagedRecord
    <3> QED
      BY <2>3, <2>8, <2>9, <3>1
  <2>11. RecordsInv'
    BY RecordsStep
  <2>12. RecordAt(Path, reply)
    BY <2>5, <2>11 DEF RecordsInv, RecordAt
\* The answer of the rung before, when a rung is called.
  <2>13. ASSUME n > 0, Tree[Under.node].kind = "paged", Under.i > 1
         PROVE  \E k : /\ RungAt(k, n) /\ k \in DOMAIN records /\ Follows(new, k)'
                       /\ StepOf(k) = Under.i - 1
                       /\ \A p \in DOMAIN Record(k).got : 
                             p \in Failing(Under.pages, Tree[Under.node].steps[Under.i - 1]) =>
                                 Gated(Under.node, StepOf(k), Record(k).got[p])
                       /\ Under.ask = Failing(Under.pages, Tree[Under.node].steps[Under.i - 1])
    <3>1. PagesAt(n) /\ n < Len(stack)
      BY <2>8, <2>9, <2>13 DEF PagesInv, KindAt
    <3>2. /\ \E k : RungAt(k, n) /\ StepOf(k) = Under.i - 1
          /\ Holds(Tree[Under.node].steps[Under.i - 1], "escalate_if")
          /\ Under.ask = Failing(Under.pages, Tree[Under.node].steps[Under.i - 1])
      BY <2>9, <2>13, <3>1 DEF PagesAt
    <3>3. PICK k : RungAt(k, n) /\ StepOf(k) = Under.i - 1
      BY <3>2
    <3>4. /\ StepOf(k) = PathAt(k)[n][2] /\ StepOf(k) \in Nat
          /\ k \in DOMAIN records /\ PathAt(k) \in Paths
      BY <2>9, <2>13, <3>3, RungSteps
    <3>5. Follows(new, k)'
      <4>1. /\ Len(PathAt(k)) = n + 1 /\ PathAt(k)[n][1] = Under.node
            /\ \A m \in 1..(n - 1) : PathAt(k)[m] = <<stack[m].node, stack[m].i>>
        BY <2>9, <2>13, <3>3 DEF RungAt, Through
      <4>2. \A m \in 1..(n - 1) : m \in 1..Len(stack)
        BY <2>8
      <4>3. \A m \in 1..(n - 1) : PathAt(k)[m] = Path[m]
        BY <4>1, <4>2, PathIs
      <4>4. records'[new].path = Path /\ records'[k].path = PathAt(k)
        BY <2>4, <2>6, <3>4 DEF PathAt
      <4>5. SameCascade(k, new)'
        BY <2>8, <2>9, <2>13, <4>1, <4>3, <4>4 DEF SameCascade
      <4>6. StepOf(new)' = StepOf(k)' + 1
        BY <2>7, <2>9, <2>13, <3>3, <3>4
      <4> QED
        BY <2>10, <2>13, <4>5, <4>6 DEF Follows
    <3>6. ASSUME NEW p \in DOMAIN Record(k).got,
                 p \in Failing(Under.pages, Tree[Under.node].steps[Under.i - 1])
          PROVE  Gated(Under.node, StepOf(k), Record(k).got[p])
      <4>1. p \in DOMAIN Under.pages
            /\ Under.pages[p] < Tree[Tree[Under.node].steps[Under.i - 1]].escalate_if
        BY <3>6 DEF Failing
      <4>2. \A l : RungAt(l, n) => StepOf(l) <= StepOf(k)
        <5> SUFFICES ASSUME NEW l, RungAt(l, n) PROVE StepOf(l) <= StepOf(k)
          OBVIOUS
        <5>1. StepOf(l) = PathAt(l)[n][2] /\ StepOf(l) \in Nat
          BY <2>9, <2>13, RungSteps
        <5>2. PathAt(l)[n][2] < Under.i
          BY <2>9, <2>13, <3>1 DEF RungAt
        <5> QED
          BY <2>9, <2>13, <3>3, <5>1, <5>2
      <4>3. Under.pages[p] = Record(k).got[p]
        BY <2>9, <2>13, <3>1, <3>3, <4>1, <4>2 DEF PagesAt
      <4> QED
        BY <3>2, <3>3, <4>1, <4>3 DEF Gated
    <3> QED
      BY <3>2, <3>3, <3>4, <3>5, <3>6
  <2>14. ASSUME NEW l \in DOMAIN records', PagedRecord(l)', StepOf(l)' > 1
         PROVE  \E k \in DOMAIN records' : Follows(l, k)'
    <3>1. CASE l \in DOMAIN records
      BY <2>6, <2>7, <2>14, <3>1 DEF AskedInv
    <3>2. CASE l = new
      BY <2>6, <2>9, <2>10, <2>13, <2>14, <3>2
    <3> QED
      BY <2>5, <3>1, <3>2
  <2>15. ASSUME NEW k \in DOMAIN records', NEW l \in DOMAIN records', Follows(l, k)',
                Record(k)'.kind = "ok", Record(l)'.kind = "ok",
                ~ReadsWhole(CascadeOf(l)', StepOf(l)'),
                NEW p \in DOMAIN Record(k)'.got \cap DOMAIN Record(l)'.got
         PROVE  Gated(CascadeOf(l)', StepOf(k)', Record(k)'.got[p])
    <3>1. CASE k \in DOMAIN records /\ l \in DOMAIN records
      BY <2>7, <2>15, <3>1 DEF AskedInv
    <3>2. CASE k \in DOMAIN records /\ l = new
      <4>1. /\ n > 0 /\ Tree[Under.node].kind = "paged" /\ SameCascade(k, new)'
            /\ Under.i = StepOf(k) + 1
        BY <2>7, <2>9, <2>10, <2>15, <3>2 DEF Follows
      <4>2. /\ PathAt(k) \in Paths /\ Len(PathAt(k)) = n + 1
            /\ \A m \in 1..(n - 1) : PathAt(k)[m] = Path[m]
            /\ PathAt(k)[n][1] = Path[n][1]
            /\ StepOf(k) = PathAt(k)[n][2] /\ StepOf(k) \in Nat /\ StepOf(k) > 0
        <5>1. records'[new].path = Path /\ records'[k].path = PathAt(k)
          BY <2>4, <2>6, <3>2 DEF PathAt
        <5>2. PathAt(k) \in Paths
          BY <3>2, RecordsAre DEF Paths
        <5>3. /\ Len(PathAt(k)) = Len(Path)
              /\ \A m \in 1..(Len(Path) - 2) : PathAt(k)[m] = Path[m]
              /\ PathAt(k)[Len(Path) - 1][1] = Path[Len(Path) - 1][1]
          BY <4>1, <5>1 DEF SameCascade
        <5>4. Len(Path) - 2 = n - 1 /\ Len(Path) - 1 = n /\ Len(Path) = n + 1
          BY <2>8
        <5>5. StepOf(k) = PathAt(k)[n][2]
          BY <5>3, <5>4 DEF StepOf, PathAt
        <5>6. RecordAt(PathAt(k), Record(k))
          BY <3>2 DEF RecordsInv
        <5>7. n \in 1..Len(PathAt(k)) /\ n + 1 - 1 = n /\ n + 1 > 1
          BY <2>8, <4>1, <5>3, <5>4
        <5>8. PathAt(k)[n][2] \in 1..Len(Tree[PathAt(k)[n][1]].steps)
          BY <2>9, <4>1, <5>3, <5>4, <5>6, <5>7 DEF RecordAt
        <5> QED
          BY <5>2, <5>3, <5>4, <5>5, <5>8
      <4>3. Under.i > 1
        BY <4>1, <4>2
      <4>4. PICK j : /\ RungAt(j, n) /\ j \in DOMAIN records /\ Follows(new, j)'
                     /\ StepOf(j) = Under.i - 1
                     /\ \A q \in DOMAIN Record(j).got : 
                           q \in Failing(Under.pages, Tree[Under.node].steps[Under.i - 1]) =>
                               Gated(Under.node, StepOf(j), Record(j).got[q])
                     /\ Under.ask = Failing(Under.pages, Tree[Under.node].steps[Under.i - 1])
        BY <2>13, <4>1, <4>3
      <4>5. j = k
        <5>1. /\ PathAt(j) \in Paths /\ Len(PathAt(j)) = n + 1
              /\ \A m \in 1..(n - 1) : PathAt(j)[m] = Path[m]
              /\ PathAt(j)[n][1] = Path[n][1]
              /\ PathAt(j)[n][2] = StepOf(j)
          <6>1. /\ PathAt(j) \in Paths /\ Len(PathAt(j)) = n + 1
                /\ PathAt(j)[n][2] = StepOf(j)
            BY <2>9, <4>1, <4>4, RungSteps DEF RungAt
          <6>2. /\ \A m \in 1..(n - 1) : PathAt(j)[m] = <<stack[m].node, stack[m].i>>
                /\ PathAt(j)[n][1] = stack[n].node
            BY <4>4 DEF RungAt, Through
          <6>3. \A m \in 1..(n - 1) : m \in 1..Len(stack)
            BY <2>8
          <6> QED
            BY <2>9, <4>1, <6>1, <6>2, <6>3, PathIs
        <5>2. RecordAt(PathAt(j), Record(j)) /\ RecordAt(PathAt(k), Record(k))
          BY <3>2, <4>4 DEF RecordsInv
        <5>3. StepOf(j) = StepOf(k)
          BY <4>1, <4>2, <4>4
        <5>4. PathAt(j) = PathAt(k)
          <6>1. PICK a, b : a = PathAt(j) /\ b = PathAt(k)
            OBVIOUS
          <6>2. /\ a \in Paths /\ b \in Paths /\ n \in Nat /\ n > 0
                /\ Len(a) = n + 1 /\ Len(b) = n + 1
                /\ RecordAt(a, Record(j)) /\ RecordAt(b, Record(k))
            BY <2>8, <4>1, <4>2, <5>1, <5>2, <6>1
          <6>3. /\ \A m \in 1..(n - 1) : a[m] = b[m]
                /\ a[n][1] = b[n][1] /\ a[n][2] = b[n][2]
            BY <4>2, <5>1, <5>3, <6>1
          <6>4. Tree[a[n][1]].kind = "paged"
            BY <2>9, <4>1, <5>1, <6>1
          <6>5. a = b
            BY <6>2, <6>3, <6>4, OneRung
          <6> QED
            BY <6>1, <6>5
        <5> QED
          BY <3>2, <4>4, <5>4 DEF RecordsInv
      <4>6. Rung
        BY <2>9, <4>1, RungIs
      <4>7. DOMAIN reply.got \subseteq Top.ask
        BY <2>1, <2>5, <2>15, <3>2, <4>6 DEF Appends
      <4>8. Top.ask = Under.ask
        BY <2>5, <2>9, <2>15, <3>2, <4>1, RungIs
      <4>9. p \in DOMAIN Record(k).got /\ p \in Under.ask
        BY <2>5, <2>7, <2>15, <3>2, <4>7, <4>8
      <4>10. Gated(Under.node, StepOf(k), Record(k).got[p])
        BY <4>4, <4>5, <4>9
      <4> QED
        BY <2>7, <2>9, <3>2, <4>1, <4>10
    <3>3. CASE k = new
      <4>0. l # new
        <5> SUFFICES ASSUME l = new PROVE FALSE
          OBVIOUS
        <5>1. n > 0 /\ StepOf(new)' = StepOf(new)' + 1
          BY <2>10, <2>15, <3>3 DEF Follows
        <5> QED
          BY <2>9, <5>1
      <4>1. l \in DOMAIN records /\ PagedRecord(l) /\ StepOf(l) = StepOf(new)' + 1
            /\ SameCascade(new, l)'
        BY <2>5, <2>7, <2>15, <3>3, <4>0 DEF Follows
      <4>2. /\ Len(PathAt(l)) = n + 1 /\ n > 0
            /\ \A m \in 1..(n - 1) : Path[m] = PathAt(l)[m]
            /\ Path[n][1] = PathAt(l)[n][1]
        <5>1. records'[new].path = Path /\ records'[l].path = PathAt(l)
          BY <2>4, <2>6, <4>1 DEF PathAt
        <5>2. /\ Len(PathAt(l)) = Len(Path) /\ Len(Path) > 1
              /\ \A m \in 1..(Len(Path) - 2) : PathAt(l)[m] = Path[m]
              /\ PathAt(l)[Len(Path) - 1][1] = Path[Len(Path) - 1][1]
          BY <4>1, <5>1 DEF SameCascade
        <5>4. Len(Path) - 2 = n - 1 /\ Len(Path) - 1 = n /\ Len(Path) = n + 1
          BY <2>8
        <5> QED
          BY <2>8, <5>2, <5>4
      <4>3. Under.i \in Nat /\ StepOf(l) = Under.i + 1 /\ Tree[Under.node].kind = "paged"
        <5>1. PathAt(l)[n][1] = Under.node /\ Len(PathAt(l)) - 1 = n
          BY <2>8, <2>9, <4>2
        <5> QED
          BY <2>9, <4>1, <4>2, <5>1 DEF PagedRecord
      <4>4. StepOf(l) > 1
        <5>1. Under.i \in 1..Len(Tree[Under.node].steps)
          BY <2>9, <4>2, <4>3, RungIs
        <5> QED
          BY <4>3, <5>1
      <4>5. PICK j \in DOMAIN records : Follows(l, j)
        BY <4>1, <4>4 DEF AskedInv
      <4>6. /\ Len(PathAt(j)) = n + 1 /\ PathAt(j) \in Paths
            /\ \A m \in 1..(n - 1) : PathAt(j)[m] = Path[m]
            /\ PathAt(j)[n][1] = Path[n][1] /\ PathAt(j)[n][2] = Under.i
        <5>1. /\ Len(PathAt(j)) = Len(PathAt(l)) /\ StepOf(l) = StepOf(j) + 1
              /\ \A m \in 1..(Len(PathAt(j)) - 2) : PathAt(j)[m] = PathAt(l)[m]
              /\ PathAt(j)[Len(PathAt(j)) - 1][1] = PathAt(l)[Len(PathAt(l)) - 1][1]
              /\ StepOf(j) = PathAt(j)[Len(PathAt(j)) - 1][2]
          BY <4>5 DEF Follows, SameCascade, PathAt, StepOf
        <5>2. n + 1 - 2 = n - 1 /\ n + 1 - 1 = n
          BY <2>8
        <5>3. PathAt(j) \in Paths
          BY RecordsAre DEF Paths
        <5>4. StepOf(j) = PathAt(j)[n][2] /\ n \in 1..Len(PathAt(j))
          BY <2>8, <4>2, <5>1, <5>2
        <5>5. StepOf(j) \in Nat
          BY <5>3, <5>4, PathsAre
        <5>6. StepOf(j) = Under.i
          BY <4>3, <5>1, <5>5
        <5> QED
          BY <4>2, <5>1, <5>2, <5>3, <5>4, <5>6
      <4>7. PathAt(j) = Path
        <5>1. RecordAt(PathAt(j), Record(j))
          BY DEF RecordsInv
        <5>2. /\ PathAt(j) \in Paths /\ Path \in Paths /\ RecordAt(Path, reply)
              /\ n \in Nat /\ n > 0 /\ Len(PathAt(j)) = n + 1 /\ Len(Path) = n + 1
          BY <2>8, <2>9, <2>12, <4>2, <4>6
        <5>3. /\ \A m \in 1..(n - 1) : PathAt(j)[m] = Path[m]
              /\ PathAt(j)[n][1] = Path[n][1] /\ PathAt(j)[n][2] = Path[n][2]
              /\ Tree[PathAt(j)[n][1]].kind = "paged"
          BY <2>8, <2>9, <4>2, <4>3, <4>6
        <5> QED
          BY <5>1, <5>2, <5>3, OneRung
      <4>8. j \in Recorded
        BY <4>7 DEF Recorded, PathAt
      <4> QED
        BY <2>1, <4>8 DEF Appends
    <3> QED
      BY <2>5, <3>1, <3>2, <3>3
  <2> QED
    BY <2>14, <2>15 DEF AskedInv
<1> QED
  BY <1>1, <1>2, MovesAre
     DEF Deepens, Opens, Halts, Yields, Quiet, FinishWalk, Again, Journals, Replays, Rises, GoesOn
PagesAllInv == AnswersInv /\ PagesInv /\ AskedInv

\* The inductive invariant of the walk's pages holds in every reachable state.
LEMMA PagesHold == WalkSpec => []PagesAllInv
<1>1. WalkInit => PagesAllInv
  <2> SUFFICES ASSUME WalkInit PROVE PagesInv /\ AskedInv
    BY AnswersInit DEF PagesAllInv
  <2>1. PICK n \in Starts : stack = <<Frame(n)>>
    BY DEF WalkInit
  <2>2. n \in DOMAIN Tree
    BY Walkable DEF WalkAssumption
  <2>3. Frame(n).pages = <<>> /\ Frame(n).i = 0 /\ Len(stack) = 1 /\ stack[1] = Frame(n)
    BY <2>1, <2>2, FrameIs
  <2>4. WalkedOver = {} /\ DOMAIN records = {} /\ ~WalkEnded
    BY DEF WalkInit, WalkedOver, WalkEnded
  <2>5. PagesInv
    <3>1. \A k, j : ~RungAt(k, j)
      BY <2>4 DEF RungAt
    <3>2. DOMAIN stack[1].pages = {} /\ ~(stack[1].i > 1)
      BY <2>3, NothingGraded
    <3> QED
      BY <2>3, <2>4, <3>1, <3>2 DEF PagesInv, PagesAt
  <2>6. AskedInv
    BY <2>4 DEF AskedInv
  <2> QED
    BY <2>5, <2>6
<1>2. PagesAllInv /\ [WalkNext]_walkVars => PagesAllInv'
  <2> SUFFICES ASSUME PagesAllInv, [WalkNext]_walkVars PROVE PagesAllInv'
    OBVIOUS
  <2>1. AnswersInv'
    BY AnswersStep DEF PagesAllInv
  <2>2. Moves
    BY StepsMove DEF PagesAllInv, AnswersInv
  <2>3. PagesInv' /\ AskedInv'
    BY <2>2, PagesStep, AskedStep DEF PagesAllInv, AnswersInv
  <2> QED
    BY <2>1, <2>3 DEF PagesAllInv
<1> QED
  BY <1>1, <1>2, PTL DEF WalkSpec

\* Whatever the rungs, the answers and the deaths between them, a stitched document holds
\* of every page the version of the last rung that had it, and a page that a gate let
\* pass was not asked of the next rung.
THEOREM PagesStitched == WalkSpec => []PagesAreStitched
<1>1. PagesAllInv => PagesAreStitched
  <2> SUFFICES ASSUME PagesAllInv, place = "return", Node.kind = "paged", ret.kind = "ok"
               PROVE  /\ DOMAIN Top.pages = {p \in Pages : Having(p) # {}}
                      /\ \A p \in DOMAIN Top.pages :
                           /\ \A k \in Having(p) :
                                (\A l \in Having(p) : StepOf(l) <= StepOf(k)) =>
                                    Top.pages[p] = Record(k).got[p]
                           /\ \A k, l \in Having(p) :
                                StepOf(l) = StepOf(k) + 1
                                /\ ~ReadsWhole(Top.node, StepOf(l)) =>
                                    FailsAt(StepOf(k), Record(k).got[p])
                           /\ FailsAt(Top.i, Top.pages[p]) =>
                                \/ Top.i = Len(Node.steps) \/ ReadsWhole(Top.node, Top.i)
                                \/ \A k \in PagedRungs : StepOf(k) # Top.i
    BY DEF PagesAreStitched
  <2> USE DEF PagesAllInv, AnswersInv
  <2>0. /\ Len(stack) \in Nat \ {0} /\ DOMAIN stack = 1..Len(stack)
        /\ Len(stack) \in 1..Len(stack)
    <3>1. \A m \in Nat \ {0} : m \in 1..m
      OBVIOUS
    <3> QED
      BY <3>1, StackIs, Zenon
  <2>1. PICK n \in 1..Len(stack) : n = Len(stack)
    BY <2>0, Zenon
  <2>2. n \in Nat \ {0} /\ Top = stack[n] /\ n \in DOMAIN stack /\ ~(n < Len(stack))
    BY <2>0, <2>1 DEF Top
  <2>3. PagesAt(n) /\ DueAt(n)
    BY <2>1, <2>2 DEF PagesInv, KindAt, Node, WalkEnded
  <2>4. \A k : k \in PagedRungs <=> RungAt(k, n)
    <3>1. \A m \in 1..(n - 1) : m \in 1..Len(stack)
      BY <2>2
    <3>2. \A m \in 1..(n - 1) : Path[m] = <<stack[m].node, stack[m].i>>
      BY <3>1, PathIs
    <3>3. ASSUME NEW k \in WalkedOver, Len(PathAt(k)) = n + 1
          PROVE  Len(PathAt(k)) >= n
      BY <2>2, <3>3
    <3>4. \A k : k \in PagedRungs <=>
             /\ k \in WalkedOver /\ Len(PathAt(k)) = n + 1 /\ Record(k).kind = "ok"
             /\ \A m \in 1..(n - 1) : PathAt(k)[m] = Path[m]
             /\ PathAt(k)[n][1] = Top.node
      BY <2>1 DEF PagedRungs, PathAt
    <3> QED
      BY <2>2, <3>2, <3>3, <3>4 DEF RungAt, Through
  <2>5. \A p, k : k \in Having(p) <=> RungAt(k, n) /\ p \in DOMAIN Record(k).got
    BY <2>4 DEF Having
  <2>6. DOMAIN Top.pages = {p \in Pages : Having(p) # {}}
    <3>1. \A p : p \in DOMAIN Top.pages <=> Having(p) # {}
      BY <2>2, <2>3, <2>5 DEF PagesAt
    <3>2. DOMAIN Top.pages \subseteq Pages
      BY StackIs DEF Evaluations, Gradings
    <3> QED
      BY <3>1, <3>2
  <2>7. ASSUME NEW p \in DOMAIN Top.pages, NEW k \in Having(p),
               \A l \in Having(p) : StepOf(l) <= StepOf(k)
        PROVE  Top.pages[p] = Record(k).got[p]
    BY <2>2, <2>3, <2>5, <2>7 DEF PagesAt
  <2>8. ASSUME NEW p \in DOMAIN Top.pages, NEW k \in Having(p), NEW l \in Having(p),
               StepOf(l) = StepOf(k) + 1, ~ReadsWhole(Top.node, StepOf(l))
        PROVE  FailsAt(StepOf(k), Record(k).got[p])
    <3>1. /\ RungAt(k, n) /\ RungAt(l, n) /\ k \in DOMAIN records /\ l \in DOMAIN records
          /\ p \in DOMAIN Record(k).got /\ p \in DOMAIN Record(l).got
      BY <2>5, RungSteps
    <3>2. /\ Len(PathAt(k)) = n + 1 /\ Len(PathAt(l)) = n + 1
          /\ PathAt(k)[n][1] = Top.node /\ PathAt(l)[n][1] = Top.node
          /\ \A m \in 1..(n - 1) : PathAt(k)[m] = <<stack[m].node, stack[m].i>>
          /\ \A m \in 1..(n - 1) : PathAt(l)[m] = <<stack[m].node, stack[m].i>>
      BY <2>2, <3>1 DEF RungAt, Through
    <3>3. n + 1 - 1 = n /\ n + 1 - 2 = n - 1 /\ n + 1 > 1
      BY <2>2
    <3>4. PagedRecord(l) /\ CascadeOf(l) = Top.node
      BY <3>2, <3>3 DEF PagedRecord, CascadeOf, Node
    <3>5. SameCascade(k, l)
      <4>1. /\ records[k].path = PathAt(k) /\ records[l].path = PathAt(l)
            /\ \A m \in 1..(n - 1) : PathAt(k)[m] = PathAt(l)[m]
            /\ PathAt(k)[n][1] = PathAt(l)[n][1]
        BY <3>2 DEF PathAt
      <4> HIDE DEF PathAt
      <4> QED
        BY <3>2, <3>3, <4>1 DEF SameCascade
    <3>6. Follows(l, k)
      BY <2>8, <3>4, <3>5 DEF Follows
    <3>7. Record(k).kind = "ok" /\ Record(l).kind = "ok"
      BY <3>1 DEF RungAt
    <3>8. Gated(Top.node, StepOf(k), Record(k).got[p])
      BY <2>8, <3>1, <3>4, <3>6, <3>7 DEF AskedInv
    <3> QED
      BY <3>8 DEF FailsAt, Gated, Node
  <2>9. ASSUME NEW p \in DOMAIN Top.pages, FailsAt(Top.i, Top.pages[p])
        PROVE  \/ Top.i = Len(Node.steps) \/ ReadsWhole(Top.node, Top.i)
               \/ \A k \in PagedRungs : StepOf(k) # Top.i
    BY <2>2, <2>3, <2>4, <2>9 DEF DueAt, Gated, FailsAt, Node
  <2> QED
    BY <2>6, <2>7, <2>8, <2>9
<1> QED
  BY <1>1, PagesHold, PTL

\* What a walk answers is right: of whole documents and of stitched ones.
THEOREM WalkAnswers == WalkSpec => []WalkAnswer
<1>1. AnswerIsDue /\ PagesAreStitched => WalkAnswer
  BY Zenon DEF WalkAnswer
<1> QED
  BY <1>1, AnswersAreDue, PagesStitched, PTL
-----------------------------------------------------------------------------
(* The course of a walk                                                    *)

\* Where a walk is, and how many records it has been through.
At(s, where, out, w) == [stack |-> s, place |-> where, ret |-> out, w |-> w]
Config == At(stack, IF place = "calling" THEN "enter" ELSE place, ret, Len(walked))
Configs == [stack : Seq(Evaluations), ret : Outcome \cup {Nil}, w : Nat,
            place : {"enter", "step", "return", "done", "refused", "cycle"}]

Innermost(c) == c.stack[Len(c.stack)]
Below1(c) == c.stack[Len(c.stack) - 1]
InnerKind(c) == Tree[Innermost(c).node].kind
BelowKind(c) == Tree[Below1(c).node].kind

AtCall(c) ==
    /\ c.place = "enter" /\ IsCall(Innermost(c).node)
    /\ ~Refuses(Innermost(c).node) /\ ~Absents(Innermost(c).node)
AtRung(c) ==
    c.place = "return" /\ Len(c.stack) > 1 /\ BelowKind(c) = "paged" /\ c.ret.kind = "ok"
AtRoute(c) == c.place = "enter" /\ InnerKind(c) = "route"

\* What a walk reads there: of the ledger and of the document.
Read(c) ==
    IF AtCall(c) THEN records[c.w + 1].reply
    ELSE IF AtRung(c) THEN records[c.ret.by].reply.got
    ELSE IF AtRoute(c) THEN Rule(Innermost(c).node) ELSE Nil

\* Where it goes from there if no deadline passes and the engine decides.
CallGoes(c, read) ==
    LET n == Innermost(c).node IN
    IF Refuses(n) THEN At(c.stack, "refused", c.ret, c.w)
    ELSE IF Absents(n) THEN At(c.stack, "return", Err("provider_error"), c.w)
    ELSE At(c.stack, "return", Came(read, c.w + 1), c.w + 1)

UseGoes(c) ==
    LET name == Tree[Innermost(c).node].name IN
    IF name \in Visited(c.stack) THEN At(c.stack, "cycle", c.ret, c.w)
    ELSE IF Referred[name] = Nil THEN At(c.stack, "return", Err("exhausted"), c.w)
    ELSE At(Descend(c.stack, Referred[name], 0), "enter", c.ret, c.w)

RouteGoes(c, rule) ==
    LET route == Tree[Innermost(c).node]
    IN At(Descend(c.stack, IF rule = 0 THEN route.default ELSE route.rules[rule].use, rule),
          "enter", c.ret, c.w)

EnterGoes(c, read) ==
    CASE InnerKind(c) \in LadderKinds ->
           At([c.stack EXCEPT ![Len(c.stack)].i = 1], "step", c.ret, c.w)
      [] InnerKind(c) = "route" -> RouteGoes(c, read)
      [] InnerKind(c) = "decide" ->
           At(Descend(c.stack, Tree[Innermost(c).node].otherwise, 0), "enter", c.ret, c.w)
      [] InnerKind(c) = "use" -> UseGoes(c)
      [] OTHER -> CallGoes(c, read)

StepGoes(c) ==
    LET top == Innermost(c) IN
    IF InnerKind(c) = "paged" THEN At(Append(c.stack, RungOf(top)), "enter", c.ret, c.w)
    ELSE IF OutOfSteps(top) THEN At(c.stack, "return", BestKept(top, FALSE), c.w)
    ELSE At(Descend(c.stack, Tree[top.node].steps[top.i], top.i), "enter", c.ret, c.w)

\* Up, to hand up or to go on.
Up(c, out) == At(Climb(c.stack, Below1(c)), "return", out, c.w)
On(c, f) == At(Climb(c.stack, f), "step", Nil, c.w)

CascadeGoes(c) ==
    LET n == Innermost(c).node u == Below1(c) IN
    IF c.ret.kind = "skip" THEN On(c, Passed(u))
    ELSE IF c.ret.kind = "err"
    THEN IF FailsCascade(c.ret.cls, n, u.node) THEN Up(c, c.ret) ELSE On(c, Passed(u))
    ELSE IF InReview(n, c.ret)
    THEN IF Tree[n].review_default = "escalate" THEN On(c, Retaining(u, c.ret))
         ELSE Up(c, [c.ret EXCEPT !.gate = "pass"])
    ELSE IF Escalates(n, c.ret) THEN On(c, Retaining(u, c.ret)) ELSE Up(c, c.ret)

PagedGoes(c, got) ==
    LET n == Innermost(c).node u == Below1(c) pages == Stitched(u.pages, got) IN
    IF c.ret.kind \in {"err", "skip"} THEN Up(c, Fallen(u.pages))
    ELSE IF IsLastRung(u, n) \/ Failing(pages, n) = {}
    THEN At(Climb(c.stack, Stitch(u, pages)), "return", Document, c.w)
    ELSE On(c, NextAsk(u, pages, n))

ReturnGoes(c, read) ==
    CASE Len(c.stack) = 1 -> At(c.stack, "done", Bare(c.ret), c.w)
      [] Len(c.stack) # 1 /\ BelowKind(c) = "cascade" -> CascadeGoes(c)
      [] Len(c.stack) # 1 /\ BelowKind(c) = "paged" -> PagedGoes(c, read)
      [] OTHER -> Up(c, Bare(c.ret))

Goes(c, read) ==
    CASE c.place = "enter" -> EnterGoes(c, read)
      [] c.place = "step" -> StepGoes(c)
      [] OTHER -> ReturnGoes(c, read)

Follow(c, d) ==
    /\ c.place \in {"enter", "step", "return"}
    /\ AtCall(c) => c.w + 1 \in DOMAIN records /\ PathAt(c.w + 1) = PathOf(c.stack)
    /\ AtRung(c) => c.ret.by \in DOMAIN records
    /\ d = Goes(c, Read(c))

\* The whole of the course so far, of which this process has gone a part.
Trail(t) ==
    /\ t # <<>> /\ t[1] = At(<<Frame(stack[1].node)>>, "enter", Nil, 0)
    /\ \A j \in 1..(Len(t) - 1) : Follow(t[j], t[j + 1])
    /\ t[Len(t)].w = Len(records)
    /\ \E p \in 1..Len(t) : t[p] = Config

TrailInv == turns = {} => \E t \in Seq(Configs) : Trail(t)
RetraceInv == turns = {} => walked = [k \in 1..Len(walked) |-> k]

\* The walk's configuration, part by part.
LEMMA ConfigIs ==
    ASSUME WalkTypeOK
    PROVE  /\ Config \in Configs /\ Config.stack = stack /\ Config.ret = ret
           /\ Config.w = Len(walked) /\ Innermost(Config) = Top /\ Below1(Config) = Under
           /\ InnerKind(Config) = Node.kind
           /\ place # "calling" => Config.place = place
           /\ place = "calling" => Config.place = "enter"
<1>1. Len(walked) \in Nat
  BY RecordsAre
<1>2. /\ Config.stack = stack /\ Config.ret = ret /\ Config.w = Len(walked)
      /\ place # "calling" => Config.place = place
      /\ place = "calling" => Config.place = "enter"
  BY DEF Config, At
<1>3. Config \in Configs
  BY <1>1 DEF Config, Configs, At, WalkTypeOK
<1> QED
  BY <1>2, <1>3 DEF Innermost, Below1, InnerKind, Node, Top, Under

\* Course by course, each step of the walk that no deadline and no decider turns.
LEMMA EnterFollows ==
    ASSUME WalkTypeOK, turns' = {}, EnterSteps \/ EvalRoute \/ EvalDecide
    PROVE  Follow(Config, Config')
<1>1. place = "enter" /\ Config.place = "enter" /\ place' # "calling"
  BY ConfigIs DEF EnterSteps, EvalRoute, EvalDecide, Down
<1>2. Node.kind \in {"cascade", "paged", "route", "decide"} /\ ret' = ret /\ walked' = walked
  BY DEF EnterSteps, EvalRoute, EvalDecide
<1>3. ~AtCall(Config) /\ ~AtRung(Config)
  BY <1>1, <1>2, ConfigIs DEF AtCall, AtRung, IsCall, Node
<1>4. Goes(Config, Read(Config)) = EnterGoes(Config, Read(Config))
  BY <1>1 DEF Goes
<1>5. CASE EnterSteps
  <2>1. EnterGoes(Config, Read(Config)) = At([stack EXCEPT ![Len(stack)].i = 1], "step", ret, Len(walked))
    BY <1>5, ConfigIs DEF EnterGoes, EnterSteps, LadderKinds
  <2>2. Config' = At([stack EXCEPT ![Len(stack)].i = 1], "step", ret, Len(walked))
    BY <1>5 DEF EnterSteps, Config
  <2> QED
    BY <1>1, <1>3, <1>4, <2>1, <2>2 DEF Follow
<1>6. CASE EvalRoute
  <2>1. Read(Config) = Rule(Top.node)
    BY <1>1, <1>3, <1>6, ConfigIs DEF Read, AtRoute, EvalRoute
  <2>2. EnterGoes(Config, Read(Config)) = RouteGoes(Config, Rule(Top.node))
    BY <1>6, <2>1, ConfigIs DEF EnterGoes, EvalRoute, LadderKinds
  <2>3. RouteGoes(Config, Rule(Top.node)) = At(Descend(stack, RouteOf(Top.node), Rule(Top.node)), "enter", ret, Len(walked))
    BY ConfigIs DEF RouteGoes, RouteOf
  <2>4. Config' = At(Descend(stack, RouteOf(Top.node), Rule(Top.node)), "enter", ret, Len(walked))
    BY <1>6 DEF EvalRoute, Down, Config
  <2> QED
    BY <1>1, <1>3, <1>4, <2>2, <2>3, <2>4 DEF Follow
<1>7. CASE EvalDecide
  <2>1. stack' = Descend(stack, Node.otherwise, 0) /\ place' = "enter"
    BY <1>7 DEF EvalDecide, Down, TurnsBy
  <2>2. EnterGoes(Config, Read(Config)) = At(Descend(stack, Node.otherwise, 0), "enter", ret, Len(walked))
    BY <1>7, ConfigIs DEF EnterGoes, EvalDecide, LadderKinds, Node
  <2>3. Config' = At(Descend(stack, Node.otherwise, 0), "enter", ret, Len(walked))
    BY <1>2, <2>1 DEF Config
  <2> QED
    BY <1>1, <1>3, <1>4, <2>2, <2>3 DEF Follow
<1> QED
  BY <1>5, <1>6, <1>7

\* A reference goes where the tree alone says.
LEMMA ReferenceFollows ==
    ASSUME WalkTypeOK, EvalReference
    PROVE  Follow(Config, Config')
<1>1. /\ place = "enter" /\ Config.place = "enter" /\ place' # "calling"
      /\ Node.kind = "use" /\ walked' = walked
  BY ConfigIs DEF EvalReference, Down, HandUp
<1>2. ~AtCall(Config) /\ ~AtRung(Config)
  BY <1>1, ConfigIs DEF AtCall, AtRung, IsCall, Node
<1>3. Goes(Config, Read(Config)) = UseGoes(Config)
  BY <1>1, ConfigIs DEF Goes, EnterGoes, LadderKinds
<1>4. Config' = At(stack', place', ret', Len(walked))
  BY <1>1 DEF Config
<1>5. UseGoes(Config) = IF Node.name \in Visited(stack) THEN At(stack, "cycle", ret, Len(walked))
         ELSE IF Referred[Node.name] = Nil
         THEN At(stack, "return", Err("exhausted"), Len(walked))
         ELSE At(Descend(stack, Referred[Node.name], 0), "enter", ret, Len(walked))
  BY ConfigIs DEF UseGoes, Node
<1>6. CASE Node.name \in Visited(stack)
  <2>1. place' = "cycle" /\ UNCHANGED <<stack, ret>>
    BY <1>6 DEF EvalReference
  <2> QED
    BY <1>1, <1>2, <1>3, <1>4, <1>5, <1>6, <2>1 DEF Follow
<1>7. CASE Node.name \notin Visited(stack) /\ Referred[Node.name] = Nil
  <2>1. HandUp(Err("exhausted")) /\ UNCHANGED stack
    BY <1>7 DEF EvalReference
  <2> QED
    BY <1>1, <1>2, <1>3, <1>4, <1>5, <1>7, <2>1 DEF Follow, HandUp
<1>8. CASE Node.name \notin Visited(stack) /\ Referred[Node.name] # Nil
  <2>1. Down(Referred[Node.name], 0) /\ UNCHANGED ret
    BY <1>8 DEF EvalReference
  <2> QED
    BY <1>1, <1>2, <1>3, <1>4, <1>5, <1>8, <2>1 DEF Follow, Down
<1> QED
  BY <1>6, <1>7, <1>8

\* A refused or unknown node goes where the tree alone says.
LEMMA RefusalFollows ==
    ASSUME WalkTypeOK, RefuseCall \/ Unknown
    PROVE  Follow(Config, Config')
<1>1. /\ place = "enter" /\ Config.place = "enter" /\ place' # "calling"
      /\ IsCall(Top.node) /\ walked' = walked /\ stack' = stack
  BY ConfigIs DEF RefuseCall, Unknown, MayRun, HandUp
<1>2. ~AtCall(Config) /\ ~AtRung(Config)
  BY <1>1, ConfigIs DEF AtCall, AtRung, RefuseCall, Unknown, MayRun
<1>3. Goes(Config, Read(Config)) = CallGoes(Config, Read(Config))
  BY <1>1, ConfigIs DEF Goes, EnterGoes, LadderKinds, IsCall, Node
<1>4. Config' = At(stack, place', ret', Len(walked))
  BY <1>1 DEF Config
<1>5. CASE RefuseCall
  <2>1. CallGoes(Config, Read(Config)) = At(stack, "refused", ret, Len(walked))
    BY <1>5, ConfigIs DEF CallGoes, RefuseCall
  <2>2. place' = "refused" /\ ret' = ret
    BY <1>5 DEF RefuseCall
  <2> QED
    BY <1>1, <1>2, <1>3, <1>4, <2>1, <2>2 DEF Follow
<1>6. CASE Unknown
  <2>1. CallGoes(Config, Read(Config)) = At(stack, "return", Err("provider_error"), Len(walked))
    BY <1>6, ConfigIs DEF CallGoes, Unknown, MayRun
  <2>2. place' = "return" /\ ret' = Err("provider_error")
    BY <1>6 DEF Unknown, HandUp
  <2> QED
    BY <1>1, <1>2, <1>3, <1>4, <2>1, <2>2 DEF Follow
<1> QED
  BY <1>5, <1>6, <1>1

\* A next step or rung goes where the tree alone says, unless the walk turns.
LEMMA StepFollows ==
    ASSUME WalkTypeOK, turns' = {}, NextStep \/ NextRung
    PROVE  Follow(Config, Config')
<1>1. /\ place = "step" /\ Config.place = "step" /\ place' # "calling"
      /\ Node.kind \in LadderKinds /\ walked' = walked
  BY ConfigIs DEF NextStep, NextRung, Down, HandUp, LadderKinds
<1>2. ~AtCall(Config) /\ ~AtRung(Config)
  BY <1>1 DEF AtCall, AtRung
<1>3. Goes(Config, Read(Config)) = StepGoes(Config)
  BY <1>1 DEF Goes
<1>4. Config' = At(stack', place', ret', Len(walked))
  BY <1>1 DEF Config
<1>5. CASE NextRung
  <2>1. StepGoes(Config) = At(Append(stack, RungOf(Top)), "enter", ret, Len(walked))
    BY <1>5, ConfigIs DEF StepGoes, NextRung
  <2>2. stack' = Append(stack, RungOf(Top)) /\ place' = "enter" /\ ret' = ret
    BY <1>5 DEF NextRung
  <2> QED
    BY <1>1, <1>2, <1>3, <1>4, <2>1, <2>2 DEF Follow
<1>6. CASE NextStep
  <2>1. OutOfTime = FALSE
    <3>1. ~OutOfTime
      BY <1>6 DEF NextStep, TurnsBy
    <3>2. OutOfTime \in BOOLEAN
      BY DEF OutOfTime
    <3> QED
      BY <3>1, <3>2
  <2>2. Node.kind = "cascade"
    BY <1>6 DEF NextStep
  <2>3. StepGoes(Config) = IF OutOfSteps(Top) THEN At(stack, "return", BestKept(Top, FALSE), Len(walked))
           ELSE At(Descend(stack, Node.steps[Top.i], Top.i), "enter", ret, Len(walked))
    BY <2>2, ConfigIs DEF StepGoes, Node
  <2>4. CASE OutOfSteps(Top)
    <3>1. HandUp(BestKept(Top, FALSE)) /\ stack' = stack
      BY <1>6, <2>1, <2>4 DEF NextStep
    <3> QED
      BY <1>1, <1>2, <1>3, <1>4, <2>3, <2>4, <3>1 DEF Follow, HandUp
  <2>5. CASE ~OutOfSteps(Top)
    <3>1. Down(Node.steps[Top.i], Top.i) /\ ret' = ret
      BY <1>6, <2>1, <2>5 DEF NextStep
    <3> QED
      BY <1>1, <1>2, <1>3, <1>4, <2>3, <2>5, <3>1 DEF Follow, Down
  <2> QED
    BY <2>4, <2>5
<1> QED
  BY <1>5, <1>6
\* Coming back up, to hand up or to go on.
LEMMA AboveIs ==
    ASSUME WalkTypeOK, NEW kind, Above(kind)
    PROVE  /\ place = "return" /\ Config.place = "return" /\ ~AtCall(Config)
           /\ Len(Config.stack) # 1 /\ Len(stack) > 1
           /\ BelowKind(Config) = kind /\ Tree[Under.node].kind = kind
           /\ AtRung(Config) <=> kind = "paged" /\ ret.kind = "ok"
           /\ Goes(Config, Read(Config)) = ReturnGoes(Config, Read(Config))
<1>1. place = "return" /\ Len(stack) > 1 /\ Tree[Under.node].kind = kind
  BY DEF Above, Below, Under
<1>2. Config.place = "return" /\ BelowKind(Config) = kind /\ Config.stack = stack /\ Config.ret = ret
  <2>1. /\ Config.stack = stack /\ Config.ret = ret /\ Below1(Config) = Under
        /\ place # "calling" => Config.place = place
    BY ConfigIs, Zenon
  <2>2. place # "calling"
    BY <1>1
  <2> QED
    BY <1>1, <2>1, <2>2, Zenon DEF BelowKind
<1>3. Len(stack) # 1
  BY <1>1, StackIs
<1>4. ~AtCall(Config) /\ Goes(Config, Read(Config)) = ReturnGoes(Config, Read(Config))
  BY <1>2 DEF AtCall, Goes
<1>5. AtRung(Config) <=> kind = "paged" /\ ret.kind = "ok"
  BY <1>1, <1>2 DEF AtRung
<1> QED
  BY <1>1, <1>2, <1>3, <1>4, <1>5

\* Going up goes where the tree and what was read say.
LEMMA UpFollows ==
    ASSUME WalkTypeOK, place = "return", walked' = walked,
           AtRung(Config) => Config.ret.by \in DOMAIN records, ~AtCall(Config),
           \/ \E out : Resolves(out) /\ Goes(Config, Read(Config)) = Up(Config, out)
           \/ \E f : ClimbsTo(f) /\ Goes(Config, Read(Config)) = On(Config, f)
           \/ \E f, out : /\ Pop(f) /\ HandUp(out)
                          /\ Goes(Config, Read(Config)) =
                                At(Climb(stack, f), "return", out, Len(walked))
    PROVE  Follow(Config, Config')
<1>1. Config.place = "return" /\ Config.stack = stack /\ Config.w = Len(walked) /\ Below1(Config) = Under
  BY ConfigIs
<1>2. place' # "calling" => Config' = At(stack', place', ret', Len(walked))
  BY DEF Config
<1>3. ASSUME NEW out, Resolves(out), Goes(Config, Read(Config)) = Up(Config, out)
      PROVE  Config' = Goes(Config, Read(Config))
  BY <1>1, <1>2, <1>3 DEF Resolves, Pop, HandUp, Up
<1>4. ASSUME NEW f, ClimbsTo(f), Goes(Config, Read(Config)) = On(Config, f)
      PROVE  Config' = Goes(Config, Read(Config))
  BY <1>1, <1>2, <1>4 DEF ClimbsTo, Pop, On
<1>5. ASSUME NEW f, NEW out, Pop(f), HandUp(out),
             Goes(Config, Read(Config)) = At(Climb(stack, f), "return", out, Len(walked))
      PROVE  Config' = Goes(Config, Read(Config))
  BY <1>1, <1>2, <1>5 DEF Pop, HandUp
<1>6. Config' = Goes(Config, Read(Config))
  BY <1>3, <1>4, <1>5
<1> QED
  BY <1>1, <1>6 DEF Follow

\* Handing a child's outcome up goes where the tree and what was read say.
LEMMA PassingFollows ==
    ASSUME WalkTypeOK, PassUp \/ FinishWalk
    PROVE  Follow(Config, Config')
<1>1. CASE FinishWalk
  <2>1. /\ Config.place = "return" /\ Len(Config.stack) = 1 /\ Config.stack = stack
        /\ Config.ret = ret /\ Config.w = Len(walked)
    BY <1>1, ConfigIs DEF FinishWalk
  <2>2. ~AtCall(Config) /\ ~AtRung(Config)
    BY <2>1 DEF AtCall, AtRung
  <2>3. Goes(Config, Read(Config)) = At(stack, "done", Bare(ret), Len(walked))
    BY <2>1 DEF Goes, ReturnGoes
  <2>4. Config' = At(stack, "done", Bare(ret), Len(walked))
    BY <1>1 DEF FinishWalk, Config
  <2> QED
    BY <2>1, <2>2, <2>3, <2>4 DEF Follow
<1>2. CASE PassUp
  <2>1. PICK kind \in {"route", "decide", "use"} : Above(kind)
    BY <1>2 DEF PassUp
  <2>2. Goes(Config, Read(Config)) = Up(Config, Bare(ret))
    <3>1. ReturnGoes(Config, Read(Config)) = Up(Config, Bare(Config.ret))
      BY <2>1, AboveIs DEF ReturnGoes
    <3> QED
      BY <2>1, <3>1, AboveIs, ConfigIs
  <2>3. Resolves(Bare(ret)) /\ walked' = walked
    BY <1>2 DEF PassUp
  <2>4. ~AtRung(Config) /\ ~AtCall(Config) /\ place = "return"
    BY <2>1, AboveIs
  <2> QED
    BY <2>2, <2>3, <2>4, UpFollows
<1> QED
  BY <1>1, <1>2

\* A cascade goes where the tree and what was read say, unless the walk turns.
LEMMA CascadeFollows ==
    ASSUME WalkTypeOK, turns' = {}, StepSkipped \/ StepFailed \/ StepReviewed \/ StepAnswered
    PROVE  Follow(Config, Config')
<1>1. Above("cascade") /\ walked' = walked
  BY DEF StepSkipped, StepFailed, StepReviewed, StepAnswered
<1>2. /\ ~AtRung(Config) /\ ~AtCall(Config) /\ place = "return" /\ Len(Config.stack) # 1
      /\ BelowKind(Config) = "cascade"
      /\ Goes(Config, Read(Config)) = ReturnGoes(Config, Read(Config))
  BY <1>1, AboveIs
<1>3. Goes(Config, Read(Config)) = CascadeGoes(Config)
  BY <1>2 DEF ReturnGoes
<1>4. /\ Innermost(Config).node = Top.node /\ Below1(Config) = Under /\ Config.ret = ret
      /\ Tree[Top.node] = Node
  BY ConfigIs DEF Node
<1>5. ret.kind \in {"ok", "deficient", "err", "skip"}
  <2>1. ret \in Outcome
    BY <1>2 DEF WalkTypeOK
  <2> QED
    BY <2>1, OutcomeIs
<1>6. CASE StepSkipped
  <2>1. ClimbsTo(Passed(Under)) /\ ret.kind = "skip"
    BY <1>6 DEF StepSkipped
  <2>2. Goes(Config, Read(Config)) = On(Config, Passed(Under))
    BY <1>3, <1>4, <2>1 DEF CascadeGoes
  <2> QED
    BY <1>1, <1>2, <2>1, <2>2, UpFollows
<1>7. CASE StepFailed
  <2>1. CASE FailsCascade(ret.cls, Top.node, Under.node)
    <3>1. Resolves(ret) /\ ret.kind = "err"
      BY <1>7, <2>1 DEF StepFailed
    <3>2. Goes(Config, Read(Config)) = Up(Config, ret)
      BY <1>3, <1>4, <2>1, <3>1 DEF CascadeGoes
    <3> QED
      BY <1>1, <1>2, <3>1, <3>2, UpFollows
  <2>2. CASE ~FailsCascade(ret.cls, Top.node, Under.node)
    <3>1. ClimbsTo(Passed(Under)) /\ ret.kind = "err"
      BY <1>7, <2>2 DEF StepFailed
    <3>2. Goes(Config, Read(Config)) = On(Config, Passed(Under))
      BY <1>3, <1>4, <2>2, <3>1 DEF CascadeGoes
    <3> QED
      BY <1>1, <1>2, <3>1, <3>2, UpFollows
  <2> QED
    BY <2>1, <2>2
<1>8. CASE StepReviewed
  <2>1. InReview(Top.node, ret) /\ ret.kind = "ok"
    BY <1>8 DEF StepReviewed, InReview
  <2>2. PICK action \in Actions({"accept", "escalate"}, Node.review_default) :
            /\ IF action = "escalate" THEN ClimbsTo(Retaining(Under, ret))
               ELSE Resolves([ret EXCEPT !.gate = "pass"])
            /\ TurnsBy("decider", action # Node.review_default)
    BY <1>8 DEF StepReviewed
  <2>3. action = Node.review_default
    BY <2>2 DEF TurnsBy
  <2>4. CASE action = "escalate"
    <3>1. Goes(Config, Read(Config)) = On(Config, Retaining(Under, ret))
      BY <1>3, <1>4, <2>1, <2>3, <2>4 DEF CascadeGoes
    <3>2. ClimbsTo(Retaining(Under, ret))
      BY <2>2, <2>4
    <3> QED
      BY <1>1, <1>2, <3>1, <3>2, UpFollows
  <2>5. CASE action # "escalate"
    <3>1. Goes(Config, Read(Config)) = Up(Config, [ret EXCEPT !.gate = "pass"])
      BY <1>3, <1>4, <2>1, <2>3, <2>5 DEF CascadeGoes
    <3>2. Resolves([ret EXCEPT !.gate = "pass"])
      BY <2>2, <2>5
    <3> QED
      BY <1>1, <1>2, <3>1, <3>2, UpFollows
  <2> QED
    BY <2>4, <2>5
<1>9. CASE StepAnswered
  <2>1. ~InReview(Top.node, ret) /\ ret.kind \in {"ok", "deficient"}
    BY <1>9 DEF StepAnswered
  <2>2. CASE Escalates(Top.node, ret)
    <3>1. Goes(Config, Read(Config)) = On(Config, Retaining(Under, ret))
      BY <1>3, <1>4, <2>1, <2>2 DEF CascadeGoes
    <3>2. ClimbsTo(Retaining(Under, ret))
      BY <1>9, <2>2 DEF StepAnswered
    <3> QED
      BY <1>1, <1>2, <3>1, <3>2, UpFollows
  <2>3. CASE ~Escalates(Top.node, ret)
    <3>1. Goes(Config, Read(Config)) = Up(Config, ret)
      BY <1>3, <1>4, <2>1, <2>3 DEF CascadeGoes
    <3>2. Resolves(ret)
      BY <1>9, <2>3 DEF StepAnswered
    <3> QED
      BY <1>1, <1>2, <3>1, <3>2, UpFollows
  <2> QED
    BY <2>2, <2>3
<1> QED
  BY <1>6, <1>7, <1>8, <1>9

\* A paged node goes where the tree and what was read say.
LEMMA PagedFollows ==
    ASSUME WalkTypeOK, ChainInv, CameInv, RungAnswered \/ RungFailed
    PROVE  Follow(Config, Config')
<1>1. Above("paged") /\ walked' = walked
  BY DEF RungAnswered, RungFailed
<1>2. /\ ~AtCall(Config) /\ place = "return" /\ Len(Config.stack) # 1 /\ Len(stack) > 1
      /\ BelowKind(Config) = "paged" /\ Tree[Under.node].kind = "paged"
      /\ AtRung(Config) <=> ret.kind = "ok"
      /\ Goes(Config, Read(Config)) = ReturnGoes(Config, Read(Config))
  BY <1>1, AboveIs
<1>3. Goes(Config, Read(Config)) = PagedGoes(Config, Read(Config))
  BY <1>2 DEF ReturnGoes
<1>4. /\ Innermost(Config).node = Top.node /\ Below1(Config) = Under /\ Config.ret = ret
      /\ Config.stack = stack /\ Config.w = Len(walked)
  BY ConfigIs
<1>5. CASE RungFailed
  <2>1. /\ ret.kind \in {"err", "skip"} /\ Resolves(Fallen(Under.pages)) /\ ~AtRung(Config)
    BY <1>2, <1>5 DEF RungFailed, Fallen
  <2>2. Goes(Config, Read(Config)) = Up(Config, Fallen(Under.pages))
    BY <1>3, <1>4, <2>1 DEF PagedGoes
  <2> QED
    BY <1>1, <1>2, <2>1, <2>2, UpFollows
<1>6. CASE RungAnswered
  <2>1. ret.kind = "ok" /\ AtRung(Config)
    BY <1>2, <1>6 DEF RungAnswered
  <2>2. ret.by \in DOMAIN records
    <3>1. IsCall(Top.node)
      BY <1>2, RungIs
    <3>2. walked # <<>> /\ ret.by = Latest
      BY <1>2, <2>1, <3>1 DEF CameInv
    <3> QED
      BY <3>2, RecordsAre
  <2>3. Read(Config) = records[ret.by].reply.got
    BY <1>2, <1>4, <2>1 DEF Read
  <2>4. PICK pages : pages = Stitched(Under.pages, records[ret.by].reply.got)
    OBVIOUS
  <2>5. CASE IsLastRung(Under, Top.node) \/ Failing(pages, Top.node) = {}
    <3>1. Pop(Stitch(Under, pages)) /\ HandUp(Document)
      BY <1>6, <2>4, <2>5 DEF RungAnswered
    <3>2. Goes(Config, Read(Config)) =
             At(Climb(stack, Stitch(Under, pages)), "return", Document, Len(walked))
      BY <1>3, <1>4, <2>1, <2>3, <2>4, <2>5 DEF PagedGoes
    <3> QED
      BY <1>1, <1>2, <1>4, <2>2, <3>1, <3>2, UpFollows
  <2>6. CASE ~(IsLastRung(Under, Top.node) \/ Failing(pages, Top.node) = {})
    <3>1. ClimbsTo(NextAsk(Under, pages, Top.node))
      BY <1>6, <2>4, <2>6 DEF RungAnswered
    <3>2. Goes(Config, Read(Config)) = On(Config, NextAsk(Under, pages, Top.node))
      BY <1>3, <1>4, <2>1, <2>3, <2>4, <2>6 DEF PagedGoes
    <3> QED
      BY <1>1, <1>2, <1>4, <2>2, <3>1, <3>2, UpFollows
  <2> QED
    BY <2>5, <2>6
<1> QED
  BY <1>5, <1>6
\* No leaf that is refused, or that the registry lacks, is called.
DispatchInv == place = "calling" => ~Refuses(Top.node) /\ ~Absents(Top.node)

\* Every step keeps that no leaf that is refused, or that the registry lacks, is called.
LEMMA DispatchStep ==
    ASSUME WalkTypeOK, DispatchInv, [WalkNext]_walkVars
    PROVE  DispatchInv'
<1>1. CASE SubmitCall
  BY <1>1 DEF SubmitCall, Dispatches, MayRun, DispatchInv, Top
<1>2. CASE UNCHANGED <<stack, place>>
  BY <1>2 DEF DispatchInv, Top
<1>3. CASE place' # "calling"
  BY <1>3 DEF DispatchInv
<1>4. SubmitCall \/ place' # "calling" \/ UNCHANGED <<stack, place>>
  <2>1. CASE EnterSteps \/ EvalRoute \/ EvalDecide \/ EvalReference \/ RefuseCall \/ Unknown
             \/ ReplayCall \/ Skip \/ ReturnCall
    BY <2>1 DEF EnterSteps, EvalRoute, EvalDecide, EvalReference, RefuseCall, Unknown,
                ReplayCall, Skip, ReturnCall, Settles, Entry, HandUp, Down
  <2>2. CASE PassUp \/ FinishWalk \/ NextStep \/ StepSkipped \/ StepFailed \/ StepReviewed
             \/ StepAnswered \/ NextRung
    BY <2>2 DEF PassUp, FinishWalk, NextStep, StepSkipped, StepFailed, StepReviewed,
                StepAnswered, NextRung, Resolves, ClimbsTo, HandUp, Down
  <2>3. CASE RungAnswered \/ RungFailed \/ TimePasses \/ ResumeWalk \/ InterruptCall
    BY <2>3 DEF RungAnswered, RungFailed, TimePasses, ResumeWalk, InterruptCall,
                Restarts, Resolves, ClimbsTo, HandUp
  <2>4. CASE UNCHANGED walkVars
    BY <2>4 DEF walkVars
  <2> QED
    BY <2>1, <2>2, <2>3, <2>4 DEF WalkNext
<1> QED
  BY <1>1, <1>2, <1>3, <1>4

\* What a walk goes by stays what it is: the records journalled and the facts.
LEMMA FollowStays ==
    ASSUME WalkTypeOK, Moves, facts' = facts, NEW c, NEW d, Follow(c, d)
    PROVE  Follow(c, d)'
<1>1. /\ c.place \in {"enter", "step", "return"}
      /\ AtCall(c) => c.w + 1 \in DOMAIN records /\ PathAt(c.w + 1) = PathOf(c.stack)
      /\ AtRung(c) => c.ret.by \in DOMAIN records
      /\ d = Goes(c, Read(c))
  BY DEF Follow
<1>2. ASSUME NEW k \in DOMAIN records
      PROVE  k \in DOMAIN records' /\ records'[k] = records[k] /\ PathAt(k)' = PathAt(k)
  BY <1>2, RecordsStay
<1>3. AtCall(c)' = AtCall(c) /\ AtRung(c)' = AtRung(c) /\ AtRoute(c)' = AtRoute(c)
  BY DEF AtCall, AtRung, AtRoute, IsCall, Refuses, Absents, Innermost, BelowKind, Below1,
         InnerKind
<1>4. \A n : Rule(n)' = Rule(n)
  BY DEF Rule, Matching
<1>5. ASSUME NEW k, k = c.w + 1, AtCall(c)
      PROVE  /\ c.w + 1 \in DOMAIN records' /\ records'[c.w + 1] = records[c.w + 1]
             /\ PathAt(c.w + 1)' = PathOf(c.stack)
  <2>1. k \in DOMAIN records /\ PathAt(k) = PathOf(c.stack)
    BY <1>1, <1>5
  <2> QED
    BY <1>2, <1>5, <2>1 DEF PathAt
<1>6. ASSUME NEW k, k = c.ret.by, AtRung(c)
      PROVE  c.ret.by \in DOMAIN records' /\ records'[c.ret.by] = records[c.ret.by]
  <2>1. k \in DOMAIN records
    BY <1>1, <1>6
  <2> QED
    BY <1>2, <1>6, <2>1
<1>7. Read(c)' = Read(c)
  BY <1>3, <1>4, <1>5, <1>6 DEF Read, Innermost
<1>8. d = Goes(c, Read(c))'
  <2>1. PICK read : read = Read(c)
    OBVIOUS
  <2>2. d = Goes(c, read) /\ read = Read(c)'
    BY <1>1, <1>7, <2>1
  <2> QED
    BY <2>2
<1> QED
  BY <1>1, <1>3, <1>5, <1>6, <1>8 DEF Follow
\* A run starts, and is resumed, from the same node.
LEMMA RootStays ==
    ASSUME WalkTypeOK, Moves
    PROVE  stack'[1].node = stack[1].node
<1>1. Len(stack) \in Nat \ {0} /\ stack[1] \in Evaluations /\ Top = stack[Len(stack)]
  BY StackIs DEF Top
<1>2. CASE Deepens \/ Opens
  <2>1. PICK i : stack'[Len(stack)] = [Top EXCEPT !.i = i]
    BY <1>2 DEF Deepens, Opens
  <2>2. \A j \in 1..(Len(stack) - 1) : stack'[j] = stack[j]
    BY <1>2 DEF Deepens, Opens, KeepsAllBut
  <2>3. stack'[Len(stack)].node = Top.node
    BY <1>1, <2>1, StackIs DEF Evaluations
  <2>4. CASE Len(stack) = 1
    BY <1>1, <2>3, <2>4
  <2>5. CASE Len(stack) # 1
    <3>1. \A n \in Nat \ {0, 1} : 1 \in 1..(n - 1)
      OBVIOUS
    <3>2. Len(stack) \in Nat \ {0, 1}
      BY <1>1, <2>5, Zenon
    <3>3. 1 \in 1..(Len(stack) - 1)
      BY <3>1, <3>2, Zenon
    <3> QED
      BY <2>2, <3>3
  <2> QED
    BY <2>4, <2>5
<1>3. CASE \E f : Rises(f) \/ GoesOn(f)
  <2>1. PICK f : Rises(f) \/ GoesOn(f)
    BY <1>3
  <2>2. /\ Len(stack) \in Nat \ {0, 1} /\ f.node = Under.node /\ Under = stack[Len(stack) - 1]
        /\ stack'[Len(stack) - 1] = f
        /\ \A m \in 1..(Len(stack) - 2) : stack'[m] = stack[m]
    BY <2>1, UpIs, Zenon
  <2>3. \A n \in Nat \ {0, 1} : n - 1 = 1 \/ 1 \in 1..(n - 2)
    OBVIOUS
  <2>4. Len(stack) - 1 = 1 \/ 1 \in 1..(Len(stack) - 2)
    BY <2>2, <2>3, Zenon
  <2> QED
    BY <2>2, <2>4
<1>4. CASE Again
  <2>1. stack' = <<Frame(stack[1].node)>>
    BY <1>4 DEF Again, Restarts
  <2> QED
    BY <2>1 DEF Frame
<1>5. CASE stack' = stack
  BY <1>5
<1>6. Halts \/ Yields \/ Quiet \/ FinishWalk => stack' = stack
  BY DEF Halts, Yields, Quiet, FinishWalk
<1>7. \A k, reply : Calls(k, reply) => stack' = stack
  BY DEF Calls
<1> QED
  BY <1>2, <1>3, <1>4, <1>5, <1>6, <1>7, MovesCall, Zenon

\* What a trail is: it starts at the root, follows, ends at the last record, and passes the
\* walk.
LEMMA TrailIs ==
    ASSUME WalkTypeOK, NEW t \in Seq(Configs), Trail(t)
    PROVE  /\ Len(t) \in Nat \ {0} /\ DOMAIN t = 1..Len(t)
           /\ t[1] = At(<<Frame(stack[1].node)>>, "enter", Nil, 0)
           /\ \A j \in 1..(Len(t) - 1) : Follow(t[j], t[j + 1])
           /\ t[Len(t)].w = Len(records)
           /\ \E p \in 1..Len(t) : t[p] = Config
<1>1. Len(t) \in Nat /\ DOMAIN t = 1..Len(t) /\ t # <<>>
  BY DEF Trail
<1>2. Len(t) # 0
  BY <1>1
<1> QED
  BY <1>1, <1>2 DEF Trail

\* The course is the same while nothing new is journalled.
LEMMA TrailStays ==
    ASSUME WalkTypeOK, Moves, facts' = facts, records' = records, NEW t \in Seq(Configs),
           Trail(t), \E p \in 1..Len(t) : t[p] = Config'
    PROVE  Trail(t)'
<1>1. /\ t # <<>> /\ t[1] = At(<<Frame(stack[1].node)>>, "enter", Nil, 0)
      /\ \A j \in 1..(Len(t) - 1) : Follow(t[j], t[j + 1])
      /\ t[Len(t)].w = Len(records)
  BY DEF Trail
<1>2. ASSUME NEW j \in 1..(Len(t) - 1)
      PROVE  Follow(t[j], t[j + 1])'
  <2>1. PICK c, d : c = t[j] /\ d = t[j + 1]
    OBVIOUS
  <2>2. Follow(c, d)
    BY <1>1, <2>1
  <2>3. Follow(c, d)'
    BY <2>2, FollowStays
  <2> QED
    BY <2>1, <2>3
<1>3. stack'[1].node = stack[1].node
  BY RootStays
<1> QED
  BY <1>1, <1>2, <1>3 DEF Trail

\* It goes on where the walk does, when the walk is at its end.
LEMMA TrailGrows ==
    ASSUME WalkTypeOK, Moves, facts' = facts, NEW t \in Seq(Configs), Trail(t),
           NEW c, NEW d \in Configs, t[Len(t)] = c, Follow(c, d)',
           d = Config' \/ t[1] = Config',
           d.w = Len(records')
    PROVE  Append(t, d) \in Seq(Configs) /\ Trail(Append(t, d))'
<1>1. /\ Len(t) \in Nat \ {0} /\ t[1] = At(<<Frame(stack[1].node)>>, "enter", Nil, 0)
      /\ \A j \in 1..(Len(t) - 1) : Follow(t[j], t[j + 1])
  BY TrailIs
<1>2. PICK s : s = Append(t, d)
  OBVIOUS
<1>3. /\ s \in Seq(Configs) /\ Len(s) = Len(t) + 1 /\ s[Len(t) + 1] = d /\ s # <<>>
      /\ \A j \in 1..Len(t) : s[j] = t[j]
  BY <1>2
<1>4. ASSUME NEW j \in 1..(Len(s) - 1)
      PROVE  Follow(s[j], s[j + 1])'
  <2>1. PICK a, b : a = s[j] /\ b = s[j + 1]
    OBVIOUS
  <2>2. CASE j = Len(t)
    <3>1. a = c /\ b = d
      BY <1>1, <1>3, <2>1, <2>2
    <3> QED
      BY <2>1, <3>1
  <2>3. CASE j # Len(t)
    <3>1. j \in 1..(Len(t) - 1) /\ j + 1 \in 1..Len(t)
      BY <1>1, <1>3, <2>3
    <3>2. a = t[j] /\ b = t[j + 1]
      BY <1>3, <2>1, <3>1
    <3>3. Follow(a, b)
      BY <1>1, <3>1, <3>2
    <3>4. Follow(a, b)'
      BY <3>3, FollowStays
    <3> QED
      BY <2>1, <3>4
  <2> QED
    BY <2>2, <2>3
<1>5. s[1] = At(<<Frame(stack'[1].node)>>, "enter", Nil, 0)
  <2>1. stack'[1].node = stack[1].node
    BY RootStays
  <2>2. s[1] = t[1]
    BY <1>1, <1>3
  <2> QED
    BY <1>1, <2>1, <2>2
<1>6. /\ s[Len(s)].w = Len(records') /\ s[Len(s)] = d /\ s[1] = t[1]
      /\ Len(s) \in 1..Len(s) /\ 1 \in 1..Len(s)
  BY <1>1, <1>3
<1>7. Trail(s)'
  BY <1>3, <1>4, <1>5, <1>6 DEF Trail
<1> QED
  BY <1>2, <1>3, <1>7

\* A call's configuration goes on with whatever it reads as the next record.
LEMMA CallConfig ==
    ASSUME WalkTypeOK, DispatchInv, place \in {"enter", "calling"}, IsCall(Top.node),
           place = "enter" => Dispatches
    PROVE  /\ Config.place = "enter" /\ AtCall(Config) /\ ~AtRung(Config)
           /\ \A read : Goes(Config, read)
                = At(stack, "return", Came(read, Len(walked) + 1), Len(walked) + 1)
<1>1. Config.place = "enter" /\ Config.stack = stack /\ Config.w = Len(walked)
  BY ConfigIs
<1>2. ~Refuses(Top.node) /\ ~Absents(Top.node)
  BY DEF DispatchInv, Dispatches, MayRun
<1>3. AtCall(Config) /\ ~AtRung(Config)
  BY <1>1, <1>2, ConfigIs DEF AtCall, AtRung
<1>4. Innermost(Config) = Top
  BY ConfigIs
<1>5. InnerKind(Config) \notin LadderKinds \cup {"route", "decide", "use"}
  BY <1>4 DEF InnerKind, IsCall, LadderKinds
<1>6. ASSUME NEW read
      PROVE  Goes(Config, read)
                = At(stack, "return", Came(read, Len(walked) + 1), Len(walked) + 1)
  <2>1. Goes(Config, read) = CallGoes(Config, read)
    BY <1>1, <1>5 DEF Goes, EnterGoes
  <2>2. CallGoes(Config, read)
           = At(stack, "return", Came(read, Len(walked) + 1), Len(walked) + 1)
    BY <1>1, <1>2, <1>4 DEF CallGoes
  <2> QED
    BY <2>1, <2>2
<1> QED
  BY <1>1, <1>3, <1>6

\* A call of the course's own records is walked over again in its turn.
LEMMA ReplayGoes ==
    ASSUME WalkTypeOK, ChainInv, RecordsInv, OrderInv, DispatchInv, ReplayCall, turns' = {},
           walked = [k \in 1..Len(walked) |-> k], NEW t \in Seq(Configs), Trail(t)
    PROVE  /\ walked' = Append(walked, Len(walked) + 1)
           /\ \E p \in 1..Len(t) : t[p] = Config'
<1>1. /\ place = "enter" /\ IsCall(Top.node) /\ Dispatches /\ Recorded # {}
      /\ stack' = stack
  BY DEF ReplayCall, Dispatches, MayRun
<1>2. Len(walked) \in Nat /\ Len(records) \in Nat /\ DOMAIN records = 1..Len(records)
  BY RecordsAre
<1>3. Min(Recorded) \in Recorded
  <2>1. Recorded \in SUBSET Nat
    BY <1>2 DEF Recorded
  <2> QED
    BY <1>1, <2>1, LeastIsOne
<1>4. PICK k : k = Min(Recorded)
  OBVIOUS
<1>5. k \in DOMAIN records /\ PathAt(k) = Path
  BY <1>3, <1>4 DEF Recorded, PathAt
<1>6. PICK p \in 1..Len(t) : t[p] = Config
  BY TrailIs
<1>7. /\ Len(t) \in Nat \ {0} /\ t[Len(t)].w = Len(records)
      /\ \A j \in 1..(Len(t) - 1) : Follow(t[j], t[j + 1])
  BY TrailIs
<1>8. p # Len(t)
  <2>1. SUFFICES ASSUME p = Len(t)
                 PROVE  FALSE
    OBVIOUS
  <2>2. Len(walked) = Len(records)
    BY <1>6, <1>7, <2>1, ConfigIs
  <2>3. k \in WalkedOver
    <3>1. k \in 1..Len(walked)
      BY <1>2, <1>5, <2>2
    <3>2. walked[k] = k /\ k \in DOMAIN walked
      BY <3>1, RecordsAre
    <3> QED
      BY <3>2 DEF WalkedOver
  <2>4. Left(PathAt(k), stack)
    BY <1>1, <2>3 DEF OrderInv, WalkEnded
  <2>5. PICK j \in 1..Len(stack) : LeftAt(Path, stack, j)
    BY <1>5, <2>4 DEF Left
  <2>6. Through(Path, stack, Len(stack)) /\ Path \in Paths /\ Len(stack) \in 1..Len(stack)
    BY OwnPath, StackIs
  <2>7. Len(stack) <= j
    BY <2>5, <2>6, LeftOnce
  <2>8. j = Len(stack)
    <3>1. \A n \in Nat : \A m \in 1..n : n <= m => m = n
      OBVIOUS
    <3>2. Len(stack) \in Nat
      BY StackIs
    <3> QED
      BY <2>7, <3>1, <3>2, Zenon
  <2> QED
    BY <1>1, <2>5, <2>8 DEF LeftAt, LadderKinds, IsCall, Top
<1>9. PICK w : w = Len(walked) + 1
  OBVIOUS
<1>10. /\ AtCall(Config) /\ ~AtRung(Config) /\ Config.w = Len(walked)
       /\ Config.stack = stack /\ Config.place = "enter"
       /\ \A read : Goes(Config, read) = At(stack, "return", Came(read, w), w)
  BY <1>1, <1>9, CallConfig, ConfigIs
<1>11. p \in 1..(Len(t) - 1) /\ Follow(Config, t[p + 1])
  BY <1>6, <1>7, <1>8
<1>12. w \in DOMAIN records /\ PathAt(w) = Path /\ t[p + 1] = Goes(Config, Read(Config))
  BY <1>9, <1>10, <1>11 DEF Follow, Path
<1>13. k = w
  BY <1>5, <1>12 DEF RecordsInv
<1>14. Read(Config) = records[w].reply
  BY <1>9, <1>10 DEF Read
<1>15. t[p + 1] = At(stack, "return", Came(records[w].reply, w), w)
  BY <1>10, <1>12, <1>14
<1>16. ret' = Came(records[w].reply, w) /\ place' = "return" /\ walked' = Append(walked, w)
  BY <1>4, <1>13 DEF ReplayCall, TurnsBy, HandUp
<1>17. Len(walked') = w
  <2>1. walked \in Seq(Nat) /\ w \in Nat
    BY <1>2, <1>9 DEF WalkTypeOK
  <2> QED
    BY <1>9, <1>16, <2>1
<1>18. Config' = At(stack, "return", Came(records[w].reply, w), w)
  BY <1>1, <1>16, <1>17 DEF Config
<1>19. p + 1 \in 1..Len(t)
  BY <1>7, <1>11
<1> QED
  BY <1>9, <1>15, <1>16, <1>18, <1>19

\* A call is journalled only at the end of the course, which goes on there.
LEMMA EndOfTrail ==
    ASSUME WalkTypeOK, DispatchInv, place \in {"enter", "calling"}, IsCall(Top.node),
           place = "enter" => Dispatches, Recorded = {}, NEW t \in Seq(Configs), Trail(t)
    PROVE  t[Len(t)] = Config /\ Len(walked) = Len(records)
<1>1. PICK p \in 1..Len(t) : t[p] = Config
  BY TrailIs
<1>2. /\ Len(t) \in Nat \ {0} /\ t[Len(t)].w = Len(records)
      /\ \A j \in 1..(Len(t) - 1) : Follow(t[j], t[j + 1])
  BY TrailIs
<1>3. AtCall(Config) /\ Config.w = Len(walked) /\ Config.stack = stack
  BY CallConfig, ConfigIs
<1>4. p = Len(t)
  <2>1. SUFFICES ASSUME p # Len(t)
                 PROVE  FALSE
    OBVIOUS
  <2>2. Follow(Config, t[p + 1])
    BY <1>1, <1>2, <2>1
  <2>3. Len(walked) + 1 \in DOMAIN records /\ PathAt(Len(walked) + 1) = Path
    BY <1>3, <2>2 DEF Follow, Path
  <2> QED
    BY <2>3 DEF Recorded, PathAt
<1> QED
  BY <1>1, <1>2, <1>3, <1>4

\* An entry put to the ledger by a call extends the trail, to where its reply leads.
LEMMA EntryGoes ==
    ASSUME WalkTypeOK, DispatchInv, place \in {"enter", "calling"}, IsCall(Top.node),
           place = "enter" => Dispatches, Recorded = {}, NEW t \in Seq(Configs), Trail(t),
           NEW reply, records' = Append(records, Entry(reply)), NEW w, w = Len(walked) + 1,
           NEW d, d = At(stack, "return", Came(reply, w), w)
    PROVE  /\ t[Len(t)] = Config /\ w = Len(records) + 1 /\ d.w = Len(records') /\ w \in Nat
           /\ \A c : c = Config => Follow(c, d)'
<1>1. t[Len(t)] = Config /\ Len(walked) = Len(records)
  BY EndOfTrail
<1>2. Len(walked) \in Nat /\ Len(records) \in Nat /\ DOMAIN records = 1..Len(records)
  BY RecordsAre
<1>3. PICK entry : entry = [path |-> Path, ask |-> Top.ask, reply |-> reply]
  OBVIOUS
<1>4. DOMAIN records' = 1..w /\ w \in DOMAIN records' /\ records'[w] = entry
      /\ Len(records') = w
  <2>1. records \in Seq(Entries \cup {entry}) /\ entry \in Entries \cup {entry}
    BY DEF WalkTypeOK
  <2>2. /\ Len(Append(records, entry)) = Len(records) + 1
        /\ Append(records, entry)[Len(records) + 1] = entry
        /\ DOMAIN Append(records, entry) = 1..(Len(records) + 1)
    BY <1>2, <2>1
  <2> QED
    BY <1>1, <1>2, <1>3, <2>2 DEF Entry
<1>5. /\ AtCall(Config) /\ ~AtRung(Config) /\ Config.w + 1 = w
      /\ Config.stack = stack /\ Config.place = "enter"
      /\ \A read : Goes(Config, read) = At(stack, "return", Came(read, w), w)
  BY CallConfig, ConfigIs
<1>6. ASSUME NEW c, c = Config
      PROVE  Follow(c, d)'
  <2>1. PICK path : path = Path
    OBVIOUS
  <2>2. /\ AtCall(c) /\ ~AtRung(c) /\ c.w + 1 = w /\ PathOf(c.stack) = path
        /\ c.place = "enter" /\ d = Goes(c, reply)
    BY <1>5, <1>6, <2>1 DEF Path
  <2>3. AtCall(c)' /\ ~AtRung(c)'
    BY <2>2 DEF AtCall, AtRung, IsCall, Refuses, Absents, Innermost, BelowKind, Below1
  <2>4. Read(c)' = reply
    BY <1>3, <1>4, <2>2, <2>3 DEF Read
  <2>5. (c.w + 1 \in DOMAIN records)' /\ PathAt(c.w + 1)' = PathOf(c.stack)
    BY <1>3, <1>4, <2>1, <2>2 DEF PathAt
  <2>6. d = Goes(c, Read(c))'
    BY <2>2, <2>4
  <2> QED
    BY <2>2, <2>3, <2>5, <2>6 DEF Follow
<1>7. d.w = Len(records')
  BY <1>4 DEF At
<1> QED
  BY <1>1, <1>2, <1>6, <1>7

\* A journalled call extends the trail by the configuration it goes on with.
LEMMA JournalGoes ==
    ASSUME WalkTypeOK, ChainInv, DispatchInv, Skip \/ ReturnCall,
           NEW t \in Seq(Configs), Trail(t)
    PROVE  /\ t[Len(t)] = Config /\ walked' = Append(walked, Len(walked) + 1)
           /\ Config'.w = Len(records')
           /\ \A c, d : c = Config /\ d = Config' => Follow(c, d)'
<1>1. /\ place \in {"enter", "calling"} /\ IsCall(Top.node) /\ Recorded = {} /\ stack' = stack
      /\ place = "enter" => Dispatches
  <2>1. CASE Skip
    BY <2>1 DEF Skip, Dispatches, MayRun
  <2>2. CASE ReturnCall
    BY <2>2 DEF ReturnCall, ChainInv
  <2> QED
    BY <2>1, <2>2
<1>2. PICK reply : Settles(reply)
  <2>1. CASE Skip
    BY <2>1 DEF Skip
  <2>2. CASE ReturnCall
    BY <2>2 DEF ReturnCall
  <2> QED
    BY <2>1, <2>2
<1>3. PICK w : w = Len(walked) + 1
  OBVIOUS
<1>4. PICK d : d = At(stack, "return", Came(reply, w), w)
  OBVIOUS
<1>5. records' = Append(records, Entry(reply))
  BY <1>2 DEF Settles
<1>6. /\ t[Len(t)] = Config /\ w = Len(records) + 1 /\ d.w = Len(records') /\ w \in Nat
      /\ \A c : c = Config => Follow(c, d)'
  BY <1>1, <1>3, <1>4, <1>5, EntryGoes
<1>7. walked' = Append(walked, w) /\ place' = "return" /\ ret' = Came(reply, w)
  BY <1>2, <1>6 DEF Settles, HandUp
<1>8. Len(walked') = w
  <2>1. walked \in Seq(Nat)
    <3>1. DOMAIN records \subseteq Nat
      BY RecordsAre
    <3> QED
      BY <3>1 DEF WalkTypeOK
  <2> QED
    BY <1>3, <1>6, <1>7, <2>1
<1>9. Config' = d
  BY <1>1, <1>4, <1>7, <1>8 DEF Config
<1>10. walked' = Append(walked, Len(walked) + 1)
  BY <1>3, <1>7
<1> QED
  BY <1>6, <1>9, <1>10

\* A call that is interrupted extends the trail by where its record will lead.
LEMMA InterruptGoes ==
    ASSUME WalkTypeOK, ChainInv, DispatchInv, InterruptCall, NEW t \in Seq(Configs), Trail(t)
    PROVE  \E d \in Configs : /\ d.w = Len(records')
                               /\ \A c : c = t[Len(t)] => Follow(c, d)'
<1> DEFINE reply == [Replied EXCEPT !.kind = "skip"]
<1>1. /\ place = "calling" /\ IsCall(Top.node) /\ Recorded = {}
      /\ records' = Append(records, Entry(reply))
  BY DEF InterruptCall, ChainInv
<1>2. reply \in Reply
  BY RepliedIs DEF Reply, Replied
<1> HIDE DEF reply
<1>3. PICK w : w = Len(walked) + 1
  OBVIOUS
<1>4. PICK d : d = At(stack, "return", Came(reply, w), w)
  OBVIOUS
<1>5. /\ t[Len(t)] = Config /\ d.w = Len(records') /\ w \in Nat
      /\ \A c : c = Config => Follow(c, d)'
  BY <1>1, <1>3, <1>4, EntryGoes
<1>6. Came(reply, w) \in Outcome
  BY <1>2, <1>5, CameIs, ReplyIs
<1>7. d \in Configs
  BY <1>4, <1>5, <1>6 DEF Configs, At, WalkTypeOK
<1> QED
  BY <1>5, <1>7

\* A step that no deadline and no decider turns.
LEMMA TurnsStay ==
    ASSUME WalkNext, turns' = {}, WalkTypeOK
    PROVE  turns = {} /\ facts' = facts
<1>1. CASE EnterSteps \/ EvalRoute \/ EvalDecide \/ EvalReference \/ RefuseCall \/ Unknown
           \/ ReplayCall \/ Skip \/ SubmitCall \/ ReturnCall
  BY <1>1 DEF EnterSteps, EvalRoute, EvalDecide, EvalReference, RefuseCall, Unknown,
              ReplayCall, Skip, SubmitCall, ReturnCall, TurnsBy
<1>2. CASE PassUp \/ FinishWalk \/ NextStep \/ StepSkipped \/ StepFailed \/ StepReviewed
           \/ StepAnswered \/ NextRung
  BY <1>2 DEF PassUp, FinishWalk, NextStep, StepSkipped, StepFailed, StepReviewed,
              StepAnswered, NextRung, TurnsBy
<1>3. CASE RungAnswered \/ RungFailed \/ TimePasses \/ ResumeWalk \/ InterruptCall
  BY <1>3 DEF RungAnswered, RungFailed, TimePasses, ResumeWalk, InterruptCall, Restarts
<1> QED
  BY <1>1, <1>2, <1>3 DEF WalkNext

\* Between calls, and between a death and a call, a walk follows the course.
LEMMA FollowsOrStays ==
    ASSUME WalkTypeOK, ChainInv, CameInv, WalkNext, turns' = {},
           ~(ReplayCall \/ Skip \/ ReturnCall \/ ResumeWalk \/ InterruptCall)
    PROVE  /\ records' = records /\ walked' = walked
           /\ Config' = Config \/ Follow(Config, Config')
<1>1. CASE EnterSteps \/ EvalRoute \/ EvalDecide \/ EvalReference \/ RefuseCall \/ Unknown
  <2>1. records' = records /\ walked' = walked
    BY <1>1 DEF EnterSteps, EvalRoute, EvalDecide, EvalReference, RefuseCall, Unknown
  <2> QED
    BY <1>1, <2>1, EnterFollows, ReferenceFollows, RefusalFollows
<1>2. CASE PassUp \/ FinishWalk \/ NextStep \/ StepSkipped \/ StepFailed \/ StepReviewed
           \/ StepAnswered \/ NextRung
  <2>1. records' = records /\ walked' = walked
    BY <1>2 DEF PassUp, FinishWalk, NextStep, StepSkipped, StepFailed, StepReviewed,
                StepAnswered, NextRung
  <2> QED
    BY <1>2, <2>1, PassingFollows, StepFollows, CascadeFollows
<1>3. CASE RungAnswered \/ RungFailed
  <2>1. records' = records /\ walked' = walked
    BY <1>3 DEF RungAnswered, RungFailed
  <2> QED
    BY <1>3, <2>1, PagedFollows
<1>4. CASE TimePasses
  BY <1>4 DEF TimePasses, Config
<1>5. CASE SubmitCall
  BY <1>5 DEF SubmitCall, Dispatches, MayRun, Config
<1> QED
  BY <1>1, <1>2, <1>3, <1>4, <1>5 DEF WalkNext

\* A step that does not turn keeps a trail for the walk.
LEMMA TrailStep ==
    ASSUME WalkTypeOK, WalkTypeOK', ChainInv, CameInv, RecordsInv, OrderInv, DispatchInv,
           TrailInv, RetraceInv, WalkNext, turns' = {}
    PROVE  /\ \E t \in Seq(Configs) : Trail(t)'
           /\ walked' = [k \in 1..Len(walked') |-> k]
<1>1. turns = {} /\ facts' = facts
  BY TurnsStay
<1>2. Moves
  BY StepsMove DEF walkVars
<1>3. PICK t \in Seq(Configs) : Trail(t)
  BY <1>1 DEF TrailInv
<1>4. walked = [k \in 1..Len(walked) |-> k]
  BY <1>1 DEF RetraceInv
<1>5. Config' \in Configs
  <2>1. Len(walked') \in Nat
    BY DEF WalkTypeOK
  <2>2. stack' \in Seq(Evaluations) /\ ret' \in Outcome \cup {Nil}
    BY DEF WalkTypeOK
  <2>3. (IF place' = "calling" THEN "enter" ELSE place')
          \in {"enter", "step", "return", "done", "refused", "cycle"}
    BY DEF WalkTypeOK
  <2>4. Config' = [stack |-> stack', place |-> IF place' = "calling" THEN "enter" ELSE place',
                   ret |-> ret', w |-> Len(walked')]
    BY DEF Config, At
  <2> QED
    BY <2>1, <2>2, <2>3, <2>4, Zenon DEF Configs
<1>6. Len(walked) \in Nat /\ walked \in Seq(Nat)
  <2>1. walked \in Seq(Nat)
    <3>1. walked \in Seq(DOMAIN records)
      BY Zenon DEF WalkTypeOK
    <3>2. DOMAIN records \subseteq Nat
      BY RecordsAre
    <3> QED
      BY <3>1, <3>2
  <2> QED
    BY <2>1, LenProperties, Zenon
<1>7. ASSUME walked' = Append(walked, Len(walked) + 1)
      PROVE  walked' = [k \in 1..Len(walked') |-> k]
  BY <1>4, <1>6, <1>7
<1>8. PICK p \in 1..Len(t) : t[p] = Config
  BY <1>3, TrailIs
<1>9. /\ Len(t) \in Nat \ {0} /\ t[Len(t)].w = Len(records)
      /\ t[1] = At(<<Frame(stack[1].node)>>, "enter", Nil, 0)
      /\ \A j \in 1..(Len(t) - 1) : Follow(t[j], t[j + 1])
  BY <1>3, TrailIs
<1>10. CASE ReplayCall
  <2>1. /\ walked' = Append(walked, Len(walked) + 1)
        /\ \E q \in 1..Len(t) : t[q] = Config'
    BY <1>3, <1>4, <1>10, ReplayGoes
  <2>2. records' = records
    BY <1>10 DEF ReplayCall
  <2> QED
    BY <1>1, <1>2, <1>3, <1>7, <2>1, <2>2, TrailStays
<1>11. CASE Skip \/ ReturnCall
  <2>1. /\ t[Len(t)] = Config /\ walked' = Append(walked, Len(walked) + 1)
        /\ Config'.w = Len(records')
        /\ \A c, d : c = Config /\ d = Config' => Follow(c, d)'
    BY <1>3, <1>11, JournalGoes
  <2>2. PICK c, d : c = Config /\ d = Config'
    OBVIOUS
  <2>3. Follow(c, d)'
    BY <2>1, <2>2
  <2>4. /\ d \in Configs /\ t[Len(t)] = c /\ d = Config' /\ d.w = Len(records')
    BY <1>5, <2>1, <2>2
  <2>5. Append(t, d) \in Seq(Configs) /\ Trail(Append(t, d))'
    BY <1>1, <1>2, <1>3, <2>3, <2>4, TrailGrows
  <2> QED
    BY <1>7, <2>1, <2>5
<1>12. CASE ResumeWalk \/ InterruptCall
  <2>1. /\ walked' = <<>> /\ place' = "enter" /\ ret' = Nil
        /\ stack' = <<Frame(stack[1].node)>>
    BY <1>12 DEF ResumeWalk, InterruptCall, Restarts
  <2>2. Len(walked') = 0
    BY <2>1
  <2>3. Config' = At(<<Frame(stack[1].node)>>, "enter", Nil, 0)
    BY <2>1, <2>2 DEF Config
  <2>4. 1 \in 1..Len(t) /\ t[1] = Config'
    BY <1>9, <2>3
  <2>5. CASE ResumeWalk
    <3>1. records' = records
      BY <2>5 DEF ResumeWalk
    <3>2. Trail(t)'
      BY <1>1, <1>2, <1>3, <2>4, <3>1, TrailStays
    <3> QED
      BY <2>1, <2>2, <3>2
  <2>6. CASE InterruptCall
    <3>1. PICK d \in Configs : /\ d.w = Len(records')
                               /\ \A c : c = t[Len(t)] => Follow(c, d)'
      BY <1>3, <2>6, InterruptGoes
    <3>2. PICK c : c = t[Len(t)]
      OBVIOUS
    <3>3. Follow(c, d)'
      BY <3>1, <3>2
    <3>5. /\ d \in Configs /\ t[Len(t)] = c /\ d.w = Len(records')
          /\ d = Config' \/ t[1] = Config'
      BY <2>4, <3>1, <3>2
    <3>4. Append(t, d) \in Seq(Configs) /\ Trail(Append(t, d))'
      BY <1>1, <1>2, <1>3, <3>3, <3>5, TrailGrows
    <3>6. walked' = [k \in 1..Len(walked') |-> k]
      BY <2>1, <2>2
    <3> QED
      BY <3>4, <3>6
  <2> QED
    BY <1>12, <2>5, <2>6
<1>13. CASE ~(ReplayCall \/ Skip \/ ReturnCall \/ ResumeWalk \/ InterruptCall)
  <2>1. /\ records' = records /\ walked' = walked
        /\ Config' = Config \/ Follow(Config, Config')
    BY <1>13, FollowsOrStays
  <2>2. CASE \E q \in 1..Len(t) : t[q] = Config'
    BY <1>1, <1>2, <1>3, <1>4, <2>1, <2>2, TrailStays
  <2>3. CASE ~\E q \in 1..Len(t) : t[q] = Config'
    <3>1. Follow(Config, Config')
      BY <1>8, <2>1, <2>3
    <3>2. p = Len(t)
      <4>1. SUFFICES ASSUME p # Len(t)
                     PROVE  FALSE
        OBVIOUS
      <4>2. p \in 1..(Len(t) - 1) /\ p + 1 \in 1..Len(t)
        BY <1>8, <1>9, <4>1
      <4>3. Follow(Config, t[p + 1])
        BY <1>8, <1>9, <4>2
      <4>4. t[p + 1] = Config'
        BY <3>1, <4>3 DEF Follow
      <4> QED
        BY <2>3, <4>2, <4>4
    <3>3. PICK c, d : c = Config /\ d = Config'
      OBVIOUS
    <3>4. Follow(c, d)
      BY <3>1, <3>3
    <3>5. Follow(c, d)'
      BY <1>1, <1>2, <3>4, FollowStays
    <3>6. d.w = Len(records')
      <4>1. Config.w = Len(walked) /\ Config'.w = Len(walked')
        BY DEF Config, At
      <4>2. Config.w = Len(records)
        BY <1>8, <1>9, <3>2
      <4> QED
        BY <2>1, <3>3, <4>1, <4>2
    <3>7. d \in Configs /\ t[Len(t)] = c /\ d = Config'
      BY <1>5, <1>8, <3>2, <3>3
    <3>8. Append(t, d) \in Seq(Configs) /\ Trail(Append(t, d))'
      BY <1>1, <1>2, <1>3, <3>5, <3>6, <3>7, TrailGrows
    <3> QED
      BY <1>4, <2>1, <3>8
  <2> QED
    BY <2>2, <2>3
<1> QED
  BY <1>10, <1>11, <1>12, <1>13
CourseInv == DispatchInv /\ TrailInv /\ RetraceInv

\* A walk that begins is on the course its records tell.
LEMMA CourseStarts ==
    ASSUME WalkInit, WalkTypeOK
    PROVE  CourseInv
<1>1. PICK n \in Starts : stack = <<Frame(n)>>
  BY DEF WalkInit
<1>2. /\ place = "enter" /\ ret = Nil /\ records = <<>> /\ walked = <<>>
  BY DEF WalkInit
<1>3. Frame(stack[1].node) = Frame(n)
  BY <1>1 DEF Frame
<1>4. Config = At(<<Frame(stack[1].node)>>, "enter", Nil, 0)
  BY <1>1, <1>2, <1>3 DEF Config
<1>5. Config \in Configs
  BY ConfigIs
<1>6. PICK t : t = <<Config>>
  OBVIOUS
<1>7. t \in Seq(Configs) /\ t # <<>> /\ Len(t) = 1 /\ t[1] = Config /\ 1..(Len(t) - 1) = {}
  BY <1>5, <1>6
<1>8. t[Len(t)].w = Len(records)
  BY <1>2, <1>4, <1>7 DEF At
<1>9. Trail(t)
  <2>1. \E p \in 1..Len(t) : t[p] = Config
    BY <1>7
  <2>2. \A j \in 1..(Len(t) - 1) : Follow(t[j], t[j + 1])
    BY <1>7
  <2> QED
    BY <1>4, <1>7, <1>8, <2>1, <2>2 DEF Trail
<1>10. walked = [k \in 1..Len(walked) |-> k]
  BY <1>2
<1> QED
  BY <1>2, <1>7, <1>9, <1>10 DEF CourseInv, DispatchInv, TrailInv, RetraceInv

\* Every step keeps the walk on the course its records tell, until it turns.
LEMMA CourseStep ==
    ASSUME AnswersInv, WalkTypeOK', CourseInv, [WalkNext]_walkVars
    PROVE  CourseInv'
<1>1. WalkTypeOK /\ ChainInv /\ CameInv /\ RecordsInv /\ OrderInv
  BY DEF AnswersInv
<1>2. DispatchInv /\ TrailInv /\ RetraceInv
  BY DEF CourseInv
<1>3. DispatchInv'
  BY <1>1, <1>2, DispatchStep
<1>4. CASE WalkNext
  <2>1. turns' = {} => /\ \E t \in Seq(Configs) : Trail(t)'
                       /\ walked' = [k \in 1..Len(walked') |-> k]
    BY <1>1, <1>2, <1>4, TrailStep
  <2> QED
    BY <1>3, <2>1 DEF CourseInv, TrailInv, RetraceInv
<1>5. CASE UNCHANGED walkVars
  <2>1. /\ UNCHANGED <<stack, place, ret, records, walked, facts, turns>>
    BY <1>5 DEF walkVars
  <2>2. Moves
    BY <1>1, <1>5, StepsMove
  <2>3. Config' = Config
    BY <2>1 DEF Config
  <2>4. ASSUME NEW t \in Seq(Configs), Trail(t)
        PROVE  Trail(t)'
    <3>1. \E p \in 1..Len(t) : t[p] = Config'
      BY <1>1, <2>3, <2>4, TrailIs
    <3> QED
      BY <1>1, <2>1, <2>2, <2>4, <3>1, TrailStays
  <2>5. TrailInv'
    BY <1>2, <2>1, <2>4 DEF TrailInv
  <2>6. RetraceInv'
    BY <1>2, <2>1 DEF RetraceInv
  <2> QED
    BY <1>3, <2>5, <2>6 DEF CourseInv
<1> QED
  BY <1>4, <1>5

\* A walk on the course its records tell retraces them when it is resumed.
LEMMA CourseRetraces ==
    ASSUME WalkTypeOK, ChainInv, CourseInv
    PROVE  ResumeRetraces
<1>1. SUFFICES ASSUME turns = {}, place \in {"calling", "done"}
               PROVE  walked = [k \in DOMAIN records |-> k]
  BY DEF ResumeRetraces, Retraces
<1>2. PICK t \in Seq(Configs) : Trail(t)
  BY <1>1 DEF CourseInv, TrailInv
<1>3. walked = [k \in 1..Len(walked) |-> k] /\ DispatchInv
  BY <1>1 DEF CourseInv, RetraceInv
<1>4. DOMAIN records = 1..Len(records)
  BY RecordsAre
<1>5. CASE place = "calling"
  <2>1. IsCall(Top.node) /\ Recorded = {}
    BY <1>5 DEF ChainInv
  <2>2. Len(walked) = Len(records)
    BY <1>2, <1>3, <1>5, <2>1, EndOfTrail
  <2> QED
    BY <1>3, <1>4, <2>2
<1>6. CASE place = "done"
  <2>1. PICK p \in 1..Len(t) : t[p] = Config
    BY <1>2, TrailIs
  <2>2. /\ Len(t) \in Nat \ {0} /\ t[Len(t)].w = Len(records)
        /\ \A j \in 1..(Len(t) - 1) : Follow(t[j], t[j + 1])
    BY <1>2, TrailIs
  <2>3. Config.place = "done" /\ Config.w = Len(walked)
    BY <1>6, ConfigIs
  <2>4. p = Len(t)
    <3>1. SUFFICES ASSUME p # Len(t)
                   PROVE  FALSE
      OBVIOUS
    <3>2. Follow(Config, t[p + 1])
      BY <2>1, <2>2, <3>1
    <3> QED
      BY <2>3, <3>2 DEF Follow
  <2>5. Len(walked) = Len(records)
    BY <2>1, <2>2, <2>3, <2>4
  <2> QED
    BY <1>3, <1>4, <2>5
<1> QED
  BY <1>1, <1>5, <1>6

\* A run that no deadline and no decider turned from its course, and whose failures
\* have the class, once replayed, that they had, goes through everything its ledger
\* holds, in the order it was journalled and once each, before a resumed process calls
\* anything new or ends: a walk is a function of what it reads (_eval_node and
\* RecordedExecutor), however often the process dies and wherever it does.
THEOREM WalkRetraces == WalkSpec => []ResumeRetraces
<1>1. WalkInit => WalkTypeOK /\ CourseInv
  BY AnswersInit, CourseStarts DEF AnswersInv
<1>2. AnswersInv /\ AnswersInv' /\ CourseInv /\ [WalkNext]_walkVars => CourseInv'
  BY CourseStep DEF AnswersInv
<1>3. AnswersInv /\ CourseInv => ResumeRetraces
  BY CourseRetraces DEF AnswersInv
<1> QED
  BY <1>1, <1>2, <1>3, AnswersHold, PTL DEF WalkSpec
=============================================================================
