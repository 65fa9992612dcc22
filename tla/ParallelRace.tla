---------------------------- MODULE ParallelRace ----------------------------
(***************************************************************************)
(* A `parallel:` node with `pick: fastest` in production: on the real      *)
(* clock, run by a process that may die and be resumed from its ledger     *)
(* (strategies/engine.py, _eval_parallel and what it calls).               *)
(*                                                                         *)
(* Branches are tasks of one event loop.  A leaf branch calls its backend  *)
(* in a thread and is counted as in flight; a composite branch is a        *)
(* cascade of rungs and is not counted; a hedge sleeps before it starts.   *)
(* The race is judged only while no leaf is in flight.  What StepLedger    *)
(* shows of exec is taken here as one step: an outcome is journalled when  *)
(* it is known, and a recorded one is replayed.                            *)
(***************************************************************************)
EXTENDS Naturals, FiniteSets

CONSTANTS
    Races,          \* the parallel nodes a run may be about
    Depth,          \* steps of a cascade
    MaxStarts,      \* bound: the first process and the resumes
    Nothing         \* no branch, no record, no number

Records == [status : {"ok", "failed", "cancelled"}, seq : Nat]

RaceAssumption ==
    /\ Depth \in Nat \ {0} /\ MaxStarts \in Nat
    /\ \A r \in Races :
         /\ r.n \in Nat
         /\ r.hedged \cup r.shadows \cup r.composite \subseteq 1..r.n
         /\ r.hedged \cap r.composite = {}
         /\ r.onWin \in {"cancel", "drain"} /\ r.ledger \in {"armed", "unarmed"}
    /\ Nothing \notin Nat /\ Nothing \notin Records

ASSUME Raceable == RaceAssumption

VARIABLES
    race,           \* the node this run is about
    starts,         \* processes that entered the node so far
    node,           \* where _eval_parallel is in the present one
    task,           \* the task of each branch: how it stands or ended
    rung,           \* the step a branch is at (a leaf has one)
    seq,            \* journal_seq of its result
    job,            \* its backend job: submitted, running, over
    asked,          \* branches whose backend was asked to cancel
    winner,         \* the branch _drive_race returned
    journal,        \* the outcome on record of each step
    nextSeq,        \* the next number the journal gives
    chosen,         \* the winner of the first process that left the node
    repeated        \* branches that dispatched after that

raceVars == <<race, starts, node, task, rung, seq, job, asked, winner, journal, nextSeq,
              chosen, repeated>>

Branches == 1..race.n           \* numbered as listed
Hedged == race.hedged           \* leaves with a start_after; a cascade's is not read
Shadows == race.shadows         \* shadow: true
Composite == race.composite     \* cascades
Leaves == Branches \ Composite
Racers == Branches \ Shadows

LastRung(i) == IF i \in Composite THEN Depth ELSE 1

Ended == {"ok", "error", "cancelled", "pruned"}

RaceTypeOK ==
    /\ race \in Races /\ starts \in 0..MaxStarts
    /\ node \in {"off", "racing", "draining", "resolved"}
    /\ task \in [Branches -> {"parked", "running"} \cup Ended]
    /\ rung \in [Branches -> 1..Depth]
    /\ seq \in [Branches -> Nat \cup {Nothing}]
    /\ job \in [Branches -> {"none", "live", "over"}]
    /\ asked \subseteq Branches
    /\ {winner, chosen} \subseteq Branches \cup {Nothing}
    /\ journal \in [Branches -> [1..Depth -> Records \cup {Nothing}]]
    /\ nextSeq \in Nat
    /\ repeated \subseteq Branches

RaceInit ==
    /\ race \in Races /\ starts = 0 /\ node = "off"
    /\ task = [i \in Branches |-> "parked"]
    /\ rung = [i \in Branches |-> 1]
    /\ seq = [i \in Branches |-> Nothing]
    /\ job = [i \in Branches |-> "none"]
    /\ asked = {} /\ winner = Nothing
    /\ journal = [i \in Branches |-> [r \in 1..Depth |-> Nothing]]
    /\ nextSeq = 0
    /\ chosen = Nothing /\ repeated = {}

-----------------------------------------------------------------------------
(* Branches                                                                *)

Successes == {i \in Racers : task[i] = "ok"}

\* Leaves count from dispatch to return, whatever exec does.
Busy == {i \in Leaves : task[i] = "running"}

\* Where a branch gets by replay alone: past every step that is on record and
\* not ok.  A cancelled leaf is a skip to the cascade around it.
Reached(i) ==
    LET passed == {r \in 1..LastRung(i) : \A q \in 1..r :
                     journal[i][q] # Nothing /\ journal[i][q].status # "ok"}
    IN Cardinality(passed) + 1

\* How a branch stands after its first turn of the event loop.
Standing(i) ==
    IF Reached(i) > LastRung(i)
    THEN IF i \in Leaves /\ journal[i][1].status = "cancelled"
         THEN "cancelled" ELSE "error"
    ELSE IF journal[i][Reached(i)] = Nothing THEN "running" ELSE "ok"

\* The number a replayed record hands on; a composite has none.
ReplayedSeqDropped(i) == Nothing                                 \* mutant
ReplayedSeq(i) ==
    IF i \in Leaves /\ journal[i][1] # Nothing THEN journal[i][1].seq ELSE Nothing

StandingRung(i) == IF Reached(i) > LastRung(i) THEN LastRung(i) ELSE Reached(i)

\* Branches is start their first turn: they replay, or dispatch.
Launch(is) ==
    /\ rung' = [i \in Branches |-> IF i \in is THEN StandingRung(i) ELSE rung[i]]
    /\ seq' = [i \in Branches |-> IF i \in is THEN ReplayedSeq(i) ELSE seq[i]]
    /\ repeated' = repeated \cup
         {i \in is : chosen # Nothing /\ Standing(i) = "running"}

\* Whether an outcome gets a terminal record: each does, once a ledger is armed.
Armed == race.ledger = "armed"

Journal(i, status) ==
    IF Armed
    THEN /\ journal' = [journal EXCEPT ![i][rung[i]] =
                          [status |-> status, seq |-> nextSeq]]
         /\ nextSeq' = nextSeq + 1
    ELSE UNCHANGED <<journal, nextSeq>>

Alive == node \in {"racing", "draining"}

\* The hedge's delay is over; exec comes after it, and with it the replay.
Wake(i) ==
    /\ Alive /\ i \in Hedged /\ task[i] = "parked"
    /\ task' = [task EXCEPT ![i] = Standing(i)]
    /\ Launch({i})
    /\ UNCHANGED <<race, starts, node, job, asked, winner, journal, nextSeq, chosen>>

\* The backend accepts the job and the thread says so.
Submit(i) ==
    /\ Alive /\ task[i] = "running" /\ job[i] = "none"
    /\ job' = [job EXCEPT ![i] = "live"]
    /\ UNCHANGED <<race, starts, node, task, rung, seq, asked, winner, journal, nextSeq,
                   chosen, repeated>>

Succeed(i) ==
    /\ Alive /\ task[i] = "running"
    /\ Journal(i, "ok")
    /\ task' = [task EXCEPT ![i] = "ok"]
    /\ seq' = [seq EXCEPT ![i] =
                 IF i \in Leaves /\ Armed THEN nextSeq ELSE Nothing]
    /\ job' = [job EXCEPT ![i] = "over"]
    /\ UNCHANGED <<race, starts, node, rung, asked, winner, chosen, repeated>>

\* A call raises.  A fault while polling leaves the accepted job running.  A
\* cascade goes on to its next rung.
Fail(i) ==
    /\ Alive /\ task[i] = "running"
    /\ Journal(i, "failed")
    /\ IF rung[i] < LastRung(i)
       THEN /\ rung' = [rung EXCEPT ![i] = @ + 1]
            /\ job' = [job EXCEPT ![i] = "none"]
            /\ repeated' = repeated \cup {k \in {i} : chosen # Nothing}
            /\ UNCHANGED task
       ELSE /\ task' = [task EXCEPT ![i] = "error"]
            /\ job' \in {job, [job EXCEPT ![i] = "over"]}
            /\ UNCHANGED <<rung, repeated>>
    /\ UNCHANGED <<race, starts, node, seq, asked, winner, chosen>>

-----------------------------------------------------------------------------
(* The node                                                                *)

\* All branches are created and have their first turn before the race is
\* judged.  A hedge that would start past the deadline is pruned; a resume,
\* whose walk replays up to this node, gets here with more time left.
PrunedNow(i) == starts = 0 \/ task[i] = "pruned"

Open ==
    /\ node = "off" /\ starts < MaxStarts
    /\ starts' = starts + 1
    /\ node' = "racing"
    /\ \E pruned \in SUBSET {i \in Hedged : PrunedNow(i)} :
         task' = [i \in Branches |-> IF i \in pruned THEN "pruned"
                                     ELSE IF i \in Hedged THEN "parked"
                                     ELSE Standing(i)]
    /\ LET is == Branches \ Hedged
       IN /\ rung' = [i \in Branches |-> IF i \in is THEN StandingRung(i) ELSE 1]
          /\ seq' = [i \in Branches |-> IF i \in is THEN ReplayedSeq(i) ELSE Nothing]
          /\ repeated' = repeated \cup
               {i \in is : chosen # Nothing /\ Standing(i) = "running"}
    /\ job' = [i \in Branches |-> "none"]
    /\ asked' = {} /\ winner' = Nothing
    /\ UNCHANGED <<race, journal, nextSeq, chosen>>

\* Numbers in journal order, then composites, then listed order.
PrecedesListed(i, j) == i < j                                 \* mutant
Precedes(i, j) ==
    \/ seq[i] # Nothing /\ seq[j] = Nothing
    \/ seq[i] # Nothing /\ seq[j] # Nothing /\ seq[i] < seq[j]
    \/ seq[i] = seq[j] /\ i < j

\* Losers whose tasks are cancelled, and those whose backend is asked to stop:
\* every loser that published a job, done or not.  Composites publish none.
Losers(w) == IF race.onWin = "cancel" THEN Racers \ {w} ELSE {}
Unfinished(i) == task[i] \in {"parked", "running"}

AskedPending(w) == {i \in Losers(w) \cap Leaves : job[i] = "live" /\ Unfinished(i)}  \* mutant
Asked(w) == {i \in Losers(w) \cap Leaves : job[i] = "live"}

\* The winner is in hand; a loser that was in the middle of a call journals
\* that it was cancelled.
Settle(w) ==
    /\ node' = "draining"
    /\ winner' = w
    /\ asked' = asked \cup Asked(w)
    /\ task' = [i \in Branches |->
                  IF i \in Losers(w) /\ Unfinished(i) THEN "cancelled" ELSE task[i]]
    /\ LET cut == {i \in Losers(w) : task[i] = "running"}
       IN IF Armed
          THEN /\ journal' = [i \in Branches |->
                    IF i \in cut
                    THEN [journal[i] EXCEPT ![rung[i]] =
                            [status |-> "cancelled", seq |-> nextSeq]]
                    ELSE journal[i]]
               /\ nextSeq' = nextSeq + Cardinality(cut)
          ELSE UNCHANGED <<journal, nextSeq>>

\* One turn of _drive_race with no leaf in flight and a success.
Judge ==
    /\ node = "racing" /\ Busy = {}
    /\ \E w \in Successes :
         /\ \A i \in Successes \ {w} : Precedes(w, i)
         /\ Settle(w)
    /\ UNCHANGED <<race, starts, rung, seq, job, chosen, repeated>>

\* Every task has ended and the race was not judged.
NoWinner ==
    /\ node = "racing" /\ \A i \in Branches : task[i] \in Ended
    /\ Busy = {} => Successes = {}
    /\ Settle(Nothing)
    /\ UNCHANGED <<race, starts, rung, seq, job, chosen, repeated>>

\* The drain waits for every task, shadows included, and the walk goes on.
Resolve ==
    /\ node = "draining" /\ \A i \in Branches : task[i] \in Ended
    /\ node' = "resolved"
    /\ chosen' = IF chosen = Nothing THEN winner ELSE chosen
    /\ UNCHANGED <<race, starts, task, rung, seq, job, asked, winner, journal, nextSeq,
                   repeated>>

\* The process dies, here or later in its walk, and may be resumed.
ProcessDies ==
    /\ node # "off" /\ Armed /\ starts < MaxStarts
    /\ node' = "off"
    /\ UNCHANGED <<race, starts, task, rung, seq, job, asked, winner, journal, nextSeq,
                   chosen, repeated>>

RaceNext ==
    \/ Open \/ Judge \/ NoWinner \/ Resolve \/ ProcessDies
    \/ \E i \in Branches : Wake(i) \/ Submit(i) \/ Succeed(i) \/ Fail(i)

RaceSpec == RaceInit /\ [][RaceNext]_raceVars

\* The event loop takes every turn it can; how long a backend works is its affair.
RaceFairSpec ==
    /\ RaceSpec
    /\ WF_raceVars(Open) /\ WF_raceVars(Judge \/ NoWinner) /\ WF_raceVars(Resolve)
    /\ \A i \in UNION {1..r.n : r \in Races} : WF_raceVars(Wake(i))

-----------------------------------------------------------------------------
(* What the race promises                                                  *)

\* With a ledger, the winner is the leaf whose success was journalled first, in
\* whichever process of the run (engine.py 1349-1370).
WinnerIsEarliest ==
    node = "resolved" /\ winner \in Leaves =>
        \A i \in (Racers \cap Leaves) \ {winner} :
            journal[i][1] # Nothing /\ journal[i][1].status = "ok"
                => journal[winner][1].seq < journal[i][1].seq

\* A success in hand is never lost: the node comes out empty only if no racer
\* succeeded (engine.py 1341-1373).
SuccessIsNotLost ==
    node \in {"draining", "resolved"} /\ winner = Nothing => Successes = {}

\* A resume takes the branch the walk took before, as later steps were built on its
\* response (engine.py 305-309); and once a process has left the node, no later one
\* calls a backend in it (api.py 987-989).
ResumeAgrees ==
    /\ node = "resolved" /\ chosen # Nothing => winner = chosen
    /\ repeated = {}

\* The losers are stopped, and nobody else.  A loser's backend is asked to stop
\* whenever its job may still be running when the race is decided, even if the branch
\* itself has ended in a fault (engine.py 1164-1178); the winner's never is, and a
\* shadow runs to its end whoever wins (engine.py 1166-1167, 1416-1429).
LosersAreStopped ==
    node \in {"draining", "resolved"} =>
        /\ race.onWin = "cancel" =>
             \A i \in (Racers \cap Leaves) \ {winner} : job[i] = "live" => i \in asked
        /\ winner \notin asked
        /\ \A i \in Shadows : i \notin asked /\ task[i] # "cancelled"

\* A race of leaves is won by the earliest journalled; a hedge may be overtaken when
\* a run is resumed, and so may a cascade, which has no number.  But no race loses a
\* success it has, or leaves a loser that was neither asked to stop nor heard.
RaceIsWon ==
    /\ SuccessIsNotLost /\ LosersAreStopped
    /\ Hedged = {} => WinnerIsEarliest
    /\ Hedged = {} /\ Composite = {} => ResumeAgrees

-----------------------------------------------------------------------------
(* What the documents say and the code does not do                         *)

\* "the first success wins, the rest are cancelled" (plain.py 23): once a racer has
\* succeeded the race is decided, whether the others ever answer or not.
FirstSuccessWins ==
    node = "racing" /\ Successes # {} ~> node # "racing"
=============================================================================
