---------------------------- MODULE StrategyWalk ----------------------------
(***************************************************************************)
(* The walk of a compiled strategy (strategies/engine.py): the evaluator   *)
(* of cascades, paged cascades, routes, decisions, references and leaves,  *)
(* as a machine whose stack is the chain of pending _eval_ calls.  The     *)
(* walk is one thread; what happens around it is that calls answer or      *)
(* fail, that time passes, and that the process dies and the run is        *)
(* resumed over the steps its ledger holds (StepLedger).  A parallel node  *)
(* is one call here; ParallelRace takes it apart.                          *)
(***************************************************************************)
EXTENDS Naturals, SequencesExt

CONSTANTS
    Tree,           \* the compiled nodes: what each one holds
    Starts,         \* the nodes a run may start from
    Referred,       \* compiled.trees: a strategy's name to its node, or Nil if pruned
    Facts,          \* the facts of a document a route may ask about
    Errors,         \* the exceptions a call may raise
    Allowed,        \* ctx.backend_allowlist
    Installed,      \* the backends the registry knows
    Keyless,        \* the backends whose credentials are missing
    Pages,          \* the pages of the document
    Grades,         \* how good a page may come out; a page gate is the least that passes
    MaxTicks,       \* bound: deadlines that pass
    MaxKills,       \* bound: deaths of the process
    Nil

Holds(n, field) == field \in DOMAIN Tree[n]
LeafNodes == {n \in DOMAIN Tree : Tree[n].kind = "leaf"}

\* A node the schema lets through, after pruning.  The rungs of a paged cascade are
\* leaves: its evaluator takes their backend and evaluates nothing below them.
WellCompiled(n) ==
    LET node == Tree[n]
    IN /\ node.kind \in {"cascade", "paged", "route", "decide", "use", "leaf", "parallel"}
       /\ node.kind = "cascade" => node.steps \in Seq(DOMAIN Tree)
       /\ node.kind = "paged" => node.steps \in Seq(LeafNodes) /\ node.steps # <<>>
       /\ node.kind = "route" =>
            /\ node.default \in DOMAIN Tree
            /\ node.rules \in Seq([when : Facts, use : DOMAIN Tree])
       /\ node.kind = "decide" =>
            node.otherwise \in DOMAIN Tree /\ node.among \in Seq(DOMAIN Tree)
       /\ node.kind = "use" => Referred[node.name] \in DOMAIN Tree \cup {Nil}
       /\ node.kind = "leaf" /\ Holds(n, "escalate_if") => node.escalate_if \in Nat

\* What an evaluation hands up: nothing but a record of the ledger has a number.
Classes == {"none", "timeout", "rate_limited", "provider_error", "auth", "invalid_input",
            "unsupported_feature", "exhausted", "budget_exhausted"}
Verdicts == {"pass", "fires", "review"}
Outcome == [kind : {"ok", "deficient", "err", "skip"}, q : Nat, gate : Verdicts,
            cls : Classes, late : BOOLEAN, by : Nat]

WalkAssumption ==
    /\ Starts \subseteq DOMAIN Tree
    /\ \A n \in DOMAIN Tree : WellCompiled(n)
    /\ Grades \subseteq Nat
    /\ Nil \notin Outcome /\ Nil \notin DOMAIN Tree
    /\ MaxTicks \in Nat /\ MaxKills \in Nat

ASSUME Walkable == WalkAssumption

VARIABLES
    facts,          \* those that hold of this document
    decider,        \* "engine" or "llm"
    stack,          \* the evaluations under way, outermost first
    place,          \* where the innermost is
    ret,            \* the Outcome it hands up, or Nil
    overdue,        \* the outermost evaluation past its deadline, as are all below it; or 0
    records,        \* the terminal records of the run's ledger, in order
    walked,         \* the records this process has been through
    ticks, kills,
    turns           \* history: what made a walk leave the course of the one before

walkVars == <<facts, decider, stack, place, ret, overdue, records, walked, ticks, kills,
              turns>>

Top == stack[Len(stack)]
Node == Tree[Top.node]
Under == stack[Len(stack) - 1]
PathOf(frames) == [k \in DOMAIN frames |-> <<frames[k].node, frames[k].i>>]
Path == PathOf(stack)

Frame(n) == [node |-> n, i |-> 0, best |-> Nil, pages |-> <<>>, ask |-> Pages]

\* What a call came to, as the ledger keeps it.
Replied == [kind |-> "ok", q |-> 1, gate |-> "pass", exc |-> Nil, late |-> FALSE,
            got |-> <<>>]

Err(cls) == [kind |-> "err", q |-> 0, gate |-> "pass", cls |-> cls, late |-> FALSE, by |-> 0]

Gradings == UNION {[some -> Grades] : some \in SUBSET Pages}
Evaluations == [node : DOMAIN Tree, i : Nat, best : Outcome \cup {Nil}, pages : Gradings,
                ask : SUBSET Pages]
Reply == [kind : {"ok", "deficient", "err", "skip"}, q : Nat, gate : Verdicts,
          exc : Errors \cup {Nil}, late : BOOLEAN, got : Gradings]
Entries == [path : Seq((DOMAIN Tree) \X Nat), ask : SUBSET Pages, reply : Reply]

WalkTypeOK ==
    /\ facts \subseteq Facts /\ decider \in {"engine", "llm"}
    /\ stack \in Seq(Evaluations) /\ stack # <<>>
    /\ place \in {"enter", "step", "calling", "return", "done", "refused", "cycle"}
    /\ ret \in Outcome \cup {Nil}
    /\ place \in {"return", "done"} => ret # Nil
    /\ overdue \in 0..Len(stack)
    /\ records \in Seq(Entries) /\ walked \in Seq(DOMAIN records)
    /\ ticks \in 0..MaxTicks /\ kills \in 0..MaxKills
    /\ turns \subseteq {"deadline", "decider", "class"}

WalkInit ==
    /\ facts \in SUBSET Facts /\ decider \in {"engine", "llm"}
    /\ \E n \in Starts : stack = <<Frame(n)>>
    /\ place = "enter" /\ ret = Nil /\ overdue = 0
    /\ records = <<>> /\ walked = <<>>
    /\ ticks = 0 /\ kills = 0 /\ turns = {}

-----------------------------------------------------------------------------
(* What the walk decides by                                                *)

\* An exception's class is its type's, unless its backend_code says more.
Classify(e) ==
    CASE e.type = "unsupported" -> "unsupported_feature"
      [] e.type = "retryable" /\ e.code \in {"timeout", "rate_limited"} -> e.code
      [] e.type = "terminal" /\ e.code \in {"auth", "invalid_input"} -> e.code
      [] e.type = "terminal" /\ e.code = "limit" -> "unsupported_feature"
      [] OTHER -> "provider_error"

Transient == {"timeout", "rate_limited", "provider_error"}

\* The first map that speaks of the class, exactly, as transient or as any.
Says(map, cls) ==
    IF cls \in DOMAIN map THEN {map[cls]}
    ELSE IF cls \in Transient /\ "transient" \in DOMAIN map THEN {map["transient"]}
    ELSE IF "any" \in DOMAIN map THEN {map["any"]} ELSE {}

OnErrorOf(n) == IF Holds(n, "on_error") THEN Tree[n].on_error ELSE <<>>

FailsCascade(cls, step, cascade) ==
    LET own == Says(OnErrorOf(step), cls) outer == Says(OnErrorOf(cascade), cls)
    IN IF own # {} THEN own = {"fail"}
       ELSE IF outer # {} THEN outer = {"fail"}
       ELSE cls = "invalid_input"

\* The decider chooses among the candidates; the engine takes its default.
Actions(candidates, default) == IF decider = "llm" THEN candidates ELSE {default}
TurnsBy(reason, when) == turns' = IF when THEN turns \cup {reason} ELSE turns

-----------------------------------------------------------------------------
(* Going down: _eval_node                                                  *)

\* The innermost goes on to its i-th, and that evaluation begins.
Descend(frames, n, i) == Append([frames EXCEPT ![Len(frames)].i = i], Frame(n))
Down(n, i) == stack' = Descend(stack, n, i) /\ place' = "enter"

HandUp(outcome) == place' = "return" /\ ret' = outcome

EnterSteps ==
    /\ place = "enter" /\ Node.kind \in {"cascade", "paged"}
    /\ stack' = [stack EXCEPT ![Len(stack)].i = 1] /\ place' = "step"
    /\ UNCHANGED <<facts, decider, ret, overdue, records, walked, ticks, kills, turns>>

\* The first rule that matches, or the default.
Matching(n) == {i \in DOMAIN Tree[n].rules : Tree[n].rules[i].when \in facts}
Rule(n) == IF Matching(n) = {} THEN 0 ELSE Min(Matching(n))
RouteOf(n) == IF Rule(n) = 0 THEN Tree[n].default ELSE Tree[n].rules[Rule(n)].use

EvalRoute ==
    /\ place = "enter" /\ Node.kind = "route"
    /\ Down(RouteOf(Top.node), Rule(Top.node))
    /\ UNCHANGED <<facts, decider, ret, overdue, records, walked, ticks, kills, turns>>

EvalDecide ==
    /\ place = "enter" /\ Node.kind = "decide"
    /\ \E i \in Actions(0..Len(Node.among), 0) :
         /\ Down(IF i = 0 THEN Node.otherwise ELSE Node.among[i], i)
         /\ TurnsBy("decider", i # 0)
    /\ UNCHANGED <<facts, decider, ret, overdue, records, walked, ticks, kills>>

Visited(frames) == {Tree[frames[k].node].name :
                       k \in {k \in 1..(Len(frames) - 1) : Tree[frames[k].node].kind = "use"}}

EvalReference ==
    /\ place = "enter" /\ Node.kind = "use"
    /\ IF Node.name \in Visited(stack) THEN place' = "cycle" /\ UNCHANGED <<stack, ret>>
       ELSE IF Referred[Node.name] = Nil
       THEN HandUp(Err("exhausted")) /\ UNCHANGED stack
       ELSE Down(Referred[Node.name], 0) /\ UNCHANGED ret
    /\ UNCHANGED <<facts, decider, overdue, records, walked, ticks, kills, turns>>

-----------------------------------------------------------------------------
(* A leaf: _run_leaf, and the executor in front of its call                *)

IsCall(n) == Tree[n].kind \in {"leaf", "parallel"}
Refuses(n) == Tree[n].kind = "leaf" /\ Tree[n].backend \notin Allowed
Absents(n) == Tree[n].kind = "leaf" /\ Tree[n].backend \notin Installed
Below(frames, kind) == Len(frames) > 1 /\ Tree[frames[Len(frames) - 1].node].kind = kind
Rung == Below(stack, "paged")

RecordedOk ==                                                         \* mutant
    {k \in DOMAIN records : records[k].path = Path /\ records[k].reply.kind = "ok"}
Recorded == {k \in DOMAIN records : records[k].path = Path}

\* The exception rebuilt from a record has the name of its type for a code.
Rebuilt(e) == [e EXCEPT !.code = "other"]

\* The Outcome of record k, as it was raised live.
Came(reply, k) ==
    IF reply.kind = "err" THEN Err(Classify(reply.exc))
    ELSE [kind |-> reply.kind, q |-> reply.q, gate |-> reply.gate, cls |-> "none",
          late |-> reply.late, by |-> k]

RefuseCall ==
    /\ place = "enter" /\ IsCall(Top.node) /\ Refuses(Top.node)
    /\ place' = "refused"
    /\ UNCHANGED <<facts, decider, stack, ret, overdue, records, walked, ticks, kills, turns>>

MayRun == place = "enter" /\ IsCall(Top.node) /\ ~Refuses(Top.node)

Unknown ==
    /\ MayRun /\ Absents(Top.node)
    /\ HandUp(Err("provider_error"))
    /\ UNCHANGED <<facts, decider, stack, overdue, records, walked, ticks, kills, turns>>

Dispatches == MayRun /\ ~Absents(Top.node)

Entry(reply) == [path |-> Path, ask |-> Top.ask, reply |-> reply]

Settles(reply) ==
    /\ records' = Append(records, Entry(reply))
    /\ walked' = Append(walked, Len(records) + 1)
    /\ HandUp(Came(reply, Len(records) + 1))

ReplayCall ==
    /\ Dispatches /\ Recorded # {}
    /\ LET k == Min(Recorded)
           reply == records[k].reply
           again == IF reply.kind = "err" THEN [reply EXCEPT !.exc = Rebuilt(@)] ELSE reply
       IN /\ HandUp(Came(again, k))
          /\ walked' = Append(walked, k)
          /\ TurnsBy("class", Came(again, k) # Came(reply, k))
    /\ UNCHANGED <<facts, decider, stack, overdue, records, ticks, kills>>

\* No rung of a paged cascade is skipped: its request names no missing credentials.
Lacks == Node.kind = "leaf" /\ Node.backend \in Keyless /\ ~Rung

Skip ==
    /\ Dispatches /\ Recorded = {} /\ Lacks
    /\ Settles([Replied EXCEPT !.kind = "skip"])
    /\ UNCHANGED <<facts, decider, stack, overdue, ticks, kills, turns>>

SubmitCall ==
    /\ Dispatches /\ Recorded = {} /\ ~Lacks
    /\ place' = "calling"
    /\ UNCHANGED <<facts, decider, stack, ret, overdue, records, walked, ticks, kills, turns>>

\* What may come of the call: a rung of a paged cascade answers with some of the
\* pages it was asked for, or with a document without pages, and each of them passes its
\* step's gate or not.  A parallel
\* step's gates can only make the cascade go on, never ask for a review.
Gates == {"pass"} \cup (IF Holds(Top.node, "escalate_if") THEN {"fires"} ELSE {})
         \cup (IF Node.kind = "leaf" /\ Holds(Top.node, "review_if") THEN {"review"} ELSE {})

Graded ==
    {[Replied EXCEPT !.gate = g[1], !.q = g[2]] : g \in (Gates \ {"pass"}) \X {0, 1}}
    \cup {Replied}

Deficient == {[d[1] EXCEPT !.kind = "deficient", !.late = d[2]] : d \in Graded \X BOOLEAN}

Answers ==
    IF Rung
    THEN {[Replied EXCEPT !.got = got] :
             got \in UNION {[some -> Grades] : some \in SUBSET Top.ask}}
    ELSE Graded \cup (IF Node.kind = "parallel" THEN Deficient ELSE {})

ReturnCall ==
    /\ place = "calling"
    /\ \/ \E reply \in Answers : Settles(reply)
       \/ \E e \in Errors : Settles([Replied EXCEPT !.kind = "err", !.exc = e])
    /\ UNCHANGED <<facts, decider, stack, overdue, ticks, kills, turns>>

-----------------------------------------------------------------------------
(* Coming back up                                                          *)

\* A leaf that is no step is exhausted by what a cascade would step over.
Bare(outcome) == IF outcome.kind = "skip" THEN Err("exhausted") ELSE outcome

Above(kind) == place = "return" /\ Below(stack, kind)

\* The evaluation ends, the one below it goes on as `top`; so does its deadline.
Climb(frames, top) == Append(SubSeq(frames, 1, Len(frames) - 2), top)
Pop(top) ==
    /\ stack' = Climb(stack, top)
    /\ overdue' = IF overdue = Len(stack) THEN 0 ELSE overdue
Resolves(outcome) == Pop(Under) /\ HandUp(outcome)

PassUp ==
    /\ Above("route") \/ Above("decide") \/ Above("use")
    /\ Resolves(Bare(ret))
    /\ UNCHANGED <<facts, decider, records, walked, ticks, kills, turns>>

FinishWalk ==
    /\ place = "return" /\ Len(stack) = 1
    /\ place' = "done" /\ ret' = Bare(ret)
    /\ UNCHANGED <<facts, decider, stack, overdue, records, walked, ticks, kills, turns>>

-----------------------------------------------------------------------------
(* _eval_cascade                                                           *)

\* The deadline is looked at before a step, not after the last.
OutOfSteps(f) == f.i > Len(Tree[f.node].steps)
OutOfTime == overdue # 0 /\ ~OutOfSteps(Top)

BestKept(f, late) ==
    IF f.best # Nil /\ Tree[f.node].on_quality_exhausted = "best_effort"
    THEN [f.best EXCEPT !.kind = "deficient", !.late = @ \/ late]
    ELSE Err(IF late THEN "budget_exhausted" ELSE "exhausted")

NextStep ==
    /\ place = "step" /\ Node.kind = "cascade"
    /\ IF OutOfSteps(Top) \/ OutOfTime
       THEN HandUp(BestKept(Top, OutOfTime)) /\ UNCHANGED stack
       ELSE Down(Node.steps[Top.i], Top.i) /\ UNCHANGED ret
    /\ TurnsBy("deadline", OutOfTime)
    /\ UNCHANGED <<facts, decider, overdue, records, walked, ticks, kills>>

\* Among the retained, a later one must be better to take the place.
BetterOrLater(out, best) == best = Nil \/ out.q >= best.q             \* mutant
Better(out, best) == best = Nil \/ out.q > best.q

Passed(f) == [f EXCEPT !.i = @ + 1]
Retaining(f, out) == [f EXCEPT !.i = @ + 1, !.best = IF Better(out, @) THEN out ELSE @]

ClimbsTo(f) == Pop(f) /\ place' = "step" /\ ret' = Nil

StepSkipped ==
    /\ Above("cascade") /\ ret.kind = "skip"
    /\ ClimbsTo(Passed(Under))
    /\ UNCHANGED <<facts, decider, records, walked, ticks, kills, turns>>

StepFailed ==
    /\ Above("cascade") /\ ret.kind = "err"
    /\ IF FailsCascade(ret.cls, Top.node, Under.node) THEN Resolves(ret)
       ELSE ClimbsTo(Passed(Under))
    /\ UNCHANGED <<facts, decider, records, walked, ticks, kills, turns>>

\* Only a leaf's gates, or a parallel step's, are the cascade's to judge.
InReview(n, out) == Tree[n].kind = "leaf" /\ out.kind = "ok" /\ out.gate = "review"
Escalates(n, out) == IsCall(n) /\ out.gate = "fires"

StepReviewed ==
    /\ Above("cascade") /\ InReview(Top.node, ret)
    /\ \E action \in Actions({"accept", "escalate"}, Node.review_default) :
         /\ IF action = "escalate" THEN ClimbsTo(Retaining(Under, ret))
            ELSE Resolves([ret EXCEPT !.gate = "pass"])
         /\ TurnsBy("decider", action # Node.review_default)
    /\ UNCHANGED <<facts, decider, records, walked, ticks, kills>>

StepAnswered ==
    /\ Above("cascade") /\ ret.kind \in {"ok", "deficient"} /\ ~InReview(Top.node, ret)
    /\ IF Escalates(Top.node, ret) THEN ClimbsTo(Retaining(Under, ret)) ELSE Resolves(ret)
    /\ UNCHANGED <<facts, decider, records, walked, ticks, kills, turns>>

-----------------------------------------------------------------------------
(* _eval_paged_cascade: the pages of several rungs in one document         *)

\* A rung that cannot take a range of pages reads the whole document.
ReadsWhole(cascade, i) == i > 1 /\ ~Tree[Tree[cascade].steps[i]].ranges

RungOf(f) == [Frame(Tree[f.node].steps[f.i]) EXCEPT
                 !.ask = IF ReadsWhole(f.node, f.i) THEN Pages ELSE f.ask]

NextRung ==
    /\ place = "step" /\ Node.kind = "paged"
    /\ stack' = Append(stack, RungOf(Top)) /\ place' = "enter"
    /\ UNCHANGED <<facts, decider, ret, overdue, records, walked, ticks, kills, turns>>

\* The pages so far, those of the answer in the place of older ones.
Stitched(pages, got) ==
    [p \in DOMAIN pages \cup DOMAIN got |-> IF p \in DOMAIN got THEN got[p] ELSE pages[p]]

\* The gate of the rung that answered is put to every page, old ones too.
FailingNew(pages, n) ==                                               \* mutant
    {p \in DOMAIN records[ret.by].reply.got : pages[p] < Tree[n].escalate_if}
Failing(pages, n) == {p \in DOMAIN pages : pages[p] < Tree[n].escalate_if}

IsLastRung(f, n) ==
    \/ f.i = Len(Tree[f.node].steps) \/ ~Holds(n, "escalate_if") \/ ReadsWhole(f.node, f.i)

Stitch(f, pages) == [f EXCEPT !.pages = pages]
NextAsk(f, pages, n) == [f EXCEPT !.pages = pages, !.ask = Failing(pages, n), !.i = @ + 1]

Document ==
    [kind |-> "ok", q |-> 1, gate |-> "pass", cls |-> "none", late |-> FALSE, by |-> 0]

RungAnswered ==
    /\ Above("paged") /\ ret.kind = "ok"
    /\ LET pages == Stitched(Under.pages, records[ret.by].reply.got)
       IN IF IsLastRung(Under, Top.node) \/ Failing(pages, Top.node) = {}
          THEN Pop(Stitch(Under, pages)) /\ HandUp(Document)
          ELSE ClimbsTo(NextAsk(Under, pages, Top.node))
    /\ UNCHANGED <<facts, decider, records, walked, ticks, kills, turns>>

\* The first rung gives the document; a later one was asked for pages of it that failed.
RungFailed ==
    /\ Above("paged") /\ ret.kind \in {"err", "skip"}
    /\ Resolves(IF Under.pages = <<>> THEN Err("exhausted") ELSE Document)
    /\ UNCHANGED <<facts, decider, records, walked, ticks, kills, turns>>

-----------------------------------------------------------------------------
(* Time, death and resumption                                              *)

\* The deadline of the run, or of a node with a budget of its own, goes by: with it
\* go those of everything below, which are never later.
TimePasses ==
    /\ place # "done" /\ ticks < MaxTicks
    /\ \E k \in DOMAIN stack :
         /\ k = 1 \/ Holds(stack[k].node, "budget")
         /\ overdue = 0 \/ k < overdue
         /\ overdue' = k
    /\ ticks' = ticks + 1
    /\ UNCHANGED <<facts, decider, stack, place, ret, records, walked, kills, turns>>

\* The run is resumed from its first node with a new deadline and, as resume_run
\* hands no decider over, on the engine's decisions.
Restarts ==
    /\ kills < MaxKills
    /\ stack' = <<Frame(stack[1].node)>>
    /\ place' = "enter" /\ ret' = Nil /\ overdue' = 0 /\ walked' = <<>>
    /\ decider' = "engine" /\ kills' = kills + 1
    /\ UNCHANGED <<facts, ticks, turns>>

ResumeWalk ==
    /\ place \notin {"done", "refused", "cycle"}
    /\ Restarts
    /\ UNCHANGED records

\* An interrupt ends the process in a leaf's call, whose task is cancelled and journalled
\* so: the walk that resumes the run skips it.
InterruptCall ==
    /\ place = "calling" /\ Node.kind = "leaf"
    /\ records' = Append(records, Entry([Replied EXCEPT !.kind = "skip"]))
    /\ Restarts

WalkNext ==
    \/ EnterSteps \/ EvalRoute \/ EvalDecide \/ EvalReference
    \/ RefuseCall \/ Unknown \/ ReplayCall \/ Skip \/ SubmitCall \/ ReturnCall
    \/ PassUp \/ FinishWalk
    \/ NextStep \/ StepSkipped \/ StepFailed \/ StepReviewed \/ StepAnswered
    \/ NextRung \/ RungAnswered \/ RungFailed
    \/ TimePasses \/ ResumeWalk \/ InterruptCall

WalkSpec == WalkInit /\ [][WalkNext]_walkVars

-----------------------------------------------------------------------------
(* Properties                                                              *)

Record(k) == records[k].reply
WalkedOver == {walked[j] : j \in DOMAIN walked}

\* The calls made at a step of a cascade: path and step.
StepOf(k) == LET a == records[k].path IN a[Len(a) - 1][2]

\* Two records of one pass of one cascade.
SameCascade(k, l) ==
    LET a == records[k].path b == records[l].path
    IN /\ Len(a) = Len(b) /\ Len(a) > 1
       /\ \A m \in 1..(Len(a) - 2) : a[m] = b[m]
       /\ a[Len(a) - 1][1] = b[Len(b) - 1][1]

WasRetained(k) == Record(k).kind \in {"ok", "deficient"} /\ Record(k).gate # "pass"

\* The answer of a walk is the last response it came to, when one was good enough:
\* nothing is called after it and no error takes its place.  A deficient answer that
\* a cascade kept is the best of those that cascade retained in this process, that of
\* the earliest step among equals, however far its steps, nested ones and deadlines went.
AnswerIsDue ==
    place = "done" =>
        /\ ret.kind = "ok" => ret.by = 0 \/ ret.by = walked[Len(walked)]
        /\ ret.kind = "err" => \A k \in WalkedOver :
                ~(Record(k).kind = "ok" /\ Record(k).gate = "pass")
        /\ ret.kind = "deficient" /\ WasRetained(ret.by) => \A k \in WalkedOver :
                SameCascade(k, ret.by) /\ WasRetained(k) =>
                    /\ Record(k).q <= ret.q
                    /\ Record(k).q = ret.q => StepOf(k) >= StepOf(ret.by)

\* What has been journalled is walked over again, all of it and in the same order,
\* before anything new is called or the walk ends.
Retraces ==
    place \in {"calling", "done"} => walked = [k \in DOMAIN records |-> k]

\* A resumed run that no deadline and no decider turned from the course of the first
\* retraces it, whatever the classes of the failures on the way.
ResumeKeepsCourse == turns \subseteq {"class"} => Retraces

\* The same of the runs whose failures have the class, once replayed, that they had.
ResumeRetraces == turns = {} => Retraces

\* The records of the rungs that answered, of the paged cascade that just ended.
PagedRungs ==
    {k \in WalkedOver : LET a == records[k].path n == Len(stack)
                        IN /\ Len(a) = n + 1 /\ Record(k).kind = "ok"
                           /\ \A m \in 1..(n - 1) : a[m] = Path[m]
                           /\ a[n][1] = Top.node}
Having(p) == {k \in PagedRungs : p \in DOMAIN Record(k).got}
FailsAt(i, grade) == LET step == Node.steps[i]
                     IN Holds(step, "escalate_if") /\ grade < Tree[step].escalate_if

\* A page of a stitched document is the version the last rung gave that had it.  One that
\* passed the gate of a rung is not asked of the next, unless that one reads the
\* whole document; and a page fails the gate of the last rung that answered only if
\* no rung was left that could be asked for it.
PagesAreStitched ==
    place = "return" /\ Node.kind = "paged" /\ ret.kind = "ok" =>
        /\ DOMAIN Top.pages = {p \in Pages : Having(p) # {}}
        /\ \A p \in DOMAIN Top.pages :
             /\ \A k \in Having(p) : (\A l \in Having(p) : StepOf(l) <= StepOf(k)) =>
                    Top.pages[p] = Record(k).got[p]
             /\ \A k, l \in Having(p) :
                  StepOf(l) = StepOf(k) + 1 /\ ~ReadsWhole(Top.node, StepOf(l)) =>
                      FailsAt(StepOf(k), Record(k).got[p])
             /\ FailsAt(Top.i, Top.pages[p]) =>
                  \/ Top.i = Len(Node.steps) \/ ReadsWhole(Top.node, Top.i)
                  \/ \A k \in PagedRungs : StepOf(k) # Top.i

\* What a walk answers is right, whole documents and stitched ones (engine.py 2091-2189).
WalkAnswer == AnswerIsDue /\ PagesAreStitched
=============================================================================
