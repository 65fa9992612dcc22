--------------------------- MODULE ResumeIdentity ---------------------------
(***************************************************************************)
(* The identity of a run, and what a resume makes of it (ledger/header.py, *)
(* `_arm_ledger` and `resume_run` in api.py, compile_strategy).            *)
(*                                                                         *)
(* A run compiles a strategy from openreading.yaml, writes a header with   *)
(* two hashes and the backends it may call, and walks.  A resume compiles  *)
(* what the file says now, compares, and walks again over the records.  A  *)
(* record is found by its place in the tree, not by its backend.  Between  *)
(* two processes the operator edits the file or upgrades an adapter.  The  *)
(* policy is the chain of requests that name no backend: it prunes nothing *)
(* of a strategy, but it is part of the identity.                          *)
(*                                                                         *)
(* A strategy is a sequence of rungs, each a backend or `use:` of a named  *)
(* strategy; StrategyWalk has the other nodes.  A record torn by a kill is *)
(* StepLedger's business.                                                  *)
(***************************************************************************)
EXTENDS Naturals, Sequences, FiniteSets

CONSTANTS
    Registry,   \* the registered backends
    Names,      \* strategies that a rung may `use:`
    Roots,      \* what the strategy of the run may be edited to
    Bodies,     \* what a named strategy may be edited to
    Policies,   \* what `policy: backends:` may be edited to, as sets
    Callers,    \* their allow-lists; all of Registry if unscoped
    MaxChanges, \* bound: edits of the file and upgrades
    MaxRuns     \* bound: processes, the first one included

\* A rung says by its name which of the two it is.
ASSUME IdentityAssumption ==
    /\ Registry \cap Names = {}
    /\ Roots \subseteq Seq(Registry \cup Names) /\ Bodies \subseteq Seq(Registry)
    /\ Policies \cup Callers \subseteq SUBSET Registry
    /\ MaxChanges \in Nat /\ MaxRuns \in Nat

VARIABLES
    conf,       \* openreading.yaml and the installed adapters' descriptors
    caller,     \* the allow-list of the caller who started the run
    retained,   \* the document's bytes are kept; not so for a URL handed on
    identity,   \* <run>.header.json: "none", "torn" or "whole", and its fields
    process,    \* the process of this run, and what it compiled
    outcomes,   \* terminal records: place, backend, outcome; and, for the
                \* properties, the named strategies of the process that wrote it
    reached,    \* backends called in this run, with their descriptors
    ending,     \* how the last process ended
    original,   \* the configuration the run was armed with
    changes, runs

identityVars ==
    <<conf, caller, retained, identity, process, outcomes, reached, ending, original,
      changes, runs>>

Conf == [root : Roots, trees : [Names -> Bodies], policy : Policies,
         digest : [Registry -> {0, 1}]]
Idle == [at |-> "none"]

IdentityTypeOK ==
    /\ {conf, original} \subseteq Conf /\ caller \in Callers /\ retained \in BOOLEAN
    /\ identity.is \in {"none", "torn", "whole"}
    /\ process.at \in {"none", "arming", "walk"}
    /\ process.at # "none" => process.conf \in Conf
    /\ ending \in {"none", "answered", "exhausted", "killed", "scope_refused", "mismatch",
                   "no_recorded_run", "header_unreadable", "payload_missing"}
    /\ changes \in 0..MaxChanges /\ runs \in Nat

\* The rungs that the caller's scope does not prune, each with its place among them.  A
\* `use:` is kept whatever has become of the strategy it names.
KeptAt(rungs, may) == {i \in DOMAIN rungs : rungs[i] \in may \cup Names}
PlaceOf(rungs, may, i) == Cardinality(KeptAt(rungs, may) \cap 1..i)
KeptOf(rungs, may) ==
    {[place |-> PlaceOf(rungs, may, i), rung |-> rungs[i]] : i \in KeptAt(rungs, may)}

Compiled(by, allowlist) ==
    [root |-> KeptOf(by.root, allowlist),
     trees |-> [n \in Names |-> KeptOf(by.trees[n], allowlist)]]

\* The leaves of a plan, by their places in its tree.
OwnLeaves(plan) ==
    {[place |-> <<r.place, 0>>, backend |-> r.rung] : r \in {x \in plan.root : x.rung \notin Names}}
UsedLeaves(plan, r) ==
    {[place |-> <<r.place, s.place>>, backend |-> s.rung] : s \in plan.trees[r.rung]}
StepsOf(plan) ==
    OwnLeaves(plan)
    \cup UNION {UsedLeaves(plan, r) : r \in {x \in plan.root : x.rung \in Names}}

Dispatchable(plan) == {s.backend : s \in StepsOf(plan)}

Described(by, backends) == [b \in backends |-> by.digest[b]]

\* A `use:` is only its name in either hash; of the tree it stands for, the second has the
\* descriptors of its backends.
PlanHash(plan) == plan.root
ConfigHash(by, plan) ==
    <<plan.root, by.policy, Described(by, by.policy \cup Dispatchable(plan))>>

HeaderOf(by, plan) ==
    [is |-> "whole", config |-> ConfigHash(by, plan), plan |-> PlanHash(plan),
     pinned |-> Described(by, Dispatchable(plan))]
NoHeader == [is |-> "none"]

IdentityInit ==
    /\ conf \in {c \in Conf : c.digest = [b \in Registry |-> 0]}
    /\ caller \in Callers
    /\ retained \in BOOLEAN
    /\ identity = NoHeader /\ process = Idle /\ outcomes = {} /\ reached = {}
    /\ ending = "none" /\ original = conf /\ changes = 0 /\ runs = 0

-----------------------------------------------------------------------------
(* A process.                                                              *)

\* compile_strategy refuses a root that prunes to nothing.
StartRun ==
    /\ runs = 0 /\ runs' = 1
    /\ LET plan == Compiled(conf, caller)
       IN  IF plan.root = {}
           THEN ending' = "scope_refused" /\ UNCHANGED process
           ELSE /\ process' = [at |-> "arming", plan |-> plan, conf |-> conf]
                /\ UNCHANGED ending
    /\ UNCHANGED <<conf, caller, retained, identity, outcomes, reached, original, changes>>

\* `left` are the leaves the walk has not passed.
Walking(plan, allow, pinned, by) ==
    [at |-> "walk", plan |-> plan, left |-> StepsOf(plan), allow |-> allow,
     pinned |-> pinned, conf |-> by]

\* The header is written once; the gate of pinned descriptors stays inert.
ArmRun ==
    /\ process.at = "arming"
    /\ identity' = HeaderOf(process.conf, process.plan)
    /\ original' = process.conf
    /\ process' = Walking(process.plan, caller, Described(process.conf, {}), process.conf)
    /\ UNCHANGED <<conf, caller, retained, outcomes, reached, ending, changes, runs>>

\* write_text is not atomic: a kill may leave half a header.
KillRun ==
    /\ process.at # "none"
    /\ identity' \in IF process.at = "arming" THEN {NoHeader, [is |-> "torn"]} ELSE {identity}
    /\ process' = Idle /\ ending' = "killed"
    /\ UNCHANGED <<conf, caller, retained, outcomes, reached, original, changes, runs>>

EndsBy(why) ==
    /\ ending' = why /\ process' = Idle
    /\ UNCHANGED <<conf, caller, retained, identity, outcomes, reached, original, changes,
                   runs>>

\* The walk goes in order: down a rung that is `use:`, then to the rung behind it.
Before(p, q) == p[1] < q[1] \/ (p[1] = q[1] /\ p[2] < q[2])
IsNext(s) ==
    /\ process.at = "walk" /\ s \in process.left
    /\ \A t \in process.left : t = s \/ Before(s.place, t.place)
NextLeaves == IF process.at = "walk" THEN {s \in process.left : IsNext(s)} ELSE {}
Permitted(s) == s.backend \in process.allow
RecordsAt(place) == {r \in outcomes : r.place = place}

GoesOn(s, outcome) ==
    IF outcome = "ok" THEN process' = Idle /\ ending' = "answered"
    ELSE process' = [process EXCEPT !.left = @ \ {s}] /\ UNCHANGED ending

RefuseLeafAsFailed ==                                                      \* mutant
    /\ \E s \in NextLeaves : ~Permitted(s) /\ GoesOn(s, "failed")
    /\ UNCHANGED <<conf, caller, retained, identity, outcomes, reached, original, changes,
                   runs>>

\* _resolve_backend raises before there is a step to record; nothing on the
\* way up catches it.
RefuseLeaf == \E s \in NextLeaves : ~Permitted(s) /\ EndsBy("scope_refused")

\* exec: a terminal record at this place is the outcome ...
ReplayLeaf ==
    /\ \E s \in NextLeaves :
         Permitted(s) /\ \E r \in RecordsAt(s.place) : GoesOn(s, r.outcome)
    /\ UNCHANGED <<conf, caller, retained, identity, outcomes, reached, original, changes,
                   runs>>

\* ... else the gate, inert where nothing is pinned, and the call.  A shut gate is a
\* failure, and `skipped`, for want of credentials, an outcome on record although
\* nothing is called.
GateOpens(s) ==
    \/ DOMAIN process.pinned = {}
    \/ /\ s.backend \in DOMAIN process.pinned
       /\ process.pinned[s.backend] = process.conf.digest[s.backend]
CallLeaf ==
    /\ \E s \in NextLeaves, outcome \in {"ok", "failed", "skipped"} :
         /\ Permitted(s) /\ RecordsAt(s.place) = {}
         /\ GateOpens(s) \/ outcome = "failed"
         /\ outcomes' = outcomes \cup {[place |-> s.place, backend |-> s.backend,
                                        outcome |-> outcome, trees |-> process.conf.trees]}
         /\ reached' = IF outcome = "skipped" \/ ~GateOpens(s) THEN reached
                       ELSE reached \cup {<<s.backend, process.conf.digest[s.backend]>>}
         /\ GoesOn(s, outcome)
    /\ UNCHANGED <<conf, caller, retained, identity, original, changes, runs>>

ExhaustRun == process.at = "walk" /\ process.left = {} /\ EndsBy("exhausted")

\* resume_run, with the checks in their order.  The caller's scope is not known
\* here; the pinned set stands for it.
AllowlistFalsy(pinned) ==                                                  \* mutant
    IF DOMAIN pinned = {} THEN Registry ELSE DOMAIN pinned
Allowlist(pinned) == DOMAIN pinned
ResumeRun ==
    /\ runs \in 1..MaxRuns - 1 /\ process = Idle /\ runs' = runs + 1
    /\ LET plan == Compiled(conf, Registry)
           Refuses(why) == ending' = why /\ UNCHANGED process
       IN  IF identity.is = "none" THEN Refuses("no_recorded_run")
           ELSE IF identity.is = "torn" THEN Refuses("header_unreadable")
           ELSE IF ~retained THEN Refuses("payload_missing")
           ELSE IF plan.root = {} THEN Refuses("scope_refused")
           ELSE IF \/ identity.config # ConfigHash(conf, plan)
                   \/ identity.plan # PlanHash(plan)
                THEN Refuses("mismatch")
           ELSE /\ process' = Walking(plan, Allowlist(identity.pinned), identity.pinned, conf)
                /\ UNCHANGED ending
    /\ UNCHANGED <<conf, caller, retained, identity, outcomes, reached, original, changes>>

-----------------------------------------------------------------------------
(* The operator (external): edits the file, upgrades an adapter.           *)

EditConf ==
    /\ changes < MaxChanges /\ changes' = changes + 1
    /\ \/ \E r \in Roots : conf' = [conf EXCEPT !.root = r]
       \/ \E n \in Names, b \in Bodies : conf' = [conf EXCEPT !.trees[n] = b]
       \/ \E p \in Policies : conf' = [conf EXCEPT !.policy = p]
       \/ \E b \in Registry : conf' = [conf EXCEPT !.digest[b] = 1]
    /\ conf' # conf
    /\ UNCHANGED <<caller, retained, identity, process, outcomes, reached, ending, original,
                   runs>>

IdentityNext ==
    \/ StartRun \/ ArmRun \/ KillRun \/ RefuseLeaf \/ ReplayLeaf \/ CallLeaf \/ ExhaustRun
    \/ ResumeRun \/ EditConf

IdentitySpec == IdentityInit /\ [][IdentityNext]_identityVars

-----------------------------------------------------------------------------
(* Properties.                                                             *)

\* What the strategy names, itself or through a `use:`, before anything is pruned.
NamedBy(by) ==
    {b \in Registry :
        \E i \in DOMAIN by.root :
            \/ b = by.root[i]
            \/ /\ by.root[i] \in Names
               /\ \E j \in DOMAIN by.trees[by.root[i]] : b = by.trees[by.root[i]][j]}

\* A run reaches, in all its processes, only backends that the strategy it was
\* armed with names and its caller's scope allows, and those as they were
\* described then, whatever the file says by now and although a resume does not
\* know its caller: it cannot "reach a backend the original could not" (api.py,
\* resume_run).
NothingWiderIsReached ==
    \A call \in reached :
        /\ call[1] \in NamedBy(original) \cap caller
        /\ call[2] = original.digest[call[1]]

\* The records of other backends that may now be replayed for this leaf.
Mistaken(s) == {r \in RecordsAt(s.place) : Permitted(s) /\ r.backend # s.backend}

\* As long as the strategies reached by `use:` are what they were when it was
\* recorded, an outcome is replayed for the backend that had it, although a
\* place is all it is found by, a scope that prunes a rung moves those behind
\* it, and the hashes do not see that below a `use:`: the resume prunes for
\* nobody, so its places are others, but it is refused at the pruned rung,
\* before it comes to one that moved.
ReplaysAreOwn ==
    \A s \in NextLeaves : \A r \in Mistaken(s) : r.trees # process.conf.trees

\* cmd_resume: a resume compares the identity with the header and refuses "if it
\* no longer matches", and header.py: "`plan_hash` identifies the compiled tree
\* that actually got walked".  So no backend is told another's outcome.
ReplaysMatchThePlan == \A s \in NextLeaves : Mistaken(s) = {}
=============================================================================
