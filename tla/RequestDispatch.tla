--------------------------- MODULE RequestDispatch ---------------------------
(***************************************************************************)
(* From a request to the backends it reaches: the endpoints of the server  *)
(* (server/app.py: parse, submit_job, batch_endpoint) with the check at    *)
(* their door, run_request (api.py) with the router, the compilation of a  *)
(* strategy (strategies/prune.py), and the pool that runs the documents of *)
(* a batch (batch/runner.py).  An API key may be scoped to some backends;  *)
(* the door, the plan, the compiled tree and the last call each hold the   *)
(* scope, and must agree on it.                                            *)
(*                                                                         *)
(* How a chain caches and drives is PlanExecutor, how a tree is walked     *)
(* StrategyWalk; here a walk calls what it may, in any order, once.        *)
(***************************************************************************)
EXTENDS Naturals, SequencesExt, FiniteSetsExt

CONSTANTS
    Registered,     \* the backends the registry knows
    Uncredentialed, \* those whose credentials are missing
    DefaultBackend, \* Router.DEFAULT_BACKEND
    Trees,          \* the strategies of the file and the presets: name to nodes, the root first
    Backends,       \* what a request may ask for
    Fallbacks,      \* what it may write in routing.fallback
    Lists,          \* the allow-lists a policy may write, or NoneGiven
    Scopes,         \* the scopes a key may have, or NoneGiven
    Documents,      \* what it may send: for each document, its bytes, a URL, or none of these
    NoneGiven

IsList(list) == list \in Seq(Range(list))

\* The nodes of a strategy: leaves, references, and those that hold others (`of`: steps,
\* branches, what a decision is among or a route's rules lead to), which are numbered
\* after them, in their order.
Compilable(tree) ==
    /\ IsList(tree) /\ tree # <<>>
    /\ \A k \in DOMAIN tree :
         LET later == SUBSET ((k + 1)..Len(tree))
         IN \/ tree[k].kind \in {"leaf", "use"}
            \/ tree[k] \in [kind : {"steps", "parallel"}, of : later]
            \/ tree[k] \in [kind : {"route", "decide"}, of : later, default : (k + 1)..Len(tree)]

DispatchAssumption ==
    /\ Uncredentialed \subseteq Registered /\ DefaultBackend \in Registered
    /\ \A n \in DOMAIN Trees : n # NoneGiven /\ Compilable(Trees[n])
    /\ \A b \in Backends : \/ b.is \in {"null", "none"}
                           \/ b.is \in {"backend", "strategy"} /\ b.name # NoneGiven
    /\ \A list \in Fallbacks \cup (Lists \ {NoneGiven}) : IsList(list)
    /\ \A docs \in Documents : docs \in Seq({"bytes", "url", "malformed"}) /\ docs # <<>>

ASSUME Requestable == DispatchAssumption

VARIABLES
    req,            \* [entry, backend, fallback, docs, pool]
    config,         \* [policy, base, default]
    keyScope,       \* the key's scope, or NoneGiven
    doc,            \* where each document is
    left,           \* the chain it has yet to try
    may,            \* the backends its compiled strategy may dispatch
    calls,          \* the backends that were given it, in order
    results,        \* the results of the batch
    status          \* the status of the response, or 0

requestVars == <<req, config, keyScope>>
runVars == <<doc, left, may, calls, results>>
dispatchVars == <<requestVars, runVars, status>>

DocNumbers == DOMAIN req.docs
Builds(i) == req.docs[i] # "malformed"
Concluded == {"ok", "failed", "refused"}
Running == {"chain", "walk", "named"}

DispatchTypeOK ==
    /\ doc \in [DocNumbers -> {"waiting"} \cup Running \cup Concluded]
    /\ calls \in [DocNumbers -> Seq(Registered)] /\ left \in [DocNumbers -> SUBSET Nat]
    /\ results \in [DocNumbers -> {NoneGiven}
                       \cup [state : Concluded, by : Registered \cup {NoneGiven}]]
    /\ status \in {0, 200, 400, 403, 404, 424, 502}

DispatchInit ==
    /\ req \in [entry : {"parse", "jobs", "batch"}, backend : Backends,
                fallback : Fallbacks, docs : Documents, pool : {1, 2}]
    /\ req.entry = "batch" => req.fallback = <<>>
    /\ req.entry # "batch" => Len(req.docs) = 1 /\ req.pool = 1
    /\ config \in [policy : Lists, base : Lists, default : DOMAIN Trees \cup {NoneGiven}]
    /\ config.base = config.policy
    /\ keyScope \in Scopes
    /\ doc = [i \in DocNumbers |-> "waiting"]
    /\ left = [i \in DocNumbers |-> {}] /\ may = [i \in DocNumbers |-> {}]
    /\ calls = [i \in DocNumbers |-> <<>>]
    /\ results = [i \in DocNumbers |-> NoneGiven]
    /\ status = 0

-----------------------------------------------------------------------------
(* The router                                                              *)

\* The policy is folded into the base when the server starts and again for every
\* request: the lists intersect, in the order of the base.
MergedList == IF config.base = NoneGiven THEN config.policy ELSE config.base
Merged(b) == config.policy = NoneGiven \/ b \in Range(config.policy)

ResolveIds(backend) ==
    IF backend.is = "backend" THEN <<backend.name>>
    ELSE IF MergedList # NoneGiven THEN MergedList ELSE <<DefaultBackend>>

Ordered ==
    {b \in Range(ResolveIds(req.backend)) \cap Registered :
        req.backend.is = "backend" \/ Merged(b)}

\* A chain is filtered from what the caller and the lists wrote, one after the other: it
\* is the places of that whose backends are left, in their order.
Written == req.fallback \o ResolveIds(req.backend)
BackendsAt(places) == {Written[k] : k \in places}
FirstOf(places) == Written[Min(places)]

\* What the caller lists goes first, once each; nothing is added.
ExplicitFallback(ordered) ==
    {k \in DOMAIN Written :
        /\ Written[k] \in ordered
        /\ IF k <= Len(req.fallback) THEN \A j \in 1..(k - 1) : Written[j] # Written[k]
           ELSE Written[k] \notin Range(req.fallback)}

Route == ExplicitFallback(Ordered)

Within(b, allowed) == allowed = NoneGiven \/ b \in allowed
RestrictTo(chain, allowed) == {k \in chain : Within(Written[k], allowed)}

-----------------------------------------------------------------------------
(* The compilation of a strategy                                           *)

Held(node) ==
    IF node.kind \in {"leaf", "use"} THEN {}
    ELSE node.of \cup IF node.kind \in {"route", "decide"} THEN {node.default} ELSE {}

\* Whether a node is left when those it holds are pruned to `kept`.  A reference is
\* resolved by the walk; a route stands by its default.
Stands(node, kept, allowed) ==
    \/ node.kind = "leaf" /\ Within(node.backend, allowed)
    \/ node.kind = "use"
    \/ node.kind \in {"steps", "parallel", "decide"} /\ node.of \cap kept # {}
    \/ node.kind = "route" /\ node.default \in kept

\* No node holds itself, so that one set of nodes is what pruning from below leaves:
\* those of any set in which all stand by one another.
Survivors(tree, allowed) ==
    {k \in DOMAIN tree :
        \E some \in SUBSET DOMAIN tree :
            k \in some /\ \A j \in some : Stands(tree[j], some, allowed)}

\* A decision whose alternative went takes the first it is among.
Remade(node, kept) ==
    IF node.kind \in {"leaf", "use"} THEN node
    ELSE IF node.kind = "decide" /\ node.default \notin kept
    THEN [node EXCEPT !.of = @ \cap kept, !.default = Min(node.of \cap kept)]
    ELSE [node EXCEPT !.of = @ \cap kept]

Pruned(tree, allowed) ==
    [k \in Survivors(tree, allowed) |-> Remade(tree[k], Survivors(tree, allowed))]

\* What is come to from the start: it is in every set that has the start and whatever
\* its members lead to.
ReachedFrom(start, leads) ==
    {p \in DOMAIN leads :
        \A some \in SUBSET DOMAIN leads :
            start \in some /\ (\A q \in some : leads[q] \subseteq some) => p \in some}

\* The nodes of a tree, none if its root was pruned; its backends and references.
InTree(tree) ==
    IF 1 \in DOMAIN tree THEN ReachedFrom(1, [k \in DOMAIN tree |-> Held(tree[k])]) ELSE {}
LeavesOf(tree) == {tree[k].backend : k \in {k \in InTree(tree) : tree[k].kind = "leaf"}}
RefersTo(tree) == {tree[k].name : k \in {k \in InTree(tree) : tree[k].kind = "use"}}

\* The backends a strategy names, through every reference.
Concrete(library, name) ==
    UNION {LeavesOf(library[n]) :
           n \in ReachedFrom(name, [n \in DOMAIN library |-> RefersTo(library[n]) \cap DOMAIN library])}

PrunedFor(allowed) == [n \in DOMAIN Trees |-> Pruned(Trees[n], allowed)]

-----------------------------------------------------------------------------
(* The door                                                                *)

\* The strategy run_request would walk, or NoneGiven.
Engaged ==
    IF req.backend.is = "strategy" THEN req.backend.name
    ELSE IF req.backend.is = "null" THEN config.default ELSE NoneGiven

DoorChosenOnly ==                                                    \* mutant
    /\ keyScope # NoneGiven /\ Engaged = NoneGiven
    /\ IF req.backend.is = "backend" THEN req.backend.name \notin keyScope
       ELSE Route # {} /\ FirstOf(Route) \notin keyScope

\* _out_of_scope_backend: a walk checks itself, an empty plan is not the scope's.
OutOfScope ==
    /\ keyScope # NoneGiven /\ Engaged = NoneGiven
    /\ IF req.backend.is = "backend" THEN req.backend.name \notin keyScope
       ELSE Route # {} /\ RestrictTo(Route, keyScope) = {}

\* The first refusal of an endpoint, or 0: run_request has the next word.
ParseDoor ==
    IF ~Builds(1) THEN 400 ELSE IF OutOfScope THEN 403 ELSE 0

JobsDoor ==
    IF ~Builds(1) \/ req.backend.is \in {"null", "none"} THEN 400
    ELSE IF OutOfScope THEN 403 ELSE 0

\* A batch checks each document it can build before it runs any.
BatchDoor ==
    IF req.backend.is = "backend" /\ req.backend.name \notin Registered THEN 404
    ELSE IF req.backend.is = "strategy" /\ req.backend.name \notin DOMAIN Trees THEN 400
    ELSE IF req.backend.is = "backend" /\ OutOfScope THEN 403
    ELSE IF OutOfScope /\ \E i \in DocNumbers : Builds(i) THEN 403
    ELSE 0

Door == CASE req.entry = "parse" -> ParseDoor
          [] req.entry = "jobs" -> JobsDoor
          [] req.entry = "batch" -> BatchDoor

Turned == status = 0 /\ Door # 0 /\ \A i \in DocNumbers : doc[i] = "waiting"

Refuse ==
    /\ Turned
    /\ status' = Door
    /\ UNCHANGED <<requestVars, runVars>>

-----------------------------------------------------------------------------
(* run_request                                                             *)

CallerScopeOfOne == IF req.entry = "batch" THEN NoneGiven ELSE keyScope  \* mutant
\* The scope travels with the request.
CallerScope == keyScope

Status(outcome, refusal) == IF outcome = "ok" THEN 200 ELSE refusal

\* A document is done: a batch keeps its result in its place, the others answer it.
Ends(i, outcome, by, refusal) ==
    /\ doc' = [doc EXCEPT ![i] = outcome]
    /\ results' = [results EXCEPT ![i] = [state |-> outcome, by |-> by]]
    /\ status' = IF req.entry = "batch" THEN 0 ELSE Status(outcome, refusal)

Takes(i, where) == doc' = [doc EXCEPT ![i] = where] /\ UNCHANGED <<results, status>>

\* Before anything is called, a document that is a URL is fetched, or its address is
\* checked if whoever is to be called fetches it; either may fail.  (502 stands for
\* whatever the failure of a document or of a backend is told as.)
NotHad(i) == req.docs[i] = "url" /\ Ends(i, "failed", NoneGiven, 502)

\* compile_strategy: the tree it compiles to, and what that may dispatch.
BeginWalk(i, name) ==
    IF name \notin DOMAIN Trees
    THEN Ends(i, "failed", NoneGiven, 400) /\ UNCHANGED may
    ELSE IF 1 \notin DOMAIN Pruned(Trees[name], CallerScope)
    THEN Ends(i, "refused", NoneGiven, 403) /\ UNCHANGED may
    ELSE \/ NotHad(i) /\ UNCHANGED may
         \/ /\ Takes(i, "walk")
            /\ may' = [may EXCEPT ![i] = Concrete(PrunedFor(CallerScope), name)]

BeginChain(i) ==
    LET chain == RestrictTo(Route, CallerScope) IN
    IF chain = {} THEN Ends(i, "refused", NoneGiven, 403) /\ UNCHANGED left
    ELSE \/ NotHad(i) /\ UNCHANGED left
         \/ Takes(i, "chain") /\ left' = [left EXCEPT ![i] = chain]

\* prepare_named_backend
BeginNamed(i) ==
    IF req.backend.name \notin Registered THEN Ends(i, "failed", NoneGiven, 404)
    ELSE \/ NotHad(i)
         \/ IF req.backend.name \in Uncredentialed THEN Ends(i, "failed", NoneGiven, 424)
            ELSE Takes(i, "named")

\* The pool takes its documents in order, so many at a time; one that does not
\* build, or whose path is refused, fails alone.
Begin(i) ==
    /\ status = 0 /\ Door = 0
    /\ doc[i] = "waiting" /\ \A j \in 1..(i - 1) : doc[j] # "waiting"
    /\ Cardinality({j \in DocNumbers : doc[j] \in Running}) < req.pool
    /\ \/ /\ ~Builds(i)
          /\ Ends(i, "failed", NoneGiven, 400) /\ UNCHANGED <<left, may>>
       \/ /\ Builds(i) /\ Engaged # NoneGiven
          /\ BeginWalk(i, Engaged) /\ UNCHANGED left
       \/ /\ Builds(i) /\ Engaged = NoneGiven /\ req.backend.is = "backend"
          /\ BeginNamed(i) /\ UNCHANGED <<left, may>>
       \/ /\ Builds(i) /\ Engaged = NoneGiven /\ req.backend.is # "backend"
          /\ BeginChain(i) /\ UNCHANGED may
    /\ UNCHANGED <<requestVars, calls>>

Calls(i, b) == calls' = [calls EXCEPT ![i] = Append(@, b)]

\* The named backend, which answers or fails.
RunNamed(i) ==
    /\ doc[i] = "named"
    /\ Calls(i, req.backend.name)
    /\ \/ Ends(i, "ok", req.backend.name, 0)
       \/ Ends(i, "failed", NoneGiven, 502)
    /\ UNCHANGED <<requestVars, left, may>>

\* execute_plan: the chain in its order, past those without credentials, each one
\* checked once more.
RunChain(i) ==
    /\ doc[i] = "chain"
    /\ IF left[i] = {}
       THEN Ends(i, "failed", NoneGiven, 502) /\ UNCHANGED <<left, calls>>
       ELSE IF ~Within(FirstOf(left[i]), CallerScope)
       THEN Ends(i, "refused", NoneGiven, 403) /\ UNCHANGED <<left, calls>>
       ELSE /\ left' = [left EXCEPT ![i] = @ \ {Min(@)}]
            /\ IF FirstOf(left[i]) \in Uncredentialed
               THEN UNCHANGED <<calls, doc, results, status>>
               ELSE /\ Calls(i, FirstOf(left[i]))
                    /\ \/ Ends(i, "ok", FirstOf(left[i]), 0)
                       \/ UNCHANGED <<doc, results, status>>
    /\ UNCHANGED <<requestVars, may>>

\* A walk reaches a leaf, which is checked once more; an unknown one, or one without
\* credentials, is passed over.
RunLeaf(i) ==
    /\ doc[i] = "walk"
    /\ \E b \in may[i] \ Range(calls[i]) :
         IF Within(b, CallerScope)
         THEN /\ b \in Registered \ Uncredentialed
              /\ Calls(i, b) /\ UNCHANGED <<doc, results, status>>
         ELSE Ends(i, "refused", NoneGiven, 403) /\ UNCHANGED calls
    /\ UNCHANGED <<requestVars, left, may>>

EndWalk(i) ==
    /\ doc[i] = "walk"
    /\ \/ \E by \in Range(calls[i]) : Ends(i, "ok", by, 0)
       \/ Ends(i, "failed", NoneGiven, 502)
    /\ UNCHANGED <<requestVars, left, may, calls>>

\* run_batch has every result; whatever they are, the batch is told.
Assemble ==
    /\ req.entry = "batch" /\ status = 0
    /\ \A i \in DocNumbers : doc[i] \in Concluded
    /\ status' = 200
    /\ UNCHANGED <<requestVars, runVars>>

DispatchNext ==
    \/ Refuse \/ Assemble
    \/ \E i \in DocNumbers : Begin(i) \/ RunNamed(i) \/ RunChain(i) \/ RunLeaf(i) \/ EndWalk(i)

DispatchSpec == DispatchInit /\ [][DispatchNext]_dispatchVars

-----------------------------------------------------------------------------
(* Properties                                                              *)

\* What the caller and the operator wrote, by itself: the backends a strategy
\* mentions, and those among them no route's rule and no reference stands before.
Mentioned == [n \in DOMAIN Trees |-> Concrete(Trees, n)]

Surely(node) ==
    IF node.kind \in {"leaf", "use"} THEN {}
    ELSE IF node.kind = "route" THEN {node.default} ELSE node.of
SurelyIn(tree) == ReachedFrom(1, [k \in DOMAIN tree |-> Surely(tree[k])])
Certain == [n \in DOMAIN Trees |->
               {Trees[n][k].backend : k \in {k \in SurelyIn(Trees[n]) : Trees[n][k].kind = "leaf"}}]

OnTheLists(b) ==
    /\ b \in Registered
    /\ IF config.policy = NoneGiven THEN b = DefaultBackend ELSE b \in Range(config.policy)

Reachable ==
    IF Engaged # NoneGiven
    THEN IF Engaged \in DOMAIN Trees THEN Mentioned[Engaged] ELSE {}
    ELSE IF req.backend.is = "backend" THEN {req.backend.name}
    ELSE {b \in Registered : OnTheLists(b)}

ScopeOf(set) == {b \in set : Within(b, keyScope)}

\* Whatever the entry and the shape of a request, each backend that was given one of
\* its documents is one the key is scoped to, and one the request named, its strategy
\* mentions, or the operator's lists permit (app.py 651-689, api.py 726-739).
CallsStayInScope ==
    \A i \in DocNumbers : Range(calls[i]) \subseteq ScopeOf(Reachable)

Denied(i) == doc[i] = "refused" \/ status = 403

\* A refusal for the scope is for want of anything to run, and comes before any call;
\* a chain fails only after every backend in scope that could be called was, or with
\* none of them called if its document is a URL, which may not be had; and what is told
\* of a document is by a backend that was given it (app.py 670-683, router.py 82-106,
\* api.py 819-823, runner.py 125-178).
OutcomesAreDue ==
    /\ \A i \in DocNumbers : Denied(i) =>
         /\ calls[i] = <<>>
         /\ ScopeOf(IF Engaged = NoneGiven THEN Reachable ELSE Certain[Engaged]) = {}
    /\ \A i \in DocNumbers :
         doc[i] = "failed" /\ Engaged = NoneGiven /\ req.backend.is # "backend" /\ Builds(i)
             => \/ Range(calls[i]) = ScopeOf(Reachable) \ Uncredentialed
                \/ req.docs[i] = "url" /\ calls[i] = <<>>
    /\ \A i \in DocNumbers : doc[i] \in Concluded =>
         /\ results[i].state = doc[i]
         /\ doc[i] = "ok" => results[i].by \in Range(calls[i])
         /\ status = 200 /\ req.entry # "batch" => doc[i] = "ok"
=============================================================================
