------------------------------ MODULE MCSafety ------------------------------
(***************************************************************************)
(* What must never happen, for TLC: the walk of a strategy, a parallel     *)
(* node in it, the identity of its run, the exports of a host, the uploads *)
(* of a server, the requests it dispatches and the jobs it stores, the     *)
(* pages of a retained document, a selection of files, the signals that    *)
(* stop a command.  They share no state, so their product says no more     *)
(* than each of them alone: `part` says which one a behaviour is about,    *)
(* and the others stay as they begin.                                      *)
(***************************************************************************)
EXTENDS StrategyWalk, ParallelRace, ServerJobs, ExportDelivery, UploadDecode, SelectionHandoff,
        StopSignals, ResumeIdentity, RequestDispatch, RetainedReading, WalkTrees

GivenTrees == MCTrees(Nil)

\* Strategies whose backends are pruned, referred to, unheard of, or in a circle.
Inner(kind, of) == [kind |-> kind, of |-> of]
Fork(kind, of, default) == [kind |-> kind, of |-> of, default |-> default]
Library ==
    [ladder |-> <<Inner("steps", {2, 3, 6}), Leaf("docling"), Fork("route", {4}, 5),
                  Leaf("pymupdf"), Leaf("reducto"), Leaf("retired")>>,
     alias |-> <<Use("ladder")>>,
     choice |-> <<Fork("decide", {2, 3}, 4), Leaf("docling"), Use("loop"), Leaf("reducto")>>,
     loop |-> <<Inner("steps", {2, 3}), Use("loop"), Inner("parallel", {4, 5}),
                Leaf("pymupdf"), Leaf("reducto")>>]
Requested == {[is |-> "null"], [is |-> "none"]}
            \cup {[is |-> "backend", name |-> b] : b \in {"docling", "reducto", "retired"}}
            \cup {[is |-> "strategy", name |-> n] : n \in DOMAIN Library \cup {"unheard"}}

ListsOfAll == {NoneGiven, <<>>, <<"pymupdf", "docling">>,
              <<"retired", "reducto", "docling", "pymupdf">>}
ScopesOfAll == {NoneGiven, {}, {"docling"}, {"pymupdf", "reducto"}}
FallbacksOfAll == {<<>>, <<"docling", "retired", "docling">>}
Sent == {<<"bytes">>, <<"url">>, <<"malformed">>, <<"bytes", "url">>,
         <<"malformed", "url">>}

\* The recursions that prune a tree and list its backends, as they are written
\* (prune.py 321-437): the nodes left of a node, none if it collapses.
RECURSIVE PruneNode(_, _, _)
PruneNode(tree, k, allowed) ==
    LET t == tree[k]
        of == UNION {PruneNode(tree, j, allowed) : j \in Held(t) \ {t.default}}
        default == PruneNode(tree, t.default, allowed)
    IN CASE t.kind = "leaf" -> IF Within(t.backend, allowed) THEN {k} ELSE {}
         [] t.kind = "use" -> {k}
         [] t.kind \in {"steps", "parallel"} ->
              LET all == UNION {PruneNode(tree, j, allowed) : j \in t.of}
              IN IF all = {} THEN {} ELSE {k} \cup all
         [] t.kind = "route" -> IF default = {} THEN {} ELSE {k} \cup default \cup of
         [] t.kind = "decide" -> IF of = {} THEN {} ELSE {k} \cup default \cup of

RECURSIVE BackendIds(_, _, _)
BackendIds(n, allowed, seen) ==
    LET kept == {Trees[n][k] : k \in PruneNode(Trees[n], 1, allowed)}
    IN {t.backend : t \in {t \in kept : t.kind = "leaf"}}
         \cup UNION {BackendIds(r, allowed, seen \cup {r}) :
                     r \in {t.name : t \in {t \in kept : t.kind = "use"}} \ seen}

\* RequestDispatch's sets are what these recursions make.
ASSUME \A n \in DOMAIN Trees, allowed \in Scopes :
    /\ InTree(Pruned(Trees[n], allowed)) = PruneNode(Trees[n], 1, allowed)
    /\ Concrete(PrunedFor(allowed), n) = BackendIds(n, allowed, {n})

\* Documents of which some are cut, one cannot be, and each has two imports.
Scalar(n) == [kind |-> "scalar", bytes |-> n]
Text(chars) == [kind |-> "text", chars |-> chars]
Box(of) == [kind |-> "box", of |-> of]
Retained ==
    [report |-> <<Box(<<Scalar(2), Box(<<>>), Text(<<1, 1, 6, 1, 6, 1>>),
                        Box(<<Scalar(3), Text(<<1>>), Box(<<Scalar(4)>>)>>)>>),
                  Box(<<Text(<<6, 6, 1>>), Scalar(7), Scalar(7)>>)>>,
     scan |-> <<Box(<<Scalar(5), Scalar(5), Scalar(6)>>), Box(<<Scalar(99)>>)>>]
Found == [report |-> <<<<4, 9, 2, 8, 3>>, <<>>>>, scan |-> <<<<3, 60>>, <<1>>>>]
ReadsOfAll == {"document", "hits"} \X DOMAIN Retained

Total(s) == FoldLeft(LAMBDA sum, n : sum + n, 0, s)

RECURSIVE BytesOf(_)
BytesOf(v) ==
    CASE v.kind = "scalar" -> v.bytes
      [] v.kind = "text" -> 2 + Total(v.chars)
      [] v.kind = "box" -> 2 + Total([k \in DOMAIN v.of |-> BytesOf(v.of[k])]) + Len(v.of)

\* Its nodes in their order; a pointer takes a byte for each step to it.
RECURSIVE NodesOf(_, _)
NodesOf(v, pointer) ==
    LET inner == IF v.kind = "box"
                 THEN FlattenSeq([k \in DOMAIN v.of |-> NodesOf(v.of[k], pointer + 1)]) ELSE <<>>
        chars == IF v.kind = "text" THEN v.chars ELSE <<>>
    IN <<[kind |-> v.kind, pointer |-> pointer, bytes |-> BytesOf(v), holds |-> Len(inner),
          length |-> Len(chars),
          upto |-> [c \in 0..Len(chars) |-> Total(SubSeq(chars, 1, c))]]>> \o inner
ContentsOfAll ==
    [a \in DOMAIN Retained |-> [n \in DOMAIN Retained[a] |-> NodesOf(Retained[a][n], 0)]]

\* The recursion that cuts a value, as it is written (document.py 143-186): node k.
RECURSIVE CutText(_, _, _)
CutText(content, k, from) ==
    IF from = content[k].length THEN <<>>
    ELSE IF Fitting(content[k], from) = {} THEN <<[kind |-> "too_large"]>>
    ELSE LET piece == Piece(content, k, from) IN <<piece>> \o CutText(content, k, piece.to)

RECURSIVE CutNode(_, _)
CutNode(content, k) ==
    LET it == content[k]
        children == SetToSortSeq({j \in Inside(content, k) :
                                    \A i \in Inside(content, k) : j \notin Inside(content, i)}, <)
    IN CASE FitsWhole(it) -> <<Fragment("value", k, 0, 0, it.pointer + it.bytes)>>
         [] ~FitsWhole(it) /\ it.kind = "box" /\ EmptyBox(it) <= FragmentCap ->
              <<Fragment("empty", k, 0, 0, EmptyBox(it))>>
                \o FlattenSeq([i \in DOMAIN children |-> CutNode(content, children[i])])
         [] ~FitsWhole(it) /\ it.kind = "text" /\ it.length > 0 -> CutText(content, k, 0)
         [] OTHER -> <<[kind |-> "too_large"]>>

\* RetainedReading's plans are what these recursions make.
ASSUME \A a \in DOMAIN Contents : \A n \in DOMAIN Contents[a] :
    LET cut == CutNode(Contents[a][n], 1) IN
    /\ TooLarge(Contents[a][n]) <=> \E k \in DOMAIN cut : cut[k].kind = "too_large"
    /\ TooLarge(Contents[a][n]) \/ Plans[a][n] = cut

\* Selections of one page, of two and of three.
Selections == {<<>>, <<3, 1, 3>>, <<1, 1, 1, 2>>}

\* The loop that makes pages of receipts, as it is written (selection_pages.py 70-78).
Paged(receipts) ==
    FoldLeft(LAMBDA made, taken :
                 LET page == Last(made)
                     full == Len(page) = MaxItems
                             \/ MapThenSumSet(LAMBDA k : page[k], DOMAIN page) + taken > MaxBytes
                 IN IF page # <<>> /\ full THEN Append(made, <<taken>>)
                    ELSE Append(Front(made), Append(page, taken)),
             <<<<>>>>, receipts)

\* SelectionHandoff's pages, in order, are those of the loop.
ASSUME \A n \in 0..4 : \A receipts \in [1..n -> 0..4] :
    LET begins == SetToSortSeq(Begins(receipts), <)
    IN [k \in 1..Len(begins) |-> ItemsOf(receipts, begins[k])] = Paged(receipts)

\* A strategy or a chain, for one document or a batch, in turn or by a pool.
Parse(verb, by, pool) == [verb |-> verb, by |-> by, pool |-> pool]
Stopped == {Parse("parse", "walk", FALSE), Parse("parse", "plan", FALSE),
            Parse("batch", "walk", FALSE), Parse("batch", "plan", FALSE),
            Parse("batch", "walk", TRUE)}

\* A leaf, a hedge, a cascade and a hedged shadow; two leaves and a shadow, whose losers
\* are stopped, or left to run; a hedge without a ledger.
Parallel(n, hedged, shadows, composite, onWin, log) ==
    [n |-> n, hedged |-> hedged, shadows |-> shadows, composite |-> composite,
     onWin |-> onWin, ledger |-> log]
Duel == Parallel(3, {}, {3}, {}, "cancel", "armed")
Nodes == {Parallel(4, {2, 4}, {4}, {3}, "cancel", "armed"), Duel,
          Parallel(3, {}, {3}, {}, "drain", "armed"),
          Parallel(2, {2}, {}, {}, "cancel", "unarmed")}

\* A scope prunes a backend before or below a `use:`, or leaves nothing below it,
\* whether or not the policy has its backends' descriptors in the hash anyway.
All == {"a", "b", "c"}
OneName == {"tree"}
TwoRoots == {<<"a", "tree">>, <<"tree">>}
TwoBodies == {<<"a", "b">>, <<"b", "a", "c">>}
TwoPolicies == {All, {"b", "c"}}
ThreeCallers == {All, {"a", "c"}, {"c"}}

-----------------------------------------------------------------------------
VARIABLE part

strategyVars == <<walkVars, raceVars, identityVars>>
hostVars == <<exportVars, uploadVars, dispatchVars, readingVars, selectionVars, signalVars,
              vars>>

\* Where a part may begin in several ways, only a behaviour about it does.  Only a request
\* that names nothing asks for the default strategy, and only "routed" asks for facts.
SafeInit ==
    /\ part \in {"walk", "race", "export", "upload", "dispatch", "reading", "selection",
                 "signals", "server", "identity"}
    /\ WalkInit /\ ExportInit /\ UploadInit
    /\ RaceInit /\ (part = "race" \/ race = Duel)
    /\ part = "export" \/ name["d"] = Absent
    /\ part = "walk" \/ (decider = "engine" /\ stack[1].node = "main")
    /\ stack[1].node = "main" => facts = {}
    /\ \/ part = "dispatch"
       \/ /\ part # "dispatch"
          /\ req = [entry |-> "parse", backend |-> [is |-> "null"], fallback |-> <<>>,
                    docs |-> <<"bytes">>, pool |-> 1]
          /\ config = [policy |-> NoneGiven, base |-> NoneGiven, default |-> NoneGiven]
          /\ keyScope = NoneGiven
    /\ DispatchInit /\ (req.backend.is = "null" \/ config.default = NoneGiven)
    /\ \/ part = "reading"
       \/ part # "reading" /\ reading = [r \in {"r1", "r2"} |-> <<"document", "scan">>]
    /\ ReadingInit /\ SelectionInit
    /\ \/ part = "signals"
       \/ /\ part # "signals"
          /\ command = Parse("parse", "walk", FALSE) /\ ledger = FALSE /\ onInt = "default"
    /\ SignalsInit /\ Init
    /\ \/ part = "identity"
       \/ /\ part # "identity"
          /\ conf = [root |-> <<"a", "tree">>, trees |-> [n \in OneName |-> <<"a", "b">>],
                     policy |-> {"b", "c"}, digest |-> [b \in All |-> 0]]
          /\ caller = {"c"} /\ retained = TRUE
    /\ IdentityInit

SafeNext ==
    /\ part' = part
    /\ \/ /\ UNCHANGED hostVars
          /\ \/ part = "walk" /\ WalkNext /\ UNCHANGED <<raceVars, identityVars>>
             \/ part = "race" /\ RaceNext /\ UNCHANGED <<walkVars, identityVars>>
             \/ part = "identity" /\ IdentityNext /\ UNCHANGED <<walkVars, raceVars>>
       \/ /\ UNCHANGED strategyVars
          /\ \/ /\ UNCHANGED <<exportVars, readingVars, selectionVars, signalVars>>
                /\ \/ /\ part = "upload" /\ UploadNext
                      /\ UNCHANGED <<dispatchVars, vars>>
                   \/ /\ part = "dispatch" /\ DispatchNext
                      /\ UNCHANGED <<uploadVars, vars>>
                   \/ /\ part = "server" /\ Next
                      /\ UNCHANGED <<uploadVars, dispatchVars>>
             \/ /\ UNCHANGED <<uploadVars, dispatchVars, vars>>
                /\ \/ /\ part = "export" /\ ExportNext
                      /\ UNCHANGED <<readingVars, selectionVars, signalVars>>
                   \/ /\ part = "reading" /\ ReadingNext
                      /\ UNCHANGED <<exportVars, selectionVars, signalVars>>
                   \/ /\ part = "selection" /\ SelectionNext
                      /\ UNCHANGED <<exportVars, readingVars, signalVars>>
                   \/ /\ part = "signals" /\ SignalsNext
                      /\ UNCHANGED <<exportVars, readingVars, selectionVars>>

SafeSpec == SafeInit /\ [][SafeNext]_<<part, strategyVars, hostVars>>
=============================================================================
