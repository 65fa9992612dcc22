----------------------------- MODULE WalkTrees -----------------------------
(***************************************************************************)
(* The strategies StrategyWalk is checked on: cascades in cascades by a    *)
(* reference, with a review, a budget, maps of errors and a step without   *)
(* credentials; a route to a paged cascade, a pruned reference or a        *)
(* decision; a cascade with a gated parallel step, an unknown backend and  *)
(* a reference that comes back to itself.                                  *)
(***************************************************************************)
EXTENDS Naturals

Leaf(b) == [kind |-> "leaf", backend |-> b]
GatedLeaf(b) == [kind |-> "leaf", backend |-> b, escalate_if |-> 1]
Use(n) == [kind |-> "use", name |-> n]

MCTree ==
    [main |-> [kind |-> "cascade", steps |-> <<"cheap", "useNested", "strong">>,
               on_error |-> [transient |-> "next", invalid_input |-> "fail"],
               on_quality_exhausted |-> "best_effort"],
     cheap |-> [kind |-> "leaf", backend |-> "liteparse", escalate_if |-> 1,
                review_if |-> 1, review_default |-> "accept"],
     useNested |-> Use("nested"),
     nested |-> [kind |-> "cascade", steps |-> <<"gated", "bare", "second">>,
                 on_error |-> [timeout |-> "fail"], budget |-> 1,
                 on_quality_exhausted |-> "fail"],
     gated |-> GatedLeaf("reducto"),
     bare |-> [kind |-> "leaf", backend |-> "docling", on_error |-> [any |-> "next"]],
     second |-> Leaf("mistral_ocr"),
     strong |-> GatedLeaf("mistral_ocr"),
     routed |-> [kind |-> "route", default |-> "paged",
                 rules |-> <<[when |-> "scanned", use |-> "choice"],
                             [when |-> "large", use |-> "useGone"]>>],
     choice |-> [kind |-> "decide", among |-> <<"duel", "outer">>, otherwise |-> "bare"],
     useGone |-> Use("gone"),
     paged |-> [kind |-> "paged", steps |-> <<"page1", "page2", "page3">>, budget |-> 1],
     page1 |-> [kind |-> "leaf", backend |-> "liteparse", escalate_if |-> 1, ranges |-> FALSE],
     page2 |-> [kind |-> "leaf", backend |-> "reducto", escalate_if |-> 2, ranges |-> TRUE],
     page3 |-> [kind |-> "leaf", backend |-> "mistral_ocr", ranges |-> FALSE],
     duel |-> [kind |-> "cascade", steps |-> <<"race", "unknown", "useLoop">>,
               on_error |-> [transient |-> "next"], on_quality_exhausted |-> "best_effort"],
     race |-> [kind |-> "parallel", escalate_if |-> 1],
     unknown |-> Leaf("retired"),
     useLoop |-> Use("loop"),
     loop |-> [kind |-> "route", rules |-> <<[when |-> "large", use |-> "useLoop"]>>,
               default |-> "far"],
     far |-> Leaf("azure_document_intelligence"),
     outer |-> [kind |-> "cascade", steps |-> <<"duel", "strong">>,
                on_quality_exhausted |-> "best_effort"]]

MCTrees(gone) == [nested |-> "nested", gone |-> gone, loop |-> "loop"]

Exception(type, code) == [type |-> type, code |-> code]
MCErrors == {Exception("retryable", "timeout"), Exception("retryable", "other"),
             Exception("terminal", "invalid_input"), Exception("unsupported", "other")}

InTheScope == {"liteparse", "docling", "reducto", "mistral_ocr", "retired"}
Known == {"liteparse", "docling", "reducto", "mistral_ocr", "azure_document_intelligence"}
=============================================================================
