---------------------------- MODULE PlanExecutor ----------------------------
(***************************************************************************)
(* A plan executed without a strategy (router/executor.py, execute_plan):  *)
(* the backends of a chain in order, each skipped, answered from the       *)
(* result cache, or called through BackendJobs, until one answers.  Reads  *)
(* run in the threads of one server and share its cache, a bounded LRU     *)
(* whose entries live for a while; the document they read is a file that   *)
(* may be edited meanwhile, and the cache knows it by its size and its     *)
(* modification time (router/cache.py, document_identity).                 *)
(***************************************************************************)
EXTENDS BackendJobs

CONSTANTS
    Chains,         \* the chains the router may plan
    Uncredentialed, \* backends whose credentials are missing
    Scopes,         \* what an API key may reach
    MaxEntries,     \* _CACHE_MAX_ENTRIES
    MaxEdits        \* bound: edits of the document

ASSUME PlanAssumption ==
    /\ BackendAssumption
    /\ Chains \subseteq Seq(Vendors)
    /\ \A scope \in Scopes : scope \subseteq Vendors
    /\ MaxEntries \in Nat \ {0} /\ MaxEdits \in Nat

VARIABLES
    chain,          \* plan.chain of each read
    scope,          \* plan.backend_allowlist
    pos,            \* the backend it is at
    at,             \* where execute_plan is
    trail,          \* what came of the backends before: <<backend, category>>
    key,            \* the cache key of the attempt, or None
    version,        \* the version of the file its adapter read
    answer,         \* the response, or None
    file,           \* the version of the file now
    entries         \* the cache, least recently used first

planVars == <<chain, scope, pos, at, trail, key, version, answer>>
allVars == <<jobVars, planVars, file, entries>>

Trails == Seq(Vendors \X {"skipped", "retryable", "terminal"})
Keys == Vendors \X (0..MaxEdits)

\* A response is what the adapter normalized from the job's payload, with the
\* warnings added to it since.  (The version of the file, and what the vendor's job had
\* ended in, are a history; the code keeps neither.)
Response(pages, v, ver, ended, notes, replayed) ==
    [pages |-> pages, by |-> v, ver |-> ver, ended |-> ended, notes |-> notes,
     replayed |-> replayed]
Responses == [pages : Seq(1..MaxPages), by : Vendors, ver : 0..MaxEdits,
              ended : EndStatuses, notes : Trails, replayed : BOOLEAN]
Entries == [key : Keys, value : Responses, fresh : BOOLEAN]

PlanTypeOK ==
    /\ BackendTypeOK
    /\ chain \in [Reads -> Chains] /\ scope \in [Reads -> Scopes]
    /\ pos \in [Reads -> Nat \ {0}]
    /\ at \in [Reads -> {"next", "looking", "calling", "driving", "answered",
                         "exhausted", "refused"}]
    /\ trail \in [Reads -> Trails]
    /\ key \in [Reads -> {Nil} \cup Keys]
    /\ file \in 0..MaxEdits /\ version \in [Reads -> 0..MaxEdits]
    /\ answer \in [Reads -> {Nil} \cup Responses]
    /\ entries \in Seq(Entries) /\ Len(entries) <= MaxEntries

PlanInit ==
    /\ BackendInit
    /\ chain \in [Reads -> Chains] /\ scope \in [Reads -> Scopes]
    /\ pos = [r \in Reads |-> 1]
    /\ at = [r \in Reads |-> "next"]
    /\ trail = [r \in Reads |-> <<>>]
    /\ key = [r \in Reads |-> Nil]
    /\ version = [r \in Reads |-> 0]
    /\ answer = [r \in Reads |-> Nil]
    /\ file = 0 /\ entries = <<>>

Goes(r, where) == at' = [at EXCEPT ![r] = where]

-----------------------------------------------------------------------------
(* The cache                                                               *)

Having(k) == {n \in DOMAIN entries : entries[n].key = k}
Without(n) == SubSeq(entries, 1, n - 1) \o SubSeq(entries, n + 1, Len(entries))

\* The oldest go first; what was just put is never one of them.
Bounded(s) == IF Len(s) > MaxEntries THEN Tail(s) ELSE s

\* What is put takes the place of what the key had, as the most recently used.
Store(k, value) ==
    LET entry == [key |-> k, value |-> value, fresh |-> TRUE]
    IN IF Having(k) = {} THEN entries' = Bounded(Append(entries, entry))
       ELSE \E n \in Having(k) : entries' = Append(Without(n), entry)

\* A hit becomes the most recently used; an entry whose time is over is dropped.
Got(n) == entries' = IF entries[n].fresh THEN Append(Without(n), entries[n]) ELSE Without(n)

Hits(k) == {n \in Having(k) : entries[n].fresh}

EntryExpires ==
    /\ \E n \in DOMAIN entries :
         entries[n].fresh /\ entries' = [entries EXCEPT ![n].fresh = FALSE]
    /\ UNCHANGED <<jobVars, planVars, file>>

Edit ==
    /\ file < MaxEdits
    /\ file' = file + 1
    /\ UNCHANGED <<jobVars, planVars, entries>>

-----------------------------------------------------------------------------
(* execute_plan                                                            *)

Backend(r) == chain[r][pos[r]]
Recorded(r, category) == trail' = [trail EXCEPT ![r] = Append(@, <<Backend(r), category>>)]

Advances(r, category) ==
    /\ Recorded(r, category)
    /\ pos' = [pos EXCEPT ![r] = @ + 1]
    /\ Goes(r, "next")

InScope(r) == Backend(r) \in scope[r]

\* The next backend: one out of scope ends the read, one without credentials is
\* passed over, and the file is identified before anything reads it.
Consider(r) ==
    /\ at[r] = "next" /\ pos[r] <= Len(chain[r])
    /\ IF ~InScope(r)
       THEN Goes(r, "refused") /\ UNCHANGED <<pos, trail, key>>
       ELSE IF Backend(r) \in Uncredentialed
       THEN Advances(r, "skipped") /\ UNCHANGED key
       ELSE /\ key' = [key EXCEPT ![r] = <<Backend(r), file>>]
            /\ Goes(r, "looking") /\ UNCHANGED <<pos, trail>>
    /\ UNCHANGED <<jobVars, chain, scope, version, answer, file, entries>>

Answers(r, response) ==
    /\ answer' = [answer EXCEPT ![r] = [response EXCEPT !.notes = @ \o trail[r]]]
    /\ Goes(r, "answered")

\* A hit is copied before anything is added to it.
Look(r) ==
    /\ at[r] = "looking"
    /\ IF Having(key[r]) # {} THEN \E n \in Having(key[r]) : Got(n)
       ELSE UNCHANGED entries
    /\ IF Hits(key[r]) = {} THEN Goes(r, "calling") /\ UNCHANGED answer
       ELSE \E n \in Hits(key[r]) :
              Answers(r, [entries[n].value EXCEPT !.replayed = TRUE])
    /\ UNCHANGED <<jobVars, chain, scope, pos, trail, key, version, file>>

\* The adapter reads the file as it is now and submits it.
Call(r) ==
    /\ at[r] = "calling"
    /\ SubmitTo(r, Backend(r))
    /\ version' = [version EXCEPT ![r] = file]
    /\ Goes(r, "driving")
    /\ UNCHANGED <<chain, scope, pos, trail, key, answer, file, entries>>

DriveOn(r) ==
    /\ at[r] = "driving"
    /\ Drive(r)
    /\ UNCHANGED <<planVars, file, entries>>

Fallback(r) ==
    /\ at[r] = "driving" /\ out[r] \in {"retryable", "terminal"}
    /\ Advances(r, out[r])
    /\ UNCHANGED <<jobVars, chain, scope, key, version, answer, file, entries>>

\* The payload could not be normalized, or its cost not be told: whatever was raised, the
\* next backend is tried.
NormalizeFails(r) ==
    /\ at[r] = "driving" /\ out[r] = "ok"
    /\ Fault("other") /\ Advances(r, "terminal")
    /\ UNCHANGED <<vendor, state, raw, items, attempts, out, remote>>
    /\ UNCHANGED <<chain, scope, key, version, answer, file, entries>>

KeyedNow(r) == <<Backend(r), file>>                              \* mutant
KeyedBefore(r) == key[r]

\* normalize: the pages of the payload, none if there is no page in it.
Pages(r) == IF raw[r] \in {Nil, Failure} THEN <<>> ELSE raw[r]

\* The response is cached before the trail is written on it.
Returns(r) ==
    /\ at[r] = "driving" /\ out[r] = "ok"
    /\ LET response == Response(Pages(r), Backend(r), version[r], remote[r], <<>>, FALSE)
       IN Store(KeyedBefore(r), response) /\ Answers(r, response)
    /\ UNCHANGED <<jobVars, chain, scope, pos, trail, key, version, file>>

Exhaust(r) ==
    /\ at[r] = "next" /\ pos[r] > Len(chain[r])
    /\ Goes(r, "exhausted")
    /\ UNCHANGED <<jobVars, chain, scope, pos, trail, key, version, answer, file, entries>>

PlanNext ==
    \/ \E r \in Reads :
         \/ Consider(r) \/ Look(r) \/ Call(r) \/ DriveOn(r) \/ Fallback(r)
         \/ NormalizeFails(r) \/ Returns(r) \/ Exhaust(r)
         \/ RemoteEnds(r) /\ UNCHANGED <<planVars, file, entries>>
    \/ EntryExpires \/ Edit

PlanSpec == PlanInit /\ [][PlanNext]_allVars

-----------------------------------------------------------------------------
(* Properties                                                              *)

\* A response, replayed or not, is of a job that did not fail, by the backend the read
\* had come to, and of a file no older than the one the read asked about: an edit between
\* the identification, the upload and the replay never brings an old text back.  It is
\* the whole result, with two exceptions: one of Pulse, which may lose it before it is
\* fetched, can be empty; and an adapter that takes every status it does not name for
\* success (reducto 449-455, azure 359-371, textract 463-485) can give the first pages
\* of a job that ended in such a status, or none.  Either is then replayed so.  What a
\* response tells of the backends before is this read's own story, each of them once and
\* in order, and nothing of the read that filled the cache; a read is exhausted only
\* after the whole chain.
WholeOrExcepted(response) ==
    /\ response.ended # "failed"
    /\ \/ response.pages = Result
       \/ response.by = "pulse" /\ response.pages = <<>>
       \/ /\ response.by \in TakesUnknown /\ response.ended # "done"
          /\ \A k \in DOMAIN response.pages : response.pages[k] = k

AnswersAreResults ==
    \A r \in Reads :
        /\ answer[r] # Nil =>
             /\ WholeOrExcepted(answer[r])
             /\ answer[r].by = Backend(r) /\ Backend(r) \in scope[r] \ Uncredentialed
             /\ answer[r].ver >= key[r][2]
             /\ answer[r].notes = trail[r]
        /\ [k \in DOMAIN trail[r] |-> trail[r][k][1]] = SubSeq(chain[r], 1, pos[r] - 1)
        /\ at[r] = "exhausted" => Len(trail[r]) = Len(chain[r])
=============================================================================
