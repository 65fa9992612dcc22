-------------------------- MODULE SelectionHandoff --------------------------
(***************************************************************************)
(* Files chosen in a local dialog and handed to a model as pages of        *)
(* references (mcp_server/selection.py, selection_pages.py).  The dialog   *)
(* belongs to a provider, which copies what is chosen; the pages are       *)
(* written by a thread while the call waits; and the call may be           *)
(* cancelled, run out of time or fail at any of its awaits.                *)
(***************************************************************************)
EXTENDS Naturals, SequencesExt, FiniteSetsExt

CONSTANTS
    Selects,        \* calls of the tool without a cursor
    Batches,        \* what may be chosen: the sizes of its references, in order
    MaxItems,       \* 16 receipts in a page
    MaxBytes,       \* 48 KiB of them
    MaxDeaths       \* bound: deaths of the server

ASSUME SelectionAssumption ==
    /\ MaxItems \in Nat \ {0} /\ MaxBytes \in Nat /\ MaxDeaths \in Nat
    /\ Batches \subseteq Seq(Nat)

VARIABLES
    pending,        \* self.pending
    call,           \* where each call is
    copies,         \* the provider's: "none", "made", "kept" or "gone"
    batch,          \* the references that were chosen
    thread,         \* what publish is about to do, in its thread
    stop,           \* _publish told it to
    dir,            \* the directory of the pages is there
    pages,          \* those in it, by the place of their first receipt
    accepted,
    outcome,        \* what the call tells
    said,           \* the receipts its caller has, by following cursors
    follow,         \* the page the last cursor names; 0 for none
    rolled,         \* the rollback could not remove the directory
    deaths

selectionVars == <<pending, call, copies, batch, thread, stop, dir, pages, accepted, outcome,
                   said, follow, rolled, deaths>>

\* A page names the next by the digest of its bytes, so the last is written first.
Page == [items : Seq(Nat), next : Nat]

PagesTypeOK ==
    /\ DOMAIN pages = Selects
    /\ \A c \in Selects : /\ DOMAIN pages[c] \subseteq Nat \ {0}
                           /\ pages[c] \in [DOMAIN pages[c] -> Page]

SelectionTypeOK ==
    /\ pending \in BOOLEAN /\ deaths \in 0..MaxDeaths
    /\ call \in [Selects -> {"idle", "choosing", "publishing", "awaiting", "checkpoint",
                             "leaving", "ending", "over", "dead"}]
    /\ copies \in [Selects -> {"none", "made", "kept", "gone"}]
    /\ batch \in [Selects -> {<<>>} \cup Batches]
    /\ thread \in [Selects -> {"none", "mkdir", "write", "sync", "returned", "failed"}]
    /\ stop \in [Selects -> BOOLEAN] /\ dir \in [Selects -> BOOLEAN]
    /\ accepted \in [Selects -> BOOLEAN] /\ rolled \in [Selects -> BOOLEAN]
    /\ PagesTypeOK
    /\ outcome \in [Selects -> {"none", "busy", "selection_failed", "selection_cancelled",
                                "interrupted", "receipt", "page"}]
    /\ said \in [Selects -> Seq(Nat)] /\ follow \in [Selects -> Nat]

SelectionInit ==
    /\ pending = FALSE /\ deaths = 0
    /\ call = [c \in Selects |-> "idle"]
    /\ copies = [c \in Selects |-> "none"]
    /\ batch = [c \in Selects |-> <<>>]
    /\ thread = [c \in Selects |-> "none"]
    /\ pages = [c \in Selects |-> <<>>]
    /\ stop = [c \in Selects |-> FALSE]
    /\ dir = [c \in Selects |-> FALSE]
    /\ accepted = [c \in Selects |-> FALSE]
    /\ outcome = [c \in Selects |-> "none"]
    /\ said = [c \in Selects |-> <<>>]
    /\ follow = [c \in Selects |-> 0]
    /\ rolled = [c \in Selects |-> FALSE]

GoesTo(c, where) == call' = [call EXCEPT ![c] = where]
Tells(c, what) == outcome' = [outcome EXCEPT ![c] = what]
Copies(c, what) == copies' = [copies EXCEPT ![c] = what]

onDisk == <<batch, thread, stop, dir, pages, rolled>>
byCaller == <<said, follow, deaths>>

-----------------------------------------------------------------------------
(* The pages                                                               *)

\* Receipt k has room in the page that begins with receipt i.
Weight(receipts, i, k) == MapThenSumSet(LAMBDA n : receipts[n], i..k)
Fits(receipts, i, k) == k - i < MaxItems /\ Weight(receipts, i, k) <= MaxBytes

\* The first that has none begins the next page.
Overflows(receipts, i) == {k \in i + 1..Len(receipts) : ~Fits(receipts, i, k)}
IsLast(receipts, i) == Overflows(receipts, i) = {}
NextPage(receipts, i) == Min(Overflows(receipts, i))
ItemsOf(receipts, i) ==
    SubSeq(receipts, i, IF IsLast(receipts, i) THEN Len(receipts)
                        ELSE NextPage(receipts, i) - 1)

\* Where pages begin: with the first receipt, and with each next page.
Begins(receipts) ==
    {i \in 1..Len(receipts) + 1 :
        \A S \in SUBSET (1..Len(receipts) + 1) :
            /\ 1 \in S
            /\ \A k \in S : ~IsLast(receipts, k) => NextPage(receipts, k) \in S
            => i \in S}

PageAt(receipts, i) ==
    [items |-> ItemsOf(receipts, i),
     next |-> IF IsLast(receipts, i) THEN 0 ELSE NextPage(receipts, i)]

WritesPage(c, i) ==
    /\ i \notin DOMAIN pages[c]
    /\ ~IsLast(batch[c], i) => NextPage(batch[c], i) \in DOMAIN pages[c]
    /\ pages' = [pages EXCEPT ![c] =
                   [k \in DOMAIN @ \cup {i} |->
                       IF k = i THEN PageAt(batch[c], i) ELSE @[k]]]
    /\ thread' = [thread EXCEPT ![c] = IF i = 1 THEN "sync" ELSE "write"]

\* The thread goes on to its next write, unless it was told to stop or the write fails.
Step(c) ==
    LET do == thread[c]
    IN \/ /\ do = "mkdir" /\ ~stop[c]
          /\ dir' = [dir EXCEPT ![c] = TRUE]
          /\ thread' = [thread EXCEPT ![c] = "write"] /\ UNCHANGED pages
       \/ /\ do = "write" /\ ~stop[c] /\ UNCHANGED dir
          /\ \E i \in Begins(batch[c]) : WritesPage(c, i)
       \/ /\ do = "sync" /\ UNCHANGED <<dir, pages>>
          /\ thread' = [thread EXCEPT ![c] = "returned"]
       \/ /\ do \in {"mkdir", "write", "sync"} /\ UNCHANGED <<dir, pages>>
          /\ thread' = [thread EXCEPT ![c] = "failed"]

Publish(c) ==
    /\ call[c] # "dead" /\ Step(c)
    /\ UNCHANGED <<pending, call, copies, batch, stop, accepted, outcome, rolled, byCaller>>

-----------------------------------------------------------------------------
(* select                                                                  *)

\* From admission to ownership without an await.
Enter(c) ==
    /\ call[c] = "idle"
    /\ IF pending
       THEN GoesTo(c, "over") /\ Tells(c, "busy") /\ UNCHANGED pending
       ELSE GoesTo(c, "choosing") /\ pending' = TRUE /\ UNCHANGED outcome
    /\ UNCHANGED <<copies, accepted, onDisk, byCaller>>

\* The dialog ends: it fails, nothing was chosen, one file, or a batch.
Choose(c) ==
    /\ call[c] = "choosing"
    /\ \/ /\ GoesTo(c, "ending") /\ Tells(c, "selection_failed")
          /\ UNCHANGED <<copies, batch, thread>>
       \/ /\ GoesTo(c, "leaving") /\ Tells(c, "selection_cancelled")
          /\ UNCHANGED <<copies, batch, thread>>
       \/ /\ Copies(c, "made") /\ UNCHANGED <<batch, thread>>
          /\ GoesTo(c, "leaving")
          /\ Tells(c, "receipt") \/ Tells(c, "selection_failed")
       \/ /\ Copies(c, "made") /\ UNCHANGED outcome
          /\ \E receipts \in Batches : batch' = [batch EXCEPT ![c] = receipts]
          /\ thread' = [thread EXCEPT ![c] = "mkdir"]
          /\ GoesTo(c, "publishing")
    /\ UNCHANGED <<pending, stop, dir, pages, accepted, rolled, byCaller>>

Finished(c) ==
    /\ call[c] = "publishing" /\ thread[c] \in {"returned", "failed"}
    /\ IF thread[c] = "returned" THEN GoesTo(c, "checkpoint") /\ UNCHANGED outcome
       ELSE GoesTo(c, "leaving") /\ Tells(c, "selection_failed")
    /\ UNCHANGED <<pending, copies, accepted, onDisk, byCaller>>

Checkpoint(c) ==
    /\ call[c] = "checkpoint"
    /\ accepted' = [accepted EXCEPT ![c] = TRUE]
    /\ Tells(c, "page") /\ GoesTo(c, "leaving")
    /\ UNCHANGED <<pending, copies, onDisk, byCaller>>

LeavesThread == "leaving"                                             \* mutant
\* An interrupted _publish tells the thread to stop, and waits for it.
WaitsForThread == "awaiting"

\* The deadline passes (selection_timeout) or the host cancels, at an await.
InterruptSelect(c) ==
    /\ call[c] \in {"choosing", "publishing", "checkpoint"}
    /\ Tells(c, "interrupted")
    /\ IF call[c] = "publishing"
       THEN /\ stop' = [stop EXCEPT ![c] = TRUE]
            /\ GoesTo(c, WaitsForThread)
       ELSE /\ GoesTo(c, IF call[c] = "choosing" THEN "ending" ELSE "leaving")
            /\ UNCHANGED stop
    /\ UNCHANGED <<pending, copies, batch, thread, dir, pages, accepted, rolled, byCaller>>

Awaited(c) ==
    /\ call[c] = "awaiting" /\ thread[c] \in {"returned", "failed"}
    /\ GoesTo(c, "leaving")
    /\ UNCHANGED <<pending, copies, accepted, outcome, onDisk, byCaller>>

\* The provider keeps its copies if all went well, and rolls them back if not; its own
\* exit may fail or be interrupted.
LeaveProvider(c) ==
    /\ call[c] = "leaving"
    /\ GoesTo(c, "ending")
    /\ \/ /\ outcome[c] \in {"page", "receipt"}
          /\ Copies(c, "kept") /\ UNCHANGED <<accepted, outcome>>
       \/ /\ outcome[c] \notin {"page", "receipt"}
          /\ Copies(c, "gone") /\ UNCHANGED <<accepted, outcome>>
       \/ /\ Copies(c, "gone")
          /\ accepted' = [accepted EXCEPT ![c] = FALSE]
          /\ Tells(c, "selection_failed") \/ Tells(c, "interrupted")
    /\ UNCHANGED <<pending, onDisk, byCaller>>

\* finally: the pages go unless they were accepted; a failure to remove them is
\* suppressed.
Published(c) == thread[c] # "none"
Removes(c) ==
    /\ dir' = [dir EXCEPT ![c] = FALSE]
    /\ pages' = [pages EXCEPT ![c] = <<>>]

EndSelect(c) ==
    /\ call[c] = "ending"
    /\ GoesTo(c, "over") /\ pending' = FALSE
    /\ IF Published(c) /\ ~accepted[c]
       THEN \/ Removes(c) /\ UNCHANGED rolled
            \/ dir[c] /\ rolled' = [rolled EXCEPT ![c] = TRUE] /\ UNCHANGED <<dir, pages>>
       ELSE UNCHANGED <<dir, pages, rolled>>
    /\ follow' = [follow EXCEPT ![c] = IF outcome[c] = "page" THEN 1 ELSE 0]
    /\ UNCHANGED <<copies, batch, thread, stop, accepted, outcome, said, deaths>>

\* The caller reads the page it was told, then those its cursors name; a server that
\* was restarted reads them too.
ReadPage(c) ==
    /\ follow[c] # 0 /\ follow[c] \in DOMAIN pages[c]
    /\ said' = [said EXCEPT ![c] = @ \o pages[c][follow[c]].items]
    /\ follow' = [follow EXCEPT ![c] = pages[c][follow[c]].next]
    /\ UNCHANGED <<pending, call, copies, accepted, outcome, onDisk, deaths>>

Die ==
    /\ deaths < MaxDeaths
    /\ deaths' = deaths + 1
    /\ call' = [c \in Selects |-> IF call[c] \in {"idle", "over"} THEN call[c] ELSE "dead"]
    /\ pending' = FALSE
    /\ UNCHANGED <<copies, accepted, outcome, onDisk, said, follow>>

SelectionNext ==
    \/ \E c \in Selects : \/ Enter(c) \/ Choose(c) \/ Finished(c) \/ Checkpoint(c)
                          \/ InterruptSelect(c) \/ Awaited(c) \/ LeaveProvider(c)
                          \/ EndSelect(c) \/ Publish(c) \/ ReadPage(c)
    \/ Die

SelectionSpec == SelectionInit /\ [][SelectionNext]_selectionVars

-----------------------------------------------------------------------------
(* Properties                                                              *)

Active(c) == call[c] \notin {"idle", "over", "dead"}

\* A caller that was told a page can read every receipt of its selection, once and in
\* order, and the copies are there; a selection it was not told of leaves neither
\* pages nor copies, unless the server died or could not remove them; and there is one
\* selection at a time, with its thread (selection_pages.py 1-10).
SelectionsAreWhole ==
    /\ \A c \in Selects : call[c] = "over" =>
         /\ outcome[c] = "page" => copies[c] = "kept" /\ dir[c]
         /\ outcome[c] = "page" =>
              IF follow[c] = 0 THEN said[c] = batch[c]
              ELSE IsPrefix(said[c], batch[c]) /\ follow[c] \in DOMAIN pages[c]
         /\ outcome[c] # "page" /\ ~rolled[c] => ~dir[c]
         /\ outcome[c] \notin {"page", "receipt"} => copies[c] \in {"none", "gone"}
         /\ thread[c] \in {"none", "returned", "failed"}
    /\ pending <=> \E c \in Selects : Active(c)
    /\ \A c, d \in Selects : Active(c) /\ Active(d) => c = d
=============================================================================
