--------------------------- MODULE ExportDelivery ---------------------------
(***************************************************************************)
(* save_export and its sweep (artifacts/delivery.py): exports named by     *)
(* their digest, published by linking a finished private temporary, in a   *)
(* directory any number of processes export into.                          *)
(*                                                                         *)
(* An export in progress is a writer; a writer's temporary has a name of   *)
(* its own (a UUID), so a writer also names its temporary and the inode.   *)
(* Two locks: the directory's, held while a writer sweeps and creates, and *)
(* each temporary's, held by its writer until it is unlinked.  Both are    *)
(* flocks, which a death releases.  A power loss ends every writer, may    *)
(* drop or bring back directory entries not fsynced since they changed, and *)
(* truncates contents not fsynced.  The directory itself stays: that the   *)
(* first export of a grant makes it, and its parents, without an fsync of  *)
(* theirs (artifacts/intake.py 36-50) is outside the model.                *)
(***************************************************************************)
EXTENDS Naturals, FiniteSets

CONSTANTS
    Writers,        \* calls of save_export
    Digests,        \* contents exported, by digest
    MaxLosses,      \* bound: power losses
    Absent,         \* no file has this name
    Foreign         \* a file with this name holds other bytes

ASSUME ExportAssumption == {Absent, Foreign} \cap Writers = {} /\ MaxLosses \in Nat

VARIABLES
    saving,         \* per writer: its place in save_export
    digest,         \* per writer: what it exports
    dirLock,        \* the writer that holds the directory's lock, or Absent
    todo,           \* entries the sweeper has still to look at
    opened,         \* the temporary the sweeper has open, or Absent
    tmp,            \* temporaries whose entry exists
    tmpLock,        \* temporaries whose lock is held by their writer
    bytes,          \* per temporary: "none", "part" or "whole"
    synced,         \* temporaries fsynced
    name,           \* per digest: the inode its name is linked to
    safe,           \* names whose entry is fsynced
    abandoned,      \* what was abandoned when the last sweep began
    losses          \* power losses so far

exportVars == <<saving, digest, dirLock, todo, opened, tmp, tmpLock, bytes, synced,
                name, safe, abandoned, losses>>

Places == {"new", "sweeping", "created", "writing", "written", "synced", "linked",
           "exists", "published", "returned", "failed", "dead"}

ExportTypeOK ==
    /\ saving \in [Writers -> Places]
    /\ digest \in [Writers -> Digests]
    /\ dirLock \in Writers \cup {Absent} /\ opened \in Writers \cup {Absent}
    /\ todo \subseteq Writers /\ abandoned \subseteq Writers
    /\ tmp \subseteq Writers /\ tmpLock \subseteq Writers /\ synced \subseteq Writers
    /\ bytes \in [Writers -> {"none", "part", "whole"}]
    /\ name \in [Digests -> Writers \cup {Absent, Foreign}]
    /\ safe \subseteq Digests
    /\ losses \in 0..MaxLosses

ExportInit ==
    /\ saving = [w \in Writers |-> "new"]
    /\ digest \in [Writers -> Digests]
    /\ dirLock = Absent /\ opened = Absent
    /\ todo = {} /\ tmp = {} /\ tmpLock = {} /\ synced = {} /\ abandoned = {}
    /\ bytes = [w \in Writers |-> "none"]
    /\ name \in [Digests -> {Absent, Foreign}]
    /\ safe = Digests
    /\ losses = 0

Over(w) == saving[w] \in {"returned", "failed", "dead"}

Goes(w, place) == saving' = [saving EXCEPT ![w] = place]

-----------------------------------------------------------------------------
(* Under the directory's lock: the sweep, and the new temporary            *)

LockDirectory(w) ==
    /\ saving[w] = "new" /\ dirLock = Absent
    /\ Goes(w, "sweeping")
    /\ dirLock' = w /\ todo' = tmp /\ opened' = Absent
    /\ abandoned' = {e \in tmp : Over(e)}
    /\ UNCHANGED <<digest, tmp, tmpLock, bytes, synced, name, safe, losses>>

\* The entry is opened before it is locked: its writer may finish in between.
OpenEntry(w) ==
    /\ saving[w] = "sweeping" /\ opened = Absent
    /\ \E e \in todo :
         /\ todo' = todo \ {e}
         /\ opened' = IF e \in tmp THEN e ELSE Absent
    /\ UNCHANGED <<saving, digest, dirLock, tmp, tmpLock, bytes, synced, name, safe,
                   abandoned, losses>>

\* A locked temporary is somebody's; a name that is gone needs no unlink.
Sweepable(e) == e \notin tmpLock /\ e \in tmp

SweepEntry(w) ==
    /\ saving[w] = "sweeping" /\ opened # Absent
    /\ tmp' = IF Sweepable(opened) THEN tmp \ {opened} ELSE tmp
    /\ opened' = Absent
    /\ UNCHANGED <<saving, digest, dirLock, todo, tmpLock, bytes, synced, name, safe,
                   abandoned, losses>>

LocksLater(w) == tmpLock' = tmpLock                             \* mutant
LocksTemporary(w) == tmpLock' = tmpLock \cup {w}

\* Creation and the writer's own lock are atomic for sweepers: the directory is
\* released after both.
Create(w) ==
    /\ saving[w] = "sweeping" /\ opened = Absent /\ todo = {}
    /\ tmp' = tmp \cup {w}
    /\ LocksTemporary(w)
    /\ dirLock' = Absent
    /\ Goes(w, "created")
    /\ UNCHANGED <<digest, todo, opened, bytes, synced, name, safe, abandoned, losses>>

-----------------------------------------------------------------------------
(* Writing and publishing                                                  *)

Write(w) ==
    /\ \/ saving[w] = "created" /\ Goes(w, "writing") /\ bytes' = [bytes EXCEPT ![w] = "part"]
       \/ saving[w] = "writing" /\ Goes(w, "written") /\ bytes' = [bytes EXCEPT ![w] = "whole"]
    /\ UNCHANGED <<digest, dirLock, todo, opened, tmp, tmpLock, synced, name, safe,
                   abandoned, losses>>

SyncsNothing(w) == UNCHANGED synced                             \* mutant
SyncsFile(w) == synced' = synced \cup {w}

Sync(w) ==
    /\ saving[w] = "written"
    /\ SyncsFile(w)
    /\ Goes(w, "synced")
    /\ UNCHANGED <<digest, dirLock, todo, opened, tmp, tmpLock, bytes, name, safe,
                   abandoned, losses>>

\* os.link never replaces: an existing name is compared instead.  A temporary whose
\* name was swept cannot be linked.
Link(w) ==
    /\ saving[w] = "synced"
    /\ \/ /\ w \notin tmp
          /\ Goes(w, "failed")
          /\ tmpLock' = tmpLock \ {w}
          /\ UNCHANGED <<name, safe>>
       \/ /\ w \in tmp /\ name[digest[w]] = Absent
          /\ name' = [name EXCEPT ![digest[w]] = w]
          /\ safe' = safe \ {digest[w]}
          /\ Goes(w, "linked")
          /\ UNCHANGED tmpLock
       \/ /\ w \in tmp /\ name[digest[w]] # Absent
          /\ Goes(w, "exists")
          /\ UNCHANGED <<name, safe, tmpLock>>
    /\ UNCHANGED <<digest, dirLock, todo, opened, tmp, bytes, synced, abandoned, losses>>

SameBytes(d) == name[d] # Foreign /\ bytes[name[d]] = "whole"

\* The existing file must have the expected bytes; a file that does not is corrupt.
Compare(w) ==
    /\ saving[w] = "exists"
    /\ IF SameBytes(digest[w])
       THEN Goes(w, "linked") /\ UNCHANGED <<tmp, tmpLock>>
       ELSE /\ Goes(w, "failed")
            /\ tmp' = tmp \ {w} /\ tmpLock' = tmpLock \ {w}
    /\ UNCHANGED <<digest, dirLock, todo, opened, bytes, synced, name, safe, abandoned,
                   losses>>

\* The directory is fsynced even if another writer made the link: that one may not
\* have come so far.
SyncDirectory(w) ==
    /\ saving[w] = "linked"
    /\ safe' = Digests
    /\ Goes(w, "published")
    /\ UNCHANGED <<digest, dirLock, todo, opened, tmp, tmpLock, bytes, synced, name,
                   abandoned, losses>>

\* The temporary is unlinked and closed, which frees its lock.
Return(w) ==
    /\ saving[w] = "published"
    /\ tmp' = tmp \ {w} /\ tmpLock' = tmpLock \ {w}
    /\ Goes(w, "returned")
    /\ UNCHANGED <<digest, dirLock, todo, opened, bytes, synced, name, safe, abandoned,
                   losses>>

\* A write, a sync or a link that fails removes the temporary on the way out.
WriteFails(w) ==
    /\ saving[w] \in {"created", "writing", "written", "synced", "linked"}
    /\ tmp' = tmp \ {w} /\ tmpLock' = tmpLock \ {w}
    /\ Goes(w, "failed")
    /\ UNCHANGED <<digest, dirLock, todo, opened, bytes, synced, name, safe, abandoned,
                   losses>>

-----------------------------------------------------------------------------
(* Deaths                                                                  *)

Kill(w) ==
    /\ ~Over(w) /\ saving[w] # "new"
    /\ Goes(w, "dead")
    /\ tmpLock' = tmpLock \ {w}
    /\ IF dirLock = w
       THEN dirLock' = Absent /\ todo' = {} /\ opened' = Absent
       ELSE UNCHANGED <<dirLock, todo, opened>>
    /\ UNCHANGED <<digest, tmp, bytes, synced, name, safe, abandoned, losses>>

\* Links not fsynced may be gone, temporaries may be gone or back, and what was not
\* fsynced is cut.
PowerLoss ==
    /\ losses < MaxLosses
    /\ losses' = losses + 1
    /\ saving' = [w \in Writers |->
                    IF saving[w] = "new" \/ Over(w) THEN saving[w] ELSE "dead"]
    /\ dirLock' = Absent /\ opened' = Absent /\ todo' = {} /\ tmpLock' = {}
    /\ \E lost \in SUBSET (Digests \ safe) :
         name' = [d \in Digests |-> IF d \in lost THEN Absent ELSE name[d]]
    /\ tmp' \in SUBSET {w \in Writers : bytes[w] # "none" \/ w \in tmp}
    /\ bytes' = [w \in Writers |-> IF w \in synced \/ bytes[w] = "none" THEN bytes[w]
                                   ELSE "part"]
    /\ safe' = Digests
    /\ abandoned' = {}
    /\ UNCHANGED <<digest, synced>>

-----------------------------------------------------------------------------
WriterStep(w) ==
    \/ LockDirectory(w) \/ OpenEntry(w) \/ SweepEntry(w) \/ Create(w)
    \/ Write(w) \/ Sync(w) \/ Link(w) \/ Compare(w) \/ SyncDirectory(w) \/ Return(w)

ExportNext ==
    \/ \E w \in Writers : WriterStep(w) \/ WriteFails(w) \/ Kill(w)
    \/ PowerLoss

ExportSpec == ExportInit /\ [][ExportNext]_exportVars

-----------------------------------------------------------------------------
(* Properties                                                              *)

\* What a published name holds is a whole export, always: during another writer's
\* work, after a kill, after a power loss; and an export that save_export returned is
\* there after any power loss, whoever made the link.
NamesHoldExports ==
    /\ \A d \in Digests : name[d] \in Writers => bytes[name[d]] = "whole"
    /\ \A w \in Writers : saving[w] = "returned" => name[digest[w]] \notin {Absent, Foreign}

\* No sweep takes the temporary of a writer still at work, though it may have opened
\* it before that writer locked, linked or unlinked anything; and a sweep that is over
\* left nothing that was abandoned when it began.
SweepIsExact ==
    /\ \A w \in Writers :
         saving[w] \in {"created", "writing", "written", "synced", "exists", "linked",
                       "published"} => w \in tmp
    /\ (dirLock # Absent /\ todo = {} /\ opened = Absent) => abandoned \cap tmp = {}

\* An export is complete or absent, and what is left of one is swept and nothing else
\* (delivery.py, save_export and _sweep_exports).
ExportsLast == NamesHoldExports /\ SweepIsExact
=============================================================================
