--------------------------- MODULE ArtifactStore ---------------------------
(***************************************************************************)
(* The artifact store of one input grant: how an import turns a private    *)
(* staging directory into a retained document (artifacts/service.py,       *)
(* store.py, retention.py, worker.py).                                     *)
(*                                                                         *)
(* Importer processes share one store.  An import holds the store's lock,  *)
(* clears what dead imports left in staging, copies the source, lets a     *)
(* parser process write the extraction, measures the store, seals the      *)
(* manifest and renames the directory into documents.  A process can be    *)
(* killed between any two steps, and its parser, in a session of its own,  *)
(* lives on.  A machine can lose power, and with it every file content and *)
(* every directory entry that was not synced.  The directories of the      *)
(* store itself stay: that the first start makes them without an fsync     *)
(* (store.py 99-117, intake.py 36-50) is outside the model.                *)
(***************************************************************************)
EXTENDS Naturals, FiniteSets

CONSTANTS
    Importers,      \* processes that can import
    Docs,           \* artifact identifiers (document and engine identity)
    Dirs,           \* names mkdtemp can give out
    StoreLimit,     \* store_bytes, counted in documents
    OtherWriters,   \* do other processes write job records or exports?
    MaxCrashes,     \* bound: kills and power losses
    Nobody,         \* the owner of the free lock
    None            \* no directory, no document

ASSUME StoreAssumption ==
    /\ StoreLimit \in Nat /\ MaxCrashes \in Nat
    /\ OtherWriters \in BOOLEAN
    /\ Nobody \notin Importers
    /\ None \notin Dirs \cup Docs

VARIABLES
    lock,           \* .import.lock
    pc,             \* control state of each importer
    doc,            \* the identity of the bytes it copied
    dir,            \* its staging directory
    staging,        \* directories below staging/
    files,          \* the files of each directory
    synced,         \* those of them whose content was fsynced
    sealed,         \* directories that were fsynced themselves
    worker,         \* directories a parser process works in
    documents,      \* documents[d]: the directory renamed to d, or None
    durable,        \* documents when its directory was last fsynced
    receipts,       \* receipts[d]: "none" returned for d yet, "exposed" ones of a document
                    \* whose rename is not synced, or "synced" once it is
    temporary,      \* another process has a temporary file below the root
    walk,           \* what an importer's walk of the root made of that file
    crashes         \* kills and power losses so far

fileVars == <<staging, files, synced, sealed>>
docVars == <<documents, durable, receipts>>
vars == <<lock, pc, doc, dir, fileVars, worker, docVars, temporary, walk, crashes>>

\* source.pdf, the parser's response.json and passages.jsonl, manifest.json.
Source == {"source"}
Extraction == {"response", "passages"}
Manifest == {"manifest"}
AllFiles == Source \cup Extraction \cup Manifest

Published == {documents[d] : d \in Docs} \ {None}

\* An importer that owns a staging directory, and one that holds the lock.
OwnsStaging == {"copying", "copied", "extracting", "extracted", "measuring",
                "measured", "manifest", "staged", "aborting", "cleaning"}
Importing == {"sweeping", "renamed"} \cup OwnsStaging

TypeOK ==
    /\ lock \in Importers \cup {Nobody}
    /\ pc \in [Importers -> {"idle"} \cup Importing]
    /\ doc \in [Importers -> Docs \cup {None}]
    /\ dir \in [Importers -> Dirs \cup {None}]
    /\ staging \subseteq Dirs
    /\ files \in [Dirs -> SUBSET AllFiles]
    /\ synced \in [Dirs -> SUBSET AllFiles]
    /\ sealed \subseteq Dirs
    /\ worker \subseteq Dirs
    /\ documents \in [Docs -> Dirs \cup {None}]
    /\ durable \in [Docs -> Dirs \cup {None}]
    /\ receipts \in [Docs -> {"none", "exposed", "synced"}]
    /\ temporary \in {"none", "there"}
    /\ walk \in [Importers -> {"clear", "listed", "gone"}]
    /\ crashes \in 0..MaxCrashes

Init ==
    /\ lock = Nobody
    /\ pc = [p \in Importers |-> "idle"]
    /\ doc = [p \in Importers |-> None]
    /\ dir = [p \in Importers |-> None]
    /\ staging = {}
    /\ files = [t \in Dirs |-> {}]
    /\ synced = [t \in Dirs |-> {}]
    /\ sealed = {}
    /\ worker = {}
    /\ documents = [d \in Docs |-> None]
    /\ durable = [d \in Docs |-> None]
    /\ receipts = [d \in Docs |-> "none"]
    /\ temporary = "none"
    /\ walk = [p \in Importers |-> "clear"]
    /\ crashes = 0

-----------------------------------------------------------------------------
(* Helpers                                                                 *)

Go(p, from, to) ==
    /\ pc[p] = from
    /\ pc' = [pc EXCEPT ![p] = to]

\* Files written to directory t, each fsynced before it is closed.  Their names
\* last only once the directory is synced.
SyncedFiles(new) == new

Write(t, new) ==
    /\ files' = [files EXCEPT ![t] = @ \cup new]
    /\ synced' = [synced EXCEPT ![t] = @ \cup SyncedFiles(new)]
    /\ sealed' = sealed \ {t}

\* Nothing of directory t can be lost.
Synced(t) == files[t] = {} \/ (t \in sealed /\ files[t] = synced[t])

\* Directories ts are removed from staging with everything in them.
Remove(ts) ==
    /\ staging' = staging \ ts
    /\ files' = [t \in Dirs |-> IF t \in ts THEN {} ELSE files[t]]
    /\ synced' = [t \in Dirs |-> IF t \in ts THEN {} ELSE synced[t]]
    /\ sealed' = sealed \ ts

\* mkdtemp's names are random; none is in use.
FreeNames == Dirs \ (staging \cup Published \cup worker)

\* The call is over: the lock is released and its local variables are gone.
EndImport(p) ==
    /\ lock' = Nobody
    /\ dir' = [dir EXCEPT ![p] = None]
    /\ doc' = [doc EXCEPT ![p] = None]

-----------------------------------------------------------------------------
(* One import                                                              *)

LockIgnored == TRUE                                           \* mutant
LockFree == lock = Nobody

\* The store's lock is tried once; an import that finds it taken is "busy" and
\* changes nothing.  Names are unlimited; in a model with finitely many of
\* them an import needs one that is left.
TakeImportLock(p) ==
    /\ LockFree
    /\ (staging \cup FreeNames) \ worker # {}
    /\ Go(p, "idle", "sweeping")
    /\ lock' = p
    /\ UNCHANGED <<doc, dir, fileVars, worker, docVars, temporary, walk, crashes>>

\* What is in staging when the lock is taken was left by imports that died.
SweptNothing == {}                                            \* mutant
Swept == staging

Sweep(p) ==
    /\ Go(p, "sweeping", "copying")
    /\ Remove(Swept)
    /\ UNCHANGED <<lock, doc, dir, worker, docVars, temporary, walk, crashes>>

\* A parser that outlived its importer can make the removal fail.  The import
\* ends with an error and the directory stays.
SweepFails(p) ==
    /\ staging \cap worker # {}
    /\ Go(p, "sweeping", "idle")
    /\ EndImport(p)
    /\ UNCHANGED <<fileVars, worker, docVars, temporary, walk, crashes>>

\* mkdtemp, then copy_source: the bytes that were read decide which document
\* this is.
CopySource(p) ==
    /\ Go(p, "copying", "copied")
    /\ \E t \in FreeNames, d \in Docs :
           /\ staging' = staging \cup {t}
           /\ dir' = [dir EXCEPT ![p] = t]
           /\ doc' = [doc EXCEPT ![p] = d]
           /\ Write(t, Source)
    /\ UNCHANGED <<lock, worker, docVars, temporary, walk, crashes>>

\* The document is retained already.  Its files are verified before the
\* receipt says "reused"; what fails the verification is refused and never
\* replaced, and CompleteDocuments says that no crash leaves such a document.
\* Nothing is synced: the import that published it may have died, or failed,
\* before it synced the documents directory.
Reuse(p) ==
    /\ Go(p, "copied", "idle")
    /\ documents[doc[p]] # None /\ files[documents[doc[p]]] = AllFiles
    /\ receipts' = [receipts EXCEPT ![doc[p]] =
                        IF durable[doc[p]] = None THEN "exposed" ELSE "synced"]
    /\ Remove({dir[p]})
    /\ EndImport(p)
    /\ UNCHANGED <<worker, documents, durable, temporary, walk, crashes>>

\* Starts a disposable parser, or hands the directory to the warm one.
StartParser(p) ==
    /\ Go(p, "copied", "extracting")
    /\ documents[doc[p]] = None
    /\ worker' = worker \cup {dir[p]}
    /\ UNCHANGED <<lock, doc, dir, fileVars, docVars, temporary, walk, crashes>>

\* retain_response: the importer writes an extraction it was given.
WriteResponse(p) ==
    /\ Go(p, "copied", "extracted")
    /\ documents[doc[p]] = None
    /\ Write(dir[p], Extraction)
    /\ UNCHANGED <<lock, doc, dir, staging, worker, docVars, temporary,
                   walk, crashes>>

\* The parser has ended, or said "ok": its result decides.
Complete(p) == Extraction \subseteq files[dir[p]]

ParserEnds(p) ==
    /\ dir[p] \notin worker
    /\ \/ Go(p, "extracting", "extracted") /\ Complete(p)
       \/ Go(p, "extracting", "aborting") /\ ~Complete(p)
    /\ UNCHANGED <<lock, doc, dir, fileVars, worker, docVars, temporary, walk,
                   crashes>>

\* Store.size walks the whole root.  It lists names ...
ListStore(p) ==
    /\ Go(p, "extracted", "measuring")
    /\ walk' = [walk EXCEPT ![p] = IF temporary = "there" THEN "listed" ELSE "clear"]
    /\ UNCHANGED <<lock, doc, dir, fileVars, worker, docVars, temporary, crashes>>

\* ... and then asks for the size of each, an error for a name that is gone.
OverLimitIgnored == FALSE                                     \* mutant
OverLimit == Cardinality(Published) + 1 > StoreLimit

MeasureStore(p) ==
    /\ walk[p] # "gone" /\ ~OverLimit
    /\ Go(p, "measuring", "measured")
    /\ UNCHANGED <<lock, doc, dir, fileVars, worker, docVars, temporary, walk,
                   crashes>>

\* Either way the answer is "storage_limit".
MeasureFails(p) ==
    /\ walk[p] = "gone" \/ OverLimit
    /\ Go(p, "measuring", "aborting")
    /\ UNCHANGED <<lock, doc, dir, fileVars, worker, docVars, temporary, walk,
                   crashes>>

\* manifest.json is written and synced; job.json and result.json are removed.
WriteManifest(p) ==
    /\ Go(p, "measured", "manifest")
    /\ Write(dir[p], Manifest)
    /\ UNCHANGED <<lock, doc, dir, staging, worker, docVars, temporary,
                   walk, crashes>>

\* The staging directory itself is synced, so the names of its files last.
ToSealNone(p) == {}                                           \* mutant
ToSeal(p) == {dir[p]}

SyncStaging(p) ==
    /\ Go(p, "manifest", "staged")
    /\ sealed' = sealed \cup ToSeal(p)
    /\ UNCHANGED <<lock, doc, dir, staging, files, synced, worker, docVars,
                   temporary, walk, crashes>>

\* os.rename into documents.  It refuses a name that is taken.
Rename(p) ==
    /\ Go(p, "staged", "renamed")
    /\ documents[doc[p]] = None
    /\ staging' = staging \ {dir[p]}
    /\ documents' = [documents EXCEPT ![doc[p]] = dir[p]]
    /\ UNCHANGED <<lock, doc, dir, files, synced, sealed, worker, durable,
                   receipts, temporary, walk, crashes>>

\* The documents directory is synced before the receipt is returned.
DurableUnsynced == durable                                    \* mutant
Durable == documents

SyncDocuments(p) ==
    /\ Go(p, "renamed", "idle")
    /\ durable' = Durable
    /\ receipts' = [d \in Docs |->
                        IF d = doc[p] \/ (receipts[d] = "exposed" /\ documents[d] # None)
                        THEN "synced" ELSE receipts[d]]
    /\ EndImport(p)
    /\ UNCHANGED <<fileVars, worker, documents, temporary, walk, crashes>>

\* When that fails the import fails, with the document in place.
SyncFails(p) ==
    /\ Go(p, "renamed", "idle")
    /\ EndImport(p)
    /\ UNCHANGED <<fileVars, worker, docVars, temporary, walk, crashes>>

\* Cancellation, the deadline, an error: anything raised before the rename.
Abort(p) ==
    /\ \E from \in {"copied", "extracting", "extracted", "measured", "manifest",
                    "staged"} : Go(p, from, "aborting")
    /\ UNCHANGED <<lock, doc, dir, fileVars, worker, docVars, temporary, walk,
                   crashes>>

\* The parser's process group is killed and waited for first ...
KilledNone(p) == {}                                           \* mutant
Killed(p) == {dir[p]}

KillParser(p) ==
    /\ Go(p, "aborting", "cleaning")
    /\ worker' = worker \ Killed(p)
    /\ UNCHANGED <<lock, doc, dir, fileVars, docVars, temporary, walk, crashes>>

\* ... then staging is removed and the lock released.
CleanUp(p) ==
    /\ Go(p, "cleaning", "idle")
    /\ Remove({dir[p]})
    /\ EndImport(p)
    /\ UNCHANGED <<worker, docVars, temporary, walk, crashes>>

-----------------------------------------------------------------------------
(* The parser process                                                      *)

\* Writes and syncs an output file, by a path that is gone once staging is.
ParserWrites(t) ==
    /\ t \in worker /\ t \in staging
    /\ \E f \in Extraction \ files[t] : Write(t, {f})
    /\ UNCHANGED <<lock, pc, doc, dir, staging, worker, docVars,
                   temporary, walk, crashes>>

\* Ends with its output written, with an error, or for want of its directory.
ParserExits(t) ==
    /\ t \in worker
    /\ worker' = worker \ {t}
    /\ UNCHANGED <<lock, pc, doc, dir, fileVars, docVars, temporary, walk,
                   crashes>>

-----------------------------------------------------------------------------
(* Environment                                                             *)

\* Job records and exports are written below the same root as a temporary file
\* that is then renamed or removed, without this lock.
OtherWriter ==
    /\ OtherWriters
    /\ temporary' = IF temporary = "none" THEN "there" ELSE "none"
    /\ walk' = [p \in Importers |-> IF temporary = "there" /\ walk[p] = "listed"
                                    THEN "gone" ELSE walk[p]]
    /\ UNCHANGED <<lock, pc, doc, dir, fileVars, worker, docVars, crashes>>

\* An importer is killed: its lock is dropped, its files stay and its parser,
\* in a session of its own, lives on.
ImporterDies(p) ==
    /\ pc[p] # "idle"
    /\ crashes < MaxCrashes
    /\ crashes' = crashes + 1
    /\ pc' = [pc EXCEPT ![p] = "idle"]
    /\ EndImport(p)
    /\ UNCHANGED <<fileVars, worker, docVars, temporary, walk>>

\* The machine stops.  Of what was not synced any part can be missing when it
\* starts again: an entry of documents, and in the directories it breaks any
\* file whose content or whose name was never synced.  What is left is on disk, so a
\* receipt that was exposed is void or as good as synced.
PowerLoss ==
    /\ crashes < MaxCrashes
    /\ crashes' = crashes + 1
    /\ pc' = [p \in Importers |-> "idle"]
    /\ doc' = [p \in Importers |-> None]
    /\ dir' = [p \in Importers |-> None]
    /\ lock' = Nobody
    /\ worker' = {}
    /\ walk' = [p \in Importers |-> "clear"]
    /\ temporary' = "none"
    /\ \E lost \in SUBSET {d \in Docs : documents[d] # durable[d]} :
           documents' = [d \in Docs |-> IF d \in lost THEN durable[d]
                                        ELSE documents[d]]
    /\ durable' = documents'
    /\ staging' = staging \cup (Published \ Published')
    /\ \E broken \in SUBSET {t \in Dirs : ~Synced(t)},
          missing \in SUBSET AllFiles :
           files' = [t \in Dirs |->
                        IF t \notin broken THEN files[t]
                        ELSE IF t \in sealed
                        THEN files[t] \ (missing \ synced[t])
                        ELSE files[t] \ missing]
    /\ synced' = files'
    /\ sealed' = staging' \cup Published'
    /\ receipts' = [d \in Docs |-> IF receipts[d] # "exposed" THEN receipts[d]
                                   ELSE IF documents'[d] = None THEN "none"
                                   ELSE "synced"]

-----------------------------------------------------------------------------
(* The next-state relation                                                 *)

\* What an import does once it holds the lock.
ImportStep(p) ==
    \/ Sweep(p) \/ SweepFails(p) \/ CopySource(p) \/ Reuse(p)
    \/ StartParser(p) \/ WriteResponse(p) \/ ParserEnds(p)
    \/ ListStore(p) \/ MeasureStore(p) \/ MeasureFails(p)
    \/ WriteManifest(p) \/ SyncStaging(p) \/ Rename(p)
    \/ SyncDocuments(p) \/ SyncFails(p)
    \/ KillParser(p) \/ CleanUp(p)

Next ==
    \/ \E p \in Importers : TakeImportLock(p) \/ ImportStep(p) \/ Abort(p)
    \/ \E t \in Dirs : ParserWrites(t) \/ ParserExits(t)
    \/ OtherWriter
    \/ \E p \in Importers : ImporterDies(p)
    \/ PowerLoss

Spec == Init /\ [][Next]_vars

\* An import that holds the lock goes on, a parser ends (its conversion is
\* under the import's deadline), and some client imports again and again.
Fairness ==
    /\ \A p \in Importers : WF_vars(ImportStep(p))
    /\ \A t \in Dirs : WF_vars(ParserExits(t))
    /\ SF_vars(\E p \in Importers : TakeImportLock(p))

FairSpec == Spec /\ Fairness

-----------------------------------------------------------------------------
(* Properties                                                              *)

\* "Reads only observe committed artifact directories": whatever is visible
\* under documents has all its files, after a power loss too.
CompleteDocuments ==
    \A d \in Docs : documents[d] # None => files[documents[d]] = AllFiles

\* No document that any import has returned a receipt for is lost once its directory entry
\* is on disk.  For an import that publishes, that is before it returns ("A successful
\* receipt follows file and directory fsync", service.py 5, 375-377).  One that finds the
\* document in place syncs nothing (288-291): if the import that renamed it ended before
\* its sync, the receipt is exposed until a later import syncs the directory or a power
\* loss has spared the entry, and the property says nothing of it until then.
SyncedReceiptsSurvive ==
    \A d \in Docs : receipts[d] = "synced" => documents[d] # None

\* "No active importer can own staging while this lock is held": no sweep
\* takes the directory of an import that is under way.
StagingIsOwned ==
    \A p \in Importers : pc[p] \in OwnsStaging \ {"copying"} =>
        /\ dir[p] \in staging
        /\ \A q \in Importers \ {p} : dir[q] # dir[p]

\* "Cancellation terminates the parser process before staging cleanup and lock
\* release complete": unless an importer was killed, a parser runs only for
\* the import that holds the lock.
ParserUnderLock ==
    crashes = 0 => \A t \in worker : lock # Nobody /\ dir[lock] = t

\* Imports never take the store past its limit: no two measure the same room.
StoreWithinLimit == Cardinality(Published) <= StoreLimit

\* What a dead import left in staging does not stay for ever.
LeftoversSwept ==
    \A t \in Dirs :
        t \in staging /\ (\A p \in Importers : dir[p] # t) ~> t \notin staging
=============================================================================
