------------------------ MODULE ArtifactStoreProofs ------------------------
(***************************************************************************)
(* Proofs about ArtifactStore, for every number of importers, documents,   *)
(* kills and power losses.                                                 *)
(*                                                                         *)
(* The lock gives one import the staging tree to itself (LockInv, DirInv), *)
(* so what it has written stays written (FilesInv); what it renames is     *)
(* complete, synced and no longer written to by any parser (PublishedInv,  *)
(* WorkerInv); and the sync of documents makes its entry permanent, which  *)
(* is before the receipt of the import that published it (DurableInv).     *)
(***************************************************************************)
EXTENDS ArtifactStore, TLAPS, FiniteSetTheorems

-----------------------------------------------------------------------------
(* The inductive invariant                                                 *)

HasDirectory == OwnsStaging \ {"copying"}
HasExtraction == {"extracted", "measuring", "measured", "manifest", "staged"}
HasRoom == {"measured", "manifest", "staged"}
ParserGone == HasExtraction \cup {"copied", "renamed", "cleaning"}

\* The holder of the lock is the one import under way.
LockInv == \A p \in Importers : pc[p] # "idle" <=> lock = p

\* It has a staging directory of its own until it renames or removes it.
DirInv ==
    \A p \in Importers :
        /\ pc[p] \in HasDirectory => dir[p] \in staging /\ doc[p] \in Docs
        /\ pc[p] = "renamed" => doc[p] \in Docs /\ documents[doc[p]] # None
        /\ pc[p] \in {"idle", "sweeping", "copying"} => dir[p] = None

\* What the import has written so far is there.
FilesInv ==
    \A p \in Importers :
        /\ pc[p] \in HasDirectory => Source \subseteq files[dir[p]]
        /\ pc[p] \in HasExtraction => Extraction \subseteq files[dir[p]]
        /\ pc[p] \in {"manifest", "staged"} => Manifest \subseteq files[dir[p]]
        /\ pc[p] = "staged" => dir[p] \in sealed

\* A parser works for the import that started it, or for one that died.
WorkerInv ==
    /\ \A p \in Importers : pc[p] \in ParserGone => dir[p] \notin worker
    /\ ParserUnderLock

\* Contents are synced as they are written; only live directories are sealed.
SyncInv ==
    /\ \A t \in Dirs : synced[t] = files[t]
    /\ sealed \subseteq staging \cup Published

\* A document is complete, its bytes and names are on disk.
PublishedInv ==
    \A d \in Docs : documents[d] # None =>
        /\ documents[d] \notin staging
        /\ files[documents[d]] = AllFiles
        /\ documents[d] \in sealed

\* Entries of documents are only added, and one that a receipt counts as synced is
\* among those the last sync has made permanent.
DurableInv ==
    /\ \A d \in Docs : durable[d] # None => documents[d] = durable[d]
    /\ \A d \in Docs : receipts[d] = "synced" => durable[d] # None

\* An import that has measured the store has room for its document.
RoomInv ==
    /\ IsFiniteSet(Published) /\ StoreWithinLimit
    /\ \A p \in Importers :
           pc[p] \in HasRoom => Cardinality(Published) + 1 <= StoreLimit

\* All of it but the room in the store.
Core == TypeOK /\ LockInv /\ DirInv /\ FilesInv /\ WorkerInv /\ SyncInv
        /\ PublishedInv /\ DurableInv

IInv == Core /\ RoomInv

-----------------------------------------------------------------------------
(* The state of the directories                                            *)

\* Writing adds the new files, each synced, to one directory, which is unsealed until it is
\* synced too, and leaves the others alone.
LEMMA WriteEffect ==
    ASSUME TypeOK, SyncInv, NEW t \in Dirs, NEW new \in SUBSET AllFiles, Write(t, new)
    PROVE  /\ files' \in [Dirs -> SUBSET AllFiles]
           /\ synced' \in [Dirs -> SUBSET AllFiles]
           /\ sealed' = sealed \ {t}
           /\ files'[t] = files[t] \cup new
           /\ \A u \in Dirs \ {t} : files'[u] = files[u]
           /\ \A u \in Dirs : synced'[u] = files'[u]
<1>1. /\ files' = [files EXCEPT ![t] = @ \cup new]
      /\ synced' = [synced EXCEPT ![t] = @ \cup new]
      /\ sealed' = sealed \ {t}
  BY DEF Write, SyncedFiles
<1>2. /\ files \in [Dirs -> SUBSET AllFiles]
      /\ synced \in [Dirs -> SUBSET AllFiles]
      /\ \A u \in Dirs : synced[u] = files[u]
  BY DEF TypeOK, SyncInv
<1>3. \A u \in Dirs : synced'[u] = files'[u]
  <2>1. ASSUME NEW u \in Dirs PROVE synced'[u] = files'[u]
    BY <1>1, <1>2, <2>1
  <2>2. QED BY <2>1
<1>4. QED BY <1>1, <1>2, <1>3

\* The empty store satisfies the core of the invariant.
LEMMA CoreInit == Init => Core
<1> SUFFICES ASSUME Init PROVE Core
  OBVIOUS
<1> USE StoreAssumption DEF Init
<1>1. TypeOK BY DEF TypeOK
<1>2. LockInv BY DEF LockInv
<1>3. DirInv BY DEF DirInv, HasDirectory, OwnsStaging
<1>4. FilesInv BY DEF FilesInv, HasDirectory, OwnsStaging, HasExtraction
<1>5. WorkerInv BY DEF WorkerInv, ParserUnderLock
<1>6. SyncInv BY DEF SyncInv
<1>7. PublishedInv /\ DurableInv BY DEF PublishedInv, DurableInv
<1>8. QED BY <1>1, <1>2, <1>3, <1>4, <1>5, <1>6, <1>7 DEF Core

\* The steps that write files.
LEMMA CoreWrites ==
    ASSUME Core,
           \/ \E p \in Importers : CopySource(p) \/ WriteResponse(p) \/ WriteManifest(p)
           \/ \E t \in Dirs : ParserWrites(t)
    PROVE  Core'
<1> USE StoreAssumption
<1> USE DEF Core, TypeOK, LockInv, DirInv, FilesInv, WorkerInv, SyncInv,
            PublishedInv, DurableInv, ParserUnderLock, Published,
            OwnsStaging, Importing, HasDirectory, HasExtraction, ParserGone,
            AllFiles, Source, Extraction, Manifest, Go, docVars
<1>1. ASSUME NEW p \in Importers, CopySource(p) PROVE Core'
  <2>1. PICK t \in FreeNames, d \in Docs :
           /\ staging' = staging \cup {t}
           /\ dir' = [dir EXCEPT ![p] = t]
           /\ doc' = [doc EXCEPT ![p] = d]
           /\ Write(t, Source)
    BY <1>1 DEF CopySource
  <2>2. t \in Dirs /\ t \notin staging \cup worker /\ (\A e \in Docs : documents[e] # t)
    BY DEF FreeNames
  <2>3. /\ files' \in [Dirs -> SUBSET AllFiles]
        /\ synced' \in [Dirs -> SUBSET AllFiles]
        /\ sealed' = sealed \ {t}
        /\ files'[t] = files[t] \cup Source
        /\ \A u \in Dirs \ {t} : files'[u] = files[u]
        /\ \A u \in Dirs : synced'[u] = files'[u]
    BY <2>1, <2>2, WriteEffect
  <2>4. QED BY <1>1, <2>1, <2>2, <2>3 DEF CopySource
<1>2. ASSUME NEW p \in Importers, WriteResponse(p) PROVE Core'
  <2>1. dir[p] \in Dirs /\ Write(dir[p], Extraction)
    BY <1>2 DEF WriteResponse
  <2>2. /\ files' \in [Dirs -> SUBSET AllFiles]
        /\ synced' \in [Dirs -> SUBSET AllFiles]
        /\ sealed' = sealed \ {dir[p]}
        /\ files'[dir[p]] = files[dir[p]] \cup Extraction
        /\ \A u \in Dirs \ {dir[p]} : files'[u] = files[u]
        /\ \A u \in Dirs : synced'[u] = files'[u]
    BY <2>1, WriteEffect
  <2>3. QED BY <1>2, <2>1, <2>2 DEF WriteResponse
<1>3. ASSUME NEW p \in Importers, WriteManifest(p) PROVE Core'
  <2>1. dir[p] \in Dirs /\ Write(dir[p], Manifest)
    BY <1>3 DEF WriteManifest
  <2>2. /\ files' \in [Dirs -> SUBSET AllFiles]
        /\ synced' \in [Dirs -> SUBSET AllFiles]
        /\ sealed' = sealed \ {dir[p]}
        /\ files'[dir[p]] = files[dir[p]] \cup Manifest
        /\ \A u \in Dirs \ {dir[p]} : files'[u] = files[u]
        /\ \A u \in Dirs : synced'[u] = files'[u]
    BY <2>1, WriteEffect
  <2>3. QED BY <1>3, <2>1, <2>2 DEF WriteManifest
<1>4. ASSUME NEW t \in Dirs, ParserWrites(t) PROVE Core'
  <2>1. PICK f \in Extraction \ files[t] : Write(t, {f})
    BY <1>4 DEF ParserWrites
  <2>2. /\ files' \in [Dirs -> SUBSET AllFiles]
        /\ synced' \in [Dirs -> SUBSET AllFiles]
        /\ sealed' = sealed \ {t}
        /\ files'[t] = files[t] \cup {f}
        /\ \A u \in Dirs \ {t} : files'[u] = files[u]
        /\ \A u \in Dirs : synced'[u] = files'[u]
    BY <2>1, WriteEffect
  <2>3. QED BY <1>4, <2>1, <2>2 DEF ParserWrites
<1>5. QED BY <1>1, <1>2, <1>3, <1>4

\* Every step.
LEMMA CoreNext == ASSUME Core, Next PROVE Core'
<1> USE StoreAssumption
<1> USE DEF Core, TypeOK, LockInv, DirInv, FilesInv, WorkerInv, SyncInv,
            PublishedInv, DurableInv, ParserUnderLock, Published,
            OwnsStaging, Importing, HasDirectory, HasExtraction, ParserGone,
            AllFiles, Source, Extraction, Manifest,
            Go, Remove, EndImport, fileVars, docVars
<1>1. ASSUME NEW p \in Importers, TakeImportLock(p) PROVE Core'
  BY <1>1 DEF TakeImportLock, LockFree
<1>2. ASSUME NEW p \in Importers, Sweep(p) PROVE Core'
  BY <1>2 DEF Sweep, Swept
<1>3. ASSUME NEW p \in Importers, SweepFails(p) PROVE Core'
  BY <1>3 DEF SweepFails
<1>4. ASSUME NEW p \in Importers, Reuse(p) PROVE Core'
  BY <1>4 DEF Reuse
<1>5. ASSUME NEW p \in Importers, StartParser(p) PROVE Core'
  BY <1>5 DEF StartParser
<1>6. ASSUME NEW p \in Importers, ParserEnds(p) PROVE Core'
  BY <1>6 DEF ParserEnds, Complete
<1>7. ASSUME NEW p \in Importers, ListStore(p) PROVE Core'
  BY <1>7 DEF ListStore
<1>8. ASSUME NEW p \in Importers, MeasureStore(p) PROVE Core'
  BY <1>8 DEF MeasureStore
<1>9. ASSUME NEW p \in Importers, MeasureFails(p) PROVE Core'
  BY <1>9 DEF MeasureFails
<1>10. ASSUME NEW p \in Importers, SyncStaging(p) PROVE Core'
  BY <1>10 DEF SyncStaging, ToSeal
<1>11. ASSUME NEW p \in Importers, Rename(p) PROVE Core'
  BY <1>11 DEF Rename
<1>12. ASSUME NEW p \in Importers, SyncDocuments(p) PROVE Core'
  BY <1>12 DEF SyncDocuments, Durable
<1>13. ASSUME NEW p \in Importers, SyncFails(p) PROVE Core'
  BY <1>13 DEF SyncFails
<1>14. ASSUME NEW p \in Importers, KillParser(p) PROVE Core'
  BY <1>14 DEF KillParser, Killed
<1>15. ASSUME NEW p \in Importers, CleanUp(p) PROVE Core'
  BY <1>15 DEF CleanUp
<1>16. ASSUME NEW p \in Importers, Abort(p) PROVE Core'
  BY <1>16 DEF Abort
<1>17. ASSUME NEW p \in Importers, ImporterDies(p) PROVE Core'
  BY <1>17 DEF ImporterDies
<1>18. ASSUME NEW t \in Dirs, ParserExits(t) PROVE Core'
  BY <1>18 DEF ParserExits
<1>19. ASSUME OtherWriter PROVE Core'
  BY <1>19 DEF OtherWriter
<1>20. ASSUME PowerLoss PROVE Core'
  <2>1. TypeOK' BY <1>20 DEF PowerLoss, Synced
  <2>2. LockInv' BY <1>20 DEF PowerLoss, Synced
  <2>3. DirInv' BY <1>20 DEF PowerLoss, Synced
  <2>4. FilesInv' BY <1>20 DEF PowerLoss, Synced
  <2>5. WorkerInv' BY <1>20 DEF PowerLoss, Synced
  <2>6. SyncInv' BY <1>20 DEF PowerLoss, Synced
  <2>7. PublishedInv' BY <1>20 DEF PowerLoss, Synced
  <2>8. DurableInv' BY <1>20 DEF PowerLoss, Synced
  <2>9. QED BY <2>1, <2>2, <2>3, <2>4, <2>5, <2>6, <2>7, <2>8
<1> HIDE DEF Core
<1>21. QED
  BY CoreWrites, <1>1, <1>2, <1>3, <1>4, <1>5, <1>6, <1>7, <1>8, <1>9, <1>10,
     <1>11, <1>12, <1>13, <1>14, <1>15, <1>16, <1>17, <1>18, <1>19, <1>20
  DEF Next, ImportStep

-----------------------------------------------------------------------------
(* Room in the store                                                       *)

\* The empty store is within its limit, and nobody has measured it yet.
LEMMA RoomInit == Init => RoomInv
<1> SUFFICES ASSUME Init PROVE RoomInv
  OBVIOUS
<1>1. Published = {}
  BY DEF Init, Published
<1>2. IsFiniteSet(Published) /\ Cardinality(Published) = 0
  BY <1>1, FS_EmptySet
<1>3. \A p \in Importers : pc[p] \notin HasRoom
  BY DEF Init, HasRoom
<1>4. QED  BY <1>2, <1>3, StoreAssumption DEF RoomInv, StoreWithinLimit

\* A store that shrinks stays finite and within its limit.
LEMMA FewerDocuments ==
    ASSUME RoomInv, Published' \subseteq Published
    PROVE  /\ IsFiniteSet(Published') /\ Cardinality(Published') \in Nat
           /\ Cardinality(Published') <= Cardinality(Published)
           /\ Cardinality(Published) \in Nat
BY FS_Subset, FS_CardinalityType DEF RoomInv

\* Whoever publishes measured the store under the lock, so one more document still fits.
LEMMA RoomNext == ASSUME Core, RoomInv, Next PROVE RoomInv'
<1>1. ASSUME Published' = Published,
             \A p \in Importers :
                 pc'[p] \in HasRoom => pc[p] \in HasRoom \/ ~OverLimit
      PROVE  RoomInv'
  BY <1>1, FewerDocuments, StoreAssumption
  DEF RoomInv, StoreWithinLimit, OverLimit
<1>2. ASSUME NEW p \in Importers, Rename(p) PROVE RoomInv'
  <2>1. Published' \subseteq Published \cup {dir[p]}
    BY <1>2 DEF Rename, Core, TypeOK, Published
  <2>2. /\ IsFiniteSet(Published) /\ Cardinality(Published) + 1 <= StoreLimit
        /\ Cardinality(Published) \in Nat
    BY <1>2, FS_CardinalityType DEF Rename, Go, RoomInv, HasRoom
  <2>3. IsFiniteSet(Published') /\ Cardinality(Published') <= StoreLimit
    <3> DEFINE After == Published \cup {dir[p]}
    <3>1. IsFiniteSet(After) /\ Cardinality(After) <= Cardinality(Published) + 1
      BY <2>2, FS_AddElement
    <3>2. /\ IsFiniteSet(Published') /\ Cardinality(Published') <= Cardinality(After)
          /\ Cardinality(Published') \in Nat /\ Cardinality(After) \in Nat
      BY <2>1, <3>1, FS_Subset, FS_CardinalityType
    <3>3. QED  BY <2>2, <3>1, <3>2, StoreAssumption
  <2>4. \A q \in Importers : pc'[q] \in {"idle", "renamed"}
    BY <1>2 DEF Rename, Go, Core, TypeOK, LockInv
  <2>5. QED  BY <2>3, <2>4 DEF RoomInv, StoreWithinLimit, HasRoom
<1>3. ASSUME PowerLoss PROVE RoomInv'
  <2>1. Published' \subseteq Published
    BY <1>3 DEF PowerLoss, Core, DurableInv, Published
  <2>2. \A q \in Importers : pc'[q] = "idle"
    BY <1>3 DEF PowerLoss
  <2>3. QED
    BY <2>1, <2>2, FewerDocuments, StoreAssumption
    DEF RoomInv, StoreWithinLimit, HasRoom
<1>4. ASSUME NEW p \in Importers,
             TakeImportLock(p) \/ (ImportStep(p) /\ ~Rename(p)) \/ Abort(p)
      PROVE  RoomInv'
  <2>1. Published' = Published
    BY <1>4
    DEF TakeImportLock, ImportStep, Abort, Sweep, SweepFails, CopySource, Reuse,
        StartParser, WriteResponse, ParserEnds, ListStore,
        MeasureStore, MeasureFails, WriteManifest, SyncStaging, SyncDocuments,
        SyncFails, KillParser, CleanUp, Published, docVars
  <2>2. \A q \in Importers :
            pc'[q] \in HasRoom => pc[q] \in HasRoom \/ ~OverLimit
    BY <1>4
    DEF TakeImportLock, ImportStep, Abort, Sweep, SweepFails, CopySource, Reuse,
        StartParser, WriteResponse, ParserEnds, ListStore,
        MeasureStore, MeasureFails, WriteManifest, SyncStaging, SyncDocuments,
        SyncFails, KillParser, CleanUp, Go, HasRoom, Core, TypeOK
  <2>3. QED  BY <1>1, <2>1, <2>2
<1>5. ASSUME \/ \E t \in Dirs : ParserWrites(t) \/ ParserExits(t)
             \/ OtherWriter
             \/ \E p \in Importers : ImporterDies(p)
      PROVE  RoomInv'
  <2>1. /\ Published' = Published
        /\ \A q \in Importers : pc'[q] \in {pc[q], "idle"}
    BY <1>5
    DEF ParserWrites, ParserExits, OtherWriter, ImporterDies, Published, docVars,
        Core, TypeOK
  <2>2. QED  BY <1>1, <2>1 DEF HasRoom
<1>6. QED  BY <1>2, <1>3, <1>4, <1>5 DEF Next

-----------------------------------------------------------------------------
(* Theorems                                                                *)

\* The inductive invariant holds in every reachable state of the store.
LEMMA Invariance == Spec => []IInv
<1>1. Init => IInv
  BY CoreInit, RoomInit DEF IInv
<1>2. IInv /\ [Next]_vars => IInv'
  <2> SUFFICES ASSUME IInv, [Next]_vars PROVE IInv'
    OBVIOUS
  <2>1. CASE Next
    BY <2>1, CoreNext, RoomNext DEF IInv
  <2>2. CASE UNCHANGED vars
    <3>1. Core'
      BY <2>2
      DEF IInv, Core, vars, fileVars, docVars, TypeOK, LockInv, DirInv, FilesInv,
          WorkerInv, ParserUnderLock, SyncInv, PublishedInv, DurableInv, Published
    <3>2. RoomInv'
      BY <2>2 DEF IInv, vars, docVars, RoomInv, StoreWithinLimit, Published
    <3>3. QED  BY <3>1, <3>2 DEF IInv
  <2>3. QED  BY <2>1, <2>2
<1>3. QED  BY <1>1, <1>2, PTL DEF Spec

\* Every reachable state of the store is well typed.
THEOREM StoreTypeCorrect == Spec => []TypeOK
<1>1. IInv => TypeOK
  BY DEF IInv, Core
<1>2. QED  BY <1>1, Invariance, PTL

\* A document that readers can see has all its files, whatever was killed and
\* however often the power failed while it was made.
THEOREM DocumentsAreComplete == Spec => []CompleteDocuments
<1>1. IInv => CompleteDocuments
  BY DEF IInv, Core, PublishedInv, CompleteDocuments
<1>2. QED  BY <1>1, Invariance, PTL

\* A document that an import has returned a receipt for, as its publisher or as one that
\* found it in place, survives any number of kills and power losses once its directory
\* entry is on disk: before the receipt, when the import published it, and maybe only
\* later when the import found it in place.
THEOREM SyncedReceiptsLast == Spec => []SyncedReceiptsSurvive
<1>1. IInv => SyncedReceiptsSurvive
  BY StoreAssumption DEF IInv, Core, TypeOK, DurableInv, SyncedReceiptsSurvive
<1>2. QED  BY <1>1, Invariance, PTL

\* No sweep and no other import takes the directory of an import under way.
THEOREM StagingIsSafe == Spec => []StagingIsOwned
<1>1. IInv => StagingIsOwned
  <2> SUFFICES ASSUME IInv, NEW p \in Importers, pc[p] \in HasDirectory
               PROVE  /\ dir[p] \in staging
                      /\ \A q \in Importers \ {p} : dir[q] # dir[p]
    BY DEF StagingIsOwned, HasDirectory
  <2>1. dir[p] \in staging /\ dir[p] # None
    BY StoreAssumption DEF IInv, Core, TypeOK, DirInv
  <2>2. \A q \in Importers \ {p} : pc[q] = "idle"
    BY DEF IInv, Core, LockInv, HasDirectory, OwnsStaging
  <2>3. QED  BY <2>1, <2>2 DEF IInv, Core, DirInv
<1>2. QED  BY <1>1, Invariance, PTL

\* Unless an importer was killed, a parser runs only for the import that holds
\* the lock.
THEOREM ParsersAreSupervised == Spec => []ParserUnderLock
<1>1. IInv => ParserUnderLock
  BY DEF IInv, Core, WorkerInv
<1>2. QED  BY <1>1, Invariance, PTL

\* Concurrent imports never take the store past its limit.
THEOREM StoreIsBounded == Spec => []StoreWithinLimit
<1>1. IInv => StoreWithinLimit
  BY DEF IInv, RoomInv
<1>2. QED  BY <1>1, Invariance, PTL
=============================================================================
