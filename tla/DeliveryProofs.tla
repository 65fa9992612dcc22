--------------------------- MODULE DeliveryProofs ---------------------------
(***************************************************************************)
(* Proofs about the ways documents come in and go out: an export           *)
(* (ExportDelivery), for any number of writers, digests and power losses;  *)
(* an upload (UploadDecode), for any limits; a selection                   *)
(* (SelectionHandoff), for any calls, batches and bounds of a page; and a  *)
(* retained document read in pages (RetainedReading), for any contents.    *)
(*                                                                         *)
(* Exports: a writer holds the lock of its temporary from creation until   *)
(* it unlinks it (LockInv), so a sweep takes only what is abandoned, and a *)
(* sweep has met everything that was abandoned but what it still has to    *)
(* look at (SweepInv).  A temporary is synced before it is linked, so the  *)
(* inode behind a name is whole for ever (WholeInv), and what was returned *)
(* was linked and its entry synced (PublishedInv).                         *)
(*                                                                         *)
(* Uploads: as long as nothing failed, the parts are at most one file and  *)
(* one request, within their limits (PartsInv); what failed for the        *)
(* client's doing never saw the closing boundary (FailureInv).             *)
(*                                                                         *)
(* Selections: a call waits for the thread that publishes its batch        *)
(* (StageInv), which writes the pages from the last to the first, so a     *)
(* page never names one that is not there (PagesInv); what a call leaves   *)
(* is what it tells (EndInv), and the pages its caller has read make up    *)
(* the beginning of the batch (CallerInv).                                 *)
(*                                                                         *)
(* Reading: the pieces of a text follow one another (PiecesTile) and each  *)
(* node is in one that is told whole or is cut (NodesAreTold), so a plan   *)
(* makes up its document (PlansMakeUp); a call goes by the plan of what it *)
(* loaded, whatever the service keeps by then (CallInv), and what a reader *)
(* was told begins the plan of what it began with (HeardInv).              *)
(***************************************************************************)
EXTENDS ExportDelivery, UploadDecode, SelectionHandoff, RetainedReading, TLAPS,
        SequenceTheorems, FiniteSetTheorems, WellFoundedInduction

-----------------------------------------------------------------------------
(* Exports                                                                 *)

AtWork == {"created", "writing", "written", "synced", "exists", "linked", "published"}

\* Who holds which lock.
LockInv ==
    /\ \A w \in Writers : saving[w] = "sweeping" <=> dirLock = w
    /\ \A w \in Writers : saving[w] \in AtWork <=> w \in tmpLock
    /\ \A w \in tmpLock : w \in tmp

\* What the sweep under way has still to meet.
SweepInv ==
    dirLock # Absent =>
        \A e \in abandoned : Over(e) /\ (e \in tmp => e \in todo \/ e = opened)

\* What is synced is whole and is written no more; what is named was synced.
WholeInv ==
    /\ \A w \in synced : bytes[w] = "whole"
                         /\ saving[w] \notin {"new", "sweeping", "created", "writing", "written"}
    /\ \A w \in Writers : saving[w] \in {"synced", "exists", "linked", "published"} => w \in synced
    /\ \A w \in Writers : saving[w] = "written" => bytes[w] = "whole"
    /\ \A d \in Digests : name[d] \in Writers => name[d] \in synced

\* How far a link has come.
PublishedInv ==
    \A w \in Writers :
        /\ saving[w] = "exists" => name[digest[w]] # Absent
        /\ saving[w] \in {"linked", "published", "returned"} => name[digest[w]] \in Writers
        /\ saving[w] \in {"published", "returned"} => digest[w] \in safe

ExportInv == ExportTypeOK /\ LockInv /\ SweepInv /\ WholeInv /\ PublishedInv

\* The initial state satisfies the invariant.
LEMMA ExportInitInv == ExportInit => ExportInv
<1> SUFFICES ASSUME ExportInit PROVE ExportInv
  OBVIOUS
<1> USE ExportAssumption DEF ExportInit
<1>1. ExportTypeOK
  BY DEF ExportTypeOK, Places
<1>2. LockInv /\ SweepInv
  BY DEF LockInv, SweepInv, AtWork
<1>3. WholeInv
  BY DEF WholeInv
<1>4. PublishedInv
  BY DEF PublishedInv
<1> QED
  BY <1>1, <1>2, <1>3, <1>4 DEF ExportInv

\* Each step of an export keeps the types.
LEMMA ExportTypeStep == ExportTypeOK /\ [ExportNext]_exportVars => ExportTypeOK'
<1> SUFFICES ASSUME ExportTypeOK, [ExportNext]_exportVars PROVE ExportTypeOK'
  OBVIOUS
<1> USE ExportAssumption DEF ExportTypeOK, Goes, Places, Over
<1>1. ASSUME NEW w \in Writers, LockDirectory(w) PROVE ExportTypeOK'
  BY <1>1 DEF LockDirectory
<1>2. ASSUME NEW w \in Writers, OpenEntry(w) PROVE ExportTypeOK'
  BY <1>2 DEF OpenEntry
<1>3. ASSUME NEW w \in Writers, SweepEntry(w) PROVE ExportTypeOK'
  BY <1>3 DEF SweepEntry, Sweepable
<1>4. ASSUME NEW w \in Writers, Create(w) PROVE ExportTypeOK'
  BY <1>4 DEF Create, LocksTemporary
<1>5. ASSUME NEW w \in Writers, Write(w) PROVE ExportTypeOK'
  BY <1>5 DEF Write
<1>6. ASSUME NEW w \in Writers, Sync(w) PROVE ExportTypeOK'
  BY <1>6 DEF Sync, SyncsFile
<1>7. ASSUME NEW w \in Writers, Link(w) PROVE ExportTypeOK'
  BY <1>7 DEF Link
<1>8. ASSUME NEW w \in Writers, Compare(w) PROVE ExportTypeOK'
  BY <1>8 DEF Compare, SameBytes
<1>9. ASSUME NEW w \in Writers, SyncDirectory(w) PROVE ExportTypeOK'
  BY <1>9 DEF SyncDirectory
<1>10. ASSUME NEW w \in Writers, Return(w) PROVE ExportTypeOK'
  BY <1>10 DEF Return
<1>11. ASSUME NEW w \in Writers, WriteFails(w) PROVE ExportTypeOK'
  BY <1>11 DEF WriteFails
<1>12. ASSUME NEW w \in Writers, Kill(w) PROVE ExportTypeOK'
  BY <1>12 DEF Kill
<1>13. CASE PowerLoss
  BY <1>13 DEF PowerLoss
<1>14. CASE UNCHANGED exportVars
  BY <1>14 DEF exportVars
<1> QED
  BY <1>1, <1>2, <1>3, <1>4, <1>5, <1>6, <1>7, <1>8, <1>9, <1>10, <1>11, <1>12, <1>13, <1>14 DEF ExportNext, WriterStep

\* Each step keeps the locks with their holders.
LEMMA LockStep == ExportTypeOK /\ LockInv /\ [ExportNext]_exportVars => LockInv'
<1> SUFFICES ASSUME ExportTypeOK /\ LockInv, [ExportNext]_exportVars PROVE LockInv'
  OBVIOUS
<1> USE ExportAssumption DEF ExportTypeOK, LockInv, Goes, AtWork, Over
<1>1. ASSUME NEW w \in Writers, LockDirectory(w) PROVE LockInv'
  BY <1>1 DEF LockDirectory
<1>2. ASSUME NEW w \in Writers, OpenEntry(w) PROVE LockInv'
  BY <1>2 DEF OpenEntry
<1>3. ASSUME NEW w \in Writers, SweepEntry(w) PROVE LockInv'
  BY <1>3 DEF SweepEntry, Sweepable
<1>4. ASSUME NEW w \in Writers, Create(w) PROVE LockInv'
  BY <1>4 DEF Create, LocksTemporary
<1>5. ASSUME NEW w \in Writers, Write(w) PROVE LockInv'
  BY <1>5 DEF Write
<1>6. ASSUME NEW w \in Writers, Sync(w) PROVE LockInv'
  BY <1>6 DEF Sync, SyncsFile
<1>7. ASSUME NEW w \in Writers, Link(w) PROVE LockInv'
  BY <1>7 DEF Link
<1>8. ASSUME NEW w \in Writers, Compare(w) PROVE LockInv'
  BY <1>8 DEF Compare, SameBytes
<1>9. ASSUME NEW w \in Writers, SyncDirectory(w) PROVE LockInv'
  BY <1>9 DEF SyncDirectory
<1>10. ASSUME NEW w \in Writers, Return(w) PROVE LockInv'
  BY <1>10 DEF Return
<1>11. ASSUME NEW w \in Writers, WriteFails(w) PROVE LockInv'
  BY <1>11 DEF WriteFails
<1>12. ASSUME NEW w \in Writers, Kill(w) PROVE LockInv'
  BY <1>12 DEF Kill
<1>13. CASE PowerLoss
  BY <1>13 DEF PowerLoss
<1>14. CASE UNCHANGED exportVars
  BY <1>14 DEF exportVars
<1> QED
  BY <1>1, <1>2, <1>3, <1>4, <1>5, <1>6, <1>7, <1>8, <1>9, <1>10, <1>11, <1>12, <1>13, <1>14 DEF ExportNext, WriterStep

\* Each step keeps what a sweep still has to meet.
LEMMA SweepStep == ExportTypeOK /\ LockInv /\ SweepInv /\ [ExportNext]_exportVars => SweepInv'
<1> SUFFICES ASSUME ExportTypeOK /\ LockInv /\ SweepInv, [ExportNext]_exportVars PROVE SweepInv'
  OBVIOUS
<1> USE ExportAssumption DEF ExportTypeOK, LockInv, SweepInv, Goes, AtWork, Over
<1>1. ASSUME NEW w \in Writers, LockDirectory(w) PROVE SweepInv'
  BY <1>1 DEF LockDirectory
<1>2. ASSUME NEW w \in Writers, OpenEntry(w) PROVE SweepInv'
  BY <1>2 DEF OpenEntry
<1>3. ASSUME NEW w \in Writers, SweepEntry(w) PROVE SweepInv'
  BY <1>3 DEF SweepEntry, Sweepable
<1>4. ASSUME NEW w \in Writers, Create(w) PROVE SweepInv'
  BY <1>4 DEF Create, LocksTemporary
<1>5. ASSUME NEW w \in Writers, Write(w) PROVE SweepInv'
  BY <1>5 DEF Write
<1>6. ASSUME NEW w \in Writers, Sync(w) PROVE SweepInv'
  BY <1>6 DEF Sync, SyncsFile
<1>7. ASSUME NEW w \in Writers, Link(w) PROVE SweepInv'
  BY <1>7 DEF Link
<1>8. ASSUME NEW w \in Writers, Compare(w) PROVE SweepInv'
  BY <1>8 DEF Compare, SameBytes
<1>9. ASSUME NEW w \in Writers, SyncDirectory(w) PROVE SweepInv'
  BY <1>9 DEF SyncDirectory
<1>10. ASSUME NEW w \in Writers, Return(w) PROVE SweepInv'
  BY <1>10 DEF Return
<1>11. ASSUME NEW w \in Writers, WriteFails(w) PROVE SweepInv'
  BY <1>11 DEF WriteFails
<1>12. ASSUME NEW w \in Writers, Kill(w) PROVE SweepInv'
  BY <1>12 DEF Kill
<1>13. CASE PowerLoss
  BY <1>13 DEF PowerLoss
<1>14. CASE UNCHANGED exportVars
  BY <1>14 DEF exportVars
<1> QED
  BY <1>1, <1>2, <1>3, <1>4, <1>5, <1>6, <1>7, <1>8, <1>9, <1>10, <1>11, <1>12, <1>13, <1>14 DEF ExportNext, WriterStep

\* Each step keeps what is synced whole.
LEMMA WholeStep == ExportTypeOK /\ WholeInv /\ [ExportNext]_exportVars => WholeInv'
<1> SUFFICES ASSUME ExportTypeOK /\ WholeInv, [ExportNext]_exportVars PROVE WholeInv'
  OBVIOUS
<1> USE ExportAssumption DEF ExportTypeOK, WholeInv, Goes, Over
<1>1. ASSUME NEW w \in Writers, LockDirectory(w) PROVE WholeInv'
  BY <1>1 DEF LockDirectory
<1>2. ASSUME NEW w \in Writers, OpenEntry(w) PROVE WholeInv'
  BY <1>2 DEF OpenEntry
<1>3. ASSUME NEW w \in Writers, SweepEntry(w) PROVE WholeInv'
  BY <1>3 DEF SweepEntry, Sweepable
<1>4. ASSUME NEW w \in Writers, Create(w) PROVE WholeInv'
  BY <1>4 DEF Create, LocksTemporary
<1>5. ASSUME NEW w \in Writers, Write(w) PROVE WholeInv'
  BY <1>5 DEF Write
<1>6. ASSUME NEW w \in Writers, Sync(w) PROVE WholeInv'
  BY <1>6 DEF Sync, SyncsFile
<1>7. ASSUME NEW w \in Writers, Link(w) PROVE WholeInv'
  BY <1>7 DEF Link
<1>8. ASSUME NEW w \in Writers, Compare(w) PROVE WholeInv'
  BY <1>8 DEF Compare, SameBytes
<1>9. ASSUME NEW w \in Writers, SyncDirectory(w) PROVE WholeInv'
  BY <1>9 DEF SyncDirectory
<1>10. ASSUME NEW w \in Writers, Return(w) PROVE WholeInv'
  BY <1>10 DEF Return
<1>11. ASSUME NEW w \in Writers, WriteFails(w) PROVE WholeInv'
  BY <1>11 DEF WriteFails
<1>12. ASSUME NEW w \in Writers, Kill(w) PROVE WholeInv'
  BY <1>12 DEF Kill
<1>13. CASE PowerLoss
  BY <1>13 DEF PowerLoss
<1>14. CASE UNCHANGED exportVars
  BY <1>14 DEF exportVars
<1> QED
  BY <1>1, <1>2, <1>3, <1>4, <1>5, <1>6, <1>7, <1>8, <1>9, <1>10, <1>11, <1>12, <1>13, <1>14 DEF ExportNext, WriterStep

\* Each step keeps what was linked behind its name.
LEMMA PublishedStep == ExportTypeOK /\ PublishedInv /\ [ExportNext]_exportVars => PublishedInv'
<1> SUFFICES ASSUME ExportTypeOK /\ PublishedInv, [ExportNext]_exportVars PROVE PublishedInv'
  OBVIOUS
<1> USE ExportAssumption DEF ExportTypeOK, PublishedInv, Goes, Over
<1>1. ASSUME NEW w \in Writers, LockDirectory(w) PROVE PublishedInv'
  BY <1>1 DEF LockDirectory
<1>2. ASSUME NEW w \in Writers, OpenEntry(w) PROVE PublishedInv'
  BY <1>2 DEF OpenEntry
<1>3. ASSUME NEW w \in Writers, SweepEntry(w) PROVE PublishedInv'
  BY <1>3 DEF SweepEntry, Sweepable
<1>4. ASSUME NEW w \in Writers, Create(w) PROVE PublishedInv'
  BY <1>4 DEF Create, LocksTemporary
<1>5. ASSUME NEW w \in Writers, Write(w) PROVE PublishedInv'
  BY <1>5 DEF Write
<1>6. ASSUME NEW w \in Writers, Sync(w) PROVE PublishedInv'
  BY <1>6 DEF Sync, SyncsFile
<1>7. ASSUME NEW w \in Writers, Link(w) PROVE PublishedInv'
  BY <1>7 DEF Link
<1>8. ASSUME NEW w \in Writers, Compare(w) PROVE PublishedInv'
  BY <1>8 DEF Compare, SameBytes
<1>9. ASSUME NEW w \in Writers, SyncDirectory(w) PROVE PublishedInv'
  BY <1>9 DEF SyncDirectory
<1>10. ASSUME NEW w \in Writers, Return(w) PROVE PublishedInv'
  BY <1>10 DEF Return
<1>11. ASSUME NEW w \in Writers, WriteFails(w) PROVE PublishedInv'
  BY <1>11 DEF WriteFails
<1>12. ASSUME NEW w \in Writers, Kill(w) PROVE PublishedInv'
  BY <1>12 DEF Kill
<1>13. CASE PowerLoss
  BY <1>13 DEF PowerLoss
<1>14. CASE UNCHANGED exportVars
  BY <1>14 DEF exportVars
<1> QED
  BY <1>1, <1>2, <1>3, <1>4, <1>5, <1>6, <1>7, <1>8, <1>9, <1>10, <1>11, <1>12, <1>13, <1>14 DEF ExportNext, WriterStep

\* The invariant holds in every reachable state, and with it the types.
THEOREM ExportTypeCorrect == ExportSpec => []ExportInv
<1>1. ExportInit => ExportInv
  BY ExportInitInv
<1>2. ExportInv /\ [ExportNext]_exportVars => ExportInv'
  BY ExportTypeStep, LockStep, SweepStep, WholeStep, PublishedStep DEF ExportInv
<1> QED
  BY <1>1, <1>2, PTL DEF ExportSpec

\* An export that was returned is there and whole, after any number of kills and power
\* losses and whoever linked it; no sweep takes the temporary of a writer at work, and
\* none leaves one that was abandoned when it began (delivery.py, save_export and
\* _sweep_exports).
THEOREM ExportsAreDurable == ExportSpec => []ExportsLast
<1>1. ExportInv => NamesHoldExports
  BY ExportAssumption DEF ExportInv, WholeInv, PublishedInv, NamesHoldExports, ExportTypeOK
<1>2. ExportInv => SweepIsExact
  <2> SUFFICES ASSUME ExportInv PROVE SweepIsExact
    OBVIOUS
  <2>1. \A w \in Writers : saving[w] \in AtWork => w \in tmp
    BY DEF ExportInv, LockInv
  <2>2. ASSUME dirLock # Absent, todo = {}, opened = Absent PROVE abandoned \cap tmp = {}
    BY <2>2, ExportAssumption DEF ExportInv, ExportTypeOK, SweepInv
  <2> QED
    BY <2>1, <2>2 DEF SweepIsExact, AtWork
<1> QED
  BY <1>1, <1>2, ExportTypeCorrect, PTL DEF ExportsLast

-----------------------------------------------------------------------------
(* Uploads                                                                 *)

\* What a part may be.
Parts == [name : {"file", "request", "refused"},
          good : {"good", "bad", "undecodable"}, bytes : 0..MaxPartBytes]

\* As long as nothing failed, every part so far was admitted: one of each name, within
\* its limit.
PartsInv ==
    /\ failure = 0 =>
         /\ names = {sent[k].name : k \in DOMAIN sent}
         /\ \A k \in DOMAIN sent : sent[k].name # "refused"
         /\ \A j, k \in DOMAIN sent : sent[j].name = sent[k].name => j = k
         /\ \A k \in DOMAIN sent :
              IF sent[k].name = "file"
              THEN sent[k].bytes = fileBytes /\ fileBytes <= FileLimit
              ELSE sent[k].bytes <= MetadataLimit
         /\ "file" \notin names => fileBytes = 0
    /\ inPart => sent # <<>>

\* A failure of the client's doing is found before the closing boundary, unless it is
\* the end of the connection.
FailureInv ==
    /\ broken => failure = 400
    /\ failure \in {400, 413} /\ reply = 0 /\ ~broken => ~complete

UploadInv == UploadTypeOK /\ PartsInv /\ FailureInv /\ UploadVerdict

\* The initial state satisfies the invariant.
LEMMA UploadInitInv == UploadInit => UploadInv
<1> SUFFICES ASSUME UploadInit PROVE UploadInv
  OBVIOUS
<1> USE UploadAssumption DEF UploadInit
<1>1. UploadTypeOK
  <2>1. sent \in Seq(Parts)
    OBVIOUS
  <2> QED
    BY <2>1 DEF UploadTypeOK, Parts
<1>2. PartsInv
  BY DEF PartsInv
<1>3. FailureInv /\ UploadVerdict
  BY DEF FailureInv, UploadVerdict
<1> QED
  BY <1>1, <1>2, <1>3 DEF UploadInv

\* What a sequence of parts is as a function.
LEMMA PartsAreFunction ==
  ASSUME NEW s \in Seq(Parts)
  PROVE  /\ Len(s) \in Nat /\ DOMAIN s = 1..Len(s)
         /\ \A k \in 1..Len(s) : s[k] \in Parts
         /\ s # <<>> => Len(s) \in 1..Len(s)
OBVIOUS

\* One part more leaves those before it alone.
LEMMA OnePartMore ==
  ASSUME NEW s \in Seq(Parts), NEW p \in Parts
  PROVE  /\ Append(s, p) \in Seq(Parts) /\ DOMAIN Append(s, p) = 1..(Len(s) + 1)
         /\ Append(s, p)[Len(s) + 1] = p
         /\ \A k \in 1..Len(s) : Append(s, p)[k] = s[k]
OBVIOUS

\* One byte more changes the last part and nothing else of it.
LEMMA ByteMore ==
  ASSUME UploadTypeOK, PartsInv, PartData
  PROVE  /\ sent' \in Seq(Parts) /\ DOMAIN sent' = 1..Len(sent) /\ Len(sent) \in 1..Len(sent)
         /\ \A k \in 1..Len(sent) :
              /\ sent'[k].name = sent[k].name /\ sent'[k].good = sent[k].good
              /\ sent'[k].bytes = IF k = Len(sent) THEN sent[k].bytes + 1 ELSE sent[k].bytes
<1>1. sent \in Seq(Parts) /\ sent # <<>>
  BY DEF UploadTypeOK, PartsInv, PartData, Parts
<1>2. sent[Len(sent)] \in Parts /\ Len(sent) \in 1..Len(sent)
  BY <1>1, PartsAreFunction
<1>3. sent[Len(sent)].bytes + 1 \in 0..MaxPartBytes
  BY <1>2, UploadAssumption DEF PartData, Parts, Current
<1> DEFINE more == [sent[Len(sent)] EXCEPT !.bytes = sent[Len(sent)].bytes + 1]
<1>4. more \in Parts
  BY <1>2, <1>3 DEF Parts
<1>5. sent' = [sent EXCEPT ![Len(sent)] = more]
  BY <1>1 DEF PartData
<1>6. more.name = sent[Len(sent)].name /\ more.good = sent[Len(sent)].good
      /\ more.bytes = sent[Len(sent)].bytes + 1
  BY <1>2 DEF more, Parts
<1> HIDE DEF more
<1>7. sent' \in Seq(Parts) /\ DOMAIN sent' = 1..Len(sent)
  BY <1>1, <1>2, <1>4, <1>5
<1>8. sent'[Len(sent)] = more /\ \A k \in 1..Len(sent) : k # Len(sent) => sent'[k] = sent[k]
  BY <1>1, <1>2, <1>5
<1> QED
  BY <1>2, <1>6, <1>7, <1>8

\* What the end of an upload may change: the verdict is the first failure, if there was
\* one, and a form that was not refused was whole and stored.
LEMMA DecodeEnds ==
  ASSUME UploadTypeOK, Decode
  PROVE  /\ reply = 0 /\ reply' \in {200, 400, 413, 500} /\ failure' \in {0, 400, 413, 500}
         /\ spool' \in {"none", "closed", "stuck"}
         /\ failure' # 0 => reply' = failure'
         /\ failure # 0 => failure' = failure
         /\ failure' = 0 => reply' \in {200, 500}
         /\ failure = 0 => spooled = fileBytes /\ failure' \in Options
         /\ UNCHANGED <<sent, inPart, names, fileBytes, spooled, complete, broken>>
<1>1. /\ reply = 0
      /\ UNCHANGED <<sent, inPart, names, fileBytes, spooled, complete, broken>>
  BY DEF Decode
<1>2. PICK first : Finish(first) /\ (failure # 0 => first = failure)
                   /\ (failure = 0 => spooled = fileBytes /\ first \in Options)
  BY DEF Decode
<1>3. failure \in {0, 400, 413, 500} /\ Options \subseteq {0, 400, 500}
  BY DEF UploadTypeOK, Options
<1>4. first \in {0, 400, 413, 500}
  <2>1. CASE failure = 0
    <3>1. first \in Options
      BY <2>1, <1>2
    <3> QED
      BY <3>1, <1>3
  <2>2. CASE failure # 0
    BY <2>2, <1>2, <1>3
  <2> QED
    BY <2>1, <2>2
<1>5. PICK closed \in BOOLEAN :
         CloseSpool(closed) /\ reply' = Diagnosis(first, closed) /\ failure' = first
  BY <1>2 DEF Finish
<1>6. spool' \in {"none", "closed", "stuck"}
  BY <1>5 DEF CloseSpool
<1>7. /\ reply' \in {200, 400, 413, 500} /\ (first # 0 => reply' = first)
      /\ (first = 0 => reply' \in {200, 500})
  BY <1>4, <1>5 DEF Diagnosis
<1> QED
  BY <1>1, <1>2, <1>4, <1>5, <1>6, <1>7

\* Each step of an upload keeps the types.
LEMMA UploadTypeStep ==
  UploadTypeOK /\ PartsInv /\ [UploadNext]_uploadVars => UploadTypeOK'
<1> SUFFICES ASSUME UploadTypeOK, PartsInv, [UploadNext]_uploadVars PROVE UploadTypeOK'
  OBVIOUS
<1>0. sent \in Seq(Parts)
  BY DEF UploadTypeOK, Parts
<1>1. sent' \in Seq(Parts)
  <2>1. CASE HeadersFinished
    <3>1. PICK p \in Parts : sent' = Append(sent, p)
      BY <2>1, UploadAssumption DEF HeadersFinished, Part, Parts
    <3> QED
      BY <3>1, <1>0, OnePartMore
  <2>2. CASE PartData
    BY <2>2, ByteMore
  <2>3. CASE UNCHANGED sent
    BY <2>3, <1>0
  <2> QED
    BY <2>1, <2>2, <2>3
    DEF UploadNext, uploadVars, WriteSpool, PartEnd, End, Breaks, Decode
<1>2. /\ names' \subseteq {"file", "request"} /\ fileBytes' \in Nat /\ spooled' \in Nat
      /\ inPart' \in BOOLEAN /\ complete' \in BOOLEAN /\ broken' \in BOOLEAN
      /\ spool' \in {"none", "open", "closed", "stuck"}
      /\ failure' \in {0, 400, 413, 500} /\ reply' \in {0, 200, 400, 413, 500}
  <2>0. /\ names \subseteq {"file", "request"} /\ fileBytes \in Nat /\ spooled \in Nat
        /\ inPart \in BOOLEAN /\ complete \in BOOLEAN /\ broken \in BOOLEAN
        /\ spool \in {"none", "open", "closed", "stuck"}
        /\ failure \in {0, 400, 413, 500} /\ reply \in {0, 200, 400, 413, 500}
    BY DEF UploadTypeOK
  <2>1. CASE HeadersFinished
    <3>1. /\ inPart' = TRUE /\ UNCHANGED <<fileBytes, spooled, complete, broken, reply>>
          /\ names' \in {names, names \cup {"file"}, names \cup {"request"}}
          /\ spool' \in {spool, "open"} /\ failure' \in {failure, 400}
      BY <2>1 DEF HeadersFinished, Part, Admissible, Raise
    <3> QED
      BY <3>1, <2>0
  <2>2. CASE PartData
    BY <2>2, <2>0 DEF PartData, Raise
  <2>3. CASE WriteSpool
    BY <2>3, <2>0 DEF WriteSpool, Raise
  <2>4. CASE PartEnd
    <3>1. /\ inPart' = FALSE /\ failure' \in {failure, 400}
          /\ names' = names /\ fileBytes' = fileBytes /\ spool' = spool /\ spooled' = spooled
          /\ complete' = complete /\ broken' = broken /\ reply' = reply
      BY <2>4 DEF PartEnd, Raise
    <3>2. failure' \in {0, 400, 413, 500}
      BY <3>1, <2>0
    <3>3. inPart' \in BOOLEAN
      BY <3>1, Zenon
    <3> QED
      BY <3>1, <3>2, <3>3, <2>0
  <2>5. CASE End \/ Breaks
    <3>1. /\ complete' \in {complete, TRUE} /\ broken' \in {broken, TRUE}
          /\ failure' \in {failure, 400}
          /\ names' = names /\ fileBytes' = fileBytes /\ spool' = spool /\ spooled' = spooled
          /\ inPart' = inPart /\ reply' = reply
      BY <2>5 DEF End, Breaks, Raise
    <3>2. failure' \in {0, 400, 413, 500}
      BY <3>1, <2>0
    <3>3. complete' \in BOOLEAN /\ broken' \in BOOLEAN
      <4>1. complete \in BOOLEAN /\ broken \in BOOLEAN
        BY <2>0
      <4>2. (complete' = complete \/ complete' = TRUE) /\ (broken' = broken \/ broken' = TRUE)
        BY <3>1
      <4> QED
        BY <4>1, <4>2, Zenon
    <3> QED
      BY <3>1, <3>2, <3>3, <2>0
  <2>6. CASE Decode
    <3>1. /\ reply' \in {200, 400, 413, 500} /\ failure' \in {0, 400, 413, 500}
          /\ spool' \in {"none", "closed", "stuck"}
          /\ UNCHANGED <<inPart, names, fileBytes, spooled, complete, broken>>
      BY <2>6, DecodeEnds
    <3> QED
      BY <3>1, <2>0
  <2>7. CASE UNCHANGED uploadVars
    BY <2>7, <2>0 DEF uploadVars
  <2> QED
    BY <2>1, <2>2, <2>3, <2>4, <2>5, <2>6, <2>7 DEF UploadNext
<1> QED
  BY <1>1, <1>2 DEF UploadTypeOK, Parts

\* Each step keeps the parts admitted, as long as it does not fail.
LEMMA PartsStep ==
  UploadTypeOK /\ PartsInv /\ [UploadNext]_uploadVars => PartsInv'
<1> SUFFICES ASSUME UploadTypeOK, PartsInv, [UploadNext]_uploadVars PROVE PartsInv'
  OBVIOUS
<1> DEFINE n == Len(sent)
<1>0. /\ sent \in Seq(Parts) /\ n \in Nat /\ DOMAIN sent = 1..n
      /\ \A k \in 1..n : sent[k] \in Parts
  <2>1. sent \in Seq(Parts)
    BY DEF UploadTypeOK, Parts
  <2> QED
    BY <2>1, PartsAreFunction, Zenon
<1>1. CASE HeadersFinished
  <2>1. failure = 0 /\ UNCHANGED fileBytes
    BY <1>1 DEF HeadersFinished, Parsing
  <2>2. PICK p \in Parts : /\ sent' = Append(sent, p) /\ p.bytes = 0
                           /\ failure' = 0 => Admissible(p) /\ names' = names \cup {p.name}
    BY <1>1, UploadAssumption DEF HeadersFinished, Part, Parts, Admissible, Raise
  <2>3. /\ DOMAIN sent' = 1..(n + 1) /\ sent'[n + 1] = p
        /\ \A k \in 1..n : sent'[k] = sent[k]
    BY <1>0, <2>2, OnePartMore
  <2> HIDE DEF n
  <2>4. /\ names = {sent[k].name : k \in 1..n}
        /\ \A k \in 1..n : sent[k].name # "refused"
        /\ \A j, k \in 1..n : sent[j].name = sent[k].name => j = k
        /\ \A k \in 1..n : IF sent[k].name = "file"
                           THEN sent[k].bytes = fileBytes /\ fileBytes <= FileLimit
                           ELSE sent[k].bytes <= MetadataLimit
        /\ "file" \notin names => fileBytes = 0
    BY <1>0, <2>1 DEF PartsInv
  <2>5. SUFFICES ASSUME failure' = 0
                 PROVE  /\ names' = {sent'[k].name : k \in 1..(n + 1)}
                        /\ \A k \in 1..(n + 1) : sent'[k].name # "refused"
                        /\ \A j, k \in 1..(n + 1) : sent'[j].name = sent'[k].name => j = k
                        /\ \A k \in 1..(n + 1) :
                             IF sent'[k].name = "file"
                             THEN sent'[k].bytes = fileBytes /\ fileBytes <= FileLimit
                             ELSE sent'[k].bytes <= MetadataLimit
                        /\ "file" \notin names' => fileBytes = 0
    <3>1. sent' # <<>>
      BY <2>3, <1>0
    <3> QED
      BY <2>1, <2>3, <3>1 DEF PartsInv
  <2>6. p.name # "refused" /\ p.name \notin names /\ names' = names \cup {p.name}
    BY <2>2, <2>5 DEF Admissible
  <2>7. 1..(n + 1) = (1..n) \cup {n + 1} /\ n + 1 \notin 1..n
    BY <1>0
  <2>8. names' = {sent'[k].name : k \in 1..(n + 1)}
    <3>1. \A x \in names' : \E k \in 1..(n + 1) : x = sent'[k].name
      BY <2>3, <2>4, <2>6, <2>7
    <3>2. \A k \in 1..(n + 1) : sent'[k].name \in names'
      BY <2>3, <2>4, <2>6, <2>7
    <3> QED
      BY <3>1, <3>2
  <2>9. \A j, k \in 1..(n + 1) : sent'[j].name = sent'[k].name => j = k
    <3>1. \A k \in 1..n : sent'[k].name \in names
      BY <2>3, <2>4
    <3> QED
      BY <2>3, <2>4, <2>6, <2>7, <3>1
  <2>10. p.name = "file" => fileBytes = 0
    BY <2>4, <2>6
  <2> QED
    <3>1. \A k \in 1..(n + 1) : sent'[k].name # "refused"
      BY <2>3, <2>4, <2>6, <2>7
    <3>2. "file" \notin names' => fileBytes = 0
      BY <2>4, <2>6
    <3>3. ASSUME NEW k \in 1..n
          PROVE  IF sent'[k].name = "file"
                 THEN sent'[k].bytes = fileBytes /\ fileBytes <= FileLimit
                 ELSE sent'[k].bytes <= MetadataLimit
      BY <2>3, <2>4
    <3>4. IF sent'[n + 1].name = "file"
          THEN sent'[n + 1].bytes = fileBytes /\ fileBytes <= FileLimit
          ELSE sent'[n + 1].bytes <= MetadataLimit
      BY <2>2, <2>3, <2>10, UploadAssumption
    <3> QED
      BY <2>7, <2>8, <2>9, <3>1, <3>2, <3>3, <3>4
<1>2. CASE PartData
  <2>1. /\ failure = 0 /\ UNCHANGED <<inPart, names>>
        /\ fileBytes' = IF sent[n].name = "file" THEN fileBytes + 1 ELSE fileBytes
        /\ failure' = 0 => IF sent[n].name = "file" THEN ~(fileBytes + 1 > FileLimit)
                           ELSE ~(sent[n].bytes + 1 > MetadataLimit)
    BY <1>2 DEF PartData, Parsing, OverLimit, Current, Raise
  <2>2. /\ DOMAIN sent' = 1..n /\ n \in 1..n
        /\ \A k \in 1..n :
             /\ sent'[k].name = sent[k].name
             /\ sent'[k].bytes = IF k = n THEN sent[k].bytes + 1 ELSE sent[k].bytes
    BY <1>2, ByteMore
  <2> HIDE DEF n
  <2>3. /\ names = {sent[k].name : k \in 1..n}
        /\ \A k \in 1..n : sent[k].name # "refused"
        /\ \A j, k \in 1..n : sent[j].name = sent[k].name => j = k
        /\ \A k \in 1..n : IF sent[k].name = "file"
                           THEN sent[k].bytes = fileBytes /\ fileBytes <= FileLimit
                           ELSE sent[k].bytes <= MetadataLimit
        /\ "file" \notin names => fileBytes = 0
    BY <1>0, <2>1 DEF PartsInv
  <2>4. names' = {sent'[k].name : k \in 1..n}
    BY <2>1, <2>2, <2>3
  <2>5. ASSUME failure' = 0, NEW k \in 1..n
        PROVE  IF sent'[k].name = "file"
               THEN sent'[k].bytes = fileBytes' /\ fileBytes' <= FileLimit
               ELSE sent'[k].bytes <= MetadataLimit
    <3>1. sent[k].bytes \in Nat /\ sent[n].bytes \in Nat /\ fileBytes \in Nat
      BY <1>0, <2>2, UploadAssumption DEF Parts, UploadTypeOK
    <3>2. CASE k = n
      BY <2>1, <2>2, <2>3, <2>5, <3>1, <3>2, UploadAssumption
    <3>3. CASE k # n
      BY <2>1, <2>2, <2>3, <2>5, <3>1, <3>3, UploadAssumption
    <3> QED
      BY <3>2, <3>3
  <2>6. "file" \notin names' => fileBytes' = 0
    BY <2>1, <2>2, <2>3
  <2>7. sent' # <<>>
    BY <2>2
  <2> QED
    BY <2>2, <2>3, <2>4, <2>5, <2>6, <2>7 DEF PartsInv
<1>3. CASE /\ failure' = 0 => failure = 0
           /\ inPart' => inPart
           /\ UNCHANGED <<sent, names, fileBytes>>
  BY <1>3 DEF PartsInv
<1>4. CASE WriteSpool
  BY <1>4, <1>3 DEF WriteSpool, Raise
<1>5. CASE PartEnd
  BY <1>5, <1>3 DEF PartEnd, Parsing
<1>6. CASE End \/ Breaks
  BY <1>6, <1>3 DEF End, Breaks, Raise
<1>7. CASE Decode
  BY <1>7, <1>3, DecodeEnds
<1>8. CASE UNCHANGED uploadVars
  BY <1>8, <1>3 DEF uploadVars
<1> QED
  BY <1>1, <1>2, <1>4, <1>5, <1>6, <1>7, <1>8 DEF UploadNext

\* A failure is the client's before the closing boundary, or the connection's.
LEMMA FailureStep ==
  UploadTypeOK /\ FailureInv /\ [UploadNext]_uploadVars => FailureInv'
<1> SUFFICES ASSUME UploadTypeOK, FailureInv, [UploadNext]_uploadVars PROVE FailureInv'
  OBVIOUS
<1> USE DEF FailureInv
<1>1. CASE HeadersFinished
  BY <1>1 DEF HeadersFinished, Parsing
<1>2. CASE PartData
  BY <1>2 DEF PartData, Parsing
<1>3. CASE WriteSpool
  BY <1>3 DEF WriteSpool, Raise
<1>4. CASE PartEnd
  BY <1>4 DEF PartEnd, Parsing
<1>5. CASE End
  BY <1>5 DEF End, Parsing
<1>6. CASE Breaks
  BY <1>6 DEF Breaks, Raise
<1>7. CASE Decode
  BY <1>7, DecodeEnds
<1>8. CASE UNCHANGED uploadVars
  BY <1>8 DEF uploadVars
<1> QED
  BY <1>1, <1>2, <1>3, <1>4, <1>5, <1>6, <1>7, <1>8 DEF UploadNext

\* Of parts that were all admitted, what the callbacks noted is what the schema asks:
\* both names, good options and a file that is not empty.
LEMMA NotedIsWellFormed ==
  ASSUME UploadTypeOK, PartsInv, failure = 0
  PROVE  WellFormed <=> Whole /\ GoodOptions /\ fileBytes # 0
<1> DEFINE n == Len(sent)
<1>0. /\ sent \in Seq(Parts) /\ n \in Nat /\ DOMAIN sent = 1..n
      /\ \A k \in 1..n : sent[k] \in Parts
  <2>1. sent \in Seq(Parts)
    BY DEF UploadTypeOK, Parts
  <2> QED
    BY <2>1, PartsAreFunction, Zenon
<1>1. /\ names = {sent[k].name : k \in 1..n} /\ fileBytes \in Nat
      /\ \A j, k \in 1..n : sent[j].name = sent[k].name => j = k
      /\ \A k \in 1..n : IF sent[k].name = "file"
                         THEN sent[k].bytes = fileBytes /\ fileBytes <= FileLimit
                         ELSE sent[k].bytes <= MetadataLimit
      /\ names \subseteq {"file", "request"}
  <2>1. fileBytes \in Nat /\ names \subseteq {"file", "request"}
    BY DEF UploadTypeOK
  <2>2. names = {sent[k].name : k \in 1..n}
    BY <1>0 DEF PartsInv
  <2>3. \A j, k \in 1..n : sent[j].name = sent[k].name => j = k
    BY <1>0 DEF PartsInv
  <2>4. \A k \in 1..n : IF sent[k].name = "file"
                        THEN sent[k].bytes = fileBytes /\ fileBytes <= FileLimit
                        ELSE sent[k].bytes <= MetadataLimit
    BY <1>0 DEF PartsInv
  <2> QED
    BY <2>1, <2>2, <2>3, <2>4
<1>2. WellFormed <=>
        /\ complete /\ n = 2
        /\ \E f, r \in 1..n :
             /\ sent[f].name = "file" /\ sent[f].bytes \in 1..FileLimit
             /\ sent[r].name = "request" /\ sent[r].bytes <= MetadataLimit
             /\ sent[r].good = "good"
  BY <1>0 DEF WellFormed, Named
<1>3. GoodOptions <=> \A k \in 1..n : sent[k].name = "request" => sent[k].good = "good"
  BY <1>0 DEF GoodOptions
<1> HIDE DEF n
<1>4. ASSUME WellFormed PROVE Whole /\ GoodOptions /\ fileBytes # 0
  <2>1. PICK f, r \in 1..n : /\ sent[f].name = "file" /\ sent[f].bytes \in 1..FileLimit
                            /\ sent[r].name = "request" /\ sent[r].good = "good"
    BY <1>2, <1>4
  <2>2. "file" \in names /\ "request" \in names
    BY <1>1, <2>1
  <2>3. names = {"file", "request"}
    BY <1>1, <2>2
  <2>4. GoodOptions
    BY <1>1, <1>3, <2>1
  <2>5. fileBytes # 0
    BY <1>1, <2>1, UploadAssumption
  <2> QED
    BY <1>2, <1>4, <2>3, <2>4, <2>5 DEF Whole
<1>5. ASSUME Whole, GoodOptions, fileBytes # 0 PROVE WellFormed
  <2>1. names = {"file", "request"} /\ complete
    BY <1>5 DEF Whole
  <2>2. PICK f, r \in 1..n : sent[f].name = "file" /\ sent[r].name = "request"
    BY <1>1, <2>1
  <2>3. \A k \in 1..n : k = f \/ k = r
    <3>1. \A k \in 1..n : sent[k].name \in names
      BY <1>1
    <3> QED
      BY <1>1, <2>1, <2>2, <3>1
  <2>4. n = 2
    <3>1. f # r
      BY <2>2
    <3>2. n >= 2
      BY <1>0, <2>2, <3>1
    <3>3. ASSUME n >= 3 PROVE FALSE
      <4>1. 1 \in 1..n /\ 2 \in 1..n /\ 3 \in 1..n
        BY <1>0, <3>3
      <4>2. (1 = f \/ 1 = r) /\ (2 = f \/ 2 = r) /\ (3 = f \/ 3 = r)
        BY <2>3, <4>1
      <4> QED
        BY <4>2
    <3> QED
      BY <1>0, <3>2, <3>3
  <2>5. sent[f].bytes = fileBytes /\ fileBytes \in 1..FileLimit
    BY <1>1, <1>5, <2>2, UploadAssumption
  <2>6. sent[r].bytes <= MetadataLimit
    BY <1>1, <2>2
  <2>7. sent[r].good = "good"
    BY <1>3, <1>5, <2>2
  <2> QED
    BY <1>2, <2>1, <2>2, <2>4, <2>5, <2>6, <2>7
<1> QED
  BY <1>4, <1>5

\* No step ends an upload with another verdict than its parts and its storage call for.
LEMMA VerdictStep ==
  UploadInv /\ [UploadNext]_uploadVars => UploadVerdict'
<1> SUFFICES ASSUME UploadInv, [UploadNext]_uploadVars PROVE UploadVerdict'
  OBVIOUS
<1>1. CASE Decode
  <2>1. UploadTypeOK /\ PartsInv /\ FailureInv
    BY DEF UploadInv
  <2>2. /\ reply = 0 /\ reply' \in {200, 400, 413, 500} /\ failure' \in {0, 400, 413, 500}
        /\ spool' \in {"none", "closed", "stuck"}
        /\ failure' # 0 => reply' = failure'
        /\ failure # 0 => failure' = failure
        /\ failure' = 0 => reply' \in {200, 500}
        /\ failure = 0 => spooled = fileBytes /\ failure' \in Options
        /\ UNCHANGED <<sent, inPart, names, fileBytes, spooled, complete, broken>>
    BY <1>1, <2>1, DecodeEnds
  <2>3. WellFormed' <=> WellFormed
    BY <2>2 DEF WellFormed, Named
  <2>4. ASSUME reply' = 200 PROVE WellFormed /\ spooled = fileBytes
    <3>1. failure = 0 /\ failure' = 0
      BY <2>2, <2>4
    <3>2. Whole /\ GoodOptions /\ fileBytes # 0
      BY <2>2, <3>1 DEF Options
    <3> QED
      BY <2>1, <2>2, <3>1, <3>2, NotedIsWellFormed
  <2>5. ASSUME reply' \in {400, 413}, ~broken PROVE ~WellFormed
    <3>1. failure' # 0 /\ failure' = reply'
      BY <2>2, <2>5
    <3>2. CASE failure # 0
      <4>1. ~complete
        BY <2>1, <2>2, <2>5, <3>1, <3>2 DEF FailureInv
      <4> QED
        BY <4>1 DEF WellFormed
    <3>3. CASE failure = 0
      <4>1. ~(Whole /\ GoodOptions /\ fileBytes # 0)
        BY <2>2, <2>5, <3>1, <3>3 DEF Options
      <4> QED
        BY <2>1, <3>3, <4>1, NotedIsWellFormed
    <3> QED
      BY <3>2, <3>3
  <2> QED
    BY <2>2, <2>3, <2>4, <2>5 DEF UploadVerdict
<1>2. CASE /\ reply = 0 /\ reply' = reply
  BY <1>2 DEF UploadVerdict
<1>3. CASE HeadersFinished \/ PartData \/ PartEnd \/ End
  BY <1>2, <1>3 DEF HeadersFinished, PartData, PartEnd, End, Parsing
<1>4. CASE WriteSpool \/ Breaks
  BY <1>2, <1>4 DEF WriteSpool, Breaks
<1>5. CASE UNCHANGED uploadVars
  BY <1>5 DEF UploadInv, uploadVars, UploadVerdict, WellFormed, Named
<1> QED
  BY <1>1, <1>3, <1>4, <1>5 DEF UploadNext

\* The invariant holds in every reachable state, and with it the types.
THEOREM UploadTypeCorrect == UploadSpec => []UploadInv
<1>1. UploadInit => UploadInv
  BY UploadInitInv
<1>2. UploadInv /\ [UploadNext]_uploadVars => UploadInv'
  BY UploadTypeStep, PartsStep, FailureStep, VerdictStep DEF UploadInv
<1> QED
  BY <1>1, <1>2, PTL DEF UploadSpec

\* Whatever a client sends and wherever it stops: an upload is accepted only if it is
\* what the published schema says and all of its file is stored, and what is that is
\* refused for storage alone (uploads.py, decode_request).
THEOREM UploadsAreJudged == UploadSpec => []UploadVerdict
<1>1. UploadInv => UploadVerdict
  BY DEF UploadInv
<1> QED
  BY <1>1, UploadTypeCorrect, PTL

-----------------------------------------------------------------------------
(* Selections                                                              *)

Closed == {"leaving", "ending", "over"}

\* Until a batch is published its call owns nothing; after it its thread has ended.
StageInv ==
    \A c \in Selects :
        /\ call[c] \in {"idle", "choosing"} =>
              thread[c] = "none" /\ copies[c] = "none" /\ ~accepted[c]
        /\ call[c] \in {"publishing", "awaiting"} => thread[c] # "none" /\ ~accepted[c]
        /\ call[c] = "awaiting" => outcome[c] = "interrupted"
        /\ call[c] = "checkpoint" => thread[c] = "returned" /\ ~accepted[c]
        /\ call[c] \in Closed =>
              /\ thread[c] \in {"none", "returned", "failed"}
              /\ accepted[c] <=> outcome[c] = "page"
              /\ accepted[c] => thread[c] = "returned"

\* The directory is there from mkdir to the end; a page is what the batch says it is, and
\* the one it names is there; the first comes last.
PagesInv ==
    \A c \in Selects :
        /\ thread[c] \in {"none", "mkdir"} => ~dir[c]
        /\ thread[c] \in {"write", "sync", "returned"} /\ call[c] # "over" => dir[c]
        /\ thread[c] \in {"sync", "returned"} /\ dir[c] => 1 \in DOMAIN pages[c]
        /\ ~dir[c] => DOMAIN pages[c] = {}
        /\ \A i \in DOMAIN pages[c] :
              /\ i \in 1..Len(batch[c]) + 1 /\ pages[c][i] = PageAt(batch[c], i)
              /\ pages[c][i].next # 0 => pages[c][i].next \in DOMAIN pages[c]

\* What a call that ends leaves.
EndInv ==
    \A c \in Selects :
        /\ call[c] \in {"ending", "over"} =>
              /\ outcome[c] = "page" => copies[c] = "kept"
              /\ outcome[c] \notin {"page", "receipt"} => copies[c] \in {"none", "gone"}
        /\ call[c] = "over" =>
              /\ outcome[c] = "page" => dir[c]
              /\ outcome[c] # "page" /\ ~rolled[c] => ~dir[c]

\* How far the caller has read.
CallerInv ==
    \A c \in Selects :
        /\ call[c] # "over" => follow[c] = 0 /\ said[c] = <<>>
        /\ follow[c] # 0 => /\ outcome[c] = "page" /\ follow[c] \in DOMAIN pages[c]
                            /\ said[c] = SubSeq(batch[c], 1, follow[c] - 1)
        /\ call[c] = "over" /\ outcome[c] = "page" /\ follow[c] = 0 => said[c] = batch[c]

OneInv ==
    /\ pending <=> \E c \in Selects : Active(c)
    /\ \A c, d \in Selects : Active(c) /\ Active(d) => c = d

SelectionInv == SelectionTypeOK /\ StageInv /\ PagesInv /\ EndInv /\ CallerInv /\ OneInv

\* The smallest of some places is one of them, and no larger than any.
LEMMA MinIsLeast ==
    ASSUME NEW S \in SUBSET Nat, S # {}
    PROVE  Min(S) \in S /\ \A k \in S : Min(S) <= k
<1>1. PICK m \in S : \A k \in S : <<k, m>> \notin OpToRel(<, Nat)
  <2> QED
    BY WFMin, NatLessThanWellFounded
<1>2. \A k \in S : ~(k < m)
  BY <1>1, Zenon DEF OpToRel
<1>3. \A k \in S : m <= k
  BY <1>2
<1> QED
  BY <1>1, <1>3 DEF Min

\* The next page begins after the one that names it.
LEMMA NextIsLater ==
    ASSUME NEW b \in Seq(Nat), NEW i \in 1..Len(b) + 1, ~IsLast(b, i)
    PROVE  i <= Len(b) /\ NextPage(b, i) \in i + 1..Len(b)
<1>1. Overflows(b, i) \subseteq i + 1..Len(b) /\ Overflows(b, i) # {}
  BY DEF Overflows, IsLast
<1>2. Len(b) \in Nat
  BY LenProperties
<1>3. NextPage(b, i) \in Overflows(b, i)
  BY <1>1, <1>2, MinIsLeast DEF NextPage
<1> QED
  BY <1>1, <1>2, <1>3

\* What a page holds, and that it is one.
LEMMA PageIsPage ==
    ASSUME NEW b \in Seq(Nat), NEW i \in 1..Len(b) + 1
    PROVE  /\ PageAt(b, i) \in Page
           /\ SubSeq(b, 1, i - 1) \o ItemsOf(b, i) =
                 IF PageAt(b, i).next = 0 THEN b ELSE SubSeq(b, 1, PageAt(b, i).next - 1)
<1>1. Len(b) \in Nat /\ \A k \in 1..Len(b) : b[k] \in Nat
  BY LenProperties, ElementOfSeq
<1> DEFINE last == IF IsLast(b, i) THEN Len(b) ELSE NextPage(b, i) - 1
<1>2. last \in i - 1..Len(b) /\ last \in Int
  BY <1>1, NextIsLater
<1>3. ItemsOf(b, i) = SubSeq(b, i, last)
  BY DEF ItemsOf
<1>4. ItemsOf(b, i) \in Seq(Nat)
  <2>1. \A k \in i..last : b[k] \in Nat
    BY <1>1, <1>2
  <2> QED
    BY <1>2, <1>3, <2>1, SubSeqProperties
<1>5. SubSeq(b, 1, i - 1) \o SubSeq(b, (i - 1) + 1, last) = SubSeq(b, 1, last)
  <2>1. 1 \in 1..Len(b) + 1 /\ i - 1 \in 0..Len(b) /\ last \in i - 1..Len(b)
    BY <1>1, <1>2
  <2> HIDE DEF last
  <2> QED
    BY <2>1, ConcatAdjacentSubSeq
<1>6. (i - 1) + 1 = i
  OBVIOUS
<1>7. CASE IsLast(b, i)
  <2>1. last = Len(b) /\ PageAt(b, i).next = 0
    BY <1>7 DEF PageAt
  <2>2. PageAt(b, i) = [items |-> ItemsOf(b, i), next |-> 0]
    BY <1>7 DEF PageAt
  <2> HIDE DEF last
  <2>3. SubSeq(b, 1, last) = b
    BY <2>1, SubSeqFull
  <2>4. PageAt(b, i) \in Page
    BY <1>4, <2>2 DEF Page
  <2> QED
    BY <1>3, <1>5, <1>6, <2>1, <2>3, <2>4
<1>8. CASE ~IsLast(b, i)
  <2>1. /\ last = NextPage(b, i) - 1
        /\ PageAt(b, i) = [items |-> ItemsOf(b, i), next |-> NextPage(b, i)]
    BY <1>8 DEF PageAt
  <2>2. NextPage(b, i) \in Nat \ {0}
    BY <1>1, <1>8, NextIsLater
  <2> HIDE DEF last
  <2>3. PageAt(b, i) \in Page
    BY <1>4, <2>1, <2>2 DEF Page
  <2>4. PageAt(b, i).next = NextPage(b, i)
    BY <2>1
  <2>5. PageAt(b, i).next # 0
    BY <2>2, <2>4
  <2> QED
    BY <1>3, <1>5, <1>6, <2>1, <2>3, <2>4, <2>5
<1> QED
  BY <1>7, <1>8

\* The initial state satisfies the invariant.
LEMMA SelectionInitInv == SelectionInit => SelectionInv
<1> SUFFICES ASSUME SelectionInit PROVE SelectionInv
  OBVIOUS
<1> USE SelectionAssumption DEF SelectionInit
<1>1. SelectionTypeOK
  <2>1. <<>> \in [DOMAIN <<>> -> Page] /\ DOMAIN <<>> = {} /\ <<>> \in Seq(Nat)
    BY EmptySeq, LenProperties
  <2>2. PagesTypeOK
    BY <2>1 DEF PagesTypeOK
  <2>3. deaths \in 0..MaxDeaths
    BY DEF SelectionAssumption
  <2>4. batch \in [Selects -> {<<>>} \cup Batches] /\ said \in [Selects -> Seq(Nat)]
    BY <2>1
  <2> QED
    BY <2>2, <2>3, <2>4 DEF SelectionTypeOK
<1>2. StageInv /\ PagesInv /\ EndInv /\ CallerInv
  BY DEF StageInv, PagesInv, EndInv, CallerInv, Closed
<1>3. OneInv
  BY DEF OneInv, Active
<1> QED
  BY <1>1, <1>2, <1>3 DEF SelectionInv

\* What the thread's next page makes of the directory.
LEMMA WrittenPage ==
    ASSUME SelectionTypeOK, NEW c \in Selects, NEW i \in Begins(batch[c]), WritesPage(c, i)
    PROVE  /\ batch[c] \in Seq(Nat) /\ i \in 1..Len(batch[c]) + 1
           /\ DOMAIN pages' = Selects
           /\ \A d \in Selects : d # c => pages'[d] = pages[d]
           /\ DOMAIN pages'[c] = DOMAIN pages[c] \cup {i}
           /\ pages'[c] = [k \in DOMAIN pages[c] \cup {i} |-> pages'[c][k]]
           /\ pages'[c][i] = PageAt(batch[c], i) /\ PageAt(batch[c], i) \in Page
           /\ PageAt(batch[c], i).next # 0 => PageAt(batch[c], i).next \in DOMAIN pages[c]
           /\ \A k \in DOMAIN pages[c] : k # i /\ pages'[c][k] = pages[c][k]
<1>1. batch[c] \in Seq(Nat)
  <2>1. <<>> \in Seq(Nat) /\ Batches \subseteq Seq(Nat)
    BY SelectionAssumption, EmptySeq DEF SelectionAssumption
  <2> QED
    BY <2>1 DEF SelectionTypeOK
<1>2. i \in 1..Len(batch[c]) + 1
  BY DEF Begins
<1>3. PageAt(batch[c], i) \in Page
  BY <1>1, <1>2, PageIsPage
<1>4. PageAt(batch[c], i).next # 0 => PageAt(batch[c], i).next \in DOMAIN pages[c]
  <2>1. CASE IsLast(batch[c], i)
    BY <2>1 DEF PageAt
  <2>2. CASE ~IsLast(batch[c], i)
    BY <2>2 DEF PageAt, WritesPage
  <2> QED
    BY <2>1, <2>2
<1>5. DOMAIN pages = Selects
  BY DEF SelectionTypeOK, PagesTypeOK
<1>6. /\ DOMAIN pages' = Selects
      /\ \A d \in Selects : d # c => pages'[d] = pages[d]
      /\ pages'[c] = [k \in DOMAIN pages[c] \cup {i} |->
                         IF k = i THEN PageAt(batch[c], i) ELSE pages[c][k]]
      /\ i \notin DOMAIN pages[c]
  BY <1>5 DEF WritesPage
<1> HIDE DEF WritesPage
<1> QED
  BY <1>1, <1>2, <1>3, <1>4, <1>6

\* Where a call goes, what it tells and what becomes of its copies keep their types.
LEMMA MovesKeepTypes ==
  ASSUME SelectionTypeOK, NEW c \in Selects
  PROVE  /\ \A where \in {"idle", "choosing", "publishing", "awaiting", "checkpoint",
                                   "leaving", "ending", "over", "dead"} :
               GoesTo(c, where) => call' \in [Selects -> {"idle", "choosing", "publishing", "awaiting", "checkpoint",
                                   "leaving", "ending", "over", "dead"}]
         /\ \A what \in {"none", "busy", "selection_failed", "selection_cancelled",
                                      "interrupted", "receipt", "page"} :
               Tells(c, what) => outcome' \in [Selects -> {"none", "busy", "selection_failed", "selection_cancelled",
                                      "interrupted", "receipt", "page"}]
         /\ UNCHANGED outcome => outcome' \in [Selects -> {"none", "busy", "selection_failed", "selection_cancelled",
                                      "interrupted", "receipt", "page"}]
         /\ \A what \in {"none", "made", "kept", "gone"} :
               Copies(c, what) => copies' \in [Selects -> {"none", "made", "kept", "gone"}]
<1>1. /\ call \in [Selects -> {"idle", "choosing", "publishing", "awaiting", "checkpoint",
                                   "leaving", "ending", "over", "dead"}]
      /\ outcome \in [Selects -> {"none", "busy", "selection_failed", "selection_cancelled",
                                      "interrupted", "receipt", "page"}]
      /\ copies \in [Selects -> {"none", "made", "kept", "gone"}]
  BY DEF SelectionTypeOK
<1>2. ASSUME NEW where \in {"idle", "choosing", "publishing", "awaiting", "checkpoint",
                                   "leaving", "ending", "over", "dead"}, GoesTo(c, where)
      PROVE  call' \in [Selects -> {"idle", "choosing", "publishing", "awaiting", "checkpoint",
                                   "leaving", "ending", "over", "dead"}]
  BY <1>1, <1>2 DEF GoesTo
<1>3. ASSUME NEW what \in {"none", "busy", "selection_failed", "selection_cancelled",
                                      "interrupted", "receipt", "page"}, Tells(c, what)
      PROVE  outcome' \in [Selects -> {"none", "busy", "selection_failed", "selection_cancelled",
                                      "interrupted", "receipt", "page"}]
  BY <1>1, <1>3 DEF Tells
<1>4. ASSUME NEW what \in {"none", "made", "kept", "gone"}, Copies(c, what)
      PROVE  copies' \in [Selects -> {"none", "made", "kept", "gone"}]
  BY <1>1, <1>4 DEF Copies
<1> QED
  BY <1>1, <1>2, <1>3, <1>4

\* Every step keeps the types.
LEMMA SelectionTypeStep == SelectionTypeOK /\ [SelectionNext]_selectionVars => SelectionTypeOK'
<1> SUFFICES ASSUME SelectionTypeOK, [SelectionNext]_selectionVars PROVE SelectionTypeOK'
  OBVIOUS
<1> USE SelectionAssumption DEF SelectionAssumption
<1>0. UNCHANGED pages => PagesTypeOK'
  BY DEF SelectionTypeOK, PagesTypeOK
<1>1. ASSUME NEW c \in Selects, Enter(c) PROVE SelectionTypeOK'
  <2>1. /\ call' \in [Selects -> {"idle", "choosing", "publishing", "awaiting", "checkpoint",
                                 "leaving", "ending", "over", "dead"}]
        /\ outcome' \in [Selects -> {"none", "busy", "selection_failed", "selection_cancelled",
                                    "interrupted", "receipt", "page"}]
    BY <1>1, MovesKeepTypes DEF Enter
  <2>2. pending' \in BOOLEAN
    BY <1>1 DEF Enter, SelectionTypeOK
  <2>3. UNCHANGED <<batch, thread, stop, dir, rolled, said, follow, deaths, pages, copies, accepted>>
    BY <1>1 DEF Enter, onDisk, byCaller
  <2> QED
    BY <1>0, <2>1, <2>2, <2>3 DEF SelectionTypeOK
<1>2. ASSUME NEW c \in Selects, Choose(c) PROVE SelectionTypeOK'
  <2>1. /\ PagesTypeOK' /\ pending' \in BOOLEAN /\ deaths' \in 0..MaxDeaths
        /\ stop' \in [Selects -> BOOLEAN] /\ dir' \in [Selects -> BOOLEAN]
        /\ accepted' \in [Selects -> BOOLEAN] /\ rolled' \in [Selects -> BOOLEAN]
        /\ said' \in [Selects -> Seq(Nat)] /\ follow' \in [Selects -> Nat]
    BY <1>0, <1>2 DEF SelectionTypeOK, Choose, byCaller
  <2>2. batch' \in [Selects -> {<<>>} \cup Batches]
    <3>1. \/ batch' = batch
          \/ \E receipts \in Batches : batch' = [batch EXCEPT ![c] = receipts]
      BY <1>2 DEF Choose
    <3> QED
      BY <3>1 DEF SelectionTypeOK
  <2>3. /\ thread' \in [Selects -> {"none", "mkdir", "write", "sync", "returned", "failed"}]
        /\ copies' \in [Selects -> {"none", "made", "kept", "gone"}]
    <3>1. thread' \in [Selects -> {"none", "mkdir", "write", "sync", "returned", "failed"}]
      BY <1>2 DEF SelectionTypeOK, Choose
    <3>2. copies' = copies \/ Copies(c, "made")
      BY <1>2 DEF Choose
    <3>3. copies' \in [Selects -> {"none", "made", "kept", "gone"}]
      BY <3>2, MovesKeepTypes DEF SelectionTypeOK
    <3> QED
      BY <3>1, <3>3
  <2>4. /\ call' \in [Selects -> {"idle", "choosing", "publishing", "awaiting", "checkpoint",
                                 "leaving", "ending", "over", "dead"}]
        /\ outcome' \in [Selects -> {"none", "busy", "selection_failed", "selection_cancelled",
                                    "interrupted", "receipt", "page"}]
    BY <1>2, MovesKeepTypes DEF Choose
  <2> QED
    BY <2>1, <2>2, <2>3, <2>4 DEF SelectionTypeOK
<1>3. ASSUME NEW c \in Selects, Finished(c) \/ Checkpoint(c) \/ Awaited(c) PROVE SelectionTypeOK'
  <2>1. /\ call' \in [Selects -> {"idle", "choosing", "publishing", "awaiting", "checkpoint",
                                 "leaving", "ending", "over", "dead"}]
        /\ outcome' \in [Selects -> {"none", "busy", "selection_failed", "selection_cancelled",
                                    "interrupted", "receipt", "page"}]
    <3>1. CASE Finished(c)
      BY <3>1, MovesKeepTypes DEF Finished
    <3>2. CASE Checkpoint(c)
      BY <3>2, MovesKeepTypes DEF Checkpoint
    <3>3. CASE Awaited(c)
      BY <3>3, MovesKeepTypes DEF Awaited
    <3> QED
      BY <1>3, <3>1, <3>2, <3>3
  <2>2. accepted' \in [Selects -> BOOLEAN]
    BY <1>3 DEF Finished, Checkpoint, Awaited, SelectionTypeOK
  <2>3. UNCHANGED <<batch, thread, stop, dir, rolled, said, follow, deaths, pages, copies, pending>>
    BY <1>3 DEF Finished, Checkpoint, Awaited, onDisk, byCaller
  <2> QED
    BY <1>0, <2>1, <2>2, <2>3 DEF SelectionTypeOK
<1>4. ASSUME NEW c \in Selects, InterruptSelect(c) PROVE SelectionTypeOK'
  <2>1. /\ call' \in [Selects -> {"idle", "choosing", "publishing", "awaiting", "checkpoint",
                                 "leaving", "ending", "over", "dead"}]
        /\ outcome' \in [Selects -> {"none", "busy", "selection_failed", "selection_cancelled",
                                    "interrupted", "receipt", "page"}]
    BY <1>4, MovesKeepTypes DEF InterruptSelect, WaitsForThread
  <2>2. stop' \in [Selects -> BOOLEAN]
    BY <1>4 DEF InterruptSelect, SelectionTypeOK
  <2>3. UNCHANGED <<batch, thread, dir, rolled, said, follow, deaths, pages, copies, pending,
                    accepted>>
    BY <1>4 DEF InterruptSelect, byCaller
  <2> QED
    BY <1>0, <2>1, <2>2, <2>3 DEF SelectionTypeOK
<1>5. ASSUME NEW c \in Selects, LeaveProvider(c) PROVE SelectionTypeOK'
  <2>1. /\ call' \in [Selects -> {"idle", "choosing", "publishing", "awaiting", "checkpoint",
                                 "leaving", "ending", "over", "dead"}]
        /\ outcome' \in [Selects -> {"none", "busy", "selection_failed", "selection_cancelled",
                                    "interrupted", "receipt", "page"}]
    BY <1>5, MovesKeepTypes DEF LeaveProvider
  <2>2. copies' \in [Selects -> {"none", "made", "kept", "gone"}]
    BY <1>5, MovesKeepTypes DEF LeaveProvider
  <2>3. accepted' \in [Selects -> BOOLEAN]
    BY <1>5 DEF LeaveProvider, SelectionTypeOK
  <2>4. UNCHANGED <<batch, thread, stop, dir, rolled, said, follow, deaths, pages, pending>>
    BY <1>5 DEF LeaveProvider, onDisk, byCaller
  <2> QED
    BY <1>0, <2>1, <2>2, <2>3, <2>4 DEF SelectionTypeOK
<1>6. ASSUME NEW c \in Selects, EndSelect(c) PROVE SelectionTypeOK'
  <2>1. PagesTypeOK'
    <3>1. <<>> \in [DOMAIN <<>> -> Page] /\ DOMAIN <<>> = {}
      BY EmptySeq, LenProperties
    <3>2. CASE Removes(c)
      BY <3>1, <3>2 DEF Removes, SelectionTypeOK, PagesTypeOK
    <3> QED
      BY <1>0, <1>6, <3>2 DEF EndSelect
  <2>2. call' \in [Selects -> {"idle", "choosing", "publishing", "awaiting", "checkpoint",
                                "leaving", "ending", "over", "dead"}]
    BY <1>6, MovesKeepTypes DEF EndSelect
  <2>3. /\ pending' \in BOOLEAN /\ dir' \in [Selects -> BOOLEAN]
        /\ rolled' \in [Selects -> BOOLEAN] /\ follow' \in [Selects -> Nat]
    BY <1>6 DEF EndSelect, Removes, SelectionTypeOK
  <2>4. UNCHANGED <<copies, batch, thread, stop, accepted, outcome, said, deaths>>
    BY <1>6 DEF EndSelect
  <2> QED
    BY <2>1, <2>2, <2>3, <2>4 DEF SelectionTypeOK
<1>7. ASSUME NEW c \in Selects, Publish(c) PROVE SelectionTypeOK'
  <2>1. /\ thread' \in [Selects -> {"none", "mkdir", "write", "sync", "returned", "failed"}]
        /\ dir' \in [Selects -> BOOLEAN]
    <3>1. \/ thread' = thread
          \/ \E at \in {"write", "sync", "returned", "failed"} : thread' = [thread EXCEPT ![c] = at]
      <4>1. ASSUME NEW i \in Begins(batch[c]), WritesPage(c, i)
            PROVE  \/ thread' = [thread EXCEPT ![c] = "sync"]
                   \/ thread' = [thread EXCEPT ![c] = "write"]
        BY <4>1 DEF WritesPage
      <4>2. \/ \E at \in {"write", "returned", "failed"} : thread' = [thread EXCEPT ![c] = at]
            \/ \E i \in Begins(batch[c]) : WritesPage(c, i)
        BY <1>7 DEF Publish, Step
      <4> QED
        BY <4>1, <4>2
    <3>2. dir' = dir \/ dir' = [dir EXCEPT ![c] = TRUE]
      BY <1>7 DEF Publish, Step
    <3> QED
      <4>1. /\ thread \in [Selects -> {"none", "mkdir", "write", "sync", "returned", "failed"}]
            /\ dir \in [Selects -> BOOLEAN]
        BY DEF SelectionTypeOK
      <4>2. thread' \in [Selects -> {"none", "mkdir", "write", "sync", "returned", "failed"}]
        BY <3>1, <4>1
      <4>3. dir' \in [Selects -> BOOLEAN]
        BY <3>2, <4>1
      <4> QED
        BY <4>2, <4>3
  <2>2. PagesTypeOK'
    <3>1. UNCHANGED pages \/ \E i \in Begins(batch[c]) : WritesPage(c, i)
      BY <1>7 DEF Publish, Step
    <3>2. ASSUME NEW i \in Begins(batch[c]), WritesPage(c, i) PROVE PagesTypeOK'
      <4> DEFINE b == batch[c]
      <4>1. /\ b \in Seq(Nat) /\ i \in 1..Len(b) + 1
            /\ DOMAIN pages' = Selects
            /\ \A d \in Selects : d # c => pages'[d] = pages[d]
            /\ DOMAIN pages'[c] = DOMAIN pages[c] \cup {i}
            /\ pages'[c] = [k \in DOMAIN pages[c] \cup {i} |-> pages'[c][k]]
            /\ pages'[c][i] \in Page
            /\ \A k \in DOMAIN pages[c] : pages'[c][k] = pages[c][k]
        BY <3>2, WrittenPage
      <4>2. i \in Nat \ {0}
        BY <4>1, LenProperties
      <4> HIDE DEF b
      <4>3. \A k \in DOMAIN pages'[c] : pages'[c][k] \in Page /\ k \in Nat \ {0}
        BY <4>1, <4>2 DEF SelectionTypeOK, PagesTypeOK
      <4>4. pages'[c] \in [DOMAIN pages'[c] -> Page]
        BY <4>1, <4>3
      <4> QED
        BY <4>1, <4>3, <4>4 DEF SelectionTypeOK, PagesTypeOK
    <3> QED
      BY <1>0, <3>1, <3>2
  <2> QED
    BY <1>7, <2>1, <2>2 DEF Publish, SelectionTypeOK, byCaller
<1>8. ASSUME NEW c \in Selects, ReadPage(c) PROVE SelectionTypeOK'
  <2>1. pages[c][follow[c]] \in Page
    BY <1>8 DEF ReadPage, SelectionTypeOK, PagesTypeOK
  <2>2. said[c] \o pages[c][follow[c]].items \in Seq(Nat)
    BY <2>1, ConcatProperties DEF SelectionTypeOK, Page
  <2> QED
    BY <1>0, <1>8, <2>1, <2>2 DEF SelectionTypeOK, ReadPage, onDisk, Page
<1>9. CASE Die
  <2>1. deaths' \in 0..MaxDeaths
    BY <1>9 DEF Die, SelectionTypeOK
  <2>2. call' \in [Selects -> {"idle", "choosing", "publishing", "awaiting", "checkpoint",
                              "leaving", "ending", "over", "dead"}]
    BY <1>9 DEF Die, SelectionTypeOK
  <2> QED
    BY <1>0, <1>9, <2>1, <2>2 DEF SelectionTypeOK, Die, onDisk
<1>10. CASE UNCHANGED selectionVars
  BY <1>0, <1>10 DEF SelectionTypeOK, selectionVars
<1> QED
  BY <1>1, <1>2, <1>3, <1>4, <1>5, <1>6, <1>7, <1>8, <1>9, <1>10 DEF SelectionNext

\* Every step keeps the stages in step with the thread.
LEMMA StageStep == SelectionTypeOK /\ StageInv /\ [SelectionNext]_selectionVars => StageInv'
<1> SUFFICES ASSUME SelectionTypeOK, StageInv, [SelectionNext]_selectionVars PROVE StageInv'
  OBVIOUS
<1> USE DEF SelectionTypeOK, StageInv, Closed
<1>1. ASSUME NEW c \in Selects, Enter(c) PROVE StageInv'
  BY <1>1 DEF Enter, GoesTo, Tells, onDisk, byCaller
<1>2. ASSUME NEW c \in Selects, Choose(c) PROVE StageInv'
  BY <1>2 DEF Choose, GoesTo, Tells, Copies, byCaller
<1>3. ASSUME NEW c \in Selects, Finished(c) \/ Checkpoint(c) \/ Awaited(c) PROVE StageInv'
  <2>1. CASE Finished(c)
    BY <2>1 DEF Finished, GoesTo, Tells, onDisk, byCaller
  <2>2. CASE Checkpoint(c)
    BY <2>2 DEF Checkpoint, GoesTo, Tells, onDisk, byCaller
  <2>3. CASE Awaited(c)
    BY <2>3 DEF Awaited, GoesTo, onDisk, byCaller
  <2> QED
    BY <1>3, <2>1, <2>2, <2>3
<1>4. ASSUME NEW c \in Selects, InterruptSelect(c) PROVE StageInv'
  BY <1>4 DEF InterruptSelect, WaitsForThread, GoesTo, Tells, byCaller
<1>5. ASSUME NEW c \in Selects, LeaveProvider(c) PROVE StageInv'
  BY <1>5 DEF LeaveProvider, GoesTo, Tells, Copies, onDisk, byCaller
<1>6. ASSUME NEW c \in Selects, EndSelect(c) PROVE StageInv'
  BY <1>6 DEF EndSelect, GoesTo
<1>7. ASSUME NEW c \in Selects, Publish(c) PROVE StageInv'
  <2>1. /\ UNCHANGED <<call, copies, accepted, outcome>>
        /\ thread[c] \in {"mkdir", "write", "sync"}
        /\ \E do \in {"write", "sync", "returned", "failed"} :
              thread' = [thread EXCEPT ![c] = do]
    BY <1>7 DEF Publish, Step, WritesPage
  <2>2. call[c] \in {"publishing", "awaiting"}
    BY <1>7, <2>1 DEF Publish
  <2> QED
    BY <2>1, <2>2
<1>8. CASE \E c \in Selects : ReadPage(c)
  BY <1>8 DEF ReadPage, onDisk
<1>9. CASE Die
  BY <1>9 DEF Die, onDisk
<1>10. CASE UNCHANGED selectionVars
  BY <1>10 DEF selectionVars
<1> QED
  BY <1>1, <1>2, <1>3, <1>4, <1>5, <1>6, <1>7, <1>8, <1>9, <1>10 DEF SelectionNext

\* Every step keeps the pages what the batch makes them.
LEMMA PagesStep ==
    SelectionTypeOK /\ StageInv /\ PagesInv /\ [SelectionNext]_selectionVars => PagesInv'
<1> SUFFICES ASSUME SelectionTypeOK, StageInv, PagesInv, [SelectionNext]_selectionVars
             PROVE  PagesInv'
  OBVIOUS
<1>0. ASSUME UNCHANGED <<batch, thread, dir, pages>>,
             \A c \in Selects : call[c] = "over" => call'[c] = "over"
      PROVE  PagesInv'
  BY <1>0 DEF PagesInv
<1>1. ASSUME NEW c \in Selects, Enter(c) \/ Finished(c) \/ Checkpoint(c) \/ Awaited(c)
                                \/ InterruptSelect(c) \/ LeaveProvider(c)
      PROVE  PagesInv'
  <2>1. UNCHANGED <<batch, thread, dir, pages>>
    BY <1>1 DEF Enter, Finished, Checkpoint, Awaited, InterruptSelect, LeaveProvider, onDisk
  <2>2. \A d \in Selects : call[d] = "over" => call'[d] = "over"
    BY <1>1 DEF Enter, Finished, Checkpoint, Awaited, InterruptSelect, LeaveProvider, GoesTo,
                SelectionTypeOK
  <2> QED
    BY <1>0, <2>1, <2>2
<1>2. ASSUME NEW c \in Selects, Choose(c) PROVE PagesInv'
  <2>1. thread[c] = "none" /\ ~dir[c] /\ DOMAIN pages[c] = {}
    BY <1>2 DEF Choose, StageInv, PagesInv
  <2>2. /\ UNCHANGED <<dir, pages>>
        /\ thread'[c] \in {"none", "mkdir"}
        /\ \A d \in Selects : call[d] = "over" => call'[d] = "over"
        /\ \A d \in Selects : d # c => thread'[d] = thread[d] /\ batch'[d] = batch[d]
    BY <1>2, <2>1 DEF Choose, GoesTo, SelectionTypeOK
  <2> QED
    BY <2>1, <2>2 DEF PagesInv
<1>3. ASSUME NEW c \in Selects, EndSelect(c) PROVE PagesInv'
  <2>1. CASE Removes(c)
    <3>1. /\ UNCHANGED <<batch, thread>>
          /\ \A d \in Selects : call[d] = "over" => call'[d] = "over"
          /\ call'[c] = "over" /\ ~dir'[c] /\ pages'[c] = <<>>
          /\ \A d \in Selects : d # c => dir'[d] = dir[d] /\ pages'[d] = pages[d]
      BY <1>3, <2>1 DEF EndSelect, Removes, GoesTo, SelectionTypeOK, PagesTypeOK
    <3>2. DOMAIN pages'[c] = {}
      BY <3>1, EmptySeq, LenProperties
    <3> QED
      BY <3>1, <3>2 DEF PagesInv
  <2>2. CASE UNCHANGED <<dir, pages>>
    <3>1. \A d \in Selects : call[d] = "over" => call'[d] = "over"
      BY <1>3 DEF EndSelect, GoesTo, SelectionTypeOK
    <3> QED
      BY <1>0, <1>3, <2>2, <3>1 DEF EndSelect
  <2> QED
    BY <1>3, <2>1, <2>2 DEF EndSelect
<1>4. ASSUME NEW c \in Selects, Publish(c) PROVE PagesInv'
  <2>1. UNCHANGED <<call, batch>> /\ call[c] \in {"publishing", "awaiting"} /\ Step(c)
    <3>1. thread[c] \in {"mkdir", "write", "sync"}
      BY <1>4 DEF Publish, Step
    <3> QED
      BY <1>4, <3>1 DEF Publish, StageInv, Closed, SelectionTypeOK
  <2>2. ASSUME UNCHANGED pages,
               \/ /\ thread[c] = "mkdir" /\ thread' = [thread EXCEPT ![c] = "write"]
                  /\ dir' = [dir EXCEPT ![c] = TRUE]
               \/ /\ thread[c] = "sync" /\ thread' = [thread EXCEPT ![c] = "returned"]
                  /\ UNCHANGED dir
               \/ thread' = [thread EXCEPT ![c] = "failed"] /\ UNCHANGED dir
        PROVE  PagesInv'
    <3>1. \/ thread[c] = "mkdir" /\ thread'[c] = "write" /\ dir'[c]
          \/ thread[c] = "sync" /\ thread'[c] = "returned" /\ dir'[c] = dir[c]
          \/ thread'[c] = "failed" /\ dir'[c] = dir[c]
      BY <2>2 DEF SelectionTypeOK
    <3>2. \A d \in Selects : d # c => dir'[d] = dir[d] /\ thread'[d] = thread[d]
      BY <2>2 DEF SelectionTypeOK
    <3>3. thread[c] = "mkdir" => DOMAIN pages[c] = {}
      BY DEF PagesInv
    <3> QED
      BY <2>1, <2>2, <3>1, <3>2, <3>3 DEF PagesInv
  <2>3. ASSUME NEW i \in Begins(batch[c]), WritesPage(c, i), thread[c] = "write", UNCHANGED dir
        PROVE  PagesInv'
    <3> DEFINE b == batch[c]
    <3>1. /\ i \in 1..Len(b) + 1
          /\ \A d \in Selects : d # c => pages'[d] = pages[d]
          /\ DOMAIN pages'[c] = DOMAIN pages[c] \cup {i}
          /\ pages'[c][i] = PageAt(b, i)
          /\ PageAt(b, i).next # 0 => PageAt(b, i).next \in DOMAIN pages[c]
          /\ \A k \in DOMAIN pages[c] : pages'[c][k] = pages[c][k]
      BY <2>3, WrittenPage, Zenon
    <3>2. /\ thread' = [thread EXCEPT ![c] = IF i = 1 THEN "sync" ELSE "write"]
          /\ \A d \in Selects : d # c => thread'[d] = thread[d]
      BY <2>3 DEF WritesPage, SelectionTypeOK
    <3>3. dir'[c] /\ thread'[c] \in {"sync", "write"} /\ (thread'[c] = "sync" => i = 1)
      BY <2>1, <2>3, <3>2 DEF PagesInv, SelectionTypeOK
    <3> QED
      BY <2>1, <2>3, <3>1, <3>2, <3>3 DEF PagesInv
  <2> QED
    BY <2>1, <2>2, <2>3 DEF Step
<1>5. ASSUME NEW c \in Selects, ReadPage(c) PROVE PagesInv'
  BY <1>0, <1>5 DEF ReadPage, onDisk
<1>6. CASE Die
  <2>1. UNCHANGED <<batch, thread, dir, pages>>
        /\ \A d \in Selects : call[d] = "over" => call'[d] = "over"
    BY <1>6 DEF Die, onDisk
  <2> QED
    BY <1>0, <2>1
<1>7. CASE UNCHANGED selectionVars
  BY <1>0, <1>7 DEF selectionVars
<1> QED
  BY <1>1, <1>2, <1>3, <1>4, <1>5, <1>6, <1>7 DEF SelectionNext

\* Every step keeps what an ending call leaves.
LEMMA EndStep ==
    SelectionTypeOK /\ StageInv /\ PagesInv /\ EndInv /\ [SelectionNext]_selectionVars => EndInv'
<1> SUFFICES ASSUME SelectionTypeOK, StageInv, PagesInv, EndInv, [SelectionNext]_selectionVars
             PROVE  EndInv'
  OBVIOUS
<1>1. ASSUME NEW c \in Selects, Enter(c) PROVE EndInv'
  <2>1. call[c] = "idle" /\ copies[c] = "none" /\ ~dir[c]
    BY <1>1 DEF Enter, StageInv, PagesInv
  <2> QED
    <3>1. \/ call' = [call EXCEPT ![c] = "choosing"] /\ outcome' = outcome
          \/ call' = [call EXCEPT ![c] = "over"] /\ outcome' = [outcome EXCEPT ![c] = "busy"]
      BY <1>1 DEF Enter, GoesTo, Tells
    <3>2. UNCHANGED <<copies, dir, rolled>>
      BY <1>1 DEF Enter, onDisk
    <3>3. \A d \in Selects : d # c => call'[d] = call[d] /\ outcome'[d] = outcome[d]
      BY <3>1 DEF SelectionTypeOK
    <3>4. call'[c] = "choosing" \/ (call'[c] = "over" /\ outcome'[c] = "busy")
      BY <3>1 DEF SelectionTypeOK
    <3> QED
      BY <2>1, <3>2, <3>3, <3>4 DEF EndInv
<1>2. ASSUME NEW c \in Selects, Choose(c) PROVE EndInv'
  <2>1. call[c] = "choosing" /\ copies[c] = "none"
    BY <1>2 DEF Choose, StageInv
  <2>2. \A d \in Selects : d # c => /\ copies'[d] = copies[d] /\ call'[d] = call[d]
                                   /\ outcome'[d] = outcome[d]
    BY <1>2 DEF Choose, GoesTo, Tells, Copies, SelectionTypeOK
  <2>3. call'[c] # "over" /\ (call'[c] = "ending" => /\ outcome'[c] = "selection_failed"
                                                     /\ copies'[c] = "none")
    BY <1>2, <2>1 DEF Choose, GoesTo, Tells, Copies, SelectionTypeOK
  <2> QED
    BY <1>2, <2>2, <2>3 DEF Choose, EndInv
<1>3. ASSUME NEW c \in Selects, Finished(c) \/ Checkpoint(c) \/ Awaited(c) PROVE EndInv'
  <2>1. /\ UNCHANGED <<copies, dir, rolled>> /\ call'[c] \notin {"ending", "over"}
        /\ \A d \in Selects : d # c => call'[d] = call[d] /\ outcome'[d] = outcome[d]
    BY <1>3 DEF Finished, Checkpoint, Awaited, GoesTo, Tells, onDisk, SelectionTypeOK
  <2> QED
    BY <2>1 DEF EndInv
<1>4. ASSUME NEW c \in Selects, InterruptSelect(c) PROVE EndInv'
  <2>1. /\ UNCHANGED <<copies, dir, rolled>> /\ call'[c] # "over" /\ outcome'[c] = "interrupted"
        /\ call'[c] = "ending" => call[c] = "choosing"
        /\ \A d \in Selects : d # c => call'[d] = call[d] /\ outcome'[d] = outcome[d]
    BY <1>4 DEF InterruptSelect, WaitsForThread, GoesTo, Tells, SelectionTypeOK
  <2>2. call[c] = "choosing" => copies[c] = "none"
    BY DEF StageInv
  <2> QED
    BY <2>1, <2>2 DEF EndInv
<1>5. ASSUME NEW c \in Selects, LeaveProvider(c) PROVE EndInv'
  <2>1. /\ UNCHANGED <<dir, rolled>> /\ call'[c] = "ending"
        /\ outcome'[c] = "page" => copies'[c] = "kept"
        /\ outcome'[c] \notin {"page", "receipt"} => copies'[c] = "gone"
        /\ \A d \in Selects : d # c => /\ copies'[d] = copies[d] /\ call'[d] = call[d]
                                      /\ outcome'[d] = outcome[d]
    BY <1>5 DEF LeaveProvider, GoesTo, Tells, Copies, onDisk, SelectionTypeOK
  <2> QED
    BY <2>1 DEF EndInv
<1>6. ASSUME NEW c \in Selects, EndSelect(c) PROVE EndInv'
  <2>1. /\ thread[c] \in {"none", "returned", "failed"}
        /\ accepted[c] <=> outcome[c] = "page"
        /\ accepted[c] => dir[c]
        /\ thread[c] = "none" => ~dir[c]
    BY <1>6 DEF EndSelect, StageInv, PagesInv, Closed
  <2>2. /\ UNCHANGED <<copies, outcome>> /\ call[c] = "ending"
        /\ outcome[c] = "page" => dir'[c]
        /\ outcome[c] # "page" /\ ~rolled'[c] => ~dir'[c]
    BY <1>6, <2>1 DEF EndSelect, Removes, Published, SelectionTypeOK
  <2>3. \A d \in Selects : d # c => /\ dir'[d] = dir[d] /\ call'[d] = call[d]
                                   /\ rolled'[d] = rolled[d]
    BY <1>6 DEF EndSelect, GoesTo, Removes, SelectionTypeOK
  <2> QED
    BY <2>2, <2>3 DEF EndInv
<1>7. ASSUME NEW c \in Selects, Publish(c) PROVE EndInv'
  <2>1. /\ UNCHANGED <<call, copies, outcome, rolled>>
        /\ \A d \in Selects : d # c => dir'[d] = dir[d]
    BY <1>7 DEF Publish, Step, SelectionTypeOK
  <2>2. thread[c] \in {"mkdir", "write", "sync"}
    BY <1>7 DEF Publish, Step
  <2>3. call[c] # "over"
    BY <2>2 DEF StageInv, Closed
  <2> QED
    BY <2>1, <2>3 DEF EndInv
<1>8. CASE \E c \in Selects : ReadPage(c)
  BY <1>8 DEF ReadPage, onDisk, EndInv
<1>9. CASE Die
  BY <1>9 DEF Die, onDisk, EndInv
<1>10. CASE UNCHANGED selectionVars
  BY <1>10 DEF selectionVars, EndInv
<1> QED
  BY <1>1, <1>2, <1>3, <1>4, <1>5, <1>6, <1>7, <1>8, <1>9, <1>10 DEF SelectionNext

\* Every step keeps how far a caller has read.
LEMMA CallerStep ==
    /\ SelectionTypeOK /\ StageInv /\ PagesInv /\ CallerInv /\ [SelectionNext]_selectionVars
    => CallerInv'
<1> SUFFICES ASSUME SelectionTypeOK, StageInv, PagesInv, CallerInv,
                    [SelectionNext]_selectionVars
             PROVE  CallerInv'
  OBVIOUS
<1>0. ASSUME UNCHANGED <<said, follow>>,
             \A d \in Selects :
                \/ call[d] # "over" /\ call'[d] # "over"
                \/ /\ call[d] = "over" /\ call'[d] = "over" /\ outcome'[d] = outcome[d]
                   /\ batch'[d] = batch[d] /\ pages'[d] = pages[d]
      PROVE  CallerInv'
  BY <1>0 DEF CallerInv
<1>1. ASSUME NEW c \in Selects, Enter(c) PROVE CallerInv'
  <2>1. /\ UNCHANGED <<said, follow, batch, pages>> /\ call[c] = "idle"
        /\ call'[c] = "over" => outcome'[c] = "busy"
        /\ \A d \in Selects : d # c => call'[d] = call[d] /\ outcome'[d] = outcome[d]
    BY <1>1 DEF Enter, GoesTo, Tells, onDisk, byCaller, SelectionTypeOK
  <2> QED
    BY <2>1 DEF CallerInv
<1>2. ASSUME NEW c \in Selects,
             Choose(c) \/ Finished(c) \/ Checkpoint(c) \/ Awaited(c) \/ InterruptSelect(c)
                 \/ LeaveProvider(c)
      PROVE  CallerInv'
  <2>1. UNCHANGED <<said, follow, pages>> /\ call[c] # "over"
    BY <1>2 DEF Choose, Finished, Checkpoint, Awaited, InterruptSelect, LeaveProvider, onDisk,
                byCaller
  <2>2. call'[c] # "over" /\ \A d \in Selects : d # c => call'[d] = call[d]
    BY <1>2 DEF Choose, Finished, Checkpoint, Awaited, InterruptSelect, LeaveProvider, GoesTo,
                WaitsForThread, SelectionTypeOK
  <2>3. \A d \in Selects : d # c => batch'[d] = batch[d]
    BY <1>2 DEF Choose, Finished, Checkpoint, Awaited, InterruptSelect, LeaveProvider, onDisk,
                SelectionTypeOK
  <2>4. \A d \in Selects : d # c => outcome'[d] = outcome[d]
    BY <1>2 DEF Choose, Finished, Checkpoint, Awaited, InterruptSelect, LeaveProvider, Tells,
                SelectionTypeOK
  <2> QED
    BY <1>0, <2>1, <2>2, <2>3, <2>4
<1>3. ASSUME NEW c \in Selects, EndSelect(c) PROVE CallerInv'
  <2>1. /\ call[c] = "ending" /\ UNCHANGED <<said, batch, outcome>>
        /\ \A d \in Selects : d # c => /\ call'[d] = call[d] /\ pages'[d] = pages[d]
                                      /\ follow'[d] = follow[d]
        /\ follow'[c] = IF outcome[c] = "page" THEN 1 ELSE 0
        /\ call'[c] = "over"
    BY <1>3 DEF EndSelect, GoesTo, Removes, SelectionTypeOK, PagesTypeOK
  <2>2. said[c] = <<>>
    BY <2>1 DEF CallerInv
  <2>3. CASE outcome[c] = "page"
    <3>1. accepted[c] /\ thread[c] = "returned"
      BY <2>1, <2>3 DEF StageInv, Closed
    <3>2. 1 \in DOMAIN pages[c] /\ pages'[c] = pages[c]
      BY <1>3, <2>1, <3>1 DEF EndSelect, PagesInv
    <3>3. SubSeq(batch[c], 1, 0) = <<>>
      BY SubSeqEmpty
    <3>4. /\ follow'[c] # 0 /\ outcome'[c] = "page" /\ follow'[c] \in DOMAIN pages'[c]
          /\ said'[c] = SubSeq(batch'[c], 1, follow'[c] - 1)
      BY <2>1, <2>2, <2>3, <3>2, <3>3
    <3> QED
      BY <2>1, <3>4 DEF CallerInv
  <2>4. CASE outcome[c] # "page"
    BY <2>1, <2>4 DEF CallerInv
  <2> QED
    BY <2>3, <2>4
<1>4. ASSUME NEW c \in Selects, Publish(c) PROVE CallerInv'
  <2>1. thread[c] \in {"mkdir", "write", "sync"}
    BY <1>4 DEF Publish, Step
  <2>2. call[c] # "over" /\ UNCHANGED <<call, batch, outcome, said, follow>>
    BY <1>4, <2>1 DEF Publish, StageInv, Closed, byCaller
  <2>3. \A d \in Selects : d # c => pages'[d] = pages[d]
    BY <1>4 DEF Publish, Step, WritesPage, SelectionTypeOK, PagesTypeOK
  <2> QED
    BY <1>0, <2>2, <2>3
<1>5. ASSUME NEW c \in Selects, ReadPage(c) PROVE CallerInv'
  <2> DEFINE b == batch[c]
             i == follow[c]
             n == PageAt(b, i).next
  <2>1. /\ i \in 1..Len(b) + 1 /\ i \in DOMAIN pages[c] /\ pages[c][i] = PageAt(b, i)
        /\ n # 0 => n \in DOMAIN pages[c]
        /\ call[c] = "over" /\ outcome[c] = "page"
        /\ said[c] = SubSeq(b, 1, i - 1)
    BY <1>5 DEF ReadPage, PagesInv, CallerInv
  <2>2. b \in Seq(Nat)
    <3>1. <<>> \in Seq(Nat) /\ Batches \subseteq Seq(Nat)
      BY SelectionAssumption, EmptySeq DEF SelectionAssumption
    <3> QED
      BY <3>1 DEF SelectionTypeOK
  <2>3. /\ UNCHANGED <<call, outcome, batch, pages>>
        /\ said'[c] = said[c] \o pages[c][i].items /\ follow'[c] = pages[c][i].next
        /\ \A d \in Selects : d # c => said'[d] = said[d] /\ follow'[d] = follow[d]
    BY <1>5 DEF ReadPage, onDisk, SelectionTypeOK
  <2>4. pages[c][i].items = ItemsOf(b, i) /\ pages[c][i].next = n
    BY <2>1 DEF PageAt
  <2> HIDE DEF b, i, n
  <2>5. said'[c] = IF n = 0 THEN b ELSE SubSeq(b, 1, n - 1)
    <3>1. SubSeq(b, 1, i - 1) \o ItemsOf(b, i) =
             IF PageAt(b, i).next = 0 THEN b ELSE SubSeq(b, 1, PageAt(b, i).next - 1)
      BY <2>1, <2>2, PageIsPage
    <3> QED
      BY <2>1, <2>3, <2>4, <3>1 DEF n
  <2>6. batch'[c] = b
    BY <2>3 DEF b
  <2> QED
    <3>1. /\ call'[c] = "over" /\ outcome'[c] = "page"
          /\ n # 0 => n \in DOMAIN pages'[c]
      BY <2>1, <2>3
    <3>2. follow'[c] = n
      BY <2>3, <2>4
    <3>3. /\ n # 0 => said'[c] = SubSeq(batch'[c], 1, n - 1)
          /\ n = 0 => said'[c] = batch'[c]
      BY <2>5, <2>6
    <3>4. \A d \in Selects : d # c =>
            /\ call'[d] = call[d] /\ outcome'[d] = outcome[d] /\ said'[d] = said[d]
            /\ follow'[d] = follow[d] /\ batch'[d] = batch[d] /\ pages'[d] = pages[d]
      BY <2>3
    <3> QED
      BY <3>1, <3>2, <3>3, <3>4 DEF CallerInv
<1>6. CASE Die
  <2>1. UNCHANGED <<said, follow, batch, pages, outcome>>
        /\ \A d \in Selects : call'[d] = "over" <=> call[d] = "over"
    BY <1>6 DEF Die, onDisk
  <2> QED
    BY <1>0, <2>1
<1>7. CASE UNCHANGED selectionVars
  BY <1>7 DEF selectionVars, CallerInv
<1> QED
  BY <1>1, <1>2, <1>3, <1>4, <1>5, <1>6, <1>7 DEF SelectionNext

\* Every step keeps to one selection.
LEMMA OneStep == SelectionTypeOK /\ OneInv /\ [SelectionNext]_selectionVars => OneInv'
<1> SUFFICES ASSUME SelectionTypeOK, OneInv, [SelectionNext]_selectionVars PROVE OneInv'
  OBVIOUS
<1>0. ASSUME NEW c \in Selects, UNCHANGED pending, Active(c) <=> Active(c)',
             \A d \in Selects : d # c => call'[d] = call[d]
      PROVE  OneInv'
  BY <1>0 DEF OneInv, Active
<1>1. ASSUME NEW c \in Selects, Enter(c) PROVE OneInv'
  <2>1. CASE pending
    <3>1. UNCHANGED pending /\ ~Active(c) /\ call'[c] = "over"
      BY <1>1, <2>1 DEF Enter, GoesTo, SelectionTypeOK, Active
    <3>2. \A d \in Selects : d # c => call'[d] = call[d]
      BY <1>1, <2>1 DEF Enter, GoesTo, SelectionTypeOK
    <3> QED
      BY <1>0, <3>1, <3>2 DEF Active
  <2>2. CASE ~pending
    <3>1. pending' = TRUE /\ call'[c] = "choosing" /\ \A d \in Selects : ~Active(d)
      BY <1>1, <2>2 DEF Enter, GoesTo, SelectionTypeOK, OneInv
    <3>2. \A d \in Selects : d # c => call'[d] = call[d]
      BY <1>1, <2>2 DEF Enter, GoesTo, SelectionTypeOK
    <3> QED
      BY <3>1, <3>2 DEF OneInv, Active
  <2> QED
    BY <2>1, <2>2
<1>2. ASSUME NEW c \in Selects,
             Choose(c) \/ Finished(c) \/ Checkpoint(c) \/ Awaited(c) \/ InterruptSelect(c)
                 \/ LeaveProvider(c)
      PROVE  OneInv'
  <2>1. UNCHANGED pending /\ Active(c)
    BY <1>2 DEF Choose, Finished, Checkpoint, Awaited, InterruptSelect, LeaveProvider, Active
  <2>2. Active(c)' /\ \A d \in Selects : d # c => call'[d] = call[d]
    BY <1>2 DEF Choose, Finished, Checkpoint, Awaited, InterruptSelect, LeaveProvider, Active,
                GoesTo, WaitsForThread, SelectionTypeOK
  <2> QED
    BY <1>0, <2>1, <2>2
<1>3. ASSUME NEW c \in Selects, EndSelect(c) PROVE OneInv'
  <2>1. /\ Active(c) /\ ~Active(c)' /\ pending' = FALSE
        /\ \A d \in Selects : d # c => call'[d] = call[d]
    BY <1>3 DEF EndSelect, GoesTo, SelectionTypeOK, Active
  <2> QED
    BY <2>1 DEF OneInv, Active
<1>4. ASSUME NEW c \in Selects, Publish(c) \/ ReadPage(c) PROVE OneInv'
  <2>1. UNCHANGED <<pending, call>>
    BY <1>4 DEF Publish, ReadPage
  <2> QED
    BY <2>1 DEF OneInv, Active
<1>5. CASE Die
  BY <1>5 DEF Die, OneInv, Active
<1>6. CASE UNCHANGED selectionVars
  BY <1>6 DEF selectionVars, OneInv, Active
<1> QED
  BY <1>1, <1>2, <1>3, <1>4, <1>5, <1>6 DEF SelectionNext

\* The invariant holds in every reachable state, and with it the types.
THEOREM SelectionTypeCorrect == SelectionSpec => []SelectionInv
<1>1. SelectionInv /\ [SelectionNext]_selectionVars => SelectionInv'
  BY SelectionTypeStep, StageStep, PagesStep, EndStep, CallerStep, OneStep DEF SelectionInv
<1> QED
  BY <1>1, SelectionInitInv, PTL DEF SelectionSpec

\* However calls, their threads, cancellations and deaths of the server interleave, and
\* for any batches and bounds of a page: who was told of a page can read the whole
\* selection, once and in order; what nobody was told of is removed; and one selection is
\* under way at a time (SelectionCoordinator.select, SelectionPages).
THEOREM SelectionsArriveWhole == SelectionSpec => []SelectionsAreWhole
<1>1. SelectionInv => SelectionsAreWhole
  <2> SUFFICES ASSUME SelectionInv PROVE SelectionsAreWhole
    OBVIOUS
  <2> USE DEF SelectionInv
  <2>1. ASSUME NEW c \in Selects, call[c] = "over", outcome[c] = "page"
        PROVE  IF follow[c] = 0 THEN said[c] = batch[c]
               ELSE IsPrefix(said[c], batch[c]) /\ follow[c] \in DOMAIN pages[c]
    <3>1. CASE follow[c] = 0
      BY <2>1, <3>1 DEF CallerInv
    <3>2. CASE follow[c] # 0
      <4> DEFINE b == batch[c]
                 i == follow[c]
      <4>1. i \in DOMAIN pages[c] /\ said[c] = SubSeq(b, 1, i - 1) /\ i \in 1..Len(b) + 1
        BY <3>2 DEF CallerInv, PagesInv
      <4>2. b \in Seq(Nat)
        <5>1. <<>> \in Seq(Nat) /\ Batches \subseteq Seq(Nat)
          BY SelectionAssumption, EmptySeq DEF SelectionAssumption
        <5> QED
          BY <5>1 DEF SelectionTypeOK
      <4> HIDE DEF b, i
      <4>3. Len(b) \in Nat /\ \A k \in 1..i - 1 : b[k] \in Nat
        BY <4>1, <4>2, LenProperties, ElementOfSeq
      <4>4. said[c] \in Seq(Nat) /\ Len(said[c]) = i - 1
        BY <4>1, <4>3, SubSeqProperties
      <4>5. SubSeq(said[c], 1, Len(said[c])) = said[c]
        BY <4>4, SubSeqFull
      <4>6. IsPrefix(said[c], b)
        BY <4>1, <4>3, <4>4, <4>5 DEF IsPrefix
      <4> QED
        BY <3>2, <4>1, <4>6 DEF b, i
    <3> QED
      BY <3>1, <3>2
  <2>2. \A c \in Selects : call[c] = "over" =>
           /\ outcome[c] = "page" => copies[c] = "kept" /\ dir[c]
           /\ outcome[c] # "page" /\ ~rolled[c] => ~dir[c]
           /\ outcome[c] \notin {"page", "receipt"} => copies[c] \in {"none", "gone"}
           /\ thread[c] \in {"none", "returned", "failed"}
    BY DEF EndInv, StageInv, Closed
  <2> QED
    BY <2>1, <2>2 DEF SelectionsAreWhole, OneInv
<1> QED
  BY <1>1, SelectionTypeCorrect, PTL

-----------------------------------------------------------------------------
(* Reading                                                                 *)

\* A bounded set of numbers has a greatest.
LEMMA MaxIsGreatest ==
    ASSUME NEW S \in SUBSET Nat, S # {}, NEW bound \in Nat, \A k \in S : k <= bound
    PROVE  Max(S) \in S /\ \A k \in S : k <= Max(S)
<1> DEFINE Above == {u \in Nat : \A k \in S : k <= u}
<1>1. Above \in SUBSET Nat /\ Above # {}
  OBVIOUS
<1>2. PICK u \in Above : \A v \in Above : u <= v
  BY <1>1, MinIsLeast
<1>3. u \in S
  <2> SUFFICES ASSUME u \notin S PROVE FALSE
    OBVIOUS
  <2>1. u \in Nat /\ \A k \in S : k <= u - 1
    BY <1>2
  <2>2. u - 1 \in Nat
    <3>1. PICK k \in S : TRUE
      OBVIOUS
    <3> QED
      BY <2>1, <3>1
  <2>3. u - 1 \in Above
    BY <2>1, <2>2
  <2> QED
    BY <1>2, <2>1, <2>3
<1>4. \A k \in S : u >= k
  BY <1>2
<1>5. Max(S) \in S /\ \A k \in S : Max(S) >= k
  BY <1>3, <1>4 DEF Max
<1> QED
  BY <1>5

\* What the items of a reply take adds up.
LEMMA FilledAdds ==
    ASSUME NEW items, Len(items) \in Nat, \A k \in 1..Len(items) : items[k].bytes \in Nat
    PROVE  /\ Filled(items)[0] = 0
           /\ \A k \in 0..Len(items) : Filled(items)[k] \in Nat
           /\ \A k \in 1..Len(items) :
                Filled(items)[k] = Filled(items)[k - 1] + items[k].bytes + 1
<1> DEFINE n == Len(items)
<1> DEFINE Adds(f, m) == f = [k \in 0..m |-> IF k = 0 THEN 0 ELSE f[k - 1] + items[k].bytes + 1]
<1>1. \A m \in 0..n : \E f : Adds(f, m)
  <2> DEFINE Bad == {m \in 0..n : ~\E f : Adds(f, m)}
  <2> SUFFICES ASSUME Bad # {} PROVE FALSE
    OBVIOUS
  <2>1. Bad \in SUBSET Nat
    OBVIOUS
  <2>2. PICK m \in Bad : \A k \in Bad : m <= k
    BY <2>1, MinIsLeast
  <2>3. CASE m = 0
    <3>1. Adds([k \in 0..0 |-> 0], 0)
      OBVIOUS
    <3> QED
      BY <2>2, <2>3, <3>1
  <2>4. CASE m # 0
    <3>1. m \in Nat /\ m - 1 \in 0..n /\ m - 1 \notin Bad
      BY <2>2, <2>4
    <3>2. PICK f : Adds(f, m - 1)
      BY <3>1
    <3> DEFINE g == [k \in 0..m |-> IF k = m THEN f[m - 1] + items[m].bytes + 1 ELSE f[k]]
    <3>3. \A k \in 0..m : g[k] = IF k = 0 THEN 0 ELSE g[k - 1] + items[k].bytes + 1
      <4> SUFFICES ASSUME NEW k \in 0..m
                   PROVE  g[k] = IF k = 0 THEN 0 ELSE g[k - 1] + items[k].bytes + 1
        OBVIOUS
      <4>1. CASE k = m
        <5>1. g[m] = f[m - 1] + items[m].bytes + 1 /\ g[m - 1] = f[m - 1]
          BY <3>1
        <5> QED
          BY <4>1, <5>1, <2>4
      <4>2. CASE k # m
        <5>1. k \in 0..(m - 1) /\ g[k] = f[k]
          BY <4>2, <3>1
        <5>2. f[k] = IF k = 0 THEN 0 ELSE f[k - 1] + items[k].bytes + 1
          BY <3>2, <5>1
        <5>3. k # 0 => g[k - 1] = f[k - 1]
          BY <5>1, <3>1
        <5> QED
          BY <5>1, <5>2, <5>3
      <4> QED
        BY <4>1, <4>2
    <3>4. Adds(g, m)
      BY <3>3
    <3> QED
      BY <2>2, <3>4
  <2> QED
    BY <2>3, <2>4
<1>2. \E f : Adds(f, n)
  <2>1. n \in 0..n
    OBVIOUS
  <2> HIDE DEF Adds, n
  <2> QED
    BY <1>1, <2>1
<1> DEFINE f == Filled(items)
<1>3. Adds(f, n)
  BY <1>2 DEF Filled
<1> HIDE DEF f
<1>4. f[0] = 0 /\ \A k \in 1..n : f[k] = f[k - 1] + items[k].bytes + 1
  BY <1>3
<1>5. \A k \in 0..n : f[k] \in Nat
  <2> DEFINE Bad == {m \in 0..n : f[m] \notin Nat}
  <2> SUFFICES ASSUME Bad # {} PROVE FALSE
    OBVIOUS
  <2>1. Bad \in SUBSET Nat
    OBVIOUS
  <2>2. PICK m \in Bad : \A k \in Bad : m <= k
    BY <2>1, MinIsLeast
  <2>3. m # 0
    BY <1>4, <2>2
  <2>4. m \in 1..n /\ f[m - 1] \in Nat
    BY <2>2, <2>3
  <2>5. f[m] = f[m - 1] + items[m].bytes + 1 /\ items[m].bytes \in Nat
    BY <1>4, <2>4
  <2>6. f[m] \in Nat
    BY <2>4, <2>5
  <2> QED
    BY <2>2, <2>6
<1> QED
  BY <1>4, <1>5 DEF f

\* The items up to a later place take no less.
LEMMA FilledGrows ==
    ASSUME NEW items, Len(items) \in Nat, \A k \in 1..Len(items) : items[k].bytes \in Nat,
           NEW from \in 0..Len(items), NEW to \in from..Len(items)
    PROVE  Filled(items)[from] <= Filled(items)[to]
<1> DEFINE f == Filled(items)
           Bad == {m \in from..Len(items) : ~(f[from] <= f[m])}
<1>1. /\ \A k \in 0..Len(items) : f[k] \in Nat
      /\ \A k \in 1..Len(items) : f[k] = f[k - 1] + items[k].bytes + 1
  BY FilledAdds
<1> HIDE DEF f
<1> SUFFICES ASSUME Bad # {} PROVE FALSE
  BY DEF f
<1>2. Bad \in SUBSET Nat
  OBVIOUS
<1>3. PICK m \in Bad : \A k \in Bad : m <= k
  BY <1>2, MinIsLeast
<1>4. m # from /\ m \in 1..Len(items) /\ m - 1 \in from..Len(items)
  BY <1>1, <1>3
<1>5. f[from] <= f[m - 1]
  BY <1>3, <1>4
<1>6. f[m] = f[m - 1] + items[m].bytes + 1 /\ {f[m], f[m - 1], f[from]} \subseteq Nat
  BY <1>1, <1>4
<1>7. f[m - 1] <= f[m]
  <2>1. items[m].bytes \in Nat
    BY <1>4
  <2> QED
    BY <1>6, <2>1
<1> QED
  BY <1>3, <1>5, <1>6, <1>7

\* The pieces of a text that can be cut follow one another and leave nothing between.
LEMMA PiecesTile ==
    ASSUME NEW text, text.length \in Nat, text.length # 0,
           \A c \in PieceStarts(text) : Fitting(text, c) # {}
    PROVE  /\ PieceStarts(text) \subseteq 0..(text.length - 1) /\ 0 \in PieceStarts(text)
           /\ \A c \in PieceStarts(text) :
                /\ Max(Fitting(text, c)) \in (c + 1)..text.length
                /\ Max(Fitting(text, c)) \in Fitting(text, c)
           /\ \A c, d \in PieceStarts(text) : c < d => Max(Fitting(text, c)) <= d
           /\ \A c \in 1..text.length :
                \E d \in PieceStarts(text) : c \in (d + 1)..Max(Fitting(text, d))
<1> DEFINE starts == PieceStarts(text)
           last == text.length
           Upto(c) == Max(Fitting(text, c))
           IsClosed(some) == /\ 0 \in some
                             /\ \A c \in some : Fitting(text, c) # {} => Upto(c) \in some
<1>1. starts \subseteq 0..(last - 1) /\ last \in Nat
  BY DEF PieceStarts
<1>2. \A c \in 0..last : Fitting(text, c) # {} =>
        Upto(c) \in (c + 1)..last /\ Upto(c) \in Fitting(text, c)
  <2> SUFFICES ASSUME NEW c \in 0..last, Fitting(text, c) # {}
               PROVE  Upto(c) \in (c + 1)..last /\ Upto(c) \in Fitting(text, c)
    OBVIOUS
  <2>1. Fitting(text, c) \in SUBSET ((c + 1)..last)
    BY DEF Fitting
  <2>2. Fitting(text, c) \in SUBSET Nat /\ \A k \in Fitting(text, c) : k <= last
    BY <2>1
  <2>3. Upto(c) \in Fitting(text, c)
    BY <2>2, MaxIsGreatest
  <2> QED
    BY <2>1, <2>3
<1>3. \A some \in SUBSET (0..last) : IsClosed(some) => starts \subseteq some
  BY Zenon DEF PieceStarts
<1>4. 0 \in starts
  BY DEF PieceStarts
<1>5. \A c \in starts : Upto(c) \in starts \/ Upto(c) = last
  <2> SUFFICES ASSUME NEW c \in starts, Upto(c) # last PROVE Upto(c) \in starts
    OBVIOUS
  <2>1. c \in 0..last /\ Fitting(text, c) # {}
    BY <1>1
  <2>2. Upto(c) \in 0..(last - 1)
    BY <1>2, <2>1
  <2>3. ASSUME NEW some \in SUBSET (0..last), IsClosed(some) PROVE Upto(c) \in some
    BY <1>3, <2>1, <2>3
  <2> QED
    BY <2>2, <2>3, Zenon DEF PieceStarts
<1>6. Fitting(text, last) = {}
  BY <1>1 DEF Fitting
<1> HIDE DEF starts, last, Upto
<1>10. \A z \in starts \cup {last} : z \in 0..last
  <2>1. \A z \in starts : z \in 0..last
    BY <1>1
  <2> QED
    BY <1>1, <2>1
<1> DEFINE here == starts \cup {last}
           Parted == {x \in here : \A d \in starts : d < x => Upto(d) <= x}
<1>7. \A x \in starts \cap Parted : \A z \in starts : z <= x \/ z >= Upto(x)
  <2> SUFFICES ASSUME NEW x \in starts \cap Parted
               PROVE  \A z \in starts : z <= x \/ z >= Upto(x)
    OBVIOUS
  <2> DEFINE Rest == {z \in here : z <= x \/ z >= Upto(x)}
  <2>1. Rest \in SUBSET (0..last)
    BY <1>10
  <2>2. 0 \in Rest
    BY <1>1, <1>4
  <2>3. ASSUME NEW c \in Rest, Fitting(text, c) # {} PROVE Upto(c) \in Rest
    <3>1. c \in starts
      BY <1>6, <2>3
    <3>2. Upto(c) \in here /\ Upto(c) \in (c + 1)..last /\ Upto(x) \in (x + 1)..last
      BY <1>1, <1>2, <1>5, <2>3, <3>1 DEF starts
    <3>3. CASE c < x
      <4>1. Upto(c) <= x
        BY <3>1, <3>3
      <4> QED
        BY <3>2, <4>1
    <3>4. CASE c >= x
      <4>1. c = x \/ c >= Upto(x)
        BY <1>1, <3>4, <3>1
      <4>2. Upto(c) >= Upto(x)
        BY <1>1, <3>1, <3>2, <4>1
      <4> QED
        BY <3>2, <4>2
    <3> QED
      BY <1>1, <3>1, <3>3, <3>4
  <2>4. IsClosed(Rest)
    BY <2>2, <2>3
  <2> QED
    BY <1>3, <2>1, <2>4
<1>8. starts \subseteq Parted
  <2>1. Parted \in SUBSET (0..last)
    BY <1>10
  <2>2. 0 \in Parted
    BY <1>1, <1>4
  <2>3. ASSUME NEW c \in Parted, Fitting(text, c) # {} PROVE Upto(c) \in Parted
    <3>1. c \in starts
      BY <1>6, <2>3
    <3>2. Upto(c) \in here /\ Upto(c) \in (c + 1)..last
      BY <1>1, <1>2, <1>5, <2>3, <3>1
    <3>3. ASSUME NEW d \in starts, d < Upto(c) PROVE Upto(d) <= Upto(c)
      <4>1. d <= c
        BY <1>1, <1>7, <3>1, <3>2, <3>3
      <4>2. CASE d = c
        BY <1>1, <3>2, <4>2
      <4>3. CASE d # c
        <5>1. Upto(d) <= c /\ Upto(d) \in 0..last
          BY <1>1, <1>2, <3>1, <4>1, <4>3 DEF starts
        <5> QED
          BY <1>1, <3>2, <5>1
      <4> QED
        BY <4>2, <4>3
    <3> QED
      BY <3>2, <3>3
  <2>4. IsClosed(Parted)
    BY <2>2, <2>3
  <2> QED
    BY <1>3, <2>1, <2>4
<1>9. ASSUME NEW c \in 1..last PROVE \E d \in starts : c \in (d + 1)..Upto(d)
  <2> DEFINE Before == {d \in starts : d < c}
  <2>1. 0 < c /\ c \in Nat /\ \A d \in starts : d \in Nat /\ (d < c => d <= c)
    BY <1>1
  <2>5. Before \in SUBSET Nat /\ Before # {} /\ \A d \in Before : d <= c
    BY <1>4, <2>1
  <2>6. Max(Before) \in Before /\ \A e \in Before : e <= Max(Before)
    BY <2>1, <2>5, MaxIsGreatest
  <2>2. PICK d \in Before : \A e \in Before : e <= d
    BY <2>6
  <2>3. Upto(d) \in (d + 1)..last /\ (Upto(d) \in starts \/ Upto(d) = last)
    BY <1>1, <1>2, <1>5 DEF starts
  <2>4. Upto(d) >= c
    <3> SUFFICES ASSUME Upto(d) < c PROVE FALSE
      BY <1>1, <2>3
    <3>1. Upto(d) \in Before
      BY <1>1, <2>3
    <3> QED
      BY <1>1, <2>2, <2>3, <3>1
  <2> QED
    BY <1>1, <2>2, <2>3, <2>4
<1> QED
  BY <1>1, <1>2, <1>4, <1>8, <1>9 DEF starts, last, Upto

\* Put in order, fragments no two of which begin alike come once each, the earlier first.
LEMMA OrderIsWhole ==
    ASSUME NEW fragments, IsFiniteSet(fragments),
           \A f \in fragments : f.node \in Nat /\ f.from \in Nat,
           \A f, g \in fragments : f.node = g.node /\ f.from = g.from => f = g
    PROVE  /\ InOrder(fragments) \in Seq(fragments)
           /\ Len(InOrder(fragments)) = Cardinality(fragments)
           /\ \A f \in fragments : \E k \in DOMAIN InOrder(fragments) : InOrder(fragments)[k] = f
           /\ \A k \in DOMAIN InOrder(fragments) : \A j \in 1..(k - 1) :
                Earlier(InOrder(fragments)[j], InOrder(fragments)[k])
<1> DEFINE n == Cardinality(fragments)
           Before(f) == {g \in fragments : Earlier(g, f)}
           rank == [f \in fragments |-> Cardinality(Before(f))]
           order == InOrder(fragments)
<1>1. n \in Nat
  BY FS_CardinalityType
<1>2. \A f, g \in fragments : f # g => Earlier(f, g) \/ Earlier(g, f)
  BY DEF Earlier
<1>3. \A f, g, h \in fragments : Earlier(f, g) /\ Earlier(g, h) => Earlier(f, h)
  BY DEF Earlier
<1>4. \A f \in fragments : ~Earlier(f, f)
  BY DEF Earlier
<1>5. \A f \in fragments : IsFiniteSet(Before(f)) /\ Cardinality(Before(f)) \in 0..(n - 1)
  <2> SUFFICES ASSUME NEW f \in fragments
               PROVE  IsFiniteSet(Before(f)) /\ Cardinality(Before(f)) \in 0..(n - 1)
    OBVIOUS
  <2>1. Before(f) \in SUBSET fragments /\ Before(f) # fragments
    BY <1>4
  <2>2. /\ IsFiniteSet(Before(f)) /\ Cardinality(Before(f)) <= n
        /\ n = Cardinality(Before(f)) => fragments = Before(f)
    BY <2>1, FS_Subset
  <2>3. Cardinality(Before(f)) \in Nat /\ Cardinality(Before(f)) # n
    BY <2>1, <2>2, FS_CardinalityType
  <2> QED
    BY <1>1, <2>2, <2>3
<1>6. ASSUME NEW f \in fragments, NEW g \in fragments, Earlier(f, g)
      PROVE  Cardinality(Before(f)) < Cardinality(Before(g))
  <2>1. Before(f) \in SUBSET Before(g) /\ f \in Before(g) /\ f \notin Before(f)
    BY <1>3, <1>4, <1>6
  <2>2. IsFiniteSet(Before(g))
    BY <1>5
  <2>3. /\ Cardinality(Before(f)) <= Cardinality(Before(g))
        /\ Cardinality(Before(g)) = Cardinality(Before(f)) => Before(g) = Before(f)
    BY <2>1, <2>2, FS_Subset
  <2>4. Cardinality(Before(f)) # Cardinality(Before(g))
    BY <2>1, <2>3
  <2>5. Cardinality(Before(f)) \in Nat /\ Cardinality(Before(g)) \in Nat
    BY <1>5, FS_CardinalityType
  <2> QED
    BY <2>3, <2>4, <2>5
<1>7. \A f \in fragments : rank[f] = Cardinality(Before(f)) /\ rank[f] \in 0..(n - 1)
  BY <1>5
<1>18. ASSUME NEW f \in fragments PROVE rank[f] \in Nat /\ rank[f] + 1 \in 1..n
  <2>1. rank[f] \in 0..(n - 1)
    BY <1>7
  <2> QED
    BY <1>1, <2>1
<1>8. \A f, g \in fragments : Earlier(f, g) => rank[f] < rank[g]
  BY <1>6
<1> HIDE DEF rank, n
<1>9. \A f, g \in fragments : rank[f] < rank[g] => Earlier(f, g)
  <2> SUFFICES ASSUME NEW f \in fragments, NEW g \in fragments, rank[f] < rank[g]
               PROVE  Earlier(f, g)
    OBVIOUS
  <2>1. f # g /\ ~(rank[g] < rank[f])
    <3>1. rank[f] \in Nat /\ rank[g] \in Nat
      BY <1>18
    <3> QED
      BY <3>1
  <2> QED
    BY <1>2, <1>8, <2>1
<1>10. \A f, g \in fragments : rank[f] = rank[g] => f = g
  <2> SUFFICES ASSUME NEW f \in fragments, NEW g \in fragments, rank[f] = rank[g], f # g
               PROVE  FALSE
    OBVIOUS
  <2>1. ~(rank[f] < rank[g]) /\ ~(rank[g] < rank[f])
    <3>1. rank[f] \in Nat /\ rank[g] \in Nat
      BY <1>18
    <3> QED
      BY <3>1
  <2> QED
    BY <1>2, <1>8, <2>1
<1>11. \A k \in 1..n : \E f \in fragments : rank[f] = k - 1
  <2>1. rank \in Injection(fragments, 0..(n - 1))
    <3>1. rank \in [fragments -> 0..(n - 1)]
      BY <1>7 DEF rank
    <3> QED
      BY <1>10, <3>1 DEF Injection, IsInjective
  <2>2. IsFiniteSet(0..(n - 1)) /\ Cardinality(0..(n - 1)) = n
    <3>1. 0 \in Int /\ n - 1 \in Int
      BY <1>1
    <3>2. IsFiniteSet(0..(n - 1))
          /\ Cardinality(0..(n - 1)) = IF 0 > n - 1 THEN 0 ELSE (n - 1) - 0 + 1
      BY <3>1, FS_Interval
    <3> QED
      BY <1>1, <3>2
  <2>3. rank \in Surjection(fragments, 0..(n - 1))
    BY <2>1, <2>2, FS_Injection DEF n
  <2>4. \A t \in 0..(n - 1) : \E f \in fragments : rank[f] = t
    BY <2>3 DEF Surjection
  <2>5. \A k \in 1..n : k - 1 \in 0..(n - 1)
    BY <1>1
  <2> QED
    BY <2>4, <2>5
<1>12. order = [k \in 1..n |-> CHOOSE f \in fragments : Cardinality(Before(f)) = k - 1]
  BY DEF InOrder, n
<1> HIDE DEF order
<1>13. \A k \in 1..n : order[k] \in fragments /\ rank[order[k]] = k - 1
  <2> SUFFICES ASSUME NEW k \in 1..n PROVE order[k] \in fragments /\ rank[order[k]] = k - 1
    OBVIOUS
  <2>1. order[k] = CHOOSE f \in fragments : Cardinality(Before(f)) = k - 1
    BY <1>12
  <2>2. \E f \in fragments : Cardinality(Before(f)) = k - 1
    BY <1>7, <1>11
  <2>3. order[k] \in fragments /\ Cardinality(Before(order[k])) = k - 1
    BY <2>1, <2>2, Zenon
  <2> QED
    BY <1>7, <2>3
<1>14. order \in [1..n -> fragments] /\ DOMAIN order = 1..n
  BY <1>12, <1>13
<1>15. order \in Seq(fragments) /\ Len(order) = n
  BY <1>1, <1>14
<1>16. ASSUME NEW f \in fragments PROVE \E k \in DOMAIN order : order[k] = f
  <2>1. PICK k \in 1..n : k - 1 = rank[f]
    <3>1. rank[f] + 1 \in 1..n /\ (rank[f] + 1) - 1 = rank[f]
      BY <1>18
    <3> QED
      BY <3>1
  <2> QED
    BY <1>10, <1>13, <1>14, <2>1
<1>17. ASSUME NEW k \in DOMAIN order, NEW j \in 1..(k - 1) PROVE Earlier(order[j], order[k])
  <2>1. k \in 1..n /\ j \in 1..n /\ j - 1 < k - 1
    BY <1>1, <1>14
  <2>2. rank[order[j]] < rank[order[k]]
    BY <1>13, <2>1
  <2> QED
    BY <1>9, <1>13, <2>1, <2>2
<1> QED
  BY <1>14, <1>15, <1>16, <1>17 DEF order, n

\* A plan gives each fragment half of what a reply has left for it.
LEMMA CapIsLess == FragmentCap \in Nat /\ Reserve + FragmentCap + 1 <= Cap
<1>1. Reserve \in Nat /\ Cap \in Nat /\ Reserve < Cap
  BY Readable DEF ReadingAssumption
<1>2. Cap - Reserve \in Nat /\ Cap - Reserve >= 1
  BY <1>1
<1>3. FragmentCap \in Nat /\ FragmentCap + 1 <= Cap - Reserve
  BY <1>2 DEF FragmentCap
<1> QED
  BY <1>1, <1>3

\* What the assumption says of each node of a content.
LEMMA NodesAre ==
    ASSUME NEW content, IsContent(content)
    PROVE  /\ DOMAIN content = 1..Len(content) /\ Len(content) \in Nat \ {0}
           /\ \A k \in DOMAIN content :
                /\ k \in Nat /\ content[k].kind \in {"scalar", "text", "box"}
                /\ content[k].pointer \in Nat /\ content[k].bytes \in Nat
                /\ content[k].holds \in Nat
                /\ Inside(content, k) \subseteq DOMAIN content
                /\ content[k].kind # "box" => Inside(content, k) = {}
                /\ \A j \in Inside(content, k) :
                     j > k /\ Inside(content, j) \subseteq Inside(content, k)
                /\ content[k].kind = "text" =>
                     /\ content[k].length \in Nat
                     /\ \A c \in 0..content[k].length : content[k].upto[c] \in Nat
                     /\ \A c, d \in 0..content[k].length :
                          c <= d => content[k].upto[c] <= content[k].upto[d]
<1>1. content \in Seq(Range(content)) /\ content # <<>>
  BY DEF IsContent
<1>2. DOMAIN content = 1..Len(content) /\ Len(content) \in Nat \ {0}
  BY <1>1, LenProperties, EmptySeq
<1>3. ASSUME NEW k \in DOMAIN content
      PROVE  /\ k \in Nat /\ content[k].kind \in {"scalar", "text", "box"}
             /\ content[k].pointer \in Nat /\ content[k].bytes \in Nat
             /\ content[k].holds \in Nat
             /\ k + content[k].holds <= Len(content)
             /\ content[k].kind # "box" => content[k].holds = 0
             /\ \A j \in Inside(content, k) : j + content[j].holds <= k + content[k].holds
             /\ content[k].kind = "text" =>
                  /\ content[k].length \in Nat
                  /\ \A c \in 0..content[k].length : content[k].upto[c] \in Nat
                  /\ \A c, d \in 0..content[k].length :
                       c <= d => content[k].upto[c] <= content[k].upto[d]
  <2>1. k \in Nat
    BY <1>2, <1>3
  <2>2. /\ content[k].kind \in {"scalar", "text", "box"}
        /\ content[k].pointer \in Nat /\ content[k].bytes \in Nat /\ content[k].holds \in Nat
        /\ k + content[k].holds <= Len(content)
        /\ content[k].kind # "box" => content[k].holds = 0
        /\ \A j \in Inside(content, k) : j + content[j].holds <= k + content[k].holds
    BY <1>3 DEF IsContent
  <2>3. content[k].kind = "text" =>
          /\ content[k].length \in Nat
          /\ content[k].upto \in [0..content[k].length -> Nat]
          /\ \A c, d \in 0..content[k].length :
               c <= d => content[k].upto[c] <= content[k].upto[d]
    BY <1>3 DEF IsContent
  <2> QED
    BY <2>1, <2>2, <2>3
<1>4. ASSUME NEW k \in DOMAIN content
      PROVE  /\ Inside(content, k) \subseteq DOMAIN content
             /\ content[k].kind # "box" => Inside(content, k) = {}
  BY <1>2, <1>3 DEF Inside
<1>5. ASSUME NEW k \in DOMAIN content, NEW j \in Inside(content, k)
      PROVE  j > k /\ Inside(content, j) \subseteq Inside(content, k)
  <2>1. j \in DOMAIN content
    BY <1>4
  <2>2. {j, k, content[j].holds, content[k].holds} \subseteq Nat
        /\ j + content[j].holds <= k + content[k].holds
    BY <1>3, <2>1
  <2>3. j > k
    BY <2>2 DEF Inside
  <2> QED
    BY <2>2, <2>3 DEF Inside
<1> QED
  BY <1>2, <1>3, <1>4, <1>5

\* What there is to know of a fragment.
LEMMA FragmentIs ==
    ASSUME NEW content, IsContent(content), ~TooLarge(content), NEW f \in FragmentsOf(content)
    PROVE  /\ f.node \in DOMAIN content /\ f.from \in Nat
           /\ f.bytes \in Nat /\ f.bytes <= FragmentCap
           /\ \/ /\ f.node \in WholeNodes(content)
                 /\ f = Fragment("value", f.node, 0, 0,
                                 content[f.node].pointer + content[f.node].bytes)
              \/ /\ f.node \in DividedNodes(content) /\ content[f.node].kind = "box"
                 /\ f = Fragment("empty", f.node, 0, 0, EmptyBox(content[f.node]))
              \/ /\ f.node \in DividedNodes(content) /\ content[f.node].kind = "text"
                 /\ content[f.node].length \in Nat \ {0}
                 /\ \A c \in PieceStarts(content[f.node]) : Fitting(content[f.node], c) # {}
                 /\ f.from \in PieceStarts(content[f.node]) /\ f.kind = "text"
                 /\ f = Piece(content, f.node, f.from)
                 /\ f.to = Max(Fitting(content[f.node], f.from))
<1>1. FragmentCap \in Nat
  BY CapIsLess
<1>2. CASE \E k \in WholeNodes(content) :
              f = Fragment("value", k, 0, 0, content[k].pointer + content[k].bytes)
  <2>1. PICK k \in WholeNodes(content) :
                f = Fragment("value", k, 0, 0, content[k].pointer + content[k].bytes)
    BY <1>2
  <2>2. /\ f.node = k /\ f.from = 0 /\ f.bytes = content[k].pointer + content[k].bytes
    BY <2>1 DEF Fragment
  <2>3. k \in DOMAIN content /\ content[k].pointer + content[k].bytes <= FragmentCap
    BY DEF WholeNodes, FitsWhole
  <2>4. content[k].pointer \in Nat /\ content[k].bytes \in Nat
    BY <2>3, NodesAre
  <2> QED
    BY <2>1, <2>2, <2>3, <2>4
<1>3. CASE \E k \in {k \in DividedNodes(content) : content[k].kind = "box"} :
              f = Fragment("empty", k, 0, 0, EmptyBox(content[k]))
  <2>1. PICK k \in DividedNodes(content) :
                content[k].kind = "box" /\ f = Fragment("empty", k, 0, 0, EmptyBox(content[k]))
    BY <1>3
  <2>2. f.node = k /\ f.from = 0 /\ f.bytes = EmptyBox(content[k])
    BY <2>1 DEF Fragment
  <2>3. k \in DOMAIN content
    BY DEF DividedNodes
  <2>4. content[k].pointer \in Nat
    BY <2>3, NodesAre
  <2>5. EmptyBox(content[k]) \in Nat
    BY <2>4 DEF EmptyBox
  <2>6. ~(EmptyBox(content[k]) > FragmentCap)
    BY <2>1 DEF TooLarge, Indivisible
  <2> QED
    BY <1>1, <2>1, <2>2, <2>3, <2>5, <2>6
<1>4. CASE \E k \in {k \in DividedNodes(content) : content[k].kind = "text"} :
              \E from \in PieceStarts(content[k]) : f = Piece(content, k, from)
  <2>12. PICK k \in DividedNodes(content) :
                /\ content[k].kind = "text"
                /\ \E from \in PieceStarts(content[k]) : f = Piece(content, k, from)
    BY <1>4
  <2>13. PICK from \in PieceStarts(content[k]) : f = Piece(content, k, from)
    BY <2>12
  <2>1. content[k].kind = "text" /\ f = Piece(content, k, from)
    BY <2>12, <2>13
  <2> DEFINE to == Max(Fitting(content[k], from))
  <2>2. /\ f.node = k /\ f.from = from /\ f.to = to /\ f.kind = "text"
        /\ f.bytes = PieceBytes(content[k], from, to)
    BY <2>1 DEF Fragment, Piece
  <2>3. k \in DOMAIN content
    BY DEF DividedNodes
  <2>4. /\ content[k].pointer \in Nat /\ content[k].length \in Nat
        /\ \A c \in 0..content[k].length : content[k].upto[c] \in Nat
        /\ \A c, d \in 0..content[k].length :
             c <= d => content[k].upto[c] <= content[k].upto[d]
    BY <2>1, <2>3, NodesAre
  <2>5. content[k].length # 0 /\ \A c \in PieceStarts(content[k]) : Fitting(content[k], c) # {}
    BY <2>1 DEF TooLarge, Indivisible
  <2>6. /\ PieceStarts(content[k]) \subseteq 0..(content[k].length - 1)
        /\ to \in (from + 1)..content[k].length /\ to \in Fitting(content[k], from)
    BY <2>4, <2>5, PiecesTile
  <2>7. from \in 0..(content[k].length - 1)
    BY <2>6
  <2>8. PieceBytes(content[k], from, to) <= FragmentCap
    BY <2>6 DEF Fitting
  <2> HIDE DEF to
  <2>9. /\ from \in 0..content[k].length /\ to \in 0..content[k].length /\ from <= to
        /\ from \in Nat
    BY <2>4, <2>6, <2>7
  <2>10. /\ content[k].upto[from] \in Nat /\ content[k].upto[to] \in Nat
         /\ content[k].upto[from] <= content[k].upto[to]
    BY <2>4, <2>9
  <2>11. PieceBytes(content[k], from, to) \in Nat
    BY <2>4, <2>10 DEF PieceBytes
  <2> QED
    BY <2>1, <2>2, <2>3, <2>4, <2>5, <2>8, <2>9, <2>11 DEF to
<1> QED
  BY <1>2, <1>3, <1>4 DEF FragmentsOf

\* A set of numbers has finitely many images.
LEMMA ImagesAreFinite ==
    ASSUME NEW S, IsFiniteSet(S), NEW g, DOMAIN g = S
    PROVE  IsFiniteSet({g[x] : x \in S})
<1> DEFINE h == [x \in S |-> g[x]]
           T == {g[x] : x \in S}
<1>2. h \in Surjection(S, T)
  <2>1. h \in [S -> T]
    OBVIOUS
  <2>2. \A t \in T : \E x \in S : h[x] = t
    OBVIOUS
  <2> QED
    BY <2>1, <2>2 DEF Surjection
<1> QED
  BY <1>2, FS_Surjection

\* A content has finitely many fragments.
LEMMA FragmentsAreFinite ==
    ASSUME NEW content, IsContent(content), ~TooLarge(content)
    PROVE  IsFiniteSet(FragmentsOf(content))
<1> DEFINE whole == [k \in WholeNodes(content) |->
                       Fragment("value", k, 0, 0, content[k].pointer + content[k].bytes)]
           boxes == {k \in DividedNodes(content) : content[k].kind = "box"}
           texts == {k \in DividedNodes(content) : content[k].kind = "text"}
           empty == [k \in boxes |-> Fragment("empty", k, 0, 0, EmptyBox(content[k]))]
           pieces == [k \in texts |-> {Piece(content, k, from) : from \in PieceStarts(content[k])}]
<1>1. IsFiniteSet(DOMAIN content)
  <2>1. DOMAIN content = 1..Len(content) /\ Len(content) \in Int
    BY NodesAre
  <2> QED
    BY <2>1, FS_Interval
<1>2. IsFiniteSet(WholeNodes(content)) /\ IsFiniteSet(boxes) /\ IsFiniteSet(texts)
  <2>1. /\ WholeNodes(content) \in SUBSET DOMAIN content
        /\ boxes \in SUBSET DOMAIN content /\ texts \in SUBSET DOMAIN content
    BY DEF WholeNodes, DividedNodes
  <2> QED
    BY <1>1, <2>1, FS_Subset
<1>3. IsFiniteSet({whole[k] : k \in WholeNodes(content)})
  <2>1. DOMAIN whole = WholeNodes(content)
    OBVIOUS
  <2> HIDE DEF whole
  <2> QED
    BY <1>2, <2>1, ImagesAreFinite
<1>4. IsFiniteSet({empty[k] : k \in boxes})
  <2>1. DOMAIN empty = boxes
    OBVIOUS
  <2> HIDE DEF empty, boxes
  <2> QED
    BY <1>2, <2>1, ImagesAreFinite
<1>5. IsFiniteSet({pieces[k] : k \in texts})
  <2>1. DOMAIN pieces = texts
    OBVIOUS
  <2> HIDE DEF pieces, texts
  <2> QED
    BY <1>2, <2>1, ImagesAreFinite
<1>6. ASSUME NEW k \in texts PROVE IsFiniteSet(pieces[k])
  <2> DEFINE cut == [from \in PieceStarts(content[k]) |-> Piece(content, k, from)]
  <2>1. IsFiniteSet(PieceStarts(content[k]))
    <3>1. content[k].length \in Nat
      BY NodesAre DEF DividedNodes
    <3>2. IsFiniteSet(0..(content[k].length - 1))
      BY <3>1, FS_Interval
    <3>3. PieceStarts(content[k]) \in SUBSET (0..(content[k].length - 1))
      BY DEF PieceStarts
    <3> QED
      BY <3>2, <3>3, FS_Subset
  <2>2. IsFiniteSet({cut[from] : from \in PieceStarts(content[k])})
    <3>1. DOMAIN cut = PieceStarts(content[k])
      OBVIOUS
    <3> HIDE DEF cut
    <3> QED
      BY <2>1, <3>1, ImagesAreFinite
  <2>3. pieces[k] = {cut[from] : from \in PieceStarts(content[k])}
    OBVIOUS
  <2> QED
    BY <2>2, <2>3
<1>7. IsFiniteSet(UNION {pieces[k] : k \in texts})
  <2>1. \A T \in {pieces[k] : k \in texts} : IsFiniteSet(T)
    BY <1>6
  <2> HIDE DEF pieces, texts
  <2> QED
    BY <1>5, <2>1, FS_UNION
<1>8. FragmentsOf(content) = ({whole[k] : k \in WholeNodes(content)} \cup {empty[k] : k \in boxes})
                               \cup UNION {pieces[k] : k \in texts}
  <2>1. {whole[k] : k \in WholeNodes(content)} =
          {Fragment("value", k, 0, 0, content[k].pointer + content[k].bytes) :
           k \in WholeNodes(content)}
    OBVIOUS
  <2>2. {empty[k] : k \in boxes} = {Fragment("empty", k, 0, 0, EmptyBox(content[k])) : k \in boxes}
    OBVIOUS
  <2>3. {pieces[k] : k \in texts} =
          {{Piece(content, k, from) : from \in PieceStarts(content[k])} : k \in texts}
    OBVIOUS
  <2>4. FragmentsOf(content) =
          ({Fragment("value", k, 0, 0, content[k].pointer + content[k].bytes) :
            k \in WholeNodes(content)}
           \cup {Fragment("empty", k, 0, 0, EmptyBox(content[k])) : k \in boxes})
          \cup UNION {{Piece(content, k, from) : from \in PieceStarts(content[k])} : k \in texts}
    BY DEF FragmentsOf
  <2> HIDE DEF whole, empty, pieces, boxes, texts
  <2> QED
    BY <2>1, <2>2, <2>3, <2>4
<1> HIDE DEF whole, empty, pieces, boxes, texts
<1>9. IsFiniteSet({whole[k] : k \in WholeNodes(content)} \cup {empty[k] : k \in boxes})
  BY <1>3, <1>4, FS_Union
<1>10. IsFiniteSet(({whole[k] : k \in WholeNodes(content)} \cup {empty[k] : k \in boxes})
                    \cup UNION {pieces[k] : k \in texts})
  BY <1>7, <1>9, FS_Union
<1> QED
  BY <1>8, <1>10

\* No two fragments begin at one place.
LEMMA FragmentsDiffer ==
    ASSUME NEW content, IsContent(content), ~TooLarge(content),
           NEW f \in FragmentsOf(content), NEW g \in FragmentsOf(content),
           f.node = g.node, f.from = g.from
    PROVE  f = g
<1> DEFINE k == f.node
<1>1. ~(k \in WholeNodes(content) /\ k \in DividedNodes(content))
  BY DEF WholeNodes, DividedNodes
<1>2. \/ /\ k \in WholeNodes(content)
         /\ f = Fragment("value", k, 0, 0, content[k].pointer + content[k].bytes)
      \/ /\ k \in DividedNodes(content) /\ content[k].kind = "box"
         /\ f = Fragment("empty", k, 0, 0, EmptyBox(content[k]))
      \/ /\ k \in DividedNodes(content) /\ content[k].kind = "text"
         /\ f = Piece(content, k, f.from)
  BY FragmentIs
<1>3. \/ /\ k \in WholeNodes(content)
         /\ g = Fragment("value", k, 0, 0, content[k].pointer + content[k].bytes)
      \/ /\ k \in DividedNodes(content) /\ content[k].kind = "box"
         /\ g = Fragment("empty", k, 0, 0, EmptyBox(content[k]))
      \/ /\ k \in DividedNodes(content) /\ content[k].kind = "text"
         /\ g = Piece(content, k, f.from)
  BY FragmentIs
<1>4. "box" # "text"
  OBVIOUS
<1> HIDE DEF k
<1>5. CASE k \in WholeNodes(content)
  BY <1>1, <1>2, <1>3, <1>5
<1>6. CASE k \notin WholeNodes(content) /\ content[k].kind = "box"
  BY <1>2, <1>3, <1>4, <1>6
<1>7. CASE k \notin WholeNodes(content) /\ content[k].kind = "text"
  BY <1>2, <1>3, <1>4, <1>7
<1> QED
  BY <1>2, <1>5, <1>6, <1>7

\* The atoms of a content begin with the number of their node.
LEMMA AtomsAre ==
    ASSUME NEW content, IsContent(content), NEW a \in Atoms(content)
    PROVE  /\ a[1] \in DOMAIN content /\ a[2] \in Nat /\ a = <<a[1], a[2]>>
           /\ \/ a[2] = 0
              \/ content[a[1]].kind = "text" /\ a[2] \in 1..content[a[1]].length
<1>1. CASE \E k \in DOMAIN content : a = <<k, 0>>
  BY <1>1
<1>2. CASE \E k \in {k \in DOMAIN content : content[k].kind = "text"} :
              \E c \in 1..content[k].length : a = <<k, c>>
  <2>1. PICK k \in DOMAIN content :
                content[k].kind = "text" /\ \E c \in 1..content[k].length : a = <<k, c>>
    BY <1>2
  <2>2. PICK c \in 1..content[k].length : a = <<k, c>>
    BY <2>1
  <2>3. content[k].length \in Nat
    BY <2>1, NodesAre
  <2>4. c \in Nat
    BY <2>3
  <2> QED
    BY <2>1, <2>2, <2>4
<1> QED
  BY <1>1, <1>2 DEF Atoms

\* What a fragment tells, by its kind.
LEMMA ToldIs ==
    ASSUME NEW content, NEW f
    PROVE  /\ f.kind = "value" =>
                ToldBy(f, content) =
                  {a \in Atoms(content) : a[1] \in {f.node} \cup Inside(content, f.node)}
           /\ f.kind = "empty" => ToldBy(f, content) = {<<f.node, 0>>}
           /\ f.kind = "text" =>
                ToldBy(f, content) =
                  {<<f.node, c>> : c \in (f.from + 1)..f.to}
                    \cup IF f.from = 0 THEN {<<f.node, 0>>} ELSE {}
<1>1. "value" # "empty" /\ "value" # "text" /\ "empty" # "text"
  OBVIOUS
<1>2. f.kind = "value" =>
        ToldBy(f, content) = {a \in Atoms(content) : a[1] \in {f.node} \cup Inside(content, f.node)}
  BY <1>1 DEF ToldBy
<1>3. f.kind = "empty" => ToldBy(f, content) = {<<f.node, 0>>}
  BY <1>1 DEF ToldBy
<1>4. f.kind = "text" =>
        ToldBy(f, content) = {<<f.node, c>> : c \in (f.from + 1)..f.to}
                               \cup IF f.from = 0 THEN {<<f.node, 0>>} ELSE {}
  BY <1>1 DEF ToldBy
<1> QED
  BY <1>2, <1>3, <1>4

\* Where the pieces of a text that is cut lie.
LEMMA PiecesLie ==
    ASSUME NEW content, IsContent(content), ~TooLarge(content),
           NEW f \in FragmentsOf(content), f.kind = "text"
    PROVE  /\ f.node \in DividedNodes(content) /\ content[f.node].kind = "text"
           /\ f.from \in PieceStarts(content[f.node])
           /\ f.from \in 0..(content[f.node].length - 1)
           /\ f.to \in (f.from + 1)..content[f.node].length
           /\ content[f.node].length \in Nat
           /\ \A d \in PieceStarts(content[f.node]) : f.from < d => f.to <= d
<1>1. "text" # "value" /\ "text" # "empty"
  OBVIOUS
<1>2. /\ f.node \in DividedNodes(content) /\ content[f.node].kind = "text"
      /\ content[f.node].length \in Nat \ {0}
      /\ \A c \in PieceStarts(content[f.node]) : Fitting(content[f.node], c) # {}
      /\ f.from \in PieceStarts(content[f.node])
      /\ f.to = Max(Fitting(content[f.node], f.from))
  BY <1>1, FragmentIs DEF Fragment
<1>3. /\ PieceStarts(content[f.node]) \subseteq 0..(content[f.node].length - 1)
      /\ f.to \in (f.from + 1)..content[f.node].length
      /\ \A d \in PieceStarts(content[f.node]) : f.from < d => f.to <= d
  BY <1>2, PiecesTile
<1> QED
  BY <1>2, <1>3

\* What a fragment tells lies at its node or in it, and in its part of a text.
LEMMA ToldLies ==
    ASSUME NEW content, IsContent(content), ~TooLarge(content),
           NEW f \in FragmentsOf(content), NEW a \in ToldBy(f, content)
    PROVE  /\ a \in Atoms(content) /\ a[1] >= f.node
           /\ f.kind = "value" => a[1] \in {f.node} \cup Inside(content, f.node)
           /\ f.kind # "value" => a[1] = f.node
           /\ f.kind = "text" => a[2] <= f.to /\ (a[2] > f.from \/ f.from = 0)
<1>1. f.node \in DOMAIN content /\ f.kind \in {"value", "empty", "text"} /\ f.node \in Nat
  BY FragmentIs, NodesAre DEF Fragment
<1>2. CASE f.kind = "value"
  <2>1. a \in Atoms(content) /\ a[1] \in {f.node} \cup Inside(content, f.node)
    BY <1>2, ToldIs
  <2>2. \A j \in Inside(content, f.node) : j > f.node
    BY <1>1, NodesAre
  <2>3. a[1] >= f.node
    <3>1. CASE a[1] = f.node
      BY <1>1, <3>1
    <3>2. CASE a[1] \in Inside(content, f.node)
      <4>1. a[1] > f.node /\ a[1] \in DOMAIN content
        BY <1>1, <2>2, <3>2, NodesAre
      <4>2. a[1] \in Nat
        BY <4>1, NodesAre
      <4> QED
        BY <1>1, <4>1, <4>2
    <3> QED
      BY <2>1, <3>1, <3>2
  <2> QED
    BY <1>2, <2>1, <2>3
<1>3. CASE f.kind = "empty"
  <2>1. a = <<f.node, 0>>
    BY <1>3, ToldIs
  <2>2. a \in Atoms(content)
    BY <1>1, <2>1 DEF Atoms
  <2> QED
    BY <1>1, <1>3, <2>1, <2>2
<1>4. CASE f.kind = "text"
  <2>1. /\ content[f.node].kind = "text" /\ content[f.node].length \in Nat
        /\ f.from \in 0..(content[f.node].length - 1)
        /\ f.to \in (f.from + 1)..content[f.node].length
    BY <1>4, PiecesLie
  <2>2. \/ \E c \in (f.from + 1)..f.to : a = <<f.node, c>>
        \/ f.from = 0 /\ a = <<f.node, 0>>
    BY <1>4, ToldIs
  <2>3. CASE \E c \in (f.from + 1)..f.to : a = <<f.node, c>>
    <3>1. PICK c \in (f.from + 1)..f.to : a = <<f.node, c>>
      BY <2>3
    <3>2. c \in 1..content[f.node].length /\ c <= f.to /\ c > f.from
      BY <2>1
    <3>3. a \in Atoms(content)
      BY <1>1, <2>1, <3>1, <3>2 DEF Atoms
    <3> QED
      BY <1>1, <1>4, <3>1, <3>2, <3>3
  <2>4. CASE f.from = 0 /\ a = <<f.node, 0>>
    <3>1. a \in Atoms(content)
      BY <1>1, <2>4 DEF Atoms
    <3>2. 0 <= f.to
      BY <2>1, <2>4
    <3> QED
      BY <1>1, <1>4, <2>4, <3>1, <3>2
  <2> QED
    BY <2>2, <2>3, <2>4
<1> QED
  BY <1>1, <1>2, <1>3, <1>4

\* An earlier fragment tells what comes earlier.
LEMMA FragmentsFollow ==
    ASSUME NEW content, IsContent(content), ~TooLarge(content),
           NEW f \in FragmentsOf(content), NEW g \in FragmentsOf(content), Earlier(f, g),
           NEW a \in ToldBy(f, content), NEW b \in ToldBy(g, content)
    PROVE  a[1] < b[1] \/ (a[1] = b[1] /\ a[2] < b[2])
<1>1. /\ f.node \in DOMAIN content /\ g.node \in DOMAIN content
      /\ f.node \in Nat /\ g.node \in Nat /\ f.from \in Nat /\ g.from \in Nat
      /\ f.kind \in {"value", "empty", "text"}
  BY FragmentIs, NodesAre DEF Fragment
<1>2. /\ a[1] \in Nat /\ b[1] \in Nat /\ a[2] \in Nat /\ b[2] \in Nat
      /\ a[1] >= f.node /\ b[1] >= g.node
  BY ToldLies, AtomsAre, NodesAre
<1>3. CASE f.node < g.node
  <2>1. CASE f.kind # "value"
    <3>1. a[1] = f.node
      BY <2>1, ToldLies
    <3> QED
      BY <1>1, <1>2, <1>3, <3>1
  <2>2. CASE f.kind = "value"
    <3>1. FitsWhole(content[f.node])
      <4>1. f.node \in WholeNodes(content)
        BY <2>2, FragmentIs DEF Fragment
      <4> QED
        BY <4>1 DEF WholeNodes
    <3>2. \A j \in DOMAIN content : g.node \in Inside(content, j) => ~FitsWhole(content[j])
      <4>1. g.node \in WholeNodes(content) \/ g.node \in DividedNodes(content)
        BY FragmentIs
      <4> QED
        BY <4>1 DEF WholeNodes, DividedNodes
    <3>3. g.node \notin Inside(content, f.node)
      BY <1>1, <3>1, <3>2
    <3>4. content[f.node].holds \in Nat
      BY <1>1, NodesAre
    <3>5. g.node > f.node + content[f.node].holds
      BY <1>1, <1>3, <3>3, <3>4 DEF Inside
    <3>6. a[1] \in {f.node} \cup Inside(content, f.node)
      BY <2>2, ToldLies
    <3>7. a[1] <= f.node + content[f.node].holds
      BY <1>1, <3>4, <3>6 DEF Inside
    <3> QED
      BY <1>1, <1>2, <3>4, <3>5, <3>7
  <2> QED
    BY <2>1, <2>2
<1>4. CASE f.node = g.node /\ f.from < g.from
  <2>1. g.from # 0
    BY <1>1, <1>4
  <2>2. g.kind = "text" /\ f.node \in DividedNodes(content) /\ content[f.node].kind = "text"
    BY <1>4, <2>1, FragmentIs DEF Fragment
  <2>3. f.kind = "text"
    <3>1. f.node \notin WholeNodes(content) /\ "box" # "text"
      BY <2>2 DEF WholeNodes, DividedNodes
    <3> QED
      BY <2>2, <3>1, FragmentIs
  <2>4. g.from \in PieceStarts(content[f.node])
    BY <1>4, <2>2, PiecesLie
  <2>5. f.to <= g.from /\ f.to \in (f.from + 1)..content[f.node].length
        /\ content[f.node].length \in Nat
    BY <1>4, <2>3, <2>4, PiecesLie
  <2>6. f.to \in Nat
    BY <1>1, <2>5
  <2>7. a[1] = f.node /\ a[2] <= f.to /\ b[1] = g.node /\ b[2] > g.from
    <3>1. "text" # "value"
      OBVIOUS
    <3> QED
      BY <2>1, <2>2, <2>3, <3>1, ToldLies
  <2> QED
    BY <1>1, <1>2, <1>4, <2>5, <2>6, <2>7
<1> QED
  BY <1>3, <1>4 DEF Earlier

\* A node is in one that is told whole, or it is cut.
LEMMA NodesAreTold ==
    ASSUME NEW content, IsContent(content), NEW k \in DOMAIN content
    PROVE  \/ \E j \in WholeNodes(content) : k \in {j} \cup Inside(content, j)
           \/ k \in DividedNodes(content)
<1> DEFINE Around == {j \in DOMAIN content : FitsWhole(content[j]) /\ k \in {j} \cup Inside(content, j)}
<1>1. CASE Around = {}
  BY <1>1 DEF DividedNodes
<1>2. CASE Around # {}
  <2>1. Around \in SUBSET Nat
    BY NodesAre
  <2>2. PICK j \in Around : \A i \in Around : j <= i
    BY <1>2, <2>1, MinIsLeast
  <2>3. ASSUME NEW i \in DOMAIN content, j \in Inside(content, i) PROVE ~FitsWhole(content[i])
    <3> SUFFICES ASSUME FitsWhole(content[i]) PROVE FALSE
      OBVIOUS
    <3>1. j > i /\ Inside(content, j) \subseteq Inside(content, i) /\ i \in Nat /\ j \in Nat
      BY <2>1, <2>2, <2>3, NodesAre
    <3>2. k \in Inside(content, i)
      BY <2>2, <2>3, <3>1
    <3>3. i \in Around
      BY <3>2
    <3>4. j <= i
      BY <2>2, <3>3
    <3> QED
      BY <3>1, <3>4
  <2>4. j \in WholeNodes(content)
    BY <2>2, <2>3 DEF WholeNodes
  <2> QED
    BY <2>2, <2>4
<1> QED
  BY <1>1, <1>2

\* Every atom of a content is told by a fragment of it.
LEMMA AtomsAreTold ==
    ASSUME NEW content, IsContent(content), ~TooLarge(content), NEW a \in Atoms(content)
    PROVE  \E f \in FragmentsOf(content) : a \in ToldBy(f, content)
<1> DEFINE k == a[1]
<1>1. /\ k \in DOMAIN content /\ a[2] \in Nat /\ a = <<k, a[2]>>
      /\ a[2] = 0 \/ (content[k].kind = "text" /\ a[2] \in 1..content[k].length)
  BY AtomsAre
<1> HIDE DEF k
<1>2. CASE \E j \in WholeNodes(content) : k \in {j} \cup Inside(content, j)
  <2>1. PICK j \in WholeNodes(content) : k \in {j} \cup Inside(content, j)
    BY <1>2
  <2> DEFINE f == Fragment("value", j, 0, 0, content[j].pointer + content[j].bytes)
  <2>2. f \in FragmentsOf(content)
    BY DEF FragmentsOf
  <2>3. f.kind = "value" /\ f.node = j
    BY DEF Fragment
  <2> HIDE DEF f
  <2>4. a \in ToldBy(f, content)
    BY <2>1, <2>3, ToldIs DEF k
  <2> QED
    BY <2>2, <2>4
<1>3. CASE k \in DividedNodes(content)
  <2>1. content[k].kind \in {"box", "text"} /\ (content[k].kind = "text" => content[k].length # 0)
    <3>1. ~Indivisible(content[k])
      BY <1>3 DEF TooLarge
    <3>2. content[k].kind \in {"scalar", "text", "box"}
      BY <1>1, NodesAre
    <3> QED
      BY <3>1, <3>2 DEF Indivisible
  <2>2. CASE content[k].kind = "box"
    <3> DEFINE f == Fragment("empty", k, 0, 0, EmptyBox(content[k]))
    <3>1. f \in FragmentsOf(content)
      BY <1>3, <2>2 DEF FragmentsOf
    <3>2. f.kind = "empty" /\ f.node = k
      BY DEF Fragment
    <3>3. a = <<k, 0>>
      <4>1. "box" # "text"
        OBVIOUS
      <4>2. a[2] = 0
        BY <1>1, <2>2, <4>1
      <4> QED
        BY <1>1, <4>2
    <3> HIDE DEF f
    <3>4. a \in ToldBy(f, content)
      BY <3>2, <3>3, ToldIs
    <3> QED
      BY <3>1, <3>4
  <2>3. CASE content[k].kind = "text"
    <3>1. content[k].length \in Nat /\ content[k].length # 0
      BY <1>1, <2>1, <2>3, NodesAre
    <3>2. \A c \in PieceStarts(content[k]) : Fitting(content[k], c) # {}
      BY <1>3, <2>3 DEF TooLarge, Indivisible
    <3>3. /\ 0 \in PieceStarts(content[k])
          /\ \A c \in 1..content[k].length :
               \E d \in PieceStarts(content[k]) : c \in (d + 1)..Max(Fitting(content[k], d))
      BY <3>1, <3>2, PiecesTile
    <3>4. PICK d \in PieceStarts(content[k]) :
                 IF a[2] = 0 THEN d = 0 ELSE a[2] \in (d + 1)..Max(Fitting(content[k], d))
      BY <1>1, <3>3
    <3> DEFINE f == Piece(content, k, d)
    <3>5. f \in FragmentsOf(content)
      BY <1>3, <2>3 DEF FragmentsOf
    <3>6. f.kind = "text" /\ f.node = k /\ f.from = d /\ f.to = Max(Fitting(content[k], d))
      BY DEF Fragment, Piece
    <3> HIDE DEF f
    <3>7. ToldBy(f, content) = {<<k, c>> : c \in (d + 1)..Max(Fitting(content[k], d))}
                                 \cup IF d = 0 THEN {<<k, 0>>} ELSE {}
      BY <3>6, ToldIs
    <3>8. a \in ToldBy(f, content)
      <4>1. CASE a[2] = 0
        <5>1. d = 0 /\ a = <<k, 0>>
          BY <1>1, <3>4, <4>1
        <5> QED
          BY <3>7, <5>1
      <4>2. CASE a[2] # 0
        <5>1. a[2] \in (d + 1)..Max(Fitting(content[k], d))
          BY <3>4, <4>2
        <5> QED
          BY <1>1, <3>7, <5>1
      <4> QED
        BY <4>1, <4>2
    <3> QED
      BY <3>5, <3>8
  <2> QED
    BY <2>1, <2>2, <2>3
<1> QED
  BY <1>1, <1>2, <1>3, NodesAreTold

\* What the contents of the constants are.
LEMMA ContentIs ==
    ASSUME NEW a \in DOMAIN Contents, NEW n \in DOMAIN Contents[a]
    PROVE  /\ IsContent(Contents[a][n])
           /\ DOMAIN Contents[a] = 1..Len(Contents[a]) /\ Len(Contents[a]) \in Nat
           /\ 1 \in DOMAIN Contents[a] /\ n \in Nat \ {0}
<1>1. IsContent(Contents[a][n])
  BY Readable DEF ReadingAssumption
<1>2. DOMAIN Contents[a] = 1..Len(Contents[a]) /\ Len(Contents[a]) \in Nat \ {0}
  BY Readable DEF ReadingAssumption
<1> QED
  BY <1>1, <1>2

\* Whatever the nodes of a document are: a plan that can be made has every node and every
\* character of it, once and in order, in fragments that fit (document.py 143-186).
THEOREM PlansMakeUp ==
    ASSUME NEW a \in DOMAIN Contents, NEW n \in DOMAIN Contents[a], ~TooLarge(Contents[a][n])
    PROVE  /\ Plans[a][n] \in Seq(FragmentsOf(Contents[a][n])) /\ Plans[a][n] # <<>>
           /\ \A k \in 1..Len(Plans[a][n]) :
                Plans[a][n][k].bytes \in Nat /\ Plans[a][n][k].bytes <= FragmentCap
           /\ MakeUp(Plans[a][n], Contents[a][n])
<1> DEFINE content == Contents[a][n]
           of == FragmentsOf(content)
           plan == InOrder(of)
<1>1. IsContent(content) /\ Plans[a][n] = plan
  BY ContentIs DEF Plans
<1> HIDE DEF content
<1>2. ~TooLarge(content)
  BY DEF content
<1>3. IsFiniteSet(of)
  BY <1>1, <1>2, FragmentsAreFinite
<1>4. \A f \in of : f.node \in Nat /\ f.from \in Nat /\ f.bytes \in Nat /\ f.bytes <= FragmentCap
  BY <1>1, <1>2, FragmentIs, NodesAre
<1>5. \A f, g \in of : f.node = g.node /\ f.from = g.from => f = g
  BY <1>1, <1>2, FragmentsDiffer
<1>6. /\ plan \in Seq(of)
      /\ \A f \in of : \E k \in DOMAIN plan : plan[k] = f
      /\ \A k \in DOMAIN plan : \A j \in 1..(k - 1) : Earlier(plan[j], plan[k])
  <2> HIDE DEF of
  <2> QED
    BY <1>3, <1>4, <1>5, OrderIsWhole
<1> HIDE DEF plan
<1>7. DOMAIN plan = 1..Len(plan) /\ Len(plan) \in Nat /\ \A k \in DOMAIN plan : plan[k] \in of
  BY <1>6, LenProperties, ElementOfSeq
<1>8. UNION {ToldBy(plan[k], content) : k \in DOMAIN plan} = Atoms(content)
  <2>1. ASSUME NEW k \in DOMAIN plan, NEW b \in ToldBy(plan[k], content) PROVE b \in Atoms(content)
    BY <1>1, <1>2, <1>7, ToldLies
  <2>2. ASSUME NEW b \in Atoms(content) PROVE \E k \in DOMAIN plan : b \in ToldBy(plan[k], content)
    <3>1. PICK f \in of : b \in ToldBy(f, content)
      BY <1>1, <1>2, AtomsAreTold
    <3> QED
      BY <1>6, <3>1
  <2> QED
    BY <2>1, <2>2
<1>9. ASSUME NEW k \in DOMAIN plan, NEW j \in 1..(k - 1),
             NEW b \in ToldBy(plan[j], content), NEW c \in ToldBy(plan[k], content)
      PROVE  b[1] < c[1] \/ (b[1] = c[1] /\ b[2] < c[2])
  <2>1. Earlier(plan[j], plan[k]) /\ plan[j] \in of /\ plan[k] \in of
    BY <1>6, <1>7
  <2> QED
    BY <1>1, <1>2, <2>1, FragmentsFollow
<1>10. MakeUp(plan, content)
  BY <1>8, <1>9 DEF MakeUp
<1>11. plan # <<>>
  <2>1. <<1, 0>> \in Atoms(content)
    BY <1>1, NodesAre DEF Atoms
  <2>2. \E k \in DOMAIN plan : TRUE
    BY <1>8, <2>1
  <2> QED
    BY <2>2
<1> QED
  BY <1>1, <1>4, <1>6, <1>7, <1>10, <1>11 DEF content

\* What a reader goes through if it reads one import of its artifact.
Due(r, n) == IF OfDocument(r) THEN Plans[Artifact(r)][n] ELSE HitsOf(Artifact(r), n)
MayRead(r, n) ==
    /\ n \in DOMAIN Contents[Artifact(r)] /\ n <= import[Artifact(r)]
    /\ OfDocument(r) => ~TooLarge(Contents[Artifact(r)][n])

\* The plan kept is that of its import.
EntryInv ==
    entry # Unread =>
        /\ entry.artifact \in DOMAIN Contents /\ entry.import \in DOMAIN Contents[entry.artifact]
        /\ entry.plan = Plans[entry.artifact][entry.import]
        /\ ~TooLarge(Contents[entry.artifact][entry.import])

\* A call goes by the plan of what it loaded, which is no older than what its reader
\* began with.
CallOf(r) ==
    /\ reader[r] \in {"publish", "reply"} =>
         /\ MayRead(r, using[r].import) /\ using[r].plan = Due(r, using[r].import)
         /\ since[r] \in 1..using[r].import
         /\ cursor[r] = Unread => since[r] = using[r].import
    /\ reader[r] = "publish" => OfDocument(r)
    /\ reader[r] = "too_large" /\ OfDocument(r) => TooLarge(Loaded(r))

\* What a reader was told begins the plan of what it began with: up to its cursor, or
\* to the end.  Of hits, only as long as there was no import.
HeardOf(r) ==
    /\ cursor[r] = Unread /\ reader[r] \in {"ask", "publish", "reply"} => heard[r] = <<>>
    /\ cursor[r] # Unread =>
         /\ MayRead(r, since[r]) /\ cursor[r].offset \in Nat
         /\ cursor[r].binding = <<reading[r], IF OfDocument(r) THEN since[r] ELSE 0>>
         /\ OfDocument(r) \/ since[r] = import[Artifact(r)] =>
              /\ cursor[r].offset \in 1..(Len(Due(r, since[r])) - 1)
              /\ heard[r] = SubSeq(Due(r, since[r]), 1, cursor[r].offset)
    /\ reader[r] = "told" =>
         /\ MayRead(r, since[r])
         /\ OfDocument(r) \/ since[r] = import[Artifact(r)] => heard[r] = Due(r, since[r])
    /\ size[r] <= Cap

CallInv == \A r \in Readers : CallOf(r)
HeardInv == \A r \in Readers : HeardOf(r)

ReadingInv == ReadingTypeOK /\ EntryInv /\ CallInv /\ HeardInv

\* What the assumption says of the contents and the hits.
LEMMA ReadingIs ==
    /\ Reads \subseteq {"document", "hits"} \X DOMAIN Contents
    /\ Unread \notin [binding : Reads \X Nat, offset : Nat]
    /\ {Limit, Cap, Reserve, Envelope, CursorBytes, NullBytes, PlanCache} \subseteq Nat
    /\ NullBytes < CursorBytes /\ Envelope + CursorBytes <= Reserve /\ Reserve < Cap
    /\ \A a \in DOMAIN Contents :
         /\ DOMAIN Contents[a] = 1..Len(Contents[a]) /\ Len(Contents[a]) \in Nat \ {0}
         /\ \A n \in DOMAIN Contents[a] : Matches[a][n] \in Seq(Nat)
  BY Readable DEF ReadingAssumption

\* The initial state satisfies the invariant.
LEMMA ReadingInitInv == ReadingInit => ReadingInv
<1> SUFFICES ASSUME ReadingInit PROVE ReadingInv
  OBVIOUS
<1> USE DEF ReadingInit
<1>1. ReadingTypeOK
  BY ReadingIs DEF ReadingTypeOK
<1>2. EntryInv
  BY DEF EntryInv
<1>3. CallInv
  BY DEF CallInv, CallOf
<1>4. HeardInv
  <2>1. 0 <= Cap
    BY ReadingIs
  <2> QED
    BY <2>1 DEF HeardInv, HeardOf
<1> QED
  BY <1>1, <1>2, <1>3, <1>4 DEF ReadingInv

\* What a reader reads is of a document there is.
LEMMA ArtifactIs ==
    ASSUME ReadingTypeOK, NEW r \in Readers
    PROVE  /\ reading[r] \in Reads /\ Artifact(r) \in DOMAIN Contents
           /\ import[Artifact(r)] \in DOMAIN Contents[Artifact(r)]
           /\ \A n \in DOMAIN Contents[Artifact(r)] : n \in Nat \ {0}
           /\ \A n \in 1..import[Artifact(r)] : n \in DOMAIN Contents[Artifact(r)]
<1>1. reading[r] \in Reads /\ reading[r][2] \in DOMAIN Contents
  BY ReadingIs DEF ReadingTypeOK
<1>2. import[Artifact(r)] \in DOMAIN Contents[Artifact(r)]
  BY <1>1 DEF ReadingTypeOK, Artifact
<1>3. /\ DOMAIN Contents[Artifact(r)] = 1..Len(Contents[Artifact(r)])
      /\ Len(Contents[Artifact(r)]) \in Nat
  BY <1>1, ReadingIs DEF Artifact
<1> QED
  BY <1>1, <1>2, <1>3 DEF Artifact

\* A function over the first numbers is a sequence.
LEMMA FunctionIsSequence ==
    ASSUME NEW S, NEW m \in Nat, NEW f \in [1..m -> S]
    PROVE  f \in Seq(S) /\ Len(f) = m
  OBVIOUS

\* What a reader goes through are items that take some bytes each; those of a document
\* fit a reply.
LEMMA DueIs ==
    ASSUME ReadingTypeOK, NEW r \in Readers, NEW n, MayRead(r, n)
    PROVE  /\ Len(Due(r, n)) \in Nat
           /\ \A k \in 1..Len(Due(r, n)) : Due(r, n)[k].bytes \in Nat
           /\ \E S : Due(r, n) \in Seq(S)
           /\ OfDocument(r) =>
                /\ Due(r, n) # <<>> /\ MakeUp(Due(r, n), Contents[Artifact(r)][n])
                /\ \A k \in 1..Len(Due(r, n)) : Due(r, n)[k].bytes <= FragmentCap
<1>1. Artifact(r) \in DOMAIN Contents /\ n \in DOMAIN Contents[Artifact(r)]
  BY ArtifactIs DEF MayRead
<1>2. CASE OfDocument(r)
  <2>1. Due(r, n) = Plans[Artifact(r)][n] /\ ~TooLarge(Contents[Artifact(r)][n])
    BY <1>2 DEF Due, MayRead
  <2>2. /\ Due(r, n) \in Seq(FragmentsOf(Contents[Artifact(r)][n])) /\ Due(r, n) # <<>>
        /\ \A k \in 1..Len(Due(r, n)) :
             Due(r, n)[k].bytes \in Nat /\ Due(r, n)[k].bytes <= FragmentCap
        /\ MakeUp(Due(r, n), Contents[Artifact(r)][n])
    BY <1>1, <2>1, PlansMakeUp
  <2> HIDE DEF Due
  <2>3. Len(Due(r, n)) \in Nat
    BY <2>2, LenProperties
  <2> QED
    BY <2>2, <2>3
<1>3. CASE ~OfDocument(r)
  <2>1. Due(r, n) = HitsOf(Artifact(r), n) /\ Matches[Artifact(r)][n] \in Seq(Nat)
    BY <1>1, <1>3, ReadingIs DEF Due
  <2> DEFINE sizes == Matches[Artifact(r)][n]
  <2>2. Len(sizes) \in Nat /\ DOMAIN sizes = 1..Len(sizes) /\ \A k \in 1..Len(sizes) : sizes[k] \in Nat
    BY <2>1, LenProperties, ElementOfSeq
  <2>3. Due(r, n) = [k \in 1..Len(sizes) |-> [bytes |-> sizes[k]]]
    BY <2>1, <2>2 DEF HitsOf
  <2>4. PICK m \in Nat : m = Len(sizes)
    BY <2>2
  <2> HIDE DEF Due, sizes
  <2>5. \A k \in 1..m : Due(r, n)[k] = [bytes |-> sizes[k]] /\ Due(r, n)[k].bytes \in Nat
    BY <2>2, <2>3, <2>4
  <2>6. Due(r, n) \in [1..m -> [bytes : Nat]]
    BY <2>2, <2>3, <2>4
  <2> DEFINE due == Due(r, n)
  <2>7. due \in [1..m -> [bytes : Nat]] /\ m \in Nat
    BY <2>6
  <2> HIDE DEF due
  <2>8. due \in Seq([bytes : Nat]) /\ Len(due) = m
    BY <2>7, FunctionIsSequence
  <2> QED
    BY <1>3, <2>5, <2>8 DEF due
<1> QED
  BY <1>2, <1>3

\* Each step keeps the plan kept that of its import.
LEMMA EntryStep == ReadingInv /\ [ReadingNext]_readingVars => EntryInv'
<1> SUFFICES ASSUME ReadingInv, [ReadingNext]_readingVars PROVE EntryInv'
  OBVIOUS
<1> USE DEF ReadingInv, EntryInv
<1>1. ASSUME NEW r \in Readers, KeepPlan(r) PROVE EntryInv'
  <2>1. /\ reader[r] = "publish" /\ OfDocument(r) /\ MayRead(r, using[r].import)
        /\ using[r].plan = Plans[Artifact(r)][using[r].import]
    BY <1>1 DEF KeepPlan, CallInv, CallOf, Due
  <2>2. /\ Artifact(r) \in DOMAIN Contents
        /\ using[r].import \in DOMAIN Contents[Artifact(r)]
        /\ ~TooLarge(Contents[Artifact(r)][using[r].import])
    BY <2>1, ArtifactIs DEF MayRead
  <2>3. \/ entry' = Unread
        \/ entry' = [artifact |-> Artifact(r), import |-> using[r].import, plan |-> using[r].plan]
    BY <1>1 DEF KeepPlan
  <2> QED
    BY <2>1, <2>2, <2>3
<1>2. ASSUME NEW r \in Readers, Load(r) PROVE EntryInv'
  BY <1>2 DEF Load
<1>3. ASSUME NEW r \in Readers, GivePage(r) PROVE EntryInv'
  BY <1>3 DEF GivePage
<1>4. ASSUME NEW r \in Readers, Restart(r) PROVE EntryInv'
  BY <1>4 DEF Restart
<1>5. ASSUME NEW a \in DOMAIN Contents, Reimport(a) PROVE EntryInv'
  BY <1>5 DEF Reimport
<1>6. CASE UNCHANGED readingVars
  BY <1>6 DEF readingVars
<1> QED
  BY <1>1, <1>2, <1>3, <1>4, <1>5, <1>6 DEF ReadingNext

\* What a page may be: it goes on from what its reader was told, and a document always
\* has one more.
LEMMA PageIs ==
    ASSUME ReadingInv, NEW r \in Readers, reader[r] = "reply", Valid(r),
           NEW plan, plan = Due(r, using[r].import), NEW from, from = Offset(r)
    PROVE  /\ PlanInUse(r) = plan /\ Len(plan) \in Nat /\ from \in 0..Len(plan)
           /\ cursor[r] # Unread => from \in 1..(Len(plan) - 1)
           /\ OfDocument(r) => PageEnds(r) # {}
           /\ PageEnds(r) # {} =>
                /\ Max(PageEnds(r)) \in from..Len(plan)
                /\ Max(PageEnds(r)) < Len(plan) => Max(PageEnds(r)) > from
                /\ ReplyBytes(plan, from, Max(PageEnds(r))) \in Nat
                /\ ReplyBytes(plan, from, Max(PageEnds(r))) <= Cap
<1> USE DEF ReadingInv
<1>1. MayRead(r, using[r].import) /\ using[r].plan = plan
  BY DEF CallInv, CallOf
<1>2. /\ Len(plan) \in Nat /\ \A k \in 1..Len(plan) : plan[k].bytes \in Nat
      /\ \E S : plan \in Seq(S)
      /\ OfDocument(r) =>
           plan # <<>> /\ \A k \in 1..Len(plan) : plan[k].bytes <= FragmentCap
  BY <1>1, DueIs
<1>3. PlanInUse(r) = plan
  BY <1>1 DEF PlanInUse
<1>4. from \in 0..Len(plan) /\ (cursor[r] # Unread => from \in 1..(Len(plan) - 1))
  BY <1>2, <1>3 DEF Valid, Offset
<1>5. plan # <<>> => Len(plan) > 0 /\ from < Len(plan)
  <2> SUFFICES ASSUME plan # <<>> PROVE Len(plan) > 0 /\ from < Len(plan)
    OBVIOUS
  <2>1. Len(plan) # 0
    <3>1. PICK S : plan \in Seq(S)
      BY <1>2
    <3> QED
      BY <3>1, EmptySeq
  <2>2. CASE cursor[r] = Unread
    BY <1>2, <2>1, <2>2 DEF Offset
  <2>3. CASE cursor[r] # Unread
    BY <1>2, <1>4, <2>1, <2>3
  <2> QED
    BY <2>2, <2>3
<1>6. PageEnds(r) \in SUBSET (from..Len(plan))
      /\ \A to \in PageEnds(r) : ReplyBytes(plan, from, to) <= Cap /\ (plan # <<>> => to > from)
  <2> DEFINE last == IF OfDocument(r) THEN Len(plan) ELSE Min({Len(plan), from + Limit})
             first == IF plan = <<>> THEN from ELSE from + 1
  <2>1. PageEnds(r) = {to \in first..last : ReplyBytes(plan, from, to) <= Cap}
    BY <1>3 DEF PageEnds
  <2>2. last \in Nat /\ last <= Len(plan)
    <3>1. Limit \in Nat /\ from \in Nat
      BY <1>2, <1>4, ReadingIs
    <3>2. {Len(plan), from + Limit} \in SUBSET Nat
      BY <1>2, <3>1
    <3>3. /\ Min({Len(plan), from + Limit}) \in {Len(plan), from + Limit}
          /\ Min({Len(plan), from + Limit}) <= Len(plan)
      BY <3>2, MinIsLeast
    <3> QED
      BY <1>2, <3>2, <3>3
  <2>3. first \in Nat /\ first >= from /\ (plan # <<>> => first > from) /\ from \in Nat
    BY <1>2, <1>4
  <2> HIDE DEF first, last
  <2> QED
    BY <1>2, <2>1, <2>2, <2>3
<1>7. OfDocument(r) => PageEnds(r) # {}
  <2> SUFFICES ASSUME OfDocument(r) PROVE PageEnds(r) # {}
    OBVIOUS
  <2>1. plan # <<>> /\ from + 1 \in 1..Len(plan) /\ from < Len(plan)
    BY <1>2, <1>4, <1>5
  <2>2. Filled(plan)[from + 1] = Filled(plan)[(from + 1) - 1] + plan[from + 1].bytes + 1
    BY <1>2, <2>1, FilledAdds
  <2>3. (from + 1) - 1 = from /\ from + 1 \in 0..Len(plan) /\ from + 1 \in from + 1..Len(plan)
    BY <1>2, <1>4, <2>1
  <2>4. Filled(plan)[from] \in Nat /\ Filled(plan)[from + 1] \in Nat
    BY <1>2, <1>4, <2>3, FilledAdds
  <2>5. plan[from + 1].bytes \in Nat /\ plan[from + 1].bytes <= FragmentCap
    BY <1>2, <2>1
  <2>6. Filled(plan)[from + 1] - Filled(plan)[from] <= FragmentCap + 1
    <3> DEFINE low == Filled(plan)[from]
               high == Filled(plan)[from + 1]
               added == plan[from + 1].bytes
    <3>1. high = low + added + 1
      BY <2>2, <2>3
    <3>2. low \in Nat /\ added \in Nat /\ added <= FragmentCap /\ FragmentCap \in Nat
      BY <2>4, <2>5, CapIsLess
    <3> HIDE DEF low, high, added
    <3>3. high - low <= FragmentCap + 1
      BY <3>1, <3>2
    <3> QED
      BY <3>3 DEF low, high
  <2>7. ReplyBytes(plan, from, from + 1) <= Cap
    <3>1. /\ {Cap, Reserve, Envelope, CursorBytes, NullBytes, FragmentCap} \subseteq Nat
          /\ NullBytes < CursorBytes /\ Envelope + CursorBytes <= Reserve
          /\ Reserve + FragmentCap + 1 <= Cap
      BY ReadingIs, CapIsLess
    <3> DEFINE rest == IF from + 1 < Len(plan) THEN CursorBytes ELSE NullBytes
    <3>2. rest \in Nat /\ rest <= CursorBytes
      BY <3>1
    <3>3. ReplyBytes(plan, from, from + 1) =
            Envelope + Filled(plan)[from + 1] - Filled(plan)[from] + rest
      BY DEF ReplyBytes
    <3> HIDE DEF rest
    <3> QED
      BY <2>4, <2>6, <3>1, <3>2, <3>3
  <2>8. PageEnds(r) = {to \in from + 1..Len(plan) : ReplyBytes(plan, from, to) <= Cap}
    BY <1>3, <2>1 DEF PageEnds
  <2> QED
    BY <2>3, <2>7, <2>8
<1>8. ASSUME PageEnds(r) # {}
      PROVE  /\ Max(PageEnds(r)) \in from..Len(plan)
             /\ Max(PageEnds(r)) < Len(plan) => Max(PageEnds(r)) > from
             /\ ReplyBytes(plan, from, Max(PageEnds(r))) \in Nat
             /\ ReplyBytes(plan, from, Max(PageEnds(r))) <= Cap
  <2>1. PageEnds(r) \in SUBSET Nat /\ \A to \in PageEnds(r) : to <= Len(plan)
    BY <1>2, <1>4, <1>6
  <2>2. Max(PageEnds(r)) \in PageEnds(r)
    BY <1>2, <1>8, <2>1, MaxIsGreatest
  <2>3. PICK to \in PageEnds(r) : to = Max(PageEnds(r))
    BY <2>2
  <2>4. to \in from..Len(plan) /\ to \in 0..Len(plan) /\ ReplyBytes(plan, from, to) <= Cap
    <3>1. to \in from..Len(plan) /\ ReplyBytes(plan, from, to) <= Cap
      <4>1. PageEnds(r) \subseteq from..Len(plan)
        BY <1>6
      <4>2. ReplyBytes(plan, from, to) <= Cap
        BY <1>6
      <4> QED
        BY <4>1, <4>2
    <3>2. to \in 0..Len(plan)
      BY <1>2, <1>4, <3>1
    <3> QED
      BY <3>1, <3>2
  <2>5. to < Len(plan) => to > from
    <3>1. CASE plan = <<>>
      BY <1>4, <2>4, <3>1
    <3>2. CASE plan # <<>>
      BY <1>6, <3>2
    <3> QED
      BY <3>1, <3>2
  <2>6. /\ Filled(plan)[from] \in Nat /\ Filled(plan)[to] \in Nat
        /\ Filled(plan)[from] <= Filled(plan)[to]
    BY <1>2, <1>4, <2>4, FilledAdds, FilledGrows
  <2>7. ReplyBytes(plan, from, to) \in Nat
    <3>1. {Envelope, CursorBytes, NullBytes} \subseteq Nat
      BY ReadingIs
    <3> QED
      BY <2>6, <3>1 DEF ReplyBytes
  <2> QED
    BY <2>3, <2>4, <2>5, <2>7
<1> QED
  BY <1>2, <1>3, <1>4, <1>7, <1>8

\* A page goes on from the page before it.
LEMMA PagesAdjoin ==
    ASSUME NEW plan, \E S : plan \in Seq(S), NEW from \in 0..Len(plan), NEW to \in from..Len(plan)
    PROVE  /\ SubSeq(plan, 1, from) \o SubSeq(plan, from + 1, to) = SubSeq(plan, 1, to)
           /\ SubSeq(plan, 1, 0) = <<>> /\ SubSeq(plan, 1, Len(plan)) = plan
<1>1. PICK S : plan \in Seq(S)
  OBVIOUS
<1>2. Len(plan) \in Nat
  BY <1>1, LenProperties
<1>3. 1 \in 1..Len(plan) + 1 /\ from \in 1 - 1..Len(plan)
  BY <1>2
<1>4. SubSeq(plan, 1, from) \o SubSeq(plan, from + 1, to) = SubSeq(plan, 1, to)
  BY <1>1, <1>3, ConcatAdjacentSubSeq
<1>5. SubSeq(plan, 1, 0) = <<>>
  BY <1>1, SubSeqEmpty
<1>6. SubSeq(plan, 1, Len(plan)) = plan
  BY <1>1, SubSeqFull
<1> QED
  BY <1>4, <1>5, <1>6

\* A call that takes no step stands as it did.
LEMMA ReaderStays ==
    ASSUME ReadingTypeOK, NEW r \in Readers, UNCHANGED <<import, reading>>,
           UNCHANGED <<reader[r], using[r], cursor[r], heard[r], since[r], size[r]>>
    PROVE  /\ CallOf(r) => CallOf(r)'
           /\ HeardOf(r) => HeardOf(r)'
<1> USE DEF MayRead, Due, OfDocument, Artifact, Loaded
<1>1. CallOf(r) => CallOf(r)'
  BY DEF CallOf
<1>2. HeardOf(r) => HeardOf(r)'
  BY DEF HeardOf
<1> QED
  BY <1>1, <1>2

\* An import leaves what its reader has begun.
LEMMA ReimportKeeps ==
    ASSUME ReadingInv, NEW a \in DOMAIN Contents, Reimport(a), NEW r \in Readers
    PROVE  CallOf(r)' /\ HeardOf(r)'
<1>1. /\ UNCHANGED <<reading, reader, using, cursor, heard, since, size>>
      /\ CallOf(r) /\ HeardOf(r)
  BY DEF Reimport, ReadingInv, CallInv, HeardInv
<1>2. /\ import[Artifact(r)] \in Nat /\ import'[Artifact(r)] \in Nat
      /\ import'[Artifact(r)] # import[Artifact(r)] => import'[Artifact(r)] = import[Artifact(r)] + 1
  <2>1. Artifact(r) \in DOMAIN Contents /\ import \in [DOMAIN Contents -> Nat \ {0}]
    BY ArtifactIs DEF ReadingInv, ReadingTypeOK
  <2>2. import' = [import EXCEPT ![a] = @ + 1]
    BY DEF Reimport
  <2> QED
    BY <2>1, <2>2
<1>3. Artifact(r)' = Artifact(r) /\ (OfDocument(r)' <=> OfDocument(r))
  BY <1>1 DEF Artifact, OfDocument
<1>4. ASSUME NEW n \in DOMAIN Contents[Artifact(r)], n <= import[Artifact(r)]
      PROVE  n <= import'[Artifact(r)] /\ (n = import'[Artifact(r)] => n = import[Artifact(r)])
  <2>1. n \in Nat
    BY ArtifactIs DEF ReadingInv
  <2> QED
    BY <1>2, <1>4, <2>1
<1>5. MayRead(r, using[r].import) => MayRead(r, using[r].import)'
  BY <1>1, <1>3, <1>4 DEF MayRead
<1>6. MayRead(r, since[r]) => MayRead(r, since[r])'
  BY <1>1, <1>3, <1>4 DEF MayRead
<1>7. Due(r, using[r].import)' = Due(r, using[r].import) /\ Due(r, since[r])' = Due(r, since[r])
      /\ Loaded(r)' = Loaded(r)
  BY <1>1, <1>3 DEF Due, Loaded
<1>8. MayRead(r, since[r]) => (since[r] = import'[Artifact(r)] => since[r] = import[Artifact(r)])
  BY <1>4 DEF MayRead
<1>9. CallOf(r)'
  BY <1>1, <1>3, <1>5, <1>7 DEF CallOf
<1>10. HeardOf(r)'
  BY <1>1, <1>3, <1>6, <1>7, <1>8 DEF HeardOf
<1> QED
  BY <1>9, <1>10

\* A reader that loads begins, or goes on with, one import.
LEMMA LoadKeeps ==
    ASSUME ReadingInv, NEW r \in Readers, Load(r) PROVE CallOf(r)' /\ HeardOf(r)'
<1> USE DEF ReadingInv
<1> DEFINE a == Artifact(r)
           n == import[a]
<1>1. /\ UNCHANGED <<import, reading, cursor, heard, size>> /\ reader[r] = "ask"
      /\ CallOf(r) /\ HeardOf(r)
  BY DEF Load, CallInv, HeardInv
<1>2. /\ a' = a /\ (OfDocument(r)' <=> OfDocument(r)) /\ n' = n
      /\ a \in DOMAIN Contents /\ n \in DOMAIN Contents[a] /\ n \in Nat \ {0} /\ n <= n
  <2>1. a' = a /\ (OfDocument(r)' <=> OfDocument(r)) /\ n' = n
    BY <1>1 DEF Artifact, OfDocument
  <2>2. a \in DOMAIN Contents /\ n \in DOMAIN Contents[a] /\ n \in Nat \ {0}
    BY ArtifactIs
  <2>3. n <= n
    BY <2>2
  <2> QED
    BY <2>1, <2>2, <2>3
<1> DEFINE plan == IF ~OfDocument(r) THEN HitsOf(a, n)
                   ELSE IF PlanIsKept(r) THEN entry.plan ELSE Plans[a][n]
           where == IF ~OfDocument(r) \/ PlanIsKept(r) THEN "reply"
                    ELSE IF TooLarge(Contents[a][n]) THEN "too_large" ELSE "publish"
<1>3. /\ using' = [using EXCEPT ![r] = [import |-> n, plan |-> plan]]
      /\ since' = [since EXCEPT ![r] = IF cursor[r] = Unread THEN n ELSE @]
      /\ reader' = [reader EXCEPT ![r] = where]
  BY DEF Load, Turns
<1>4. PlanIsKept(r) => entry.plan = Plans[a][n] /\ ~TooLarge(Contents[a][n])
  BY DEF PlanIsKept, EntryInv
<1>5. plan = Due(r, n)
  BY <1>4 DEF Due
<1>6. where # "too_large" /\ OfDocument(r) => ~TooLarge(Contents[a][n])
  BY <1>4
<1>7. where = "too_large" => TooLarge(Contents[a][n])
  OBVIOUS
<1>8. where \in {"reply", "too_large", "publish"} /\ (where = "publish" => OfDocument(r))
  OBVIOUS
<1> HIDE DEF plan, where, n, a
<1>9. using'[r].import = n /\ using'[r].plan = Due(r, n) /\ reader'[r] = where
      /\ since'[r] = IF cursor[r] = Unread THEN n ELSE since[r]
  <2>1. r \in DOMAIN reader /\ r \in DOMAIN since /\ r \in DOMAIN using
    BY DEF ReadingTypeOK
  <2> QED
    BY <1>3, <1>5, <2>1
<1>10. Artifact(r)' = a /\ Artifact(r) = a /\ import[a] = n /\ import'[a] = n
  BY <1>2 DEF a, n
<1>11. /\ (MayRead(r, using[r].import))' <=>
             (OfDocument(r) => ~TooLarge(Contents[a][n]))
       /\ (Due(r, using[r].import))' = Due(r, n)
       /\ Loaded(r)' = Contents[a][n]
  BY <1>2, <1>9, <1>10 DEF MayRead, Due, Loaded
<1>12. cursor[r] # Unread => since[r] \in 1..n /\ since'[r] = since[r]
  <2>1. cursor[r] # Unread => since[r] \in DOMAIN Contents[a] /\ since[r] <= n
    BY <1>1, <1>10 DEF HeardOf, MayRead
  <2>2. since[r] \in DOMAIN Contents[a] => since[r] \in Nat \ {0}
    BY <1>10, ArtifactIs
  <2> QED
    BY <1>2, <1>9, <2>1, <2>2
<1>13. since'[r] \in 1..n
  BY <1>2, <1>9, <1>12
<1>14. CallOf(r)'
  <2>1. reader'[r] \in {"publish", "reply"} =>
          /\ MayRead(r, using[r].import)' /\ using'[r].plan = Due(r, using[r].import)'
          /\ since'[r] \in 1..using'[r].import
          /\ cursor'[r] = Unread => since'[r] = using'[r].import
    BY <1>1, <1>6, <1>9, <1>11, <1>13
  <2>2. reader'[r] = "publish" => OfDocument(r)'
    BY <1>2, <1>8, <1>9
  <2>3. reader'[r] = "too_large" /\ OfDocument(r)' => TooLarge(Loaded(r)')
    BY <1>7, <1>9, <1>11
  <2> QED
    BY <2>1, <2>2, <2>3 DEF CallOf
<1>15. HeardOf(r)'
  <2>1. cursor'[r] = Unread /\ reader'[r] \in {"ask", "publish", "reply"} => heard'[r] = <<>>
    BY <1>1 DEF HeardOf
  <2>2. cursor[r] # Unread =>
          /\ MayRead(r, since[r])' <=> MayRead(r, since[r])
          /\ Due(r, since[r])' = Due(r, since[r])
    BY <1>1, <1>2, <1>10, <1>12 DEF MayRead, Due
  <2>3. reader'[r] # "told" /\ size'[r] <= Cap
    BY <1>1, <1>8, <1>9 DEF HeardOf
  <2>4. cursor'[r] # Unread =>
          /\ MayRead(r, since[r])' /\ cursor'[r].offset \in Nat
          /\ cursor'[r].binding = <<reading'[r], IF OfDocument(r)' THEN since'[r] ELSE 0>>
          /\ OfDocument(r)' \/ since'[r] = import'[Artifact(r)'] =>
               /\ cursor'[r].offset \in 1..(Len(Due(r, since[r])') - 1)
               /\ heard'[r] = SubSeq(Due(r, since[r])', 1, cursor'[r].offset)
    BY <1>1, <1>2, <1>10, <1>12, <2>2 DEF HeardOf
  <2> QED
    BY <2>1, <2>3, <2>4 DEF HeardOf
<1> QED
  BY <1>14, <1>15

\* Keeping a plan changes nothing for the call that made it.
LEMMA KeepPlanKeeps ==
    ASSUME ReadingInv, NEW r \in Readers, KeepPlan(r) PROVE CallOf(r)' /\ HeardOf(r)'
<1>1. /\ UNCHANGED <<import, reading, using, cursor, heard, since, size>>
      /\ reader[r] = "publish" /\ reader'[r] = "reply" /\ CallOf(r) /\ HeardOf(r)
  BY DEF ReadingInv, ReadingTypeOK, KeepPlan, Turns, CallInv, HeardInv
<1> USE DEF MayRead, Due, OfDocument, Artifact, Loaded
<1>2. CallOf(r)'
  BY <1>1 DEF CallOf
<1>3. HeardOf(r)'
  BY <1>1 DEF HeardOf
<1> QED
  BY <1>2, <1>3

\* A reader that begins again has heard nothing.
LEMMA RestartKeeps ==
    ASSUME ReadingInv, NEW r \in Readers, Restart(r) PROVE CallOf(r)' /\ HeardOf(r)'
<1>1. /\ UNCHANGED <<import, reading, using, since, size>>
      /\ reader'[r] = "ask" /\ cursor'[r] = Unread /\ heard'[r] = <<>> /\ size[r] <= Cap
  BY DEF ReadingInv, ReadingTypeOK, Restart, Turns, HeardInv, HeardOf
<1>2. CallOf(r)'
  BY <1>1 DEF CallOf
<1>3. HeardOf(r)'
  BY <1>1 DEF HeardOf
<1> QED
  BY <1>2, <1>3

\* A page goes on where its reader was, in the import it began with; a document is never
\* too large for one more.
LEMMA GivePageKeeps ==
    ASSUME ReadingInv, NEW r \in Readers, GivePage(r) PROVE CallOf(r)' /\ HeardOf(r)'
<1> USE DEF ReadingInv
<1> DEFINE n == using[r].import
           a == Artifact(r)
<1>1. /\ UNCHANGED <<import, reading, using, since>> /\ reader[r] = "reply"
      /\ CallOf(r) /\ HeardOf(r)
      /\ r \in DOMAIN reader /\ r \in DOMAIN heard /\ r \in DOMAIN cursor /\ r \in DOMAIN size
  BY DEF GivePage, CallInv, HeardInv, ReadingTypeOK
<1>2. /\ Artifact(r)' = a /\ (OfDocument(r)' <=> OfDocument(r)) /\ n' = n
      /\ import'[Artifact(r)'] = import[Artifact(r)] /\ import[Artifact(r)] = import[a]
  BY <1>1 DEF Artifact, OfDocument
<1>3. /\ MayRead(r, n) /\ since[r] \in 1..n /\ (cursor[r] = Unread => since[r] = n)
      /\ n \in DOMAIN Contents[a] /\ n <= import[a] /\ n \in Nat /\ import[a] \in Nat
      /\ since[r] \in DOMAIN Contents[a]
  <2>1. MayRead(r, n) /\ since[r] \in 1..n /\ (cursor[r] = Unread => since[r] = n)
    BY <1>1 DEF CallOf
  <2>2. n \in DOMAIN Contents[a] /\ n <= import[a]
    BY <2>1 DEF MayRead
  <2>3. n \in Nat /\ import[a] \in Nat
    BY <2>2, ArtifactIs
  <2>4. since[r] \in 1..import[a]
    BY <2>1, <2>2, <2>3
  <2> QED
    BY <2>1, <2>2, <2>3, <2>4, ArtifactIs
<1>4. \A m : Due(r, m) = IF OfDocument(r) THEN Plans[a][m] ELSE HitsOf(a, m)
  BY DEF Due
<1>5. Due(r, since[r])' = Due(r, since[r])
  BY <1>1, <1>2 DEF Due
<1>6. MayRead(r, since[r])' <=> MayRead(r, since[r])
  BY <1>1, <1>2 DEF MayRead
<1> HIDE DEF n, a
<1>7. CASE ~Valid(r) \/ (Valid(r) /\ PageEnds(r) = {})
  <2>1. UNCHANGED <<heard, cursor, size>> /\ reader'[r] \in {"invalid", "too_large"}
    BY <1>1, <1>7 DEF GivePage, Turns
  <2>2. reader'[r] = "too_large" => ~OfDocument(r)
    <3>1. CASE ~Valid(r)
      <4>1. reader'[r] = "invalid" /\ "invalid" # "too_large"
        BY <1>1, <3>1 DEF GivePage, Turns
      <4> QED
        BY <4>1
    <3>2. CASE Valid(r) /\ PageEnds(r) = {}
      BY <1>1, <3>2, PageIs
    <3> QED
      BY <1>7, <3>1, <3>2
  <2>3. CallOf(r)'
    BY <1>2, <2>1, <2>2 DEF CallOf
  <2>4. HeardOf(r)'
    BY <1>1, <1>2, <1>5, <1>6, <2>1 DEF HeardOf
  <2> QED
    BY <2>3, <2>4
<1>8. CASE Valid(r) /\ PageEnds(r) # {}
  <2>1. PICK plan, from, to : /\ plan = Due(r, n) /\ from = Offset(r) /\ to = Max(PageEnds(r))
    OBVIOUS
  <2>2. /\ PlanInUse(r) = plan /\ Len(plan) \in Nat /\ from \in 0..Len(plan)
        /\ cursor[r] # Unread => from \in 1..(Len(plan) - 1)
        /\ to \in from..Len(plan) /\ (to < Len(plan) => to > from)
        /\ ReplyBytes(plan, from, to) \in Nat /\ ReplyBytes(plan, from, to) <= Cap
    BY <1>1, <1>8, <2>1, PageIs DEF n
  <2>3. /\ heard'[r] = heard[r] \o SubSeq(plan, from + 1, to)
        /\ size'[r] = ReplyBytes(plan, from, to)
        /\ cursor'[r] = IF to < Len(plan) THEN [binding |-> Binding(r), offset |-> to] ELSE Unread
        /\ reader'[r] = IF to < Len(plan) THEN "ask" ELSE "told"
    BY <1>1, <1>8, <2>1, <2>2 DEF GivePage, Turns
  <2>4. Binding(r) = <<reading[r], IF OfDocument(r) THEN n ELSE 0>>
    BY DEF Binding, n
  <2>5. cursor[r] # Unread => cursor[r].binding = Binding(r) /\ cursor[r].offset = from
    BY <1>8, <2>1 DEF Valid, Offset
  <2>6. OfDocument(r) => since[r] = n
    <3>1. CASE cursor[r] = Unread
      BY <1>3, <3>1
    <3>2. CASE cursor[r] # Unread
      <4>1. cursor[r].binding = <<reading[r], IF OfDocument(r) THEN since[r] ELSE 0>>
        BY <1>1, <3>2 DEF HeardOf
      <4> QED
        BY <2>4, <2>5, <3>2, <4>1
    <3> QED
      BY <3>1, <3>2
  <2>7. since[r] = import[a] => since[r] = n
    BY <1>3
  <2>8. ASSUME OfDocument(r) \/ since[r] = import[a]
        PROVE  plan = Due(r, since[r]) /\ heard'[r] = SubSeq(plan, 1, to)
    <3>1. since[r] = n /\ plan = Due(r, since[r])
      BY <2>1, <2>6, <2>7, <2>8
    <3>2. \E S : plan \in Seq(S)
      BY <1>3, <2>1, DueIs
    <3>3. /\ SubSeq(plan, 1, from) \o SubSeq(plan, from + 1, to) = SubSeq(plan, 1, to)
          /\ SubSeq(plan, 1, 0) = <<>>
      BY <2>2, <3>2, PagesAdjoin
    <3>4. heard[r] = SubSeq(plan, 1, from)
      <4>1. CASE cursor[r] = Unread
        <5>1. heard[r] = <<>> /\ from = 0
          BY <1>1, <2>1, <4>1 DEF HeardOf, Offset
        <5> QED
          BY <3>3, <5>1
      <4>2. CASE cursor[r] # Unread
        <5>1. heard[r] = SubSeq(Due(r, since[r]), 1, cursor[r].offset)
          BY <1>1, <1>2, <2>8, <4>2 DEF HeardOf
        <5> QED
          BY <2>5, <3>1, <4>2, <5>1
      <4> QED
        BY <4>1, <4>2
    <3> QED
      BY <2>3, <3>1, <3>3, <3>4
  <2>9. MayRead(r, since[r])
    <3>1. since[r] <= import[a]
      BY <1>3
    <3>2. OfDocument(r) => ~TooLarge(Contents[a][since[r]])
      BY <1>3, <2>6 DEF MayRead, a
    <3> QED
      BY <1>3, <3>1, <3>2 DEF MayRead, a
  <2>10. CallOf(r)'
    BY <2>3 DEF CallOf
  <2>11. HeardOf(r)'
    <3>1. CASE to < Len(plan)
      <4>1. cursor'[r].binding = Binding(r) /\ cursor'[r].offset = to /\ reader'[r] = "ask"
        BY <2>3, <3>1
      <4>2. cursor'[r] # Unread
        <5>1. cursor'[r] = [binding |-> Binding(r), offset |-> to] /\ to \in Nat
          BY <2>2, <2>3, <3>1
        <5>2. Binding(r) \in Reads \X Nat
          BY <1>3, <2>4, ArtifactIs
        <5>3. cursor'[r] \in [binding : Reads \X Nat, offset : Nat]
          BY <5>1, <5>2
        <5> QED
          BY <5>3, ReadingIs
      <4>3. to \in 1..(Len(plan) - 1)
        BY <2>2, <3>1
      <4>4. cursor'[r].binding = <<reading'[r], IF OfDocument(r)' THEN since'[r] ELSE 0>>
        BY <1>1, <1>2, <2>4, <2>6, <4>1
      <4>5. OfDocument(r)' \/ since'[r] = import'[Artifact(r)'] =>
               /\ cursor'[r].offset \in 1..(Len(Due(r, since[r])') - 1)
               /\ heard'[r] = SubSeq(Due(r, since[r])', 1, cursor'[r].offset)
        BY <1>1, <1>2, <1>5, <2>8, <4>1, <4>3
      <4>6. size'[r] <= Cap /\ cursor'[r].offset \in Nat
        BY <2>2, <2>3, <4>1, <4>3
      <4> QED
        BY <1>6, <2>9, <4>1, <4>2, <4>4, <4>5, <4>6 DEF HeardOf
    <3>2. CASE ~(to < Len(plan))
      <4>1. cursor'[r] = Unread /\ reader'[r] = "told" /\ to = Len(plan) /\ size'[r] <= Cap
        BY <2>2, <2>3, <3>2
      <4>2. OfDocument(r)' \/ since'[r] = import'[Artifact(r)'] => heard'[r] = Due(r, since[r])'
        <5> SUFFICES ASSUME OfDocument(r) \/ since[r] = import[a]
                     PROVE  heard'[r] = Due(r, since[r])'
          BY <1>1, <1>2
        <5>1. plan = Due(r, since[r]) /\ heard'[r] = SubSeq(plan, 1, Len(plan))
          BY <2>8, <4>1
        <5>2. \E S : plan \in Seq(S)
          BY <1>3, <2>1, DueIs
        <5>3. SubSeq(plan, 1, Len(plan)) = plan
          BY <2>2, <5>2, PagesAdjoin
        <5> QED
          BY <1>5, <5>1, <5>3
      <4> QED
        BY <1>6, <2>9, <4>1, <4>2 DEF HeardOf
    <3> QED
      BY <3>1, <3>2
  <2> QED
    BY <2>10, <2>11
<1> QED
  BY <1>7, <1>8

\* Each step of a reader keeps the types.
LEMMA ReadingTypeStep == ReadingInv /\ [ReadingNext]_readingVars => ReadingTypeOK'
<1> SUFFICES ASSUME ReadingInv, [ReadingNext]_readingVars PROVE ReadingTypeOK'
  OBVIOUS
<1> USE DEF ReadingInv
<1>1. ASSUME NEW r \in Readers, Load(r) PROVE ReadingTypeOK'
  <2>1. import[Artifact(r)] \in Nat
    BY ArtifactIs
  <2> QED
    BY <1>1, <2>1 DEF Load, Turns, ReadingTypeOK
<1>2. ASSUME NEW r \in Readers, KeepPlan(r) PROVE ReadingTypeOK'
  <2>1. entry' = Unread \/ entry'.artifact \in DOMAIN Contents
    BY <1>2, ArtifactIs DEF KeepPlan
  <2> QED
    BY <1>2, <2>1 DEF KeepPlan, Turns, ReadingTypeOK
<1>3. ASSUME NEW r \in Readers, GivePage(r) PROVE ReadingTypeOK'
  <2>1. CASE UNCHANGED <<heard, cursor, size>>
    BY <1>3, <2>1 DEF GivePage, Turns, ReadingTypeOK
  <2>2. CASE Valid(r) /\ PageEnds(r) # {}
    <3>1. ReplyBytes(PlanInUse(r), Offset(r), Max(PageEnds(r))) \in Nat
      BY <1>3, <2>2, PageIs DEF GivePage
    <3> QED
      <4>1. size' \in [Readers -> Nat]
        BY <1>3, <2>2, <3>1 DEF GivePage, ReadingTypeOK
      <4>2. DOMAIN heard' = Readers /\ DOMAIN cursor' = Readers
        BY <1>3, <2>2 DEF GivePage, ReadingTypeOK
      <4>3. reader' = [reader EXCEPT ![r] = "ask"] \/ reader' = [reader EXCEPT ![r] = "told"]
        BY <1>3, <2>2 DEF GivePage, Turns
      <4>4. UNCHANGED <<import, reading, using, since, entry>>
        BY <1>3 DEF GivePage
      <4> QED
        BY <4>1, <4>2, <4>3, <4>4 DEF ReadingTypeOK
  <2> QED
    BY <1>3, <2>1, <2>2 DEF GivePage
<1>4. ASSUME NEW r \in Readers, Restart(r) PROVE ReadingTypeOK'
  BY <1>4 DEF Restart, Turns, ReadingTypeOK
<1>5. ASSUME NEW a \in DOMAIN Contents, Reimport(a) PROVE ReadingTypeOK'
  <2>1. /\ import[a] \in Nat \ {0} /\ import[a] < Len(Contents[a])
        /\ DOMAIN Contents[a] = 1..Len(Contents[a]) /\ Len(Contents[a]) \in Nat
    BY <1>5, ReadingIs DEF Reimport, ReadingTypeOK
  <2>2. import[a] + 1 \in DOMAIN Contents[a] /\ import[a] + 1 \in Nat \ {0}
    BY <2>1
  <2> QED
    BY <1>5, <2>2 DEF Reimport, ReadingTypeOK
<1>6. CASE UNCHANGED readingVars
  BY <1>6 DEF readingVars, ReadingTypeOK
<1> QED
  BY <1>1, <1>2, <1>3, <1>4, <1>5, <1>6 DEF ReadingNext

\* Each step keeps what calls go by and what readers were told.
LEMMA ReaderStep == ReadingInv /\ [ReadingNext]_readingVars => CallInv' /\ HeardInv'
<1> SUFFICES ASSUME ReadingInv, [ReadingNext]_readingVars, NEW s \in Readers
             PROVE  CallOf(s)' /\ HeardOf(s)'
  BY DEF CallInv, HeardInv
<1>1. CallOf(s) /\ HeardOf(s) /\ ReadingTypeOK
  BY DEF ReadingInv, CallInv, HeardInv
<1>2. ASSUME NEW r \in Readers, Load(r) \/ KeepPlan(r) \/ GivePage(r) \/ Restart(r), r # s
      PROVE  CallOf(s)' /\ HeardOf(s)'
  <2>1. /\ UNCHANGED <<import, reading>>
        /\ UNCHANGED <<reader[s], using[s], cursor[s], heard[s], since[s], size[s]>>
    <3>1. CASE Load(r)
      BY <1>1, <1>2, <3>1 DEF Load, Turns, ReadingTypeOK
    <3>2. CASE KeepPlan(r)
      BY <1>1, <1>2, <3>2 DEF KeepPlan, Turns, ReadingTypeOK
    <3>3. CASE GivePage(r)
      BY <1>1, <1>2, <3>3 DEF GivePage, Turns, ReadingTypeOK
    <3>4. CASE Restart(r)
      BY <1>1, <1>2, <3>4 DEF Restart, Turns, ReadingTypeOK
    <3> QED
      BY <1>2, <3>1, <3>2, <3>3, <3>4
  <2> QED
    BY <1>1, <2>1, ReaderStays
<1>3. ASSUME Load(s) \/ KeepPlan(s) \/ GivePage(s) \/ Restart(s)
      PROVE  CallOf(s)' /\ HeardOf(s)'
  BY <1>3, LoadKeeps, KeepPlanKeeps, GivePageKeeps, RestartKeeps
<1>4. ASSUME NEW a \in DOMAIN Contents, Reimport(a) PROVE CallOf(s)' /\ HeardOf(s)'
  BY <1>4, ReimportKeeps
<1>5. CASE UNCHANGED readingVars
  <2>1. /\ UNCHANGED <<import, reading>>
        /\ UNCHANGED <<reader[s], using[s], cursor[s], heard[s], since[s], size[s]>>
    BY <1>5 DEF readingVars
  <2> QED
    BY <1>1, <2>1, ReaderStays
<1> QED
  BY <1>2, <1>3, <1>4, <1>5 DEF ReadingNext

\* The invariant tells what a reader that came to the end was told.
LEMMA ReadingInvTells == ReadingInv => CursorsTellAll
<1> SUFFICES ASSUME ReadingInv, NEW r \in Readers
             PROVE  LET a == Artifact(r) IN
                    /\ reader[r] = "told" /\ OfDocument(r) => MakeUp(heard[r], Contents[a][since[r]])
                    /\ reader[r] = "told" /\ ~OfDocument(r) /\ since[r] = import[a] =>
                         heard[r] = HitsOf(a, since[r])
                    /\ size[r] <= Cap
                    /\ reader[r] = "too_large" /\ OfDocument(r) => TooLarge(Loaded(r))
  BY DEF CursorsTellAll
<1>1. CallOf(r) /\ HeardOf(r) /\ ReadingTypeOK
  BY DEF ReadingInv, CallInv, HeardInv
<1>2. ASSUME reader[r] = "told", OfDocument(r)
      PROVE  MakeUp(heard[r], Contents[Artifact(r)][since[r]])
  <2>1. MayRead(r, since[r]) /\ heard[r] = Due(r, since[r])
    BY <1>1, <1>2 DEF HeardOf
  <2> QED
    BY <1>1, <1>2, <2>1, DueIs
<1>3. ASSUME reader[r] = "told", ~OfDocument(r), since[r] = import[Artifact(r)]
      PROVE  heard[r] = HitsOf(Artifact(r), since[r])
  BY <1>1, <1>3 DEF HeardOf, Due
<1>4. size[r] <= Cap /\ (reader[r] = "too_large" /\ OfDocument(r) => TooLarge(Loaded(r)))
  BY <1>1 DEF HeardOf, CallOf
<1> QED
  BY <1>2, <1>3, <1>4

\* A retained document that is read in pages keeps its inductive invariant: a call goes by
\* the plan of what it loaded, whatever the service keeps by then; what a reader was told
\* begins the plan of the import it began with, up to its cursor.
THEOREM ReadingTypeCorrect == ReadingSpec => []ReadingInv
<1>1. ReadingInv /\ [ReadingNext]_readingVars => ReadingInv'
  BY ReadingTypeStep, EntryStep, ReaderStep DEF ReadingInv
<1> QED
  BY <1>1, ReadingInitInv, PTL DEF ReadingSpec

\* For any contents and bounds: a reader that follows its cursors to the end is told the
\* whole of one document, once and in order, whatever calls and imports come between
\* (get_document, search; document.py 1-34).
THEOREM DocumentsAreToldWhole == ReadingSpec => []CursorsTellAll
<1> QED
  BY ReadingTypeCorrect, ReadingInvTells, PTL
=============================================================================
