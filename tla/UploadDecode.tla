---------------------------- MODULE UploadDecode ----------------------------
(***************************************************************************)
(* A multipart upload decoded while it arrives (server/uploads.py): one    *)
(* `file` part and one `request` part, in either order, from a client that *)
(* may send anything, stop anywhere or disconnect, into spool files that   *)
(* may fail to write or to close.                                          *)
(*                                                                         *)
(* The parser proper is Starlette's: it calls back as parts arrive, makes  *)
(* a spool for a part with a filename, and writes to it after the chunk    *)
(* that held the bytes.  A part is what the callbacks tell apart.          *)
(***************************************************************************)
EXTENDS Naturals, Sequences

CONSTANTS
    FileLimit,      \* _MAX_DOWNLOAD_BYTES
    MetadataLimit,  \* _MAX_METADATA_BYTES
    MaxParts,       \* bound: parts a client sends
    MaxPartBytes    \* bound: bytes of a part

ASSUME UploadAssumption ==
    FileLimit \in Nat /\ MetadataLimit \in Nat /\ MaxParts \in Nat /\ MaxPartBytes \in Nat

VARIABLES
    sent,           \* the parts begun so far, as the client sent them
    inPart,         \* the last of them has not ended
    names,          \* names accepted by on_headers_finished
    fileBytes,      \* bytes of the file part, as on_part_data counts them
    spool,          \* the spool: "none", "open", "closed" or "stuck"
    spooled,        \* bytes written to it
    complete,       \* the closing boundary was seen
    broken,         \* the client went away or sent no multipart
    failure,        \* the status of the first failure, or 0
    reply           \* what decode_request ended with: 0, 200, 400, 413 or 500

uploadVars == <<sent, inPart, names, fileBytes, spool, spooled, complete, broken,
                failure, reply>>

\* What the headers of a part say: a file with a safe name, a request field, or
\* anything that is refused (another name, a missing, misplaced or unsafe filename,
\* a charset that is not UTF-8).  `good` is what its bytes turn out to be: for a
\* request field, JSON that asks for nothing an upload may not ("good"), UTF-8
\* that does not ("bad"), or bytes that are not UTF-8 ("undecodable").
Part(name, good) == [name |-> name, good |-> good, bytes |-> 0]

Current == sent[Len(sent)]

UploadTypeOK ==
    /\ sent \in Seq([name : {"file", "request", "refused"}, 
                     good : {"good", "bad", "undecodable"}, bytes : 0..MaxPartBytes])
    /\ inPart \in BOOLEAN /\ complete \in BOOLEAN /\ broken \in BOOLEAN
    /\ names \subseteq {"file", "request"}
    /\ fileBytes \in Nat /\ spooled \in Nat
    /\ spool \in {"none", "open", "closed", "stuck"}
    /\ failure \in {0, 400, 413, 500} /\ reply \in {0, 200, 400, 413, 500}

UploadInit ==
    /\ sent = <<>> /\ inPart = FALSE
    /\ names = {} /\ fileBytes = 0
    /\ spool = "none" /\ spooled = 0
    /\ complete = FALSE /\ broken = FALSE
    /\ failure = 0 /\ reply = 0

Parsing == failure = 0 /\ reply = 0 /\ ~complete

Raise(status) == failure' = status

-----------------------------------------------------------------------------
(* The callbacks                                                           *)

Admissible(p) == p.name # "refused" /\ p.name \notin names

\* A part's headers arrived; a file part gets its spool.
HeadersFinished ==
    /\ Parsing /\ ~inPart /\ Len(sent) < MaxParts
    /\ \E name \in {"file", "request", "refused"},
          good \in {"good", "bad", "undecodable"} :
         LET p == Part(name, good) IN
         /\ sent' = Append(sent, p)
         /\ inPart' = TRUE
         /\ IF Admissible(p)
            THEN /\ names' = names \cup {name}
                 /\ spool' = IF name = "file" THEN "open" ELSE spool
                 /\ UNCHANGED failure
            ELSE Raise(400) /\ UNCHANGED <<names, spool>>
    /\ UNCHANGED <<fileBytes, spooled, complete, broken, reply>>

OverLimit(p) == IF p.name = "file" THEN fileBytes + 1 > FileLimit ELSE p.bytes + 1 > MetadataLimit

\* A byte more of the part; its limit stops the parse at once.
PartData ==
    /\ Parsing /\ inPart /\ Current.bytes < MaxPartBytes
    /\ sent' = [sent EXCEPT ![Len(sent)].bytes = @ + 1]
    /\ fileBytes' = IF Current.name = "file" THEN fileBytes + 1 ELSE fileBytes
    /\ IF OverLimit(Current) THEN Raise(413) ELSE UNCHANGED failure
    /\ UNCHANGED <<inPart, names, spool, spooled, complete, broken, reply>>

\* The chunk is parsed: its bytes of the file are written, or cannot be.
WriteSpool ==
    /\ failure = 0 /\ reply = 0 /\ spooled < fileBytes
    /\ \/ spooled' = fileBytes /\ UNCHANGED failure
       \/ Raise(500) /\ UNCHANGED spooled
    /\ UNCHANGED <<sent, inPart, names, fileBytes, spool, complete, broken, reply>>

\* Metadata is decoded strictly, at once.
PartEnd ==
    /\ Parsing /\ inPart
    /\ inPart' = FALSE
    /\ IF Current.name = "request" /\ Current.good = "undecodable"
       THEN Raise(400) ELSE UNCHANGED failure
    /\ UNCHANGED <<sent, names, fileBytes, spool, spooled, complete, broken, reply>>

\* The closing boundary.
End ==
    /\ Parsing /\ ~inPart
    /\ complete' = TRUE
    /\ UNCHANGED <<sent, inPart, names, fileBytes, spool, spooled, broken, failure, reply>>

\* The client is gone, or what it sent is no multipart, even after the boundary.
Breaks ==
    /\ failure = 0 /\ reply = 0
    /\ Raise(400)
    /\ broken' = TRUE
    /\ UNCHANGED <<sent, inPart, names, fileBytes, spool, spooled, complete, reply>>

-----------------------------------------------------------------------------
(* decode_request                                                          *)

NamesOnly == names = {"file", "request"}                        \* mutant
Whole == complete /\ names = {"file", "request"}

GoodOptions == \A k \in DOMAIN sent : sent[k].name = "request" => sent[k].good = "good"

\* The client ended its body, with or without a closing boundary: the form is read
\* back, its options are checked, the file is read.  A read may fail.
Options ==
    IF ~Whole THEN {400}
    ELSE IF ~GoodOptions THEN {400}
    ELSE IF fileBytes = 0 THEN {400, 500}
    ELSE {0, 500}

\* The diagnosis the client gets: a spool that does not close is a failure of its
\* own only if there was none.
Diagnosis(first, closed) == IF first # 0 THEN first ELSE IF closed THEN 200 ELSE 500

CloseSpool(closed) ==
    spool' = IF spool = "none" THEN "none" ELSE IF closed THEN "closed" ELSE "stuck"

\* Every exit closes every spool, then answers.
Finish(first) ==
    \E closed \in IF spool = "none" THEN {TRUE} ELSE BOOLEAN :
        /\ CloseSpool(closed)
        /\ reply' = Diagnosis(first, closed)
        /\ failure' = first

Decode ==
    /\ reply = 0
    /\ \/ failure # 0 /\ Finish(failure)
       \/ /\ failure = 0 /\ spooled = fileBytes
          /\ \E first \in Options : Finish(first)
    /\ UNCHANGED <<sent, inPart, names, fileBytes, spooled, complete, broken>>

UploadNext ==
    HeadersFinished \/ PartData \/ WriteSpool \/ PartEnd \/ End \/ Breaks \/ Decode

UploadSpec == UploadInit /\ [][UploadNext]_uploadVars

-----------------------------------------------------------------------------
(* Properties                                                              *)

Named(name) == {k \in DOMAIN sent : sent[k].name = name}

\* What the published schema says of an upload, of the parts the client sent.
WellFormed ==
    /\ complete /\ Len(sent) = 2
    /\ \E f \in Named("file"), r \in Named("request") :
         /\ sent[f].bytes \in 1..FileLimit
         /\ sent[r].bytes <= MetadataLimit /\ sent[r].good = "good"

\* An upload is accepted only if it is well formed and all of its file was stored;
\* what is well formed and arrives is refused for storage alone; and whatever the
\* verdict, no spool is left open and no close replaces the first diagnosis
\* (uploads.py 15-24).
UploadVerdict ==
    reply # 0 =>
        /\ reply = 200 => WellFormed /\ spooled = fileBytes
        /\ reply \in {400, 413} /\ ~broken => ~WellFormed
        /\ spool # "open"
        /\ failure # 0 => reply = failure
=============================================================================
