--------------------------- MODULE RetainedReading ---------------------------
(***************************************************************************)
(* A retained document read in pages (artifacts/document.py, search.py):   *)
(* get_document cuts the content into fragments that fit half a reply,     *)
(* search and read list hits, and a reply holds as many as its cap allows  *)
(* with the cursor to the next.  Calls overlap in the threads of one       *)
(* service, which keeps one plan of fragments; between two pages of a      *)
(* reader the document may be removed and imported again.                  *)
(*                                                                         *)
(* A content is its nodes (scalars, texts and boxes of them) in the order  *)
(* they are written: right after a box come those in it.  What JSON makes  *)
(* of a node is how many bytes it takes.                                   *)
(***************************************************************************)
EXTENDS Integers, SequencesExt, FiniteSetsExt

CONSTANTS
    Readers,
    Reads,          \* what a reader may read: <<tool, artifact>>
    Contents,       \* artifact to its contents, one per import
    Matches,        \* artifact to the sizes of its hits, one sequence per import
    Limit,          \* of hits in a page
    Cap,            \* of bytes in a reply
    Reserve,        \* what the envelope of a reply and a cursor are given
    Envelope, CursorBytes, NullBytes,
    PlanCache,      \* of fragments in a plan that is kept
    Unread

\* The nodes in a box; scalars and texts have none.
Inside(content, k) == (k + 1)..(k + content[k].holds)

\* A node says how many bytes its pointer takes and its value, and how many nodes are in
\* it; a text, how many its first characters take.
IsContent(content) ==
    /\ content \in Seq(Range(content)) /\ content # <<>>
    /\ \A k \in DOMAIN content :
         /\ content[k].kind \in {"scalar", "text", "box"}
         /\ {content[k].pointer, content[k].bytes, content[k].holds} \subseteq Nat
         /\ content[k].kind # "box" => content[k].holds = 0
         /\ content[k].kind = "text" =>
              /\ content[k].length \in Nat
              /\ content[k].upto \in [0..content[k].length -> Nat]
              /\ \A c, d \in 0..content[k].length :
                   c <= d => content[k].upto[c] <= content[k].upto[d]
         /\ k + content[k].holds <= Len(content)
         /\ \A j \in Inside(content, k) : j + content[j].holds <= k + content[k].holds

ReadingAssumption ==
    /\ {Limit, Cap, Reserve, Envelope, CursorBytes, NullBytes, PlanCache} \subseteq Nat
    /\ NullBytes < CursorBytes /\ Envelope + CursorBytes <= Reserve /\ Reserve < Cap
    /\ Reads \subseteq {"document", "hits"} \X DOMAIN Contents
    /\ Unread \notin [binding : Reads \X Nat, offset : Nat]
    /\ DOMAIN Matches = DOMAIN Contents
    /\ \A a \in DOMAIN Contents :
         /\ Len(Contents[a]) \in Nat \ {0} /\ DOMAIN Contents[a] = 1..Len(Contents[a])
         /\ DOMAIN Matches[a] = DOMAIN Contents[a]
         /\ \A n \in DOMAIN Contents[a] :
              IsContent(Contents[a][n]) /\ Matches[a][n] \in Seq(Nat)

ASSUME Readable == ReadingAssumption

VARIABLES
    import,         \* which import of each artifact is retained
    reading,        \* what each reader reads
    reader,         \* where it is
    using,          \* what its call loaded: the import, and the plan it goes by
    cursor,         \* the cursor it was given, or Unread
    heard,          \* what it was told since it began
    since,          \* history: the import it began with
    size,           \* of its last reply
    entry           \* the plan the service keeps, or Unread

readingVars == <<import, reading, reader, using, cursor, heard, since, size, entry>>

-----------------------------------------------------------------------------
(* The fragments of a content                                              *)

FragmentCap == (Cap - Reserve) \div 2

FitsWhole(node) == node.pointer + node.bytes <= FragmentCap

\* What is told whole: nodes that fit, in nothing that does.
WholeNodes(content) ==
    {k \in DOMAIN content :
        /\ FitsWhole(content[k])
        /\ \A j \in DOMAIN content : k \in Inside(content, j) => ~FitsWhole(content[j])}

\* What is cut: nodes that do not fit, in nothing that does.
DividedNodes(content) ==
    {k \in DOMAIN content :
        /\ ~FitsWhole(content[k])
        /\ \A j \in DOMAIN content : k \in Inside(content, j) => ~FitsWhole(content[j])}

\* The pieces of a text from here that fit; the next begins where the longest ends.
PieceBytes(text, from, to) == text.pointer + 4 + text.upto[to] - text.upto[from]
Fitting(text, from) ==
    {to \in (from + 1)..text.length : PieceBytes(text, from, to) <= FragmentCap}
PieceStarts(text) ==
    {c \in 0..(text.length - 1) :
        \A some \in SUBSET (0..text.length) :
            /\ 0 \in some
            /\ \A from \in some : Fitting(text, from) # {} => Max(Fitting(text, from)) \in some
            => c \in some}

EmptyBox(node) == node.pointer + 2

\* A plan is made whole or not at all.
Indivisible(node) ==
    \/ node.kind = "scalar"
    \/ node.kind = "box" /\ EmptyBox(node) > FragmentCap
    \/ node.kind = "text" /\ (node.length = 0 \/ \E c \in PieceStarts(node) : Fitting(node, c) = {})
TooLarge(content) == \E k \in DividedNodes(content) : Indivisible(content[k])

\* A fragment is a node's value, an empty box, or a span of a text.
Fragment(kind, node, from, to, bytes) ==
    [kind |-> kind, node |-> node, from |-> from, to |-> to, bytes |-> bytes]
Piece(content, k, from) ==
    LET to == Max(Fitting(content[k], from))
    IN Fragment("text", k, from, to, PieceBytes(content[k], from, to))
FragmentsOf(content) ==
    {Fragment("value", k, 0, 0, content[k].pointer + content[k].bytes) : k \in WholeNodes(content)}
    \cup {Fragment("empty", k, 0, 0, EmptyBox(content[k])) :
          k \in {k \in DividedNodes(content) : content[k].kind = "box"}}
    \cup UNION {{Piece(content, k, from) : from \in PieceStarts(content[k])} :
                k \in {k \in DividedNodes(content) : content[k].kind = "text"}}

\* They come in the order of the nodes, and of a text.
Earlier(f, g) == f.node < g.node \/ (f.node = g.node /\ f.from < g.from)
InOrder(fragments) ==
    [k \in 1..Cardinality(fragments) |->
        CHOOSE f \in fragments : Cardinality({g \in fragments : Earlier(g, f)}) = k - 1]

Plans ==
    [a \in DOMAIN Contents |->
        [n \in DOMAIN Contents[a] |->
            IF TooLarge(Contents[a][n]) THEN <<>> ELSE InOrder(FragmentsOf(Contents[a][n]))]]

HitsOf(a, n) == [k \in DOMAIN Matches[a][n] |-> [bytes |-> Matches[a][n][k]]]

-----------------------------------------------------------------------------
(* Calls                                                                   *)

Artifact(r) == reading[r][2]
OfDocument(r) == reading[r][1] = "document"
Loaded(r) == Contents[Artifact(r)][using[r].import]

ReadingTypeOK ==
    /\ import \in [DOMAIN Contents -> Nat \ {0}] /\ reading \in [Readers -> Reads]
    /\ \A a \in DOMAIN Contents : import[a] \in DOMAIN Contents[a]
    /\ reader \in [Readers -> {"ask", "publish", "reply", "told", "invalid", "too_large"}]
    /\ since \in [Readers -> Nat] /\ size \in [Readers -> Nat]
    /\ {DOMAIN using, DOMAIN cursor, DOMAIN heard} \subseteq {Readers}
    /\ entry = Unread \/ entry.artifact \in DOMAIN Contents

ReadingInit ==
    /\ import = [a \in DOMAIN Contents |-> 1]
    /\ reading \in [Readers -> Reads]
    /\ reader = [r \in Readers |-> "ask"]
    /\ using = [r \in Readers |-> Unread]
    /\ cursor = [r \in Readers |-> Unread]
    /\ heard = [r \in Readers |-> <<>>]
    /\ since = [r \in Readers |-> 0]
    /\ size = [r \in Readers |-> 0]
    /\ entry = Unread

Turns(r, where) == reader' = [reader EXCEPT ![r] = where]

\* The plan kept is of this very import: its key hashes the whole manifest.
PlanIsKept(r) ==
    entry # Unread /\ entry.artifact = Artifact(r) /\ entry.import = import[Artifact(r)]

\* The store is read, and the plan looked up or made.
Load(r) ==
    /\ reader[r] = "ask"
    /\ LET a == Artifact(r)
           n == import[a]
           plan == IF ~OfDocument(r) THEN HitsOf(a, n)
                   ELSE IF PlanIsKept(r) THEN entry.plan ELSE Plans[a][n]
       IN /\ using' = [using EXCEPT ![r] = [import |-> n, plan |-> plan]]
          /\ since' = [since EXCEPT ![r] = IF cursor[r] = Unread THEN n ELSE @]
          /\ Turns(r, IF ~OfDocument(r) \/ PlanIsKept(r) THEN "reply"
                      ELSE IF TooLarge(Contents[a][n]) THEN "too_large" ELSE "publish")
    /\ UNCHANGED <<import, reading, cursor, heard, size, entry>>

\* One assignment, while other calls may be anywhere; a large plan leaves none.
KeepPlan(r) ==
    /\ reader[r] = "publish"
    /\ entry' = IF Len(using[r].plan) > PlanCache THEN Unread
                ELSE [artifact |-> Artifact(r), import |-> using[r].import,
                      plan |-> using[r].plan]
    /\ Turns(r, "reply")
    /\ UNCHANGED <<import, reading, using, cursor, heard, since, size>>

PlanInUseReread(r) ==                                                \* mutant
    IF OfDocument(r) /\ entry # Unread THEN entry.plan ELSE using[r].plan
PlanInUse(r) == using[r].plan

\* What a cursor says besides its offset: a document's binds the content.
Binding(r) == <<reading[r], IF OfDocument(r) THEN using[r].import ELSE 0>>

Valid(r) ==
    \/ cursor[r] = Unread
    \/ /\ cursor[r].binding = Binding(r)
       /\ cursor[r].offset \in 1..(Len(PlanInUse(r)) - 1)

Offset(r) == IF cursor[r] = Unread THEN 0 ELSE cursor[r].offset

\* The bytes of the first items, with what parts them.
Filled(items) ==
    LET upto[k \in 0..Len(items)] == IF k = 0 THEN 0 ELSE upto[k - 1] + items[k].bytes + 1
    IN upto

\* Those of a reply with the items from one place to another, and with the cursor it needs.
ReplyBytes(plan, from, to) ==
    Envelope + Filled(plan)[to] - Filled(plan)[from]
        + IF to < Len(plan) THEN CursorBytes ELSE NullBytes

\* get_document goes on until a reply without a cursor is full; _fit goes back from
\* the most a page may hold.  Either ends a page at one of these.
PageEnds(r) ==
    LET plan == PlanInUse(r) from == Offset(r)
        last == IF OfDocument(r) THEN Len(plan) ELSE Min({Len(plan), from + Limit})
        first == IF plan = <<>> THEN from ELSE from + 1
    IN {to \in first..last : ReplyBytes(plan, from, to) <= Cap}

GivePage(r) ==
    /\ reader[r] = "reply"
    /\ IF ~Valid(r) THEN Turns(r, "invalid") /\ UNCHANGED <<heard, cursor, size>>
       ELSE IF PageEnds(r) = {} THEN Turns(r, "too_large") /\ UNCHANGED <<heard, cursor, size>>
       ELSE LET plan == PlanInUse(r) to == Max(PageEnds(r)) IN
            /\ heard' = [heard EXCEPT ![r] = @ \o SubSeq(plan, Offset(r) + 1, to)]
            /\ size' = [size EXCEPT ![r] = ReplyBytes(plan, Offset(r), to)]
            /\ cursor' = [cursor EXCEPT ![r] =
                            IF to < Len(plan) THEN [binding |-> Binding(r), offset |-> to]
                            ELSE Unread]
            /\ Turns(r, IF to < Len(plan) THEN "ask" ELSE "told")
    /\ UNCHANGED <<import, reading, using, since, entry>>

\* A reader whose cursor is refused begins again.
Restart(r) ==
    /\ reader[r] = "invalid"
    /\ Turns(r, "ask")
    /\ cursor' = [cursor EXCEPT ![r] = Unread]
    /\ heard' = [heard EXCEPT ![r] = <<>>]
    /\ UNCHANGED <<import, reading, using, since, size, entry>>

\* The document is removed, and an import of the same source comes out otherwise.
Reimport(a) ==
    /\ import[a] < Len(Contents[a])
    /\ import' = [import EXCEPT ![a] = @ + 1]
    /\ UNCHANGED <<reading, reader, using, cursor, heard, since, size, entry>>

ReadingNext ==
    \/ \E r \in Readers : Load(r) \/ KeepPlan(r) \/ GivePage(r) \/ Restart(r)
    \/ \E a \in DOMAIN Contents : Reimport(a)

ReadingSpec == ReadingInit /\ [][ReadingNext]_readingVars

-----------------------------------------------------------------------------
(* Properties                                                              *)

\* The atoms of a content: every node, and every character of a text.
Atoms(content) ==
    {<<k, 0>> : k \in DOMAIN content}
    \cup UNION {{<<k, c>> : c \in 1..content[k].length} :
                k \in {k \in DOMAIN content : content[k].kind = "text"}}

\* Those a fragment of a content tells.
ToldBy(f, content) ==
    CASE f.kind = "empty" -> {<<f.node, 0>>}
      [] f.kind = "value" -> {a \in Atoms(content) : a[1] \in {f.node} \cup Inside(content, f.node)}
      [] f.kind = "text" -> {<<f.node, c>> : c \in (f.from + 1)..f.to}
                              \cup IF f.from = 0 THEN {<<f.node, 0>>} ELSE {}

\* The fragments make up the content: nothing is left out, and what comes later is in a
\* later node or further in a text, so that nothing comes twice.
MakeUp(fragments, content) ==
    /\ UNION {ToldBy(fragments[k], content) : k \in DOMAIN fragments} = Atoms(content)
    /\ \A k \in DOMAIN fragments : \A j \in 1..(k - 1) :
         \A a \in ToldBy(fragments[j], content), b \in ToldBy(fragments[k], content) :
            a[1] < b[1] \/ (a[1] = b[1] /\ a[2] < b[2])

\* A reader that follows its cursors to the end was told the whole of one document,
\* each part of it once and in order, whatever other calls and imports did meanwhile;
\* or every hit, if there was no import; no reply was over its cap, and none was
\* refused for its size unless a part of the document cannot be cut (document.py 1-34).
CursorsTellAll ==
    \A r \in Readers :
        LET a == Artifact(r) IN
        /\ reader[r] = "told" /\ OfDocument(r) => MakeUp(heard[r], Contents[a][since[r]])
        /\ reader[r] = "told" /\ ~OfDocument(r) /\ since[r] = import[a] =>
             heard[r] = HitsOf(a, since[r])
        /\ size[r] <= Cap
        /\ reader[r] = "too_large" /\ OfDocument(r) => TooLarge(Loaded(r))
=============================================================================
