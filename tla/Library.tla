-------------------------------- MODULE Library --------------------------------
(***************************************************************************)
(* The knowledge a business answers from: routes/knowledge.py and           *)
(* routes/knowledge_ingest.py put items in, workers/knowledge_ingestion.py   *)
(* embeds them and imports pages.  A text is known by its version, a vector *)
(* by the version it was made of.  (An embedding key is configured; without *)
(* one nothing is embedded.)                                               *)
(***************************************************************************)
EXTENDS Execution

CONSTANTS
    Manual,        \* items entered by hand
    Imports,       \* websites and Google documents to import
    Documents,     \* files uploaded
    Chunks,        \* pieces a page, document or file is cut into
    MaxEdits       \* bound on the edits of an item

Pieces == 1 .. Chunks
\* Each execution of an import inserts items of its own.
Items == Manual \cup (Imports \X (1 .. MaxAttempts) \X Pieces) \cup (Documents \X {1} \X Pieces)
NoItem == <<"none", 0, 0>>

\* The keys ki:{action}:{business}:{url}, ki:embed:{item}, ki:re_embed:{item} and
\* ki:embed:{parent_job}:{idx}.
Import(i) == <<"import", i>>
Embed(x) == <<"embed", x>>
ReEmbed(x) == <<"re_embed", x>>
Uploaded == Documents \X {1} \X Pieces
EmbedJobs == ({"embed"} \X (Manual \cup Uploaded \cup (Imports \X Pieces)))
                \cup ({"re_embed"} \X Items)
Jobs == EmbedJobs \cup ({"import"} \X Imports)
Steps == {"read", "store", "insert", "enqueue", "report"}

VARIABLES
    item,          \* knowledge_items: the version of the text and of its vector, 0 for none
    payload,       \* the item of each ki:embed:{parent_job}:{idx}
    held,          \* the version an embedding is being made of
    piece,         \* the piece an import or upload is at
    edit,          \* the item whose edit is yet to be enqueued
    raced          \* (history) items edited while they were being embedded

vars == <<job, faults, item, payload, held, piece, edit, raced>>

Init ==
    /\ job = [k \in Jobs |-> Absent]
    /\ faults = 0
    /\ item = [x \in Items |-> [text |-> 0, vector |-> 0]]
    /\ payload = [p \in Imports \X Pieces |-> NoItem]
    /\ held = [k \in EmbedJobs |-> 0]
    /\ piece = [s \in Imports \cup Documents |-> 0]
    /\ edit = NoItem
    /\ raced = {}

-----------------------------------------------------------------------------
(* The routes.                                                             *)

\* The item of a key, which an import's job has in its payload.
ItemOf(k) == IF k[1] = "embed" /\ k[2] \in Imports \X Pieces THEN payload[k[2]] ELSE k[2]
Embedding(x) == \E k \in EmbedJobs : ItemOf(k) = x /\ job[k].state \in {"ready", "running"}

NewText(x) == item' = [item EXCEPT ![x].text = @ + 1]

\* create_knowledge_item writes the text of an item entered by hand,
\* update_knowledge_item that of any there is, ...
Write(x) ==
    /\ edit = NoItem
    /\ x \in Manual \/ item[x].text > 0
    /\ item[x].text <= MaxEdits
    /\ NewText(x)
    /\ edit' = x
    /\ raced' = IF Embedding(x) THEN raced \cup {x} ELSE raced
    /\ UNCHANGED <<job, faults, payload, held, piece>>

\* Mutant: an edit is embedded only if the content, not the title, changed.
WriteEnqueuesContent ==
    /\ edit # NoItem
    /\ \E content \in BOOLEAN :
          job' = IF item[edit].text = 1 THEN Enqueued(job, Embed(edit))
                 ELSE IF content THEN Enqueued(job, ReEmbed(edit)) ELSE job
    /\ edit' = NoItem
    /\ UNCHANGED <<faults, item, payload, held, piece, raced>>

\* ... then enqueue its embedding.  The key of a second edit is that of the first.
WriteEnqueues ==
    /\ edit # NoItem
    /\ job' = Enqueued(job, IF item[edit].text = 1 THEN Embed(edit) ELSE ReEmbed(edit))
    /\ edit' = NoItem
    /\ UNCHANGED <<faults, item, payload, held, piece, raced>>

\* The failure to enqueue is logged.
WriteSwallows ==
    /\ edit # NoItem
    /\ Fault
    /\ edit' = NoItem
    /\ UNCHANGED <<job, item, payload, held, piece, raced>>

\* ingest_website and ingest_google_doc.
Ingest(i) ==
    /\ job[Import(i)].state = "absent"
    /\ job' = Enqueued(job, Import(i))
    /\ UNCHANGED <<faults, item, payload, held, piece, edit, raced>>

\* ingest_document stores piece after piece within the request, each followed by its
\* embedding.
Upload(d) ==
    /\ piece[d] < Chunks
    /\ LET x == <<d, 1, piece[d] + 1>>
       IN /\ NewText(x)
          /\ \/ job' = Enqueued(job, Embed(x)) /\ faults' = faults
             \/ job' = job /\ Fault
    /\ piece' = [piece EXCEPT ![d] = @ + 1]
    /\ UNCHANGED <<payload, held, edit, raced>>

\* A piece that cannot be stored, or is and the answer is lost, ends the request: what
\* was stored stays.
UploadFails(d) ==
    /\ piece[d] < Chunks
    /\ Fault
    /\ item' = item \/ NewText(<<d, 1, piece[d] + 1>>)
    /\ piece' = [piece EXCEPT ![d] = Chunks]
    /\ UNCHANGED <<job, payload, held, edit, raced>>

-----------------------------------------------------------------------------
(* Embedding.                                                              *)

StartEmbed(k) ==
    /\ Claim(k, "read")
    /\ UNCHANGED <<item, payload, held, piece, edit, raced>>

\* The text is read and its embedding asked for.  embed_text answers every failure
\* with None, upon which the handler skips the write and is done.
ReadText(k) ==
    /\ job[k].at = "read"
    /\ \/ GoesOn(k, "store")
       \/ Fault /\ job' = [job EXCEPT ![k].at = "report"]
    /\ held' = [held EXCEPT ![k] = IF job'[k].at = "store" THEN item[ItemOf(k)].text ELSE 0]
    /\ UNCHANGED <<item, payload, piece, edit, raced>>

StoreVector(k) ==
    /\ job[k].at = "store"
    /\ item' = [item EXCEPT ![ItemOf(k)].vector = held[k]]
    /\ held' = [held EXCEPT ![k] = 0]
    /\ GoesOn(k, "report")
    /\ UNCHANGED <<payload, piece, edit, raced>>

-----------------------------------------------------------------------------
(* Imports.                                                                *)

At(i) == <<i, job[Import(i)].attempts, piece[i]>>

\* The site is scraped or the document fetched, and cut.  A document that is not
\* shared is given up.
StartImport(i) ==
    /\ Claim(Import(i), "insert")
    /\ piece' = [piece EXCEPT ![i] = 1]
    /\ UNCHANGED <<item, payload, held, edit, raced>>

NotShared(i) ==
    /\ job[Import(i)].at = "insert"
    /\ piece[i] = 1
    /\ Buries(Import(i))
    /\ UNCHANGED <<item, payload, held, piece, edit, raced>>

InsertPiece(i) ==
    /\ job[Import(i)].at = "insert"
    /\ NewText(At(i))
    /\ GoesOn(Import(i), "enqueue")
    /\ UNCHANGED <<payload, held, piece, edit, raced>>

NextPiece(i) == /\ piece' = [piece EXCEPT ![i] = IF @ < Chunks THEN @ + 1 ELSE @]
                /\ UNCHANGED <<item, held, edit, raced>>
AfterPiece(i) == IF piece[i] < Chunks THEN "insert" ELSE "report"

\* Mutant: the pieces are counted from none for each page.
EnqueueEmbedPerPage(i) ==
    /\ job[Import(i)].at = "enqueue"
    /\ LET p == <<i, 1>>
       IN /\ payload' = [payload EXCEPT ![p] = IF @ = NoItem THEN At(i) ELSE @]
          /\ GoesOnWith(Enqueued(job, Embed(p)), Import(i), AfterPiece(i))
    /\ NextPiece(i)

\* _enqueue_embed.  The key of a retry's piece is that of the first execution's, whose
\* job keeps its item.
EnqueueEmbed(i) ==
    /\ job[Import(i)].at = "enqueue"
    /\ LET p == <<i, piece[i]>>
       IN /\ payload' = [payload EXCEPT ![p] = IF @ = NoItem THEN At(i) ELSE @]
          /\ GoesOnWith(Enqueued(job, Embed(p)), Import(i), AfterPiece(i))
    /\ NextPiece(i)

\* Its failure is logged.
EnqueueEmbedSwallows(i) ==
    /\ job[Import(i)].at = "enqueue"
    /\ Fault
    /\ job' = [job EXCEPT ![Import(i)].at = AfterPiece(i)]
    /\ payload' = payload
    /\ NextPiece(i)

-----------------------------------------------------------------------------
Ends(k) ==
    /\ StepFails(k) \/ Complete(k)
    /\ held' = [j \in EmbedJobs |-> IF j = k THEN 0 ELSE held[j]]
    /\ UNCHANGED <<item, payload, piece, edit, raced>>

Next ==
    \/ \E x \in Items : Write(x)
    \/ WriteEnqueues \/ WriteSwallows
    \/ \E d \in Documents : Upload(d) \/ UploadFails(d)
    \/ \E k \in EmbedJobs : StartEmbed(k) \/ ReadText(k) \/ StoreVector(k)
    \/ \E i \in Imports :
          \/ Ingest(i)
          \/ StartImport(i) \/ NotShared(i) \/ InsertPiece(i)
          \/ EnqueueEmbed(i) \/ EnqueueEmbedSwallows(i)
    \/ \E k \in Jobs : Ends(k)

Spec == Init /\ [][Next]_vars

-----------------------------------------------------------------------------
(* Properties.                                                             *)

\* Every variable keeps its type.
TypeOK ==
    /\ job \in [Jobs -> JobRows(Steps)]
    /\ faults \in 0 .. MaxFaults
    /\ item \in [Items -> [text : 0 .. MaxEdits + 1, vector : 0 .. MaxEdits + 1]]
    /\ payload \in [Imports \X Pieces -> Items \cup {NoItem}]
    /\ held \in [EmbedJobs -> 0 .. MaxEdits + 1]
    /\ piece \in [Imports \cup Documents -> 0 .. Chunks]
    /\ edit \in Items \cup {NoItem}
    /\ raced \subseteq Items

\* An item is being embedded, or about to be.
Pending(x) ==
    \/ edit = x
    \/ Embedding(x)
    \/ \E i \in Imports : job[Import(i)].at = "enqueue" /\ x = At(i)

\* Every item gets its vector, unless a call failed: one failure may cost the vectors
\* of all pieces of an import, whose retry stores them anew under keys that are taken.
Bare == {x \in Items : item[x].text > 0 /\ item[x].vector = 0 /\ ~Pending(x)}
BareNeedsFault == Cardinality(Bare) <= Chunks * faults

\* The vector is that of the text, after a first edit that came when nothing was
\* embedding the item.  (After a second edit it is not: its key is taken.)
FirstEditIsEmbedded ==
    \A x \in Manual \ raced :
        item[x].text \in 1 .. 2 /\ ~Pending(x) /\ faults = 0 => item[x].vector = item[x].text
=============================================================================
