----------------------------- MODULE Knowledge -----------------------------
(* One article of a knowledge base, uploaded files, and the documents whose      *)
(* chunks retrieval searches. Requests and ingestion jobs overlap; each commits  *)
(* statement by statement and may fail or stop between two of them.              *)
EXTENDS Naturals, FiniteSets

CONSTANTS
  Requests,            \* requests and jobs in flight
  Slots,               \* documents of uploaded files
  File,                \* the content that is uploaded
  Mirror,              \* the document that mirrors the article
  None,
  MaxAsked, MaxEdits   \* bounds: requests begun, edits among them

VARIABLES
  article,  \* the row: its state, its version and its text, a number per edit
  history,  \* ArticleVersion rows, <<version, text>>
  doc,      \* Document rows, with the text their chunks were cut from
  queued,   \* ingestion jobs
  task,     \* requests and jobs in flight
  asked, edits,
  excuse,   \* history: an overlap, a failure or a deletion the index does not survive
  uploads   \* history: uploads of File that ended with a document
vars == <<article, history, doc, queued, task, asked, edits, excuse, uploads>>

Documents == {Mirror} \cup Slots
NoDocument == [exists |-> FALSE, text |-> None, hash |-> None, status |-> "pending", chunks |-> None]
NoTask == [pc |-> "idle", doc |-> None, before |-> None, hand |-> None]
Init ==
  /\ article = [state |-> "draft", version |-> 1, text |-> 1]
  /\ history = {}
  /\ doc = [d \in Documents |-> NoDocument]
  /\ queued = {} /\ uploads = {}
  /\ task = [r \in Requests |-> NoTask]
  /\ asked = 0 /\ edits = 0 /\ excuse = FALSE

At(r, pc) == task[r].pc = pc
Goes(r, t) == task' = [task EXCEPT ![r] = t]
Ends(r) == Goes(r, NoTask)
Begins(r) == At(r, "idle") /\ asked < MaxAsked /\ asked' = asked + 1
Others(r, pcs) == \E q \in Requests \ {r} : task[q].pc \in pcs
\* Another task holds a text of the article that is about to change, or of its document.
Holding(r) == \E q \in Requests \ {r} : task[q].doc = Mirror /\ task[q].hand # None
Removing == {"find", "remove", "skip", "findDelete", "removeDelete", "delete"}
Excuses(b) == excuse' = (excuse \/ b)
Here == article.state # "gone"
Docless == UNCHANGED <<doc, queued, uploads>>
Artless == UNCHANGED <<article, history, edits, uploads>>

-----------------------------------------------------------------------------
\* updateArticle: the row is read first; the snapshot and the change are one transaction,
\* which the unique index on (article, version) may refuse.
Edits(r) ==
  /\ Begins(r) /\ Here /\ edits < MaxEdits
  /\ edits' = edits + 1
  /\ Goes(r, [NoTask EXCEPT !.pc = "save", !.before = <<article.version, article.text>>])
  /\ UNCHANGED <<article, history, excuse>> /\ Docless
\* Mutant: a snapshot that exists already is replaced.
TakesAnySnapshot(b) == TRUE
TakesSnapshot(b) == \A h \in history : h[1] # b[1]
\* Mutant: only publishing indexes.
NeverIndexed == "idle"
AfterSave == IF article.state = "published" THEN "index" ELSE "idle"
Saves(r) ==
  /\ At(r, "save")
  /\ IF Here /\ TakesSnapshot(task[r].before)
     THEN /\ history' = history \cup {task[r].before}
          /\ article' = [article EXCEPT !.version = @ + 1, !.text = 1 + Cardinality(history')]
          /\ Goes(r, [NoTask EXCEPT !.pc = AfterSave])
          /\ Excuses(Holding(r))
     ELSE Ends(r) /\ UNCHANGED <<article, history, excuse>>
  /\ UNCHANGED <<asked, edits>> /\ Docless
\* A publication that nothing overlaps makes the index good again.
Publishes(r) ==
  /\ Begins(r) /\ Here
  /\ article' = [article EXCEPT !.state = "published"]
  /\ Goes(r, [NoTask EXCEPT !.pc = "index"])
  /\ excuse' = (Others(r, Removing) \/ (excuse /\ \E q \in Requests \ {r} : task[q] # NoTask))
  /\ UNCHANGED <<history, edits>> /\ Docless
Unpublishes(r) ==
  /\ Begins(r) /\ Here
  /\ article' = [article EXCEPT !.state = "draft"]
  /\ Goes(r, [NoTask EXCEPT !.pc = "find"])
  /\ Excuses(Holding(r) \/ Others(r, {"index"}))
  /\ UNCHANGED <<history, edits>> /\ Docless

\* indexArticle: the article as it is now, then its document, then the chunks.
IndexReads(r) ==
  /\ At(r, "index")
  /\ IF Here THEN Goes(r, [NoTask EXCEPT !.pc = "upsert", !.doc = Mirror, !.hand = article.text])
             ELSE Ends(r)
  /\ UNCHANGED <<asked, excuse, doc, queued>> /\ Artless
IndexUpserts(r) ==
  /\ At(r, "upsert")
  /\ IF Here
     THEN /\ doc' = [doc EXCEPT ![Mirror] = [@ EXCEPT !.exists = TRUE, !.text = task[r].hand,
                       !.hash = <<"text", task[r].hand>>, !.status = "processing"]]
          /\ Goes(r, [task[r] EXCEPT !.pc = "write"])
          /\ Excuses(\E q \in Requests \ {r} : task[q].doc = Mirror /\ task[q].hand \notin {None, task[r].hand})
     ELSE Ends(r) /\ UNCHANGED <<doc, excuse>>
  /\ UNCHANGED <<asked, queued>> /\ Artless
\* unpublishArticle and deleteArticle: the document if there is one, its chunks, its row.
Finds(r) ==
  /\ task[r].pc \in {"find", "findDelete"}
  /\ Goes(r, [task[r] EXCEPT !.doc = IF doc[Mirror].exists THEN Mirror ELSE None,
       !.pc = IF At(r, "find") THEN IF doc[Mirror].exists THEN "remove" ELSE "idle"
              ELSE IF doc[Mirror].exists THEN "removeDelete" ELSE "delete"])
  /\ UNCHANGED <<asked, excuse, doc, queued>> /\ Artless
Removes(r) ==
  /\ task[r].pc \in {"remove", "removeDelete", "removeRow"}
  /\ doc' = [doc EXCEPT ![task[r].doc].chunks = None]
  /\ Goes(r, [task[r] EXCEPT !.pc = [remove |-> "skip", removeDelete |-> "delete", removeRow |-> "row"][@]])
  /\ UNCHANGED <<asked, excuse, queued>> /\ Artless
Skips(r) ==
  /\ At(r, "skip")
  /\ doc' = IF doc[Mirror].exists THEN [doc EXCEPT ![Mirror].status = "skipped"] ELSE doc
  /\ Ends(r)
  /\ UNCHANGED <<asked, excuse, queued>> /\ Artless
Deletes(r) ==
  \/ /\ Begins(r)
     /\ Goes(r, [NoTask EXCEPT !.pc = "findDelete"])
     /\ UNCHANGED <<article, history, edits, excuse>> /\ Docless
  \/ /\ At(r, "delete")
     /\ article' = [article EXCEPT !.state = "gone"] /\ history' = {}
     /\ doc' = [doc EXCEPT ![Mirror] = NoDocument]
     /\ Ends(r)
     /\ UNCHANGED <<asked, edits, excuse, queued, uploads>>

-----------------------------------------------------------------------------
\* uploadDocument: a document with the hash of the bytes is the answer; otherwise the file
\* is stored, its row made and its ingestion queued.
UploadChecks(r) ==
  /\ Begins(r)
  /\ IF \E d \in Slots : doc[d].exists /\ doc[d].hash = <<"bytes", File>>
     THEN UNCHANGED task ELSE Goes(r, [NoTask EXCEPT !.pc = "put"])
  /\ UNCHANGED <<excuse, doc, queued>> /\ Artless
UploadCreates(r) ==
  /\ At(r, "put")
  /\ \E d \in Slots :
       /\ ~doc[d].exists
       /\ doc' = [doc EXCEPT ![d] = [NoDocument EXCEPT !.exists = TRUE, !.hash = <<"bytes", File>>]]
       /\ Goes(r, [NoTask EXCEPT !.pc = "enqueue", !.doc = d])
       /\ uploads' = uploads \cup {d}
  /\ UNCHANGED <<asked, excuse, queued, article, history, edits>>
UploadQueues(r) ==
  /\ At(r, "enqueue")
  /\ queued' = queued \cup {task[r].doc}
  /\ Ends(r)
  /\ UNCHANGED <<asked, excuse, doc>> /\ Artless

\* processDocument: a queued job, or a request to index a document again.
Processes(r) ==
  /\ \E d \in Documents :
       /\ doc[d].exists
       /\ \/ Begins(r) /\ UNCHANGED queued
          \/ At(r, "idle") /\ d \in queued /\ queued' = queued \ {d} /\ UNCHANGED asked
       /\ Goes(r, [NoTask EXCEPT !.pc = "mark", !.doc = d,
                     !.hand = IF doc[d].text # None THEN doc[d].text ELSE File])
       /\ Excuses(d = Mirror /\ (article.state # "published" \/ Others(r, Removing \cup {"save", "index", "upsert"})))
  /\ UNCHANGED doc /\ Artless
\* The row's text and hash become those of what was parsed.
Marks(r) ==
  /\ task[r].pc \in {"mark", "parse"}
  /\ LET d == task[r].doc IN
     IF ~doc[d].exists THEN Ends(r) /\ UNCHANGED doc
     ELSE /\ doc' = IF At(r, "mark") THEN [doc EXCEPT ![d].status = "processing"]
                    ELSE [doc EXCEPT ![d].text = task[r].hand, ![d].hash = <<"text", task[r].hand>>]
          /\ Goes(r, [task[r] EXCEPT !.pc = IF @ = "mark" THEN "parse" ELSE "write"])
  /\ UNCHANGED <<asked, excuse, queued>> /\ Artless
\* indexChunks: one transaction puts the new chunks in the place of the old ones.
Writes(r) ==
  /\ At(r, "write")
  /\ LET d == task[r].doc IN
     doc' = IF doc[d].exists THEN [doc EXCEPT ![d].chunks = task[r].hand, ![d].status = "indexed"] ELSE doc
  /\ Ends(r)
  /\ UNCHANGED <<asked, excuse, queued>> /\ Artless
\* Parsing, embedding or a statement fails: a job records it on the document and may be
\* queued again; indexArticle records nothing. Or the process stops.
Fails(r) ==
  /\ task[r].pc \in {"parse", "write"}
  /\ LET d == task[r].doc IN
     /\ doc' = IF doc[d].exists /\ (d # Mirror \/ At(r, "parse"))
               THEN [doc EXCEPT ![d].status = "failed"] ELSE doc
     /\ queued' \in {queued, queued \cup ({d} \cap Slots)}
  /\ Ends(r) /\ Excuses(TRUE)
  /\ UNCHANGED asked /\ Artless
Stops(r) ==
  /\ task[r] # NoTask
  /\ Ends(r) /\ Excuses(TRUE)
  /\ UNCHANGED <<asked, doc, queued>> /\ Artless
DeletesDocument(r) ==
  \/ /\ \E d \in Documents :
          /\ Begins(r) /\ doc[d].exists
          /\ Goes(r, [NoTask EXCEPT !.pc = "removeRow", !.doc = d])
          /\ Excuses(d = Mirror)
     /\ UNCHANGED <<doc, queued>> /\ Artless
  \/ /\ At(r, "row")
     /\ doc' = [doc EXCEPT ![task[r].doc] = NoDocument] /\ Ends(r)
     /\ uploads' = uploads \ {task[r].doc}
     /\ UNCHANGED <<article, history, edits, asked, excuse, queued>>

Next == \E r \in Requests :
  \/ Edits(r) \/ Saves(r) \/ Publishes(r) \/ Unpublishes(r) \/ IndexReads(r) \/ IndexUpserts(r)
  \/ Finds(r) \/ Removes(r) \/ Skips(r) \/ Deletes(r)
  \/ UploadChecks(r) \/ UploadCreates(r) \/ UploadQueues(r)
  \/ Processes(r) \/ Marks(r) \/ Writes(r) \/ Fails(r) \/ Stops(r) \/ DeletesDocument(r)
Spec == Init /\ [][Next]_vars

-----------------------------------------------------------------------------
\* Rows and tasks have their types.
TypeOK ==
  /\ article.state \in {"draft", "published", "gone"}
  /\ \A d \in Documents : doc[d].status \in {"pending", "processing", "indexed", "failed", "skipped"}
  /\ \A r \in Requests : task[r].doc \in Documents \cup {None}

\* When nothing runs, retrieval finds the text that is published and nothing of a draft,
\* whatever edits, publications and ingestion jobs went before, unless one of them failed
\* or held a text that changed under it (knowledge.service.ts:308-311 and 351-359).
IndexFollows ==
  (\A r \in Requests : task[r] = NoTask) /\ ~excuse =>
    doc[Mirror].chunks = IF article.state = "published" THEN article.text ELSE None

\* Each version before the current one is kept once, with the text it had, however edits
\* overlap (knowledge.service.ts:258-306, schema.prisma:1336).
HistoryIsWhole ==
  Here => /\ {h[1] : h \in history} = 1 .. article.version - 1
          /\ \A g, h \in history : g[1] = h[1] => g = h

\* What the comment at knowledge.service.ts:460 promises: a file that is uploaded again
\* finds its document, when no upload of it runs beside.
IdenticalOnce ==
  (\A r \in Requests : task[r] = NoTask) /\ Cardinality(Requests) = 1 =>
    Cardinality(uploads) <= 1
=============================================================================
