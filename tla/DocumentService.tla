-------------------------- MODULE DocumentService --------------------------
(***************************************************************************)
(* An uploaded document: its row, its bytes in the object store and its    *)
(* chunks in the vector index, written by three kinds of actor that share  *)
(* no lock: the upload request and delete requests                         *)
(* (api/routes/documents.py) and the ingestion handlers of the workers     *)
(* (worker.py _ingest_document).  Every commit and every call to an        *)
(* external store is a step of its own.                                    *)
(*                                                                         *)
(* The queue is reduced to what it guarantees (RedisQueue): a document for *)
(* which a job was put may be delivered, and, as jobs are redelivered,     *)
(* retried and duplicated by the startup sweep, delivered again at any     *)
(* time, to any worker; whether retry gives up is left open.  Sessions     *)
(* keep the status they loaded (expire_on_commit=False) and an UPDATE      *)
(* writes the status column only if the new value differs from it.         *)
(***************************************************************************)
CONSTANTS
  Document,
  Worker,    \* ingestion handlers that may be busy at the same time
  Deleter,   \* delete requests that may be open at the same time
  None

VARIABLES
  status,   \* documents.status, "absent" before the INSERT
  object,   \* the bytes are in the bucket
  vectors,  \* chunks are in the vector index
  purged,   \* history: some delete request removed the chunks
  upload,   \* where the upload request is
  queued,   \* documents for which an ingest job was put
  step,     \* where each handler is
  task,     \* the document each handler works on
  seen,     \* status in the handler's session, "expired" if it will reload
  del,      \* where each delete request is
  target    \* the document it deletes

storeVars == <<status, object, vectors, purged>>
apiVars == <<upload, del, target>>
handlerVars == <<step, task, seen>>
docVars == <<status, object, vectors, purged, upload, queued, step, task, seen, del, target>>

DocumentStatus == {"absent", "pending", "processing", "ready", "failed", "deleted"}
Step == {"idle", "load", "loaded", "fetch", "fetched", "indexed", "done", "failing", "marking"}

DocTypeOK ==
  /\ status \in [Document -> DocumentStatus]
  /\ object \in [Document -> BOOLEAN]
  /\ vectors \in [Document -> BOOLEAN]
  /\ purged \in SUBSET Document
  /\ upload \in [Document -> {"none", "storing", "unstored", "queueing"}]
  /\ queued \in SUBSET Document
  /\ step \in [Worker -> Step]
  /\ task \in [Worker -> Document \cup {None}]
  /\ seen \in [Worker -> DocumentStatus \cup {"expired"}]
  /\ del \in [Deleter -> {"none", "object", "vectors", "tombstone"}]
  /\ target \in [Deleter -> Document \cup {None}]
  /\ \A w \in Worker : step[w] # "idle" => task[w] \in Document
  /\ \A x \in Deleter : del[x] # "none" => target[x] \in Document

DocInit ==
  /\ status = [d \in Document |-> "absent"]
  /\ object = [d \in Document |-> FALSE]
  /\ vectors = [d \in Document |-> FALSE]
  /\ purged = {}
  /\ upload = [d \in Document |-> "none"]
  /\ queued = {}
  /\ step = [w \in Worker |-> "idle"]
  /\ task = [w \in Worker |-> None]
  /\ seen = [w \in Worker |-> "expired"]
  /\ del = [x \in Deleter |-> "none"]
  /\ target = [x \in Deleter |-> None]

SetStatus(d, s) == status' = [status EXCEPT ![d] = s]

-----------------------------------------------------------------------------
(* upload_document *)

(* create_document: the row comes first. *)
CreateDocument(d) ==
  /\ status[d] = "absent"
  /\ SetStatus(d, "pending")
  /\ upload' = [upload EXCEPT ![d] = "storing"]
  /\ UNCHANGED <<object, vectors, purged, queued, handlerVars, del, target>>

PutDocument(d) ==
  /\ upload[d] = "storing"
  /\ object' = [object EXCEPT ![d] = TRUE]
  /\ upload' = [upload EXCEPT ![d] = "queueing"]
  /\ UNCHANGED <<status, vectors, purged, queued, handlerVars, del, target>>

(* put_document raised; the bytes may have arrived all the same. *)
PutRaises(d) ==
  /\ upload[d] = "storing"
  /\ \E arrived \in BOOLEAN : object' = [object EXCEPT ![d] = arrived]
  /\ upload' = [upload EXCEPT ![d] = "unstored"]
  /\ UNCHANGED <<status, vectors, purged, queued, handlerVars, del, target>>

(* mark_failed(storage_failed), answer 503. *)
MarkUnstored(d) ==
  /\ upload[d] = "unstored"
  /\ SetStatus(d, "failed")
  /\ upload' = [upload EXCEPT ![d] = "none"]
  /\ UNCHANGED <<object, vectors, purged, queued, handlerVars, del, target>>

(* enqueue the ingest job, answer 202. *)
EnqueueIngest(d) ==
  /\ upload[d] = "queueing"
  /\ queued' = queued \cup {d}
  /\ upload' = [upload EXCEPT ![d] = "none"]
  /\ UNCHANGED <<storeVars, handlerVars, del, target>>

(* enqueue raised (503), or the API process died. *)
UploadEnds(d) ==
  /\ upload[d] # "none"
  /\ upload' = [upload EXCEPT ![d] = "none"]
  /\ UNCHANGED <<storeVars, queued, handlerVars, del, target>>

-----------------------------------------------------------------------------
(* _ingest_document *)

At(w, s) == step[w] = s
Goto(w, s) == step' = [step EXCEPT ![w] = s]
SetSeen(w, s) == seen' = [seen EXCEPT ![w] = s]

(* A status column is part of the UPDATE only if it changes what was seen. *)
Write(w, s) ==
  /\ IF seen[w] = s THEN UNCHANGED status ELSE SetStatus(task[w], s)
  /\ SetSeen(w, s)

(* stale_processing; a row older than the visibility timeout outlives the  *)
(* request that created it, but not necessarily the handler working on it. *)
IsStale(d) == status[d] \in {"pending", "processing"} /\ upload[d] = "none"

(* recover_stranded_rows at the start of a worker, one row. *)
SweepDocument(d) ==
  /\ IsStale(d)
  /\ queued' = queued \cup {d}
  /\ UNCHANGED <<storeVars, apiVars, handlerVars>>

(* claim returns an ingest job and handle opens a session. *)
Deliver(w, d) ==
  /\ At(w, "idle")
  /\ d \in queued
  /\ task' = [task EXCEPT ![w] = d]
  /\ SetSeen(w, "expired")
  /\ Goto(w, "load")
  /\ UNCHANGED <<storeVars, apiVars, queued>>

(* Mutant: only a ready document is skipped. *)
LoadDeleted(w) ==
  /\ At(w, "load")
  /\ SetSeen(w, status[task[w]])
  /\ Goto(w, IF status[task[w]] = "ready" THEN "done" ELSE "loaded")
  /\ UNCHANGED <<storeVars, apiVars, queued, task>>

(* session.get; a ready or deleted document is not ingested. *)
LoadDocument(w) ==
  /\ At(w, "load")
  /\ SetSeen(w, status[task[w]])
  /\ Goto(w, IF status[task[w]] \in {"ready", "deleted"} THEN "done" ELSE "loaded")
  /\ UNCHANGED <<storeVars, apiVars, queued, task>>

MarkProcessing(w) ==
  /\ At(w, "loaded")
  /\ Write(w, "processing")
  /\ Goto(w, "fetch")
  /\ UNCHANGED <<object, vectors, purged, apiVars, queued, task>>

(* ObjectStorage.get_document; a missing key raises. *)
FetchObject(w) ==
  /\ At(w, "fetch")
  /\ Goto(w, IF object[task[w]] THEN "fetched" ELSE "failing")
  /\ UNCHANGED <<storeVars, apiVars, queued, task, seen>>

(* DocumentExtractionError: failed at once, then ack. *)
RejectContent(w) ==
  /\ At(w, "fetched")
  /\ Write(w, "failed")
  /\ Goto(w, "done")
  /\ UNCHANGED <<object, vectors, purged, apiVars, queued, task>>

(* Mutant: the row is marked before anything is indexed. *)
IndexNothing(w) ==
  /\ At(w, "fetched")
  /\ Goto(w, "indexed")
  /\ UNCHANGED <<storeVars, apiVars, queued, task, seen>>

(* ingest_text: chunk ids are derived from the document, so an upsert that *)
(* is repeated changes nothing.                                            *)
IndexChunks(w) ==
  /\ At(w, "fetched")
  /\ vectors' = [vectors EXCEPT ![task[w]] = TRUE]
  /\ Goto(w, "indexed")
  /\ UNCHANGED <<status, object, purged, apiVars, queued, task, seen>>

(* ingest_text raised, before or after the upsert reached the index. *)
IndexRaises(w) ==
  /\ At(w, "fetched")
  /\ \/ vectors' = [vectors EXCEPT ![task[w]] = TRUE]
     \/ UNCHANGED vectors
  /\ Goto(w, "failing")
  /\ UNCHANGED <<status, object, purged, apiVars, queued, task, seen>>

(* Mutant: the row gets a status outside DOCUMENT_STATUSES. *)
MarkIndexed(w) ==
  /\ At(w, "indexed")
  /\ Write(w, "indexed")
  /\ Goto(w, "done")
  /\ UNCHANGED <<object, vectors, purged, apiVars, queued, task>>

MarkReady(w) ==
  /\ At(w, "indexed")
  /\ Write(w, "ready")
  /\ Goto(w, "done")
  /\ UNCHANGED <<object, vectors, purged, apiVars, queued, task>>

(* The database raised inside a transaction: rollback expires the session. *)
DatabaseRaises(w) ==
  /\ step[w] \in {"load", "loaded", "indexed"}
  /\ SetSeen(w, "expired")
  /\ Goto(w, "failing")
  /\ UNCHANGED <<storeVars, apiVars, queued, task>>

(* The object store raised between two transactions. *)
FetchRaises(w) ==
  /\ At(w, "fetch")
  /\ Goto(w, "failing")
  /\ UNCHANGED <<storeVars, apiVars, queued, task, seen>>

(* handle: ack, or retry that requeues, or the process is gone. *)
Finish(w) ==
  /\ step[w] # "idle"
  /\ Goto(w, "idle")
  /\ UNCHANGED <<storeVars, apiVars, queued, task, seen>>

(* handle: ack raised on a finished job. *)
AckRaises(w) ==
  /\ At(w, "done")
  /\ Goto(w, "failing")
  /\ UNCHANGED <<storeVars, apiVars, queued, task, seen>>

(* handle: retry gave up, or the provider refused. *)
GiveUp(w) ==
  /\ At(w, "failing")
  /\ Goto(w, "marking")
  /\ UNCHANGED <<storeVars, apiVars, queued, task, seen>>

(* _mark_permanently_failed: session.get reloads an expired object. *)
Reload(w) ==
  /\ At(w, "marking")
  /\ seen[w] = "expired"
  /\ SetSeen(w, status[task[w]])
  /\ UNCHANGED <<storeVars, apiVars, queued, step, task>>

MarkFailed(w) ==
  /\ At(w, "marking")
  /\ seen[w] # "expired"
  /\ IF seen[w] \in {"ready", "deleted"} THEN UNCHANGED <<status, seen>> ELSE Write(w, "failed")
  /\ Goto(w, "idle")
  /\ UNCHANGED <<object, vectors, purged, apiVars, queued, task>>

-----------------------------------------------------------------------------
(* delete_document *)

DelGoto(x, p) == del' = [del EXCEPT ![x] = p]

(* get_document: an existing document that is not deleted. *)
DeleteDocument(x, d) ==
  /\ del[x] = "none"
  /\ status[d] \notin {"absent", "deleted"}
  /\ target' = [target EXCEPT ![x] = d]
  /\ DelGoto(x, "object")
  /\ UNCHANGED <<storeVars, upload, queued, handlerVars>>

DeleteObject(x) ==
  /\ del[x] = "object"
  /\ object' = [object EXCEPT ![target[x]] = FALSE]
  /\ DelGoto(x, "vectors")
  /\ UNCHANGED <<status, vectors, purged, upload, queued, handlerVars, target>>

DeleteVectors(x) ==
  /\ del[x] = "vectors"
  /\ vectors' = [vectors EXCEPT ![target[x]] = FALSE]
  /\ purged' = purged \cup {target[x]}
  /\ DelGoto(x, "tombstone")
  /\ UNCHANGED <<status, object, upload, queued, handlerVars, target>>

(* mark_deleted: the tombstone is last. *)
MarkDeleted(x) ==
  /\ del[x] = "tombstone"
  /\ SetStatus(target[x], "deleted")
  /\ DelGoto(x, "none")
  /\ UNCHANGED <<object, vectors, purged, upload, queued, handlerVars, target>>

(* An external delete raised (503), or the API process died. *)
DeleteEnds(x) ==
  /\ del[x] # "none"
  /\ DelGoto(x, "none")
  /\ UNCHANGED <<storeVars, upload, queued, handlerVars, target>>

-----------------------------------------------------------------------------
UploadStep(d) ==
  CreateDocument(d) \/ PutDocument(d) \/ PutRaises(d) \/ MarkUnstored(d) \/ EnqueueIngest(d)
    \/ UploadEnds(d)

IngestStep(w) ==
  \/ \E d \in Document : Deliver(w, d)
  \/ LoadDocument(w) \/ MarkProcessing(w) \/ FetchObject(w) \/ RejectContent(w)
  \/ IndexChunks(w) \/ IndexRaises(w) \/ MarkReady(w) \/ DatabaseRaises(w) \/ FetchRaises(w)
  \/ Finish(w) \/ AckRaises(w) \/ GiveUp(w) \/ Reload(w) \/ MarkFailed(w)

DeleteStep(x) ==
  \/ \E d \in Document : DeleteDocument(x, d)
  \/ DeleteObject(x) \/ DeleteVectors(x) \/ MarkDeleted(x) \/ DeleteEnds(x)

DocNext ==
  \/ \E d \in Document : UploadStep(d) \/ SweepDocument(d)
  \/ \E w \in Worker : IngestStep(w)
  \/ \E x \in Deleter : DeleteStep(x)

DocSpec == DocInit /\ [][DocNext]_docVars

-----------------------------------------------------------------------------
(* Properties *)

(* worker.py _ingest_document: a document is shown as ready only when its  *)
(* chunks are in the index, however often it is ingested and whoever else  *)
(* fails on it, unless a delete request removed them.                      *)
ReadyMeansIndexed ==
  \A d \in Document : status[d] = "ready" => vectors[d] \/ d \in purged

(* The document is deleted everywhere, its upload is over and no handler   *)
(* loaded it before the tombstone was written.                             *)
Gone(d) ==
  /\ status[d] = "deleted" /\ ~object[d] /\ ~vectors[d]
  /\ upload[d] = "none"
  /\ \A w \in Worker :
       task[w] = d =>
         \/ step[w] \in {"idle", "load"}
         \/ step[w] \in {"done", "failing", "marking"} /\ seen[w] \in {"deleted", "expired"}

(* documents.py delete_document and worker.py _ingest_document: once a     *)
(* document is gone it stays gone, whatever jobs for it are still queued,  *)
(* retried or swept up later.                                              *)
GoneForGood == [][\A d \in Document : Gone(d) => Gone(d)']_docVars
=============================================================================
