------------------------------- MODULE Documents -------------------------------
(***************************************************************************)
(* Documents of one session (src/modules/documents): the table, the        *)
(* objects in MinIO, the requests and results of the preprocessing worker. *)
(* A delivery of a result is a request of kind "document_result"; it stays *)
(* in the stream until its handler ends without an error.                  *)
(***************************************************************************)
EXTENDS Tables

CONSTANTS Files,           \* uploads: [name, size, ext, detected, printable]
          MaxFileSize,     \* MAX_DOCUMENT_FILE_SIZE_BYTES
          MaxSessionSize,  \* MAX_SESSION_DOCUMENT_TOTAL_SIZE_BYTES
          UserText         \* what a user types over an extracted text

ASSUME SizesAssumption ==
  MaxFileSize \in Nat /\ MaxSessionSize \in Nat /\ \A f \in Files : f.size \in Nat

VARIABLES
  objects,   \* object keys stored in the bucket
  asked,     \* documents whose preprocessing was published
  results,   \* documents whose result is in the stream
  bucket     \* [Processes -> the settled bucketReadyPromise]

docVars == <<objects, asked, results, bucket>>

DocKinds == {"document_upload", "document_delete", "document_text", "document_reprocess",
             "document_result"}

Doc(file, version, key) ==
  [name |-> file.name, size |-> file.size, version |-> version, key |-> key, text |-> {},
   deleted |-> FALSE, archived |-> FALSE]

Documents == Existing("document")
Active(id) == ~rows[id].deleted

\* The bytes of the rows, which are counted one by one: deleted documents count, and so do
\* reprocessed ones, although they share an object.
Bytes(id) == {id} \X (1..rows[id].size)
SessionBytes == Cardinality(UNION {Bytes(id) : id \in Documents})

NextDocVersion(name) ==
  1 + Max({0} \cup {rows[id].version : id \in {x \in Documents : rows[x].name = name}})

DocsInit ==
  /\ objects = {} /\ asked = {} /\ results = {}
  /\ bucket = [p \in Processes |-> "unasked"]

\* validateDocumentMimeType(): the type of the extension must be allowed and agree with
\* the one the content shows; plain text shows none and must look like text.
ValidMimeType(f) ==
  /\ f.ext # "none"
  /\ f.detected = f.ext \/ (f.detected = "none" /\ f.ext = "text" /\ f.printable)

DocJob(kind, p, phase, file, key) ==
  [kind |-> kind, at |-> p, phase |-> phase, row |-> <<"document", 1>>, file |-> file, key |-> key,
   next |-> NoRow, dirty |-> {}, then |-> "publish"]

-------------------------------------------------------------------------------
\* uploadDocument(): its own checks, then the sum over the session.
Upload(q) ==
  /\ \E p \in Processes, f \in Files :
       Begins(q, IF f.size <= MaxFileSize /\ ValidMimeType(f) /\ SessionBytes + f.size <= MaxSessionSize
                 THEN DocJob("document_upload", p, "version", f, q)
                 ELSE Answered("document_upload", "refused"))
  /\ UNCHANGED <<rows, docVars>>

\* getNextDocumentVersion(), of an upload and of a reprocessing.
ReadVersion(q) ==
  /\ At(q, {"document_upload", "document_reprocess"}, "version")
  /\ LET n == NextDocVersion(job[q].file.name)
     IN job' = [job EXCEPT ![q].phase = IF job[q].kind = "document_upload" THEN "bucket" ELSE "insert",
                           ![q].next = Doc(job[q].file, n, job[q].key)]
  /\ UNCHANGED <<alone, faults, rows, docVars>>

\* ensureBucketReady(): the first caller's promise serves all later ones, rejected or not.
BucketReady(q, then) ==
  /\ bucket[job[q].at] \in {"unasked", "ready"}
  /\ bucket' = [bucket EXCEPT ![job[q].at] = "ready"]
  /\ Goes(q, then)

BucketRefused(q) ==
  /\ bucket[job[q].at] = "rejected"
  /\ job' = [job EXCEPT ![q].phase = "failed"]
  /\ UNCHANGED <<alone, faults, bucket>>

BucketFails(q) ==
  /\ bucket[job[q].at] = "unasked"
  /\ bucket' = [bucket EXCEPT ![job[q].at] = "rejected"]
  /\ Fails(q)

EnsureBucket(q) ==
  /\ At(q, {"document_upload", "document_reprocess"}, "bucket")
  /\ \/ BucketReady(q, IF job[q].kind = "document_upload" THEN "put" ELSE "ok")
     \/ BucketRefused(q)
     \/ BucketFails(q)
  /\ UNCHANGED <<rows, objects, asked, results>>

\* putObject() whose error is logged and swallowed.
PutObjectSwallowing(q) ==
  /\ At(q, {"document_upload"}, "put")
  /\ \E stored \in {{}, {job[q].key}} : objects' = objects \cup stored
  /\ Goes(q, "insert")
  /\ UNCHANGED <<rows, asked, results, bucket>>

PutObject(q) ==
  /\ At(q, {"document_upload"}, "put")
  /\ objects' = objects \cup {job[q].key}
  /\ Goes(q, "insert")
  /\ UNCHANGED <<rows, asked, results, bucket>>

\* publishDocumentPreprocess(): the message id is the document's.  A reprocessing signs
\* a URL afterwards.
Publish(q) ==
  /\ At(q, {"document_upload", "document_reprocess"}, "publish")
  /\ asked' = asked \cup {job[q].row}
  /\ Goes(q, IF job[q].kind = "document_upload" THEN "ok" ELSE "bucket")
  /\ UNCHANGED <<rows, objects, results, bucket>>

\* reprocessDocument(): a new row of the same object; no limit is checked.
Reprocess(q) ==
  /\ \E p \in Processes, id \in Documents :
       Begins(q, IF Active(id) THEN DocJob("document_reprocess", p, "version",
                        [name |-> rows[id].name, size |-> rows[id].size], rows[id].key)
                 ELSE Answered("document_reprocess", "refused"))
  /\ UNCHANGED <<rows, docVars>>

-------------------------------------------------------------------------------
SoftDeleteDocument(q) ==
  /\ \E id \in Documents :
       Edits(q, "document_delete", NoProcess, id, Active(id),
             [rows[id] EXCEPT !.deleted = TRUE], "ok")
  /\ UNCHANGED <<rows, docVars>>

UpdateText(q) ==
  /\ \E id \in Documents :
       Edits(q, "document_text", NoProcess, id, Active(id),
             [rows[id] EXCEPT !.text = {UserText}], "audit")
  /\ UNCHANGED <<rows, docVars>>

\* The worker answers what was asked, at least once.
WorkerResult(id) ==
  /\ id \in asked \ results
  /\ results' = results \cup {id}
  /\ UNCHANGED <<requestVars, rows, objects, asked, bucket>>

\* A result of document id is delivered; one that finds it inactive is dropped and acked.
Delivered(q, id, inactive, next) ==
  /\ id \in results
  /\ Edits(q, "document_result", NoProcess, id, ~inactive, next, "ack")
  /\ results' = IF inactive THEN results \ {id} ELSE results
  /\ UNCHANGED <<rows, objects, asked, bucket>>

\* handlePreprocessResult(): the text is replaced, also one a user has typed meanwhile.
HandleResult(q) ==
  \E id \in results :
    Delivered(q, id, rows[id].deleted \/ rows[id].archived,
              [rows[id] EXCEPT !.text = {"extracted"}])

AckResult(q) ==
  /\ At(q, {"document_result"}, "ack")
  /\ results' = results \ {job[q].row}
  /\ Goes(q, "ok")
  /\ UNCHANGED <<rows, objects, asked, bucket>>

\* archive() of the session updates the column of all its documents.
ArchiveSession(q) ==
  /\ Documents # {}
  /\ Begins(q, Answered("session_archive", "ok"))
  /\ rows' = [id \in DOMAIN rows |-> IF id \in Documents THEN [rows[id] EXCEPT !.archived = TRUE]
                                     ELSE rows[id]]
  /\ UNCHANGED docVars

\* A process restarts: its promise is forgotten, its requests are cut off.
Restart(p) ==
  /\ bucket[p] # "unasked" /\ faults < MaxFaults
  /\ faults' = faults + 1
  /\ bucket' = [bucket EXCEPT ![p] = "unasked"]
  /\ job' = [q \in Requests |-> IF Busy(q) /\ job[q].at = p
                                THEN [Answered(job[q].kind, "failed") EXCEPT !.at = p] ELSE job[q]]
  /\ UNCHANGED <<alone, rows, objects, asked, results>>

SaveDocument(q) ==
  /\ \/ InsertRow(q, DocKinds, "document")
     \/ DiffRow(q, DocKinds)
     \/ WriteRow(q, DocKinds)
     \/ AuditedRow(q, DocKinds)
  /\ UNCHANGED docVars

DocFails(q) == job[q].kind \in DocKinds /\ Fails(q) /\ UNCHANGED <<rows, docVars>>

DocNext ==
  \/ \E q \in Requests :
       \/ Upload(q) \/ ReadVersion(q) \/ EnsureBucket(q) \/ PutObject(q) \/ Publish(q)
       \/ Reprocess(q) \/ SoftDeleteDocument(q) \/ UpdateText(q) \/ HandleResult(q) \/ AckResult(q)
       \/ ArchiveSession(q) \/ SaveDocument(q) \/ DocFails(q)
  \/ \E id \in Ids("document") : WorkerResult(id)
  \/ \E p \in Processes : Restart(p)

\* The documents on their own, from an empty database of n rows.
DocSpec ==
  /\ RequestInit /\ DocsInit /\ \E n \in Nat : rows = [id \in {"document"} \X (1..n) |-> NoRow]
  /\ [][DocNext]_<<requestVars, rows, docVars>>

-------------------------------------------------------------------------------
Raced(kinds) == \E q \in Requests : job[q].kind \in kinds /\ ~alone[q]

\* A row always has its object: the document can be downloaded and preprocessed.  The
\* session stays within its limit and the versions of a name are distinct, unless
\* uploads overlapped or a document was reprocessed.
DocumentsSound ==
  /\ \A id \in Documents : rows[id].key \in objects
  /\ \/ SessionBytes <= MaxSessionSize
     \/ Raced({"document_upload"})
     \/ \E q \in Requests : job[q].kind = "document_reprocess"
  /\ \/ \A x, y \in Documents : x # y /\ rows[x].name = rows[y].name
                                  => rows[x].version # rows[y].version
     \/ Raced({"document_upload", "document_reprocess"})

\* A deletion nobody overlapped stays, whatever results arrive late.
DeletionsStick == \A q \in Requests : Sticks(q, {"document_delete"}, {"deleted"})
===============================================================================
