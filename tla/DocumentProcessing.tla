------------------------- MODULE DocumentProcessing -------------------------
(***************************************************************************)
(* Upload, processing, cancellation, retry and deletion of documents:      *)
(* app/services/document.py, app/repositories/documents.py,                *)
(* app/tasks/documents.py, app/api/routes/documents.py and the             *)
(* process_document tool of app/services/workspace_tools.py.               *)
(*                                                                         *)
(* The whole of DocumentService.process is one transaction: PROCESSING is  *)
(* flushed but never committed, so other sessions see QUEUED until the     *)
(* final commit, and whoever updates the row in between waits.             *)
(***************************************************************************)
EXTENDS DocumentRows

(* Faulty forms of definitions below, for the mutation runs of the README *)

RestoredStatus_Queued  == "queued"
WaitsForLock_Not(w)    == TRUE

-----------------------------------------------------------------------------
(* Requests *)

UnscheduledStatus(st) == st \notin Busy

(* POST /projects/{id}/documents: the file is saved, then the row *)
Upload(d) ==
    /\ row[d] = Unborn /\ Exists(Project) /\ asked < MaxEvents
    /\ row' = [row EXCEPT ![d] = Uploaded]
    /\ asked' = asked + 1
    /\ UNCHANGED <<chunks, vectors, locked, broker, runner, request, ghosts>>

(* POST /documents/{id}/process, .../process/cancel, .../process/retry,     *)
(* DELETE and the tool                                                      *)
ProcessRequest(h, d) == Load(h, "process", d, UnscheduledStatus(row[d].status))
RetryRequest(h, d)   == Load(h, "retry", d, TRUE)
CancelRequest(h, d)  == Load(h, "cancel", d, row[d].status \in Busy)
DeleteRequest(h, d)  == Load(h, "delete", d, TRUE)
ToolProcess(h, d)    == Load(h, "tool_process", d, row[d].status \notin {"queued", "processing"})

(* retry_processing: UPLOADED whatever was loaded, then enqueue_processing *)
RetryReset(h) ==
    /\ Doing(h, "retry")
    /\ Flush(Row(h), Seen(h), [Seen(h) EXCEPT !.status = "uploaded"])
    /\ IF UnscheduledStatus(row'[Row(h)].status)
       THEN MoveTo(h, "queue", row'[Row(h)])
       ELSE Finish(h)
    /\ UNCHANGED <<chunks, vectors, locked, broker, runner, asked, ghosts>>

(* queue_processing *)
QueueProcessing(h) ==
    /\ Doing(h, "process") \/ At(h, "queue")
    /\ Flush(Row(h), Seen(h), [Seen(h) EXCEPT !.status = "queued"])
    /\ MoveTo(h, "enqueue", row'[Row(h)])
    /\ UNCHANGED <<chunks, vectors, locked, broker, runner, asked, ghosts>>

RestoredStatus == "uploaded"

(* restore_uploaded, when the broker refused the message *)
RestoreUploaded(h) ==
    /\ At(h, "enqueue") /\ request[h].op \in {"process", "retry"} /\ QueueUnavailable
    /\ Flush(Row(h), Seen(h), [Seen(h) EXCEPT !.status = RestoredStatus])
    /\ Finish(h)
    /\ UNCHANGED <<chunks, vectors, locked, broker, runner, ghosts>>

(* WorkspaceTools.process_document: the task id is cleared with the status *)
ToolQueue(h) ==
    /\ Doing(h, "tool_process")
    /\ Flush(Row(h), Seen(h), [Seen(h) EXCEPT !.status = "queued", !.task = None])
    /\ MoveTo(h, "enqueue", row'[Row(h)])
    /\ UNCHANGED <<chunks, vectors, locked, broker, runner, asked, ghosts>>

(* ... and nothing restores it when the enqueue of a tool raises *)
ToolRefused(h) ==
    /\ At(h, "enqueue") /\ request[h].op \in {"tool_process", "tool_rebuild", "tool_sync"}
    /\ QueueUnavailable
    /\ lost' = lost \cup {Row(h)}
    /\ Finish(h)
    /\ UNCHANGED <<data, broker, runner, mixed>>

(* cancel_processing: CANCELLING, revoke, CANCELLED *)
CancelMark(h) ==
    /\ Doing(h, "cancel")
    /\ Flush(Row(h), Seen(h), [Seen(h) EXCEPT !.status = "cancelling"])
    /\ MoveTo(h, "revoke", row'[Row(h)])
    /\ UNCHANGED <<chunks, vectors, locked, broker, runner, asked, ghosts>>

CancelRevoke(h) ==
    /\ At(h, "revoke") /\ request[h].op = "cancel" /\ Exists(Row(h))
    /\ \/ /\ Revoke(Seen(h).task, {"process", "rebuild"})
          /\ MoveTo(h, "cancelled", Seen(h))
          /\ UNCHANGED asked
       \/ /\ Faulty("broker") /\ Seen(h).task # None
          /\ lost' = lost \cup {Row(h)}
          /\ Finish(h)
          /\ UNCHANGED <<queued, runner, locked>>
    /\ UNCHANGED <<row, chunks, vectors, kind, target, mixed>>

CancelDone(h) ==
    /\ At(h, "cancelled") /\ request[h].op = "cancel"
    /\ Flush(Row(h), Seen(h), [Seen(h) EXCEPT !.status = "cancelled", !.embedding = "cancelled"])
    /\ Finish(h)
    /\ UNCHANGED <<chunks, vectors, locked, broker, runner, asked, ghosts>>

(* delete(): the chunks and their vectors go with the row; the file stays *)
Remove(ds) ==
    /\ \A d \in ds : Free(d)
    /\ row' = [x \in Rows |-> IF x \in ds THEN None ELSE row[x]]
    /\ vectors' = vectors \ DeleteForDocument(OfDocs(ds))
    /\ chunks' = [d \in Docs |-> IF d \in ds THEN {} ELSE chunks[d]]

DeleteCommit(h) ==
    /\ Doing(h, "delete") /\ Exists(Row(h))
    /\ Remove({Row(h)})
    /\ Finish(h)
    /\ UNCHANGED <<locked, broker, runner, asked, ghosts>>

-----------------------------------------------------------------------------
(* The task documents.process *)

(* _process_document: an absent document, or one that is not QUEUED any     *)
(* more, ends the task and acknowledges its message                         *)
TakeProcess(w, t) ==
    /\ Deliver(w, t, "process")
    /\ LET d == target[t] IN
        IF Exists(d) /\ row[d].status = "queued"
        THEN Begin(w, "process", d, t, FALSE) /\ NoteOverlap(w, d)
        ELSE UNCHANGED <<runner, mixed>>
    /\ UNCHANGED <<data, kind, target, request, asked, lost>>

(* start_processing: its UPDATE locks the row until the transaction ends;   *)
(* a row deleted meanwhile is a StaleDataError, outside process()'s try.    *)
(* delete_for_document deletes the chunks committed at that time (todo).    *)
WaitsForLock(w) == Free(Target(w))

StartProcessing(w) ==
    /\ Is(w, "loaded") /\ runner[w].job = "process"
    /\ IF Exists(Target(w))
       THEN /\ WaitsForLock(w)
            /\ locked' = [locked EXCEPT ![Target(w)] = w]
            /\ runner' = [runner EXCEPT ![w].pc = "processing", ![w].todo = chunks[Target(w)]]
       ELSE Ack(w) /\ UNCHANGED locked
    /\ UNCHANGED <<row, chunks, vectors, broker, request, asked, ghosts>>

(* The values complete_processing commits: the fields that differ from what *)
(* the session holds, which is the row as loaded before the lock, PROCESSING *)
(* flushed over its two statuses                                            *)
Flushed(w) == [Loaded(w) EXCEPT !.status = "processing", !.embedding = "processing"]

Completed(w, m) ==
    [f \in DOMAIN Loaded(w) |->
        CASE f = "status"    -> "indexed"
          [] f = "embedding" -> "completed"
          [] f = "model"     -> IF m # Loaded(w).model THEN m ELSE row[Target(w)].model
          [] OTHER           -> row[Target(w)][f]]

(* process(): chunks replaced, embedded and stored, complete_processing.    *)
(* All chunks of a call are embedded by one model of the chain.             *)
CompleteProcessing(w, m) ==
    /\ Is(w, "processing") /\ Cardinality(Unused) >= ChunkCount
    /\ LET d == Target(w) IN
        /\ chunks' = [chunks EXCEPT ![d] = (@ \ runner[w].todo) \cup NewChunks]
        /\ vectors' = (vectors \ DeleteForDocument(runner[w].todo)) \cup (NewChunks \X {m})
        /\ row' = [row EXCEPT ![d] = Completed(w, m)]
        /\ locked' = [locked EXCEPT ![d] = None]
    /\ Ack(w)
    /\ UNCHANGED <<broker, request, asked, ghosts>>

(* ... or anything of it raises and the transaction is rolled back *)
ProcessRaises(w) ==
    /\ Is(w, "processing")
    /\ Unlock(w) /\ GoTo(w, "failing")
    /\ UNCHANGED <<row, chunks, vectors, broker, request, asked, ghosts>>

(* fail_processing: refresh, then FAILED unless CANCELLED was read *)
FailRefresh(w) ==
    /\ Is(w, "failing")
    /\ IF Exists(Target(w)) /\ row[Target(w)].status # "cancelled"
       THEN runner' = [runner EXCEPT ![w].pc = "fail", ![w].seen = row[Target(w)]]
       ELSE Ack(w)
    /\ UNCHANGED <<data, broker, request, asked, ghosts>>

FailProcessing(w) ==
    /\ Is(w, "fail")
    /\ IF Exists(Target(w))
       THEN Flush(Target(w), Loaded(w),
                  [Loaded(w) EXCEPT !.status = "failed", !.embedding = "failed"])
       ELSE UNCHANGED row
    /\ Ack(w)
    /\ UNCHANGED <<chunks, vectors, locked, broker, request, asked, ghosts>>

-----------------------------------------------------------------------------
ProcessingRequest(h) ==
    \E d \in Docs : \/ ProcessRequest(h, d) \/ RetryRequest(h, d) \/ CancelRequest(h, d)
                    \/ DeleteRequest(h, d)  \/ ToolProcess(h, d)

ProcessingHandler(h) ==
    \/ RetryReset(h) \/ QueueProcessing(h) \/ RestoreUploaded(h) \/ ToolQueue(h) \/ ToolRefused(h)
    \/ CancelMark(h) \/ CancelRevoke(h) \/ CancelDone(h) \/ DeleteCommit(h)

ProcessingTask(w) ==
    \/ \E t \in Tasks : TakeProcess(w, t)
    \/ StartProcessing(w) \/ \E m \in Models : CompleteProcessing(w, m)
    \/ ProcessRaises(w) \/ FailRefresh(w) \/ FailProcessing(w)
=============================================================================
