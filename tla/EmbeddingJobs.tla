---------------------------- MODULE EmbeddingJobs ----------------------------
(***************************************************************************)
(* Rebuilding the embeddings of a document and synchronising those of a    *)
(* project: app/services/embedding_jobs.py,                                *)
(* app/services/embedding_management.py, app/tasks/embeddings.py,          *)
(* app/api/routes/embeddings.py and the tools of                           *)
(* app/services/workspace_tools.py.  A job runs as a background task of    *)
(* the API process (Slots) when a route started it and as a Celery task    *)
(* (Workers) when a tool did.                                              *)
(*                                                                         *)
(* x is a document (rebuild, resume, retry) or the project (sync).         *)
(***************************************************************************)
EXTENDS DocumentRows

-----------------------------------------------------------------------------
(* Faulty forms of definitions below, for the mutation runs of the README *)

Failed_Processing == "processing"

-----------------------------------------------------------------------------
(* Requests *)

(* `blocked_statuses`: CANCELLING does not block rebuild_document *)
Blocked(op) == IF op = "rebuild" THEN {"queued", "processing"} ELSE Busy

(* resume_document_rebuild embeds what is missing, the others start again *)
Forced(op) == op \in {"rebuild", "retry_rebuild"}

Ask(h, op, d) == Load(h, op, d, row[d].embedding \notin Blocked(op))

RebuildRequest(h, d) == Ask(h, "rebuild", d)
ResumeRebuild(h, d)  == Ask(h, "resume_rebuild", d)
RetryRebuild(h, d)   == Ask(h, "retry_rebuild", d)

(* sync_project, resume_project_sync and retry_project_sync do the same *)
SyncRequest(h) == Load(h, "sync", Project, row[Project].embedding \notin Busy)
ResumeSync(h)  == SyncRequest(h)
RetrySync(h)   == SyncRequest(h)

(* cancel_document_rebuild and cancel_project_sync *)
CancelRebuild(h, d) == Load(h, "cancel_job", d, row[d].embedding \in Busy)
CancelSync(h)       == Load(h, "cancel_job", Project, row[Project].embedding \in Busy)

(* The tools rebuild_document_embeddings and sync_project_embeddings *)
ToolRebuild(h, d) == Load(h, "tool_rebuild", d, row[d].embedding \notin {"queued", "processing"})
ToolSync(h) == Load(h, "tool_sync", Project, row[Project].embedding \notin {"queued", "processing"})

(* _enqueue_document_rebuild and _enqueue_project_sync *)
QueueLocal(h) ==
    /\ \E op \in {"rebuild", "resume_rebuild", "retry_rebuild", "sync"} : Doing(h, op)
    /\ Flush(Row(h), Seen(h), [Seen(h) EXCEPT !.embedding = "queued", !.task = Local])
    /\ MoveTo(h, "spawn", None)
    /\ UNCHANGED <<chunks, vectors, locked, broker, runner, asked, ghosts>>

(* The tools: the task id of a project is cleared, that of a document kept *)
QueueTool(h) ==
    /\ Doing(h, "tool_rebuild") \/ Doing(h, "tool_sync")
    /\ Flush(Row(h), Seen(h),
             [Seen(h) EXCEPT !.embedding = "queued", !.task = IF Row(h) = Project THEN None ELSE @])
    /\ MoveTo(h, "enqueue", row'[Row(h)])
    /\ UNCHANGED <<chunks, vectors, locked, broker, runner, asked, ghosts>>

MarkCancelling(h) ==
    /\ Doing(h, "cancel_job")
    /\ Flush(Row(h), Seen(h), [Seen(h) EXCEPT !.embedding = "cancelling"])
    /\ MoveTo(h, "revoke", row'[Row(h)])
    /\ UNCHANGED <<chunks, vectors, locked, broker, runner, asked, ghosts>>

(* A "local-..." id is not revoked: the job ends at its next check *)
RevokeJob(h) ==
    /\ At(h, "revoke") /\ request[h].op = "cancel_job" /\ Exists(Row(h))
    /\ \/ /\ Revoke(Seen(h).task, {"rebuild", "sync"})
          /\ MoveTo(h, "cancelled", Seen(h))
          /\ UNCHANGED asked
       \/ /\ Faulty("broker") /\ Seen(h).task \in Tasks
          /\ lost' = lost \cup {Row(h)}
          /\ Finish(h)
          /\ UNCHANGED <<queued, runner, locked>>
    /\ UNCHANGED <<row, chunks, vectors, kind, target, mixed>>

MarkCancelled(h) ==
    /\ At(h, "cancelled") /\ request[h].op = "cancel_job"
    /\ Flush(Row(h), Seen(h), [Seen(h) EXCEPT !.embedding = "cancelled", !.task = None])
    /\ Finish(h)
    /\ UNCHANGED <<chunks, vectors, locked, broker, runner, asked, ghosts>>

-----------------------------------------------------------------------------
(* The jobs.  _rebuild_document_embeddings and _sync_project_embeddings     *)
(* return unless the row they load is QUEUED.                               *)

Runnable(x) == Exists(x) /\ row[x].embedding = "queued"

BeginJob(w, job, x, t, force) ==
    IF Runnable(x)
    THEN Begin(w, job, x, t, force) /\ NoteOverlap(w, x)
    ELSE UNCHANGED <<runner, mixed>>

JobOf(x) == IF x = Project THEN "sync" ELSE "rebuild"

(* add_task: the job starts in the API process once the response is sent *)
Spawn(h, s) ==
    /\ At(h, "spawn") /\ s \in Slots /\ Is(s, "idle")
    /\ BeginJob(s, JobOf(Row(h)), Row(h), Local, Forced(request[h].op))
    /\ Finish(h)
    /\ UNCHANGED <<data, broker, asked, lost>>

(* rebuild_document_embeddings_task, always forced, and sync_project_embeddings_task *)
TakeJob(w, t) ==
    /\ Deliver(w, t, "rebuild") \/ Deliver(w, t, "sync")
    /\ BeginJob(w, kind[t], target[t], t, kind[t] = "rebuild")
    /\ UNCHANGED <<data, kind, target, request, asked, lost>>

(* resolve_embedding_service, then the commit of PROCESSING *)
StartJob(w, m) ==
    /\ Is(w, "loaded") /\ runner[w].job \in {"rebuild", "sync"}
    /\ IF Exists(Target(w))
       THEN /\ Flush(Target(w), Loaded(w), [Loaded(w) EXCEPT !.embedding = "processing"])
            /\ runner' = [runner EXCEPT ![w].pc = "list", ![w].model = m, ![w].seen = None]
       ELSE Ack(w) /\ UNCHANGED row
    /\ UNCHANGED <<chunks, vectors, locked, broker, request, asked, ghosts>>

(* rebuild_document_embeddings: with force the vectors of the model go      *)
(* first, in a commit of their own                                          *)
ListRebuild(w) ==
    /\ Is(w, "list") /\ runner[w].job = "rebuild"
    /\ LET d == Target(w)
           m == runner[w].model
       IN IF runner[w].force
          THEN /\ vectors' = vectors \ DeleteForChunks(ListForDocument(d), m)
               /\ runner' = [runner EXCEPT ![w].pc = "next", ![w].todo = ListForDocument(d)]
          ELSE /\ runner' = [runner EXCEPT ![w].pc = "next", ![w].todo = ListMissing(d, m)]
               /\ UNCHANGED vectors
    /\ UNCHANGED <<row, chunks, locked, broker, request, asked, ghosts>>

(* sync_project_embeddings *)
ListSync(w) ==
    /\ Is(w, "list") /\ runner[w].job = "sync"
    /\ vectors' = vectors \ DimensionMismatches
    /\ runner' = [runner EXCEPT ![w].pc = "next",
                                ![w].todo = ListMissingForProject(runner[w].model)]
    /\ UNCHANGED <<row, chunks, locked, broker, request, asked, ghosts>>

(* should_cancel: _document_embedding_cancelled, _project_embedding_cancelled *)
CancelSeen(x) == IF Exists(x) THEN row[x].embedding \in Cancelled ELSE TRUE

ChunkInHand(w) == CHOOSE c \in runner[w].todo : TRUE

(* One chunk of _embed_remaining_chunks: the first check and the call.  A   *)
(* model that answers for another may only do so before the first insert.   *)
StaysAfter(w, m) == m = runner[w].model \/ ~runner[w].created

Embed(w, m) ==
    /\ Is(w, "next") /\ runner[w].todo # {}
    /\ IF m = runner[w].model THEN UNCHANGED asked ELSE Faulty("failover")
    /\ IF CancelSeen(Target(w))
       THEN GoTo(w, "cancelled") /\ UNCHANGED mixed
       ELSE IF StaysAfter(w, m)
       THEN /\ runner' = [runner EXCEPT ![w].pc = "embedded", ![w].model = m]
            /\ mixed' = IF m # runner[w].model /\ ~runner[w].force
                        THEN mixed \cup (IF Target(w) = Project THEN Docs ELSE {Target(w)})
                        ELSE mixed
       ELSE GoTo(w, "raised") /\ UNCHANGED mixed
    /\ UNCHANGED <<data, broker, request, lost>>

EmbedRaises(w) ==
    /\ Is(w, "next") /\ runner[w].todo # {} /\ ~CancelSeen(Target(w))
    /\ GoTo(w, "raised")
    /\ UNCHANGED <<data, broker, request, asked, ghosts>>

(* the second check *)
Recheck(w) ==
    /\ Is(w, "embedded")
    /\ GoTo(w, IF CancelSeen(Target(w)) THEN "cancelled" ELSE "insert")
    /\ UNCHANGED <<data, broker, request, asked, ghosts>>

(* commit_created_for_chunks *)
Insert(w) ==
    /\ Is(w, "insert")
    /\ LET c == ChunkInHand(w)
           m == runner[w].model
       IN IF Storable(c, m)
          THEN /\ vectors' = vectors \cup {<<c, m>>}
               /\ runner' = [runner EXCEPT ![w].pc = "next", ![w].created = TRUE,
                                           ![w].todo = @ \ {c}]
          ELSE GoTo(w, "raised") /\ UNCHANGED vectors
    /\ UNCHANGED <<row, chunks, locked, broker, request, asked, ghosts>>

(* All chunks done: the row is refreshed, and a cancellation seen there *)
(* ends the job as cancelled                                            *)
RefreshRow(w) ==
    /\ Is(w, "next") /\ runner[w].todo = {}
    /\ IF Exists(Target(w))
       THEN runner' = [runner EXCEPT ![w].seen = row[Target(w)],
                ![w].pc = IF CancelSeen(Target(w)) THEN "write_cancelled" ELSE "mark"]
       ELSE GoTo(w, "raised")
    /\ UNCHANGED <<data, broker, request, asked, ghosts>>

(* mark_embeddings_current *)
MarkCurrent(w) ==
    /\ Is(w, "mark") /\ Target(w) # Project
    /\ IF Exists(Target(w))
       THEN /\ Flush(Target(w), Loaded(w), [Loaded(w) EXCEPT !.embedding = "completed",
                         !.model = runner[w].model, !.task = None])
            /\ Ack(w)
       ELSE GoTo(w, "raised") /\ UNCHANGED row
    /\ UNCHANGED <<chunks, vectors, locked, broker, request, asked, ghosts>>

(* mark_project_embeddings_current: every document with a text and chunks *)
Embedded == {d \in Docs : chunks[d] # {}}

MarkDocuments(w) ==
    /\ Is(w, "mark") /\ Target(w) = Project
    /\ \A d \in Embedded : Free(d)
    /\ row' = [x \in Rows |-> IF x \in Embedded
                THEN [row[x] EXCEPT !.embedding = "completed", !.model = runner[w].model]
                ELSE row[x]]
    /\ GoTo(w, "mark_project")
    /\ UNCHANGED <<chunks, vectors, locked, broker, request, asked, ghosts>>

MarkProject(w) ==
    /\ Is(w, "mark_project")
    /\ IF Exists(Project)
       THEN /\ Flush(Project, Loaded(w),
                     [Loaded(w) EXCEPT !.embedding = "completed", !.task = None])
            /\ Ack(w)
       ELSE GoTo(w, "raised") /\ UNCHANGED row
    /\ UNCHANGED <<chunks, vectors, locked, broker, request, asked, ghosts>>

(* The handlers of the exceptions: a session of their own reads the row.    *)
(* EmbeddingExecutionCancelled sets CANCELLED whatever was read; any other  *)
(* exception sets FAILED unless a cancellation was read.                    *)
Failed == "failed"

ReadRow(w) ==
    /\ Is(w, "cancelled") \/ Is(w, "raised")
    /\ IF Exists(Target(w)) /\ (Is(w, "raised") => ~CancelSeen(Target(w)))
       THEN runner' = [runner EXCEPT ![w].seen = row[Target(w)],
                ![w].pc = IF Is(w, "raised") THEN "write_failed" ELSE "write_cancelled"]
       ELSE Ack(w)
    /\ UNCHANGED <<data, broker, request, asked, ghosts>>

WriteOutcome(w) ==
    /\ Is(w, "write_failed") \/ Is(w, "write_cancelled")
    /\ IF Exists(Target(w))
       THEN Flush(Target(w), Loaded(w), [Loaded(w) EXCEPT !.task = None,
                !.embedding = IF Is(w, "write_failed") THEN Failed ELSE "cancelled"])
       ELSE UNCHANGED row
    /\ Ack(w)
    /\ UNCHANGED <<chunks, vectors, locked, broker, request, asked, ghosts>>

-----------------------------------------------------------------------------
EmbeddingRequest(h) ==
    \/ \E d \in Docs : \/ RebuildRequest(h, d) \/ ResumeRebuild(h, d) \/ RetryRebuild(h, d)
                       \/ CancelRebuild(h, d)  \/ ToolRebuild(h, d)
    \/ SyncRequest(h) \/ ResumeSync(h) \/ RetrySync(h) \/ CancelSync(h) \/ ToolSync(h)

EmbeddingHandler(h) ==
    \/ QueueLocal(h) \/ QueueTool(h) \/ MarkCancelling(h) \/ RevokeJob(h) \/ MarkCancelled(h)
    \/ \E s \in Slots : Spawn(h, s)

EmbeddingTask(w) ==
    \/ \E t \in Tasks : TakeJob(w, t)
    \/ \E m \in Models : StartJob(w, m) \/ Embed(w, m)
    \/ ListRebuild(w) \/ ListSync(w) \/ EmbedRaises(w) \/ Recheck(w) \/ Insert(w)
    \/ RefreshRow(w) \/ MarkCurrent(w) \/ MarkDocuments(w) \/ MarkProject(w)
    \/ ReadRow(w) \/ WriteOutcome(w)
=============================================================================
