# A verification project for the AI Workflow Automation Platform

TLA+ models of the platform's workflow, document, chat and provider code, the TLC
runs that check them and theorems that TLAPS proves about them. `src/` below is the
repository; `PROJECT.json` maps every definition to the lines it models, lists the
hazards of the code with the properties that watch them, and names a faulty form
(a "mutant") of some definition for every property: with the definition replaced
by its faulty form, TLC finds the property violated. The faulty forms stand in the
modules under "for the mutation runs".

## 1. The system

A FastAPI application, Celery workers and one PostgreSQL database. The API
answers 202 and puts work on a Redis queue; a worker executes it; the two share the
database, in READ COMMITTED, and the rate limiter's counters in Redis.

```
 browser --> API request --commit--> PostgreSQL <--commit-- pool process
               |    \                                          ^
               |     +-- background task, streamed run         |
               |         and turn of a chat, in the process    |
               +------ Celery message (Redis, acks_late) ------+
 API start-up: recover_running_workflows --> Celery message
```

| component (`src/app/`) | state | operations | what is hard | what makes it correct |
|---|---|---|---|---|
| run lifecycle: `services/workflow/workflow.py`, `repositories/workflow_runs.py`, `tasks/workflows.py`, `services/workflow/recovery.py`, `services/background_jobs.py` | the row of a run (status, `updated_at`, `celery_task_id`), messages | run, retry, resume, cancel, delete; claim, execute, complete, fail; recovery | every handler commits several times; messages come twice or never; processes die; a status read before a commit is used after it | executed once from the start; no pending run lost; a cancellation stays; a run settles |
| DAG engine: `services/workflow/dag_engine.py`, `ai_executor.py`, `repositories/workflow_step_runs.py` | pending/completed/failed steps, outputs, step-run rows of an open transaction | validate, detect cycles, rounds of parallel steps, persist, final output | conditions and failures decide the rounds; a resume starts from what was committed; two executions may overlap | dependencies first; never stuck; nothing executed is lost with the commit; completed steps not executed again |
| events: `event_bus.py`, `repositories/workflow_events.py`, `_tail_run_events`, `run_workflow_stream` | event rows, in-process subscriber queues | emit, tail by id, stream | events commit with the status; two reads of a poll; a queue that only a terminal frame ends | what is sent was committed, in order, once; a completed frame is backed by a commit; both readers end |
| documents: `services/document.py`, `tasks/documents.py`, `repositories/documents.py`, `workspace_tools.py` | document status, chunks | upload, process, cancel, retry, delete | unlocked test of QUEUED; a cancellation against a long open transaction | chunks of one processing; QUEUED has somebody who acts on it; everything settles |
| embeddings: `embedding_jobs.py`, `tasks/embeddings.py`, `embedding_management.py` | embedding status, vectors, in-process and Celery jobs | rebuild, sync, cancel, resume, retry | one commit per chunk, cancellation polled, jobs that overlap, a task id shared with processing | COMPLETED means a vector of the row's model for every chunk |
| model access: `services/ai/`, `services/embedding.py` | breaker counters and cooldowns, rate budgets | failover chain, retries, streaming | shared counters, half-delivered streams | one provider's answer, whole; every request ends |
| provider settings: `provider_config.py`, `repositories/provider_configs.py` | rows, and one copy that all requests of a process share | seed, load, update, health | a copy that another request reloads between two awaits | what a user entered is saved and nobody else's key is shown |
| chats: `services/chat.py`, `repositories/messages.py`, `chats.py` | messages, the open transaction of a turn | send, stream, regenerate | order by the start of the transaction; a tool that commits halfway; deletions beside a turn | a question with its answer or neither; the model is asked the turn's question |
| agent: `services/agent.py`, `workspace_tools.py` | messages and counters of a tool loop | tool loop; planned searches | two bounds that meet; a failed flush in the middle of the loop | both bounds hold; the question is searched for; sources come from the context |
| retrieval: `rag.py`, `retrieval.py` | the context of an answer | search, filter, cite | thresholds and cuts | nearest documents first, none twice |
| chunking: `chunk.py` | a window | chunk | window arithmetic | no character lost, the loop ends |
| workspace: `resource_updates.py`, the repositories of projects, chats, workflows, steps and agent runs | rows and their parents | create, rename, delete | a row deleted between a read and a write; cascade and soft deletion | nothing outlives its parent |
| authentication, provider clients, storage and extractors, wiring, landing page | - | I/O or one statement | - | not modelled (section 8) |

The 40 hazards are listed in `PROJECT.json`, each at the line where it bites. Five have no property, because there the code
itself does what a property would forbid or loses what it would need; where the properties of another leave a part of it out, its
note says which (section 6).

## 2. The modules

| module | what it is | about |
|---|---|---|
| `WorkflowRuns` | component | the row of a run, messages, requests, pool processes, recovery |
| `RunEvents` | component | the events of a run, the SSE tail, the streamed run |
| `StepSchedule` | abstract specification | what the engine promises about the order of steps |
| `DagEngine` | component | executions of one run, implements `StepSchedule` |
| `StepGraph` | operators | cycles and terminal steps |
| `CycleDetection` | algorithm | `detect_cycles`, call by call |
| `DocumentRows` | shared state | rows, chunks, vectors, broker, requests and runners of the next two |
| `DocumentProcessing` | component | upload, processing, cancellation, retry, deletion |
| `EmbeddingJobs` | component | rebuild of a document, sync of a project |
| `Documents` | composition | both on the same rows, and the properties |
| `Failover` | component | a request to the providers, breakers, limiter |
| `Retrieval` | algorithm | searches, excerpts and sources of an answer |
| `Chunker` | algorithm | `chunk()`, window by window |
| `Ordering` | operators | `ORDER BY`, and the elements a list comprehension keeps |
| `Workspace` | component | rows of a project and the requests on them |
| `ChatTurns` | composition | turns of a chat with their tool loop, beside the edits of `Workspace` |
| `ProviderConfig` | component | the settings of the users in one process |
| `MC...` | instances | constants, symmetry; `MCAlgorithms` and `MCAssistant` hold parts that share nothing |
| `...Proofs` | proofs | section 5 |

The rest of the section says how the state and the actions of each correspond to the code.

### WorkflowRuns

A step is one statement that reads the row or one commit that publishes a
change; between two of them anything else may happen. A request is a record in
`request`: `pc` is where it is between two commits, `prev` and `seen` are what it
read before and still rests on, exactly as the ORM object it holds. A pool
process is a record in `worker`, with the message it executes.

| code | actions |
|---|---|
| `enqueue_run`, `enqueue_retry` (workflow.py:72-97, 128-139) | `CreateRun`, `EnqueueRun`, `SetTaskId`; `UnqueuedRefresh`, `UnqueuedFail` when Redis refuses |
| `enqueue_resume` (99-126) | `ResumeLoad`, `ResumeStart`, `EnqueueResume`, `SetTaskId`; `ResumeRestore` |
| `cancel_run` (141-164) | `CancelLoad`, `CancelCommit`, `Revoke` |
| `delete_run`, `delete_canceled_runs` (166-196) | `DeleteLoad`, `DeleteCommit` |
| `_run_workflow`, `claim_pending`, `execute_run` | `ClaimPending`, `ClaimRefresh`, `Start`, `FirstFlush`, `EngineEnds`, `Complete`, `Fail` |
| `_resume_workflow`, `resume_run` | `ResumeTask`, `FirstFlush`, `EngineEnds`, `Complete`, `Fail` |
| `recover_running_workflows` | `RecoverScan`, `RecoverEnqueue` |
| environment | `Age`, `RowGone`, and under `Faults`: `ApiCrash`, `DropMessage`, `ResolveFails`, `ChildDies`, `NodeDies`, `VisibilityTimeout`, a refused publish or revoke |

What SQLAlchemy does is in the model where it matters: an attribute assigned the
value it was loaded with is no UPDATE (`Assign`), so that `start()` on a row
loaded as RUNNING writes nothing, but on one loaded as CANCELED writes RUNNING;
an output or an error written along makes the UPDATE happen without the status
(`AssignWithText`); a row that was deleted makes the next commit or refresh of
its holder raise (`RowGone`); rows flushed by an execution hold a key-share lock
on the run, and a delete waits for it (`LocksRow`). Time is one bit: `recent`
says that `updated_at` is younger than `STALE_AFTER`, and `Age` clears it at any
moment.

Abstractions: the engine is one execution that succeeds or fails (it is
`DagEngine`'s subject); PAUSED is left out, nothing writes it; `delete_canceled_runs`
deletes one row at a time rather than all in one commit, which no property of a
single run can tell apart. A model whose task ids are used up has a broker that
refuses (`QueueUnavailable`); with two ids a run has a first message and a second
from a recovery or a resume.

### DagEngine, StepSchedule, StepGraph

An executor's variables are the locals of `DAGEngine.execute`: `pending`,
`settled` (`completed_steps`), `outputs`, `failed`, and `flight`, `results`,
`todo` for the round under way. `rows` is the committed step-run table of the run
and `staged` what an execution has flushed in its open transaction: only
`commit_complete` and `fail_with_error` move it into `rows`, together with the
status. `Begin` (validation, resume state), `Dispatch` (head of the loop),
`Gather`, `Persist` (one turn of the persist loop), `Process`, `Finish`,
`CommitComplete`, `FailWithError`; `Crash` at any point; `Cancel` and `Resume` of
the run around its executions. Any idle executor may take a RUNNING run, so
overlapping executions are in the model; `shared` remembers that they happened.

Data: an output is a text, empty or absent; a condition tests one output and may
name a step that is no dependency or the step itself. Every caller passes
`continue_on_error=True`; the other branch is not modelled. A step's retries are
inside `Gather`: they end in one result. The workflow is not edited while a run
exists.

`StepSchedule` says what any engine of this kind must do: an execution runs or
skips each step once, after its dependencies are done, and a set of steps that
run together ends together. `DagEngine` implements it with `active <- pc # "idle"`,
`done <- settled`, `running <- flight`.

### CycleDetection

The recursion of `dfs` as a state machine: `path` is the Python `stack` in call
order, `left[n]` what the `for` loop of the call of `n` has not reached. Sets are
iterated in any order. `HasCycle` is the reference definition: a non-empty set
of steps each of which waits for one of the set. `DagEngine` uses `HasCycle`
directly, which `CycleDetection` justifies.

### RunEvents

`exec` is what each pool process and the asyncio task of a streamed run does: the
events it flushed (`events`, with the number of their transaction, since `get_for_run`
orders by `created_at`), how many are left, what it is going to commit. `status` and
`jobs` are the life of `WorkflowRuns` reduced to what a reader can see: claims, cancellations,
resumptions, deletions and recoveries, each with its read apart from its commit.

| code | actions |
|---|---|
| `execute_run`, `resume_run` (workflow.py), `commit_complete`, `fail_with_error` | `RunTask`, `ResumeTask`, `Emit`, `EngineRaises`, `EngineReturns`, `WorkflowDone`, `Refresh`, `Commit` |
| `run_workflow_stream` | `OpenStream`, `StartStream`, the actions above, `Notify`; the reader: `NextFrame`, `TaskAwaited` |
| `EventBus.emit`, `subscribe` | `Emit`, `Put` |
| `_tail_run_events` | `OpenTail`, `Replay`, `Poll`, `Check` |
| environment | `Breaks` (a statement fails), `WorkerDies`, `ReaderLeaves`, `TailLeaves`, `ApiDies` |

The flush of an event holds FOR KEY SHARE on the run, which a deletion waits for
(`KeyFree`); `complete()` of a streamed run has updated the row before `commit_complete`,
which every other update waits for (`HoldsRow`): this lock is why a completed frame, sent
before the commit, is never contradicted. An event is an id; what it says is left out.

### DocumentRows, DocumentProcessing, EmbeddingJobs, Documents

One record per document, and one for the project, whose sync fields are of the same kind.
`seen` is the ORM object of a request or a task: `Flush` writes the fields that differ from
it, as the UPDATE does. `locked` is the open transaction that has updated the row:
`DocumentService.process` is one transaction, so that nobody sees PROCESSING and whoever
updates the row waits. `Workers` are pool processes, `Slots` background tasks of the API;
chunk ids that nobody refers to are reused (`Unused`).

| code | actions |
|---|---|
| `upload`, `enqueue_processing`, `queue_processing`, `retry_processing`, `restore_uploaded` | `Upload`, `ProcessRequest`, `RetryRequest`, `RetryReset`, `QueueProcessing`, `Enqueue`, `Record`, `RestoreUploaded` |
| `cancel_processing`, `delete` | `CancelRequest`, `CancelMark`, `CancelRevoke`, `CancelDone`; `DeleteRequest`, `DeleteCommit` |
| `process_document` of the tools | `ToolProcess`, `ToolQueue`, `Enqueue`, `Record`, `ToolRefused` |
| `documents.process` | `TakeProcess`, `StartProcessing`, `CompleteProcessing`, `ProcessRaises`, `FailRefresh`, `FailProcessing` |
| `rebuild_document`, `resume_...`, `retry_...`, `sync_project`, ... | `RebuildRequest`, `ResumeRebuild`, `RetryRebuild`, `SyncRequest`, `ResumeSync`, `RetrySync`, `QueueLocal`, `Spawn` |
| `cancel_document_rebuild`, `cancel_project_sync` | `CancelRebuild`, `CancelSync`, `MarkCancelling`, `RevokeJob`, `MarkCancelled` |
| the embedding tools and `tasks/embeddings.py` | `ToolRebuild`, `ToolSync`, `QueueTool`, `TakeJob` |
| `_rebuild_document_embeddings`, `_sync_project_embeddings`, `_embed_remaining_chunks` | `StartJob`, `ListRebuild`, `ListSync`, `Embed`, `EmbedRaises`, `Recheck`, `Insert`, `RefreshRow`, `MarkCurrent`, `MarkDocuments`, `MarkProject`, `ReadRow`, `WriteOutcome` |
| environment | `ResolveFails`, `ChildDies`, `Redeliver`, `ApiCrash`, a refused publish or revoke, a model that answers for another |

History variables name what the code gives no guarantee for: `lost` holds rows whose
job was dropped by a fault or by a revoke that meant another job, `mixed` documents on which
two jobs overlapped or a job that had not deleted the former vectors failed over to another model.

### Failover

A request is a record: its attempts, those left, the tries of the current one, the
providers reported, the output delivered. `Skip`, `CheckRateLimit`, `FailOpen`,
`CallReturns`, `CallRaises`, `Exhausted` are `run_with_failover` with the limiter inside
the attempt; `StartStream`, `Chunk`, `StreamEnds`, `StreamRaises` the streamed chat that goes around it.
Time is in minutes, the window of the limiter; a retry's sleep of at most five
seconds cannot outlast it. Errors are told apart by whether they are retried. The attempts are
the chain without the providers that are left out (`Offering`), the active one in front (`ChainFrom`).

### Retrieval, Chunker

`Retrieval` goes from one await to the next: what the planner answers is any list of
lines, what the vector query returns any list of chunks sorted by distance; cosine distances are
told apart by the two thresholds. A list that the code filters is `Keeping`, one that it fills
unless the element is there already `Distinct`. `Chunker` takes every text of up to seven positions, each
white or not, and every size and overlap, invalid ones too.

### Workspace, ChatTurns

A request of `Workspace` reads the row it is about and writes after an await; rows are absent,
live, soft-deleted (workflows) or gone. A turn of `ChatTurns` is a record with what its
transaction has flushed (`pending`) and when it began: `created_at` is the start of the
transaction, so that the messages of one transaction are equal in it.

| code | actions |
|---|---|
| `create_message`, `create_message_stream`, `regenerate_message` | `CreateMessage`, `CreateMessageStream`, `RegenerateMessage`, `SaveUser`, `LoadQuestion`, `NothingToRegenerate`, `ListForChat`, `InvalidAgent`, `Answers`, `AnswerRaises`, `SaveAnswer` |
| `_run_workspace_task` | `FirstToolCall`, `ToolReads`, `InvalidArguments`, `ToolCreates`, `ToolQueuesJob`, `ToolBreaks`, `NextToolCall`, `FinalAnswer`, `NextCallRaises` |
| routes and services of projects, chats, workflows, steps, agent runs | `Create...`, `Update...`, `Delete...`, `RunAgent`, then `Insert...`, `Rename...`, `Remove...` |
| environment | `Abort` |

A flushed message locks its chat for deletions (`Locked`). A flush that fails inside a tool takes
the whole transaction back, and the session refuses what follows (`broken`).

### ProviderConfig

`memory` is the `ProviderConfigService` that the routes share. `ListAll` is the await of
`list_all`; `Load` is all that follows it up to the next await: the overlay, and an update's change
of the settings in memory. An update of `dimensions` that is refused keeps what it had changed there (`Reject`); an
update without a provider and a health check end when no provider is active (`Stops`). `GetOwn`, `AddRow`,
`AssignRow` are one turn of `_save_all_...`. Its iterator takes the next provider's settings from `memory` before the
next await: after `add()` for a row that was inserted, and for one that was found already before the flush of its
assignment, which may wait for another transaction (`next`). `SaveAll` commits.
`mixed` holds the users for whom the code gives no guarantee: another request replaced what one of their updates
had still to take from memory (`Untaken`), or two of their updates saved at the same time. Requests that only
read, and updates that meet after the last of the settings was taken, leave a user out of it.

## 3. The runs

| run | instance | states | shows |
|---|---|---|---|
| `recovery` | 1 run, 2 messages, 2 processes, 1 request at a time, 1 recovery pass, every fault | 293,180 | `FreshExecutionOnce`, `SoleExecutorUnlessResumed`, `WorkflowDoneOnce` under redelivery, crashes and recoveries |
| `requests` | 1 run, 2 messages, 2 processes, 2 concurrent requests; node, broker and resolve faults | 801,003 | `PendingNeverLost`: no crash of the API, no lost pending run; `CancelStays`: a cancellation nothing raced with is final |
| `liveness` | 1 run, 2 messages, 2 processes, 1 request, 1 recovery; the broker may refuse | 77,274 | `PendingIsPickedUp`, `RunningSettlesUnlessCanceled` |
| `cancel` (violation) | 1 run, 1 process, no fault | 555 | `RunningSettles`: a run cancelled at the wrong moment stays RUNNING |
| `live` (violation) | 1 run, 1 process, no fault | 54 | `RecoverySparesLiveRuns`: a recovery resumes a run that is being executed |
| `engine` | 3 steps, 11 graphs (4 invalid), 19 conditions, 1 executor, 2 executions | 131,056 | `NeverStuck`, `EverythingRecorded`, `DependenciesFirst`, `FollowsSchedule`, `ExecutionEnds` |
| `overlap` | 2 steps, 2 executors, 3 executions | 278,011 | `OneCompletedRow`, `CommittedNotRerun`, `CompletedHasAnswer` |
| `crash` (violation) | 2 steps, 1 executor | small | `CompletedStepsSurviveCrash`: a crash loses the completed steps |
| `events` | 1 pool process and 1 streamed run, 1 tail, at most 1 event between the first and the last of an execution, 2 requests or faults | 467,878 | `SentWhatWasCommitted`, `CompletedFrameIsCommitted`, `TailEnds`, `StreamEnds` |
| `documents` | 1 document of 2 chunks in a project, 2 models, 1 message, 2 pool processes, 1 background task, 2 concurrent requests, 2 requests or faults after the start, every fault | 308,058 | `OneGeneration`, `CompletedCoversChunks`, `QueuedIsScheduled`, `EverythingSettles` |
| `algorithms` | cycle search: 3 nodes, all 512 graphs, every order; 2 requests, 2 providers, 1 retry, threshold 2; 2 documents of 2 chunks, 2 queries; texts of up to 7 positions, sizes and overlaps up to 4 | 350,364 | `VerdictRight`, `SearchEnds`; `OneAnswer`, `RequestEnds`; `AnswerGrounded`; `ChunksCover` |
| `assistant` | 3 turns, 2 at a time, 1 tool loop of 2 steps, 2 editors, 3 requests, one row of each kind; 2 users, 2 providers, 2 handlers, 3 requests | 1,217,870 | `TurnSaved`, `RegeneratesItsQuestion`, `AsksItsQuestion`, `NothingOutlivesItsParent`; `SavedAsEntered`, `AnsweredOwn` |

`algorithms` and `assistant` hold parts that share no variable; a behaviour starts in one
part and stays there, so nothing is multiplied.

**Bounds.** Runs do not interact but through processes and messages, so one run
with two of everything that competes for it shows what two parties do to it; two
messages give a duplicate, a recovery beside a live execution, a resume after a
run. Three steps give every shape of a dependency between a predecessor, a
step and a successor, both with and against `step_order`; two steps and three
executions give a row that failed twice and a resume after both. Two requests at
once are enough for every read-then-write race of two users. In `documents`, two chunks
are needed for a job that is between the first and the second; `MaxEvents` counts the
requests and faults of a behaviour, and a document starts in any status that the code leaves at rest, with
the vectors that belong to it, so that two further events give each pair of overlapping
jobs. In `events`, one event between `workflow_started` and the end gives a tail a poll that
finds nothing, something, and the rest. In `assistant`, three turns are a question, one beside it and a
regeneration of either; two steps of a loop are one below the bound and one at it. Two
requests and two providers give a breaker that one request opens while the other is between its attempts.

**Symmetry** is used in `recovery`, `requests`, `overlap` and `assistant` only, for runs,
messages, processes, requests, executors and turns, all interchangeable. These runs check
invariants and action properties, no liveness.

**CHECK_DEADLOCK FALSE** everywhere: a run that ended, with no message left, is
where the system rests, and so is a row nobody works on or an algorithm that returned.

**Fairness.** `WorkflowRuns!Fairness`: a request that began goes on and a live
process goes on, also when idle with a message waiting: what asyncio and
Celery's consumer do. Nothing obliges a user to ask, a recovery to run, or time
to pass (`Age`), and `FirstFlush` is no obligation either, since an execution may
fail before it. `liveness` has neither crashes nor `ResolveFails`: with them the
code gives no guarantee (section 6). `DagEngine!FairSpec`: an execution that is not killed goes
on, as provider calls time out. `Documents!FairSpec`: requests, pool processes and background
tasks go on; no user need ask, no fault need happen. `RunEvents!FairSpec`: the same for executions and
requests, and for readers and tails, which poll as long as they are connected.
`Failover`: a call returns or raises, as its HTTP client times out. `CycleDetection!SearchSpec`: the search runs.

## 4. What holds

A run is claimed from its start once, by one process, and announces its end
once, whatever the broker and the recovery do. A pending run is not lost
by a failing broker. A cancellation stays once nobody holds an older read. The engine
never gets stuck on a graph it accepted, respects the dependencies, records what
it executed in the same commit as the status, and a resume does not repeat a
completed step while executions do not overlap.

A tail sends what was committed when it read, in order and once, and ends; a completed
frame of a streamed run is backed by a commit, by virtue of the row lock alone. The chunks of a document come
from one processing, COMPLETED means a vector of the row's model for every chunk as long as jobs do not
overlap, and everything comes to rest in a status that a user can act on, unless a fault dropped the job or of two
cancellations one overtook the other.
A request to the models gets one provider's answer, whole, or an error. A turn leaves its question and its
answer, or neither, unless it was streamed or a tool committed; the model is asked the turn's question while no
turn runs beside it; nothing outlives the row it belongs to.

## 5. The proofs

The theorems hold for every value of the constants that the assumptions allow: any sets, also
infinite ones where nothing is counted, and any faults. Each module is named with the invariants its proof
goes through; all of them were checked by TLC before they were proved.

**WorkflowRuns** (`WorkflowRunsProofs`).

- `TypeCorrect`: `TypeOK`, strengthened by what a record holds at each
  step: a waiting message was sent for a run, a busy process holds a message
  that was sent, a request past its first step names a run.
- `ClaimedOnce`, `SoleExecutor`, `DoneOnce` from `InductiveInvariant`. None of the
  three is inductive alone. Call an execution of a `workflows.run` message
  *fresh*. `ClaimInv`: a run that is absent or PENDING was never claimed, an
  unclaimed run has no fresh execution, `claims` is 0 or 1. It rests on a fact
  spread over the whole module: no action writes PENDING to a row that exists
  (the resume restores FAILED or CANCELED only). `SoleInv`: fresh executions of a
  run are one process. `DoneInv`: a committed `workflow_done` excludes a fresh
  execution, so no second one can come. The steps that touch neither claims nor
  events, nor begin a fresh execution, share one lemma (`QuietStep`).
- `NoPendingRunIsLost`, under the hypothesis that neither an API process nor a pool process dies
  (with either fault the property is false). `WaitInv` adds what makes a taken or
  dropped message harmless: the request that fails a PENDING run has read it as PENDING, the one that
  revokes follows its own cancellation, and `celery_task_id` names a message of the run, so that a revoke
  drops no message of a run that is still PENDING.
- `CancellationStays`: an action property, from `SettleInv`: no commit of a process rests on a row it
  read as CANCELED.
- `RunningIsCarried` from `CarriedInv`: without a fault of a process and until a user cancels it, a RUNNING run is executed
  by a process that will settle it, or the message of its resume waits, or the request that set it RUNNING has
  still to publish that message or to restore the status.

**DagEngine** (`DagEngineProofs`).

- `NeverDeadlocked`: the invariant `Accounted` says that a valid graph's
  steps are pending, settled or in flight, and pending ones neither of the
  others. At the head of the loop nothing is in flight, so if every pending step
  waited for a step that is not settled it would wait for a pending one, and the
  pending steps would be a cycle, which `Valid` excludes.
- `ImplementsSchedule` (`DagEngine` => `StepSchedule`): initial states map to initial
  states, every step to a step or a stutter. `Dispatch` is `Choose`, `Process` is
  `Land`, the two commits and the crash are `Stop`.
- `TypeCorrect`, with `RoundOK`: what the persist loop has left belongs to the round that `gather` ran.
- `NothingLostWithCommit`, `StepsGivenWhatTheyDependOn` from `RecordInv`: each output and
  each failure of an execution is in a row, committed or flushed, up to the result the persist loop has reached;
  committed rows only grow, so other executions take nothing away.
- `OneResultPerStep`, `ResumesAfterCommitted`, `AnswerIsCommitted` from `SoloInv`, which is about executions that
  do not overlap: a step has one of eight histories of step runs (`RowsOfStep`), a step
  that waits or is in flight has no COMPLETED one, and an execution flushes at most one of a step.
- `ExecutionAdvances`: each step of an execution ends it, takes a step of the graph out of its pending ones, or
  leaves these as they are and brings the round nearer to its end.

**RunEvents** (`RunEventsProofs`).

- `EventTypes`, with `IdsInv`: an id is given out once, and an execution that ended holds no event.
- `TailsSendTheLog` from `InOrder` and `TailInv`: as long as executions do not overlap, all the ids of an
  execution follow the committed ones, and the order of creation, in which the replay reads, is
  the order of the ids, in which the poll reads; what a tail has read is all there is up to `last_id`.
  The sorted reads are `OrderBy`, by the rank of each event; what it gives is a lemma of `OrderingProofs`.
- `LastFrameIsTrue` from `FrameInv`: which frames were put in the reader's queue at each step of the
  streamed run. The frame `completed` is sent while the row lock is held, so that the commit that follows
  either succeeds or the run raises and `silent` is set.
- `ReaderIsServed` from `ServedInv`: a reader that still waits has the execution under way or its last frame in the queue.

**Documents** with `DocumentProcessing` and `EmbeddingJobs` (`DocumentsProofs`). An action that moves a
request or a runner is described by its shape (`LoadOf`, `WriteOf`, `MoveOf`, `Ending`, `Gentle`, `Stops`),
and each invariant is kept by shapes rather than by forty actions one at a time.

- `DocumentTypes`, from `TypeInv`: a message keeps its task and its row, a row names only messages of
  its own, a processing under way holds the lock of its row and finds the row as it left it.
- `ChunksOfOneProcessing` follows from the same invariant: the lock says that nobody else writes chunks
  between the deletion of the old ones and the commit of the new.
- `QueuedRowsAreScheduled` from `QueueInv`. The property is not inductive: a revoke drops messages.
  A message or a runner counts only if no request is about to revoke it (`Doomed`). A request that revokes has
  written CANCELLED to what it read, or read it so; when it read CANCELLED of a row that another request has
  queued again with the same task, the row is `lost`.
- `CompletedMeansCovered` from `CoverInv`, for documents that no two jobs held together (`mixed`): a job that
  deletes vectors has written PROCESSING before (`Progress`), what is no longer on its list has a vector of its model, and the
  model it records is the one it inserted with. COMPLETED of a
  processing keeps the row's model because nobody else writes while it holds the lock.
- `BusyRowsAreCarried` and `IdleMeansSettled` from `EndInv`: whoever writes PROCESSING or CANCELLING has still to write over
  it, whatever other jobs did to the row meanwhile; so when nobody is at work nothing busy is left. A revoke
  is where this could break: it kills a job that was to write its outcome, and the cancellation itself must then write
  CANCELLED. It does, unless it has read CANCELLED already (`Overtaken`, section 6).

**ProviderConfig** (`ProviderConfigProofs`).

- `SettingsTypes`: a user's rows of a kind are all there or none is, also when two updates run into each other.
- `ReadsOwnSettings` from `StageInv`: what a request answers is built from what it loaded itself, between two awaits.
- `SavesWhatWasEntered` from `ApartInv`: for a user outside `mixed`, what an update has still to take from the shared copy
  is what it put there, what it has taken is held by the request, and the rows it found are still there.

**ChatTurns** with `Workspace` (`ChatTurnsProofs`).

- `NothingOutlives`: the
  property is not inductive: a tool commits the user's message without looking at the
  chat. The invariant adds that the chat of a flushed message is there (`PendingOK`), which a
  deletion keeps because it waits for the lock of the message. The other half is about the tree: what
  lies below a removed row is removed with it, since no row is deeper than two levels (`BelowClosed`).
  Steps that take no row away share `NoneGone`, the steps of a turn `TurnStep`.
- `SavesWhatWasAnswered`, `AsksTheLastQuestion`, `RegeneratesTheQuestion` from `OrderInv`. `OwnOK` and `KeptOK`
  say which messages of a turn are there at each of its steps; for a turn that ran alone in its
  chat, its messages follow all others while it lasts (`Follows`), nothing comes between them (`Together`), and
  nothing that another turn has flushed will (`Ahead`).
- `TurnTypes` from `BoundsInv`: the loop goes on only below `MaxSteps`, and an invalid argument counts
  only while fewer than `MaxInvalid` came before it in a row; a flushed message has an id of its own below the clock.

**Ordering** (`OrderingProofs`). `OrderedBy`: for a strict total order on a finite set, `OrderBy` is a
sequence of all its elements, each once and in order, since the numbers of predecessors of its elements differ
(`FewerPrecede`) and take every value (`RankTaken`). `Kept`, `KeptOnce`: `Keeping` takes
the elements at the given positions in their order, and repeats none that the sequence does not repeat. The
reads of `RunEvents`, the attempts of `Failover`, the lists and sources of `Retrieval` rest on these lemmas. A filter or a
fold of the standard modules is recursive, and nothing could be proved about it.

**Failover**, **Retrieval**, **CycleDetection**, **Chunker** (`AlgorithmsProofs`).

- `AnsweredByOne` and `TriedOnce` from `FailoverInv`. For one request (`AskOK`), the providers reported and those left
  are the attempts, none of them twice (`ChainedOnce`, `OfferedOnce`); output comes from the first one left;
  nothing has come out where the next provider may be tried. The breakers, the budget and the clock only restrict
  what a step may do, and no assumption about them is used.
- `AnswersAreGrounded` from `RetrievalInv`. The question is never later among the distinct queries than among the
  lines they come from, and it is put in front when it is missing, so that cutting the list to its
  limit does not lose it (`Planned`). What a search or the excerpts add is not in the context and
  has no chunk twice (`Searched`, `Excerpted`). The sources are the first of all documents near
  enough, sorted by their best match, so that one left out is not closer than one cited (`Built`).
- `DetectsCycles`: for any set of nodes. Finished nodes are closed
  under dependencies and hold no cycle (`FinishedInv`); the nodes of the path
  depend on one another in turn (`PathInv`), so that meeting one again closes a
  cycle (`PathCloses`); what a call has descended into is finished (`LeftInv`).
- `CoversText`: for any text, size and overlap. The invariant adds to `ChunksCover` that every chunk starts
  before the window while the loop runs: a turn moves the window by at least one position and not beyond its
  end (`WindowMoves`), since a valid overlap is at least 0 and smaller than the size. `ChunksFit` adds what the
  callers count on: indexes without a gap, no chunk empty, too long or beyond the text, no more of them than characters.
- `RequestAdvances`, `SearchAdvances`, `WindowAdvances`: each step ends the request, the search or the loop, or
  brings it nearer to its end, so that none of them can go round for ever.

**Assumptions.** `RunsAssumption` (`Faults` are known kinds, `None` is no run
or message); `DagAssumption` (steps are positive numbers, graphs and conditions are
functions on them); `RunEventsAssumption` (bounds are numbers, the streamed run is no pool process, `None` is no
outcome); `DocumentsAssumption` (the kinds of ids are disjoint and differ from `None`, `Unborn` and `Local`; there is a
model; chunks are finitely many, since they are counted); `ProviderConfigAssumption` (the order of the providers
lists each of them and is not empty);
`ChatTurnsAssumption` (the tool loop has at least one step, `WORKSPACE_TOOL_MAX_STEPS`, 4 in the code);
`FailoverAssumption` (the chain names a provider once, as `_parse_chain` has it; a threshold is positive);
`RetrievalAssumption` (the documents are finitely many and the relevant ones are selected once; at least one query is allowed);
`ChunkerAssumption` (lengths are natural numbers, sizes and overlaps integers);
`WorkspaceAssumption` (the kinds of rows are disjoint, a step or an agent run
belongs to a workflow, and the rows there at the start have their parents).

**Only model-checked.** Liveness: fairness and ENABLED are out of the prover's reach. What can be proved of it is its
safety half, that nothing is left to nobody, or that each step brings the end nearer; the runs show that the steps are then taken.

| liveness, checked by TLC | safety half, a theorem |
|---|---|
| `PendingIsPickedUp` | `NoPendingRunIsLost` |
| `RunningSettlesUnlessCanceled` | `RunningIsCarried` |
| `ExecutionEnds` | `ExecutionAdvances`, `NeverDeadlocked` |
| `StreamEnds` | `ReaderIsServed` |
| `TailEnds` | none: the next check of a tail reads the terminal status and ends it, so that all is fairness |
| `EverythingSettles` | `BusyRowsAreCarried`, `IdleMeansSettled`, `QueuedRowsAreScheduled` |
| `RequestEnds` | `RequestAdvances` |
| `SearchEnds` | `SearchAdvances`, on finite graphs |

`TypeOK` of `MCAssistant` is the conjunction of the type invariants of two modules that share nothing,
each a theorem of its module (`TurnTypes`, `SettingsTypes`), with a condition on the part of the run that is under way.

## 6. What does not hold

- **A cancelled run can stay RUNNING** (run `cancel`). The cancel commits between
  `claim_pending`'s commit and its refresh (workflow_runs.py:140-141); the task then
  holds a row that says CANCELED, `execute_run`'s `start()` writes RUNNING over it,
  and the revoke kills the task. The flow of `src/README.md:1443-1465` knows no such end.
- **A recovery resumes live runs** (run `live`). `updated_at` does not move during an
  execution, so a run older than `STALE_AFTER` looks dead to an API that restarts, against
  `recovery.py:17-21`; `_resume_workflow` does not claim, and the run is executed
  twice at a time.
- **A crash loses completed steps** (run `crash`), against `src/README.md:875-890`: step
  runs are committed with the final status only. A resume continues from completed
  steps after a *failed* execution.

Six more are in `PROJECT.json` without a run of their own; each is a behaviour of a module, and the
history variables `mixed` and `silent` or the predicate `Overtaken` mark it where a property makes an exception:

- The tail reads events, then the status (workflow_runs.py:253, 275): events committed with the terminal
  status between the two reads are never sent (`Poll`, `Check`).
- Without relevant documents the documents agent returns four values where its callers take two, and the
  turn fails (`AnswerRaises`, the end of `AddExcerpts`).
- An excerpt found by a document's name has score 0.0 and is cited before every retrieved chunk (`Excerpt`, `BuildSources`).
- Requests share one copy of the provider settings and reload it between the awaits of another: rows of one user
  are saved from another user's settings (`AssignRow`, `mixed`).
- Two jobs on one document overlap, and it ends COMPLETED without a vector, or INDEXED with those of another model (`mixed`).
- Two cancellations of a tool's rebuild can leave PROCESSING with nobody at work (`Overtaken`). The first marks CANCELLING before
  the tool has recorded the task, so it revokes nothing, and writes CANCELLED. The second, which had read CANCELLING,
  refreshes to CANCELLED and the task id; the job, which had read QUEUED before both, writes PROCESSING; the second kills it,
  and its CANCELLED is no change to what it holds, so that the UPDATE leaves the status alone (embedding_jobs.py:84). It takes three
  requests at once: the two of the `documents` run never reach it, and an instance with three, whose 2.6 million states are
  too many for a run, has no other way to leave PROCESSING behind.

Limits of the properties, from the same code:

- *Runs.* With a resume, two processes may execute a run
  (`SoleExecutorUnlessResumed` is conditional, `OneCompletedRow` and
  `CommittedNotRerun` hold while executions do not overlap, and so does `CompletedHasAnswer`: of two that overlap,
  the later writes no step run for a step that the earlier has completed, and may complete the run with a text that no row holds); a
  step that failed in two executions has two rows, and the next execution that
  runs it again fails in `get_step_run` (`OneCompletedRow` says that two is the most);
  `resolve_ai_service` raising, or a pool process dying, after the claim leaves a run RUNNING
  until a recovery.
- *Events.* A resumed run emits no `workflow_done`; a canceled run's events are never committed;
  `workflow_failed` of a stream is emitted after the last commit and never stored. Executions that overlap
  interleave their ids, so that a tail may skip the lower ones (`overlapped`). The tail of a run
  that was deleted polls until its client leaves.
  When a statement fails, the handler of the streamed run raises as well and no terminal
  frame comes: its reader waits for as long as it stays (`silent`; `StreamEnds` holds without it). A reader that leaves closes the
  session under the task of the run.
- *Documents.* Processing and rebuild share `celery_task_id`, so that a revoke may kill the other job (`lost`).
  The tools commit QUEUED and do not restore it when the broker refuses; an in-process job is
  gone with its API process; the provider lookup may raise after QUEUED was committed. A job cancelled late writes CANCELLED over
  the QUEUED of a resume; a cancellation of processing is overwritten by INDEXED, and a second
  delivery turns INDEXED into FAILED. A forced rebuild deletes the former vectors first; a
  failover in the middle of a job marks the row with the last model.
- *Model access.* The breaker is keyed by the provider alone; its state is read before the
  first try only; the local rate limit's exhaustion counts as a failure and opens the circuit; a stream
  bypasses breaker, limiter and retries; a batch of embeddings is one unit of the budget; the wait for the limiter is
  shorter than its window.
- *Settings.* Zero or two active rows make a lookup raise; two first updates meet at the
  unique constraint; the later of two updates wins; dimensions that are refused stay in the shared copy.
- *Chats.* Messages of one transaction are equal in `created_at`, and the history is ordered by it; those of turns that
  overlap come in the order their transactions began, so that a question need not be last (such turns are left out); the regeneration
  of a regenerated answer asks the question before it by id; a tool's commit saves the question of a turn
  that fails afterwards; after a failed flush no later tool works; the tool that creates steps takes deleted
  workflows, a rename as well. The lock of a flushed message stays for as long as the models take to answer.

## 7. Plan

Done: the workflow runs with engine and events, documents and embeddings, model access, retrieval and
chunking, chats, workspace and settings; every safety invariant of a run is a theorem of the module it is about, and
the liveness properties have their safety halves as theorems.

## 8. Not modelled

- *Authentication* (`services/auth.py`, `core/security.py`): one lookup and a signature each.
- *Provider clients* (`services/ai/providers/`): HTTP calls; they are the answers and errors of `Failover`.
- *Storage and text extractors*: file I/O and parsers; `DocumentProcessing` has their outcome, text or an exception.
- *Wiring, schemas, migrations, infrastructure, landing page*: no state of their own.
- Prompts and wording; the second attempt at a final answer that is no text; `sync_settings_to_db`; the copies of
  `tasks/provider_config.py`; PAUSED, which nothing writes; `continue_on_error=False` and `cancellation_check`, which no caller passes.
