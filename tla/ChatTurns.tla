------------------------------- MODULE ChatTurns -------------------------------
(***************************************************************************)
(* The turns of a chat: ChatService (app/services/chat.py) with its        *)
(* messages (repositories/messages.py), and the tool loop of the workspace *)
(* agent (agent.py, workspace_tool_specs.py) inside the transaction of the *)
(* turn.  Turns, edits of the workspace and deletions interleave.          *)
(*                                                                         *)
(* The id of a message is taken at its flush; created_at is the time at    *)
(* which the transaction began, here the number of ids given out until     *)
(* then: messages of transactions that ran beside each other may come in   *)
(* either order.                                                           *)
(***************************************************************************)
EXTENDS Workspace

CONSTANTS
    Turns,         \* POST .../messages, .../messages/stream, .../regenerate
    MaxActive,     \* bound on the turns that are active at a time
    MaxLoops,      \* bound on the tool loops of a behaviour
    MaxSteps,      \* WORKSPACE_TOOL_MAX_STEPS
    MaxInvalid     \* WORKSPACE_TOOL_ARGUMENT_MAX_RETRIES

ASSUME ChatTurnsAssumption == MaxSteps \in Nat \ {0} /\ MaxInvalid \in Nat

VARIABLES
    messages,      \* committed rows
    turn,          \* what each turn is doing
    clock,         \* ids given out
    loops,         \* tool loops so far
    overlapped     \* turns during which another one was active (history)

turnVars == <<messages, turn, clock, loops, overlapped>>

Over == {"saved", "failed"}

NotStarted == [pc |-> "none", kind |-> "none", chat |-> Absent, began |-> 0,
               pending |-> {}, target |-> Absent, question |-> Absent, last |-> Absent,
               steps |-> 0, invalid |-> 0, committed |-> FALSE, broken |-> FALSE]

TurnInit ==
    /\ WorkspaceInit
    /\ messages = {} /\ clock = 0 /\ loops = 0 /\ overlapped = {}
    /\ turn = [t \in Turns |-> NotStarted]

Active(t) == turn[t].pc \notin Over \cup {"none"}

(* A flushed message holds a key share lock on the row of its chat *)
Locked(x) == \E t \in Turns : turn[t].pending # {} /\ turn[t].chat \in Below(x)

-----------------------------------------------------------------------------
(* Faulty forms of definitions below, for the mutation runs of the README *)

CommitsUser_Always(t)  == TRUE
Precedes_Latest(m, n)  == TRUE
ByTime_None(m, S)      == TRUE
LastStep_OffByOne(t)   == turn[t].steps > MaxSteps

-----------------------------------------------------------------------------
(* The start of a turn: the queries of the dependencies begin the first     *)
(* transaction                                                              *)

Begin(t, kind, chat, target) ==
    /\ turn[t].pc = "none" /\ requests < MaxRequests
    /\ Cardinality({u \in Turns : Active(u)}) < MaxActive
    /\ turn' = [turn EXCEPT ![t] = [NotStarted EXCEPT !.pc = IF kind = "regenerate" THEN "load" ELSE "save",
                    !.kind = kind, !.chat = chat, !.began = clock, !.target = target,
                    !.question = IF kind = "regenerate" THEN Absent ELSE t]]
    /\ requests' = requests + 1
    /\ LET others == {u \in Turns : Active(u) /\ turn[u].chat = chat} IN
       overlapped' = IF others = {} THEN overlapped ELSE overlapped \cup others \cup {t}
    /\ UNCHANGED <<row, edit, messages, clock, loops>>

CreateMessage(t)       == \E c \in Chats : OwnedChat(c) /\ Begin(t, "create", c, Absent)
CreateMessageStream(t) == \E c \in Chats : OwnedChat(c) /\ Begin(t, "stream", c, Absent)
RegenerateMessage(t)   == \E m \in {n \in messages : n.role = "assistant"} :
                                Begin(t, "regenerate", m.chat, m)

(* What the properties ask of a turn that is over *)
Ended(t, pc) ==
    [turn EXCEPT ![t] = [NotStarted EXCEPT !.pc = pc, !.kind = turn[t].kind, !.chat = turn[t].chat,
                            !.committed = turn[t].committed]]

(* An exception ends the turn: error response, or the failed frame.  The    *)
(* session is closed and takes back what it had not committed.              *)
Raise(t) ==
    /\ turn' = Ended(t, "failed")
    /\ UNCHANGED <<workspaceVars, messages, clock, loops, overlapped>>

Message(t, role, id) ==
    [id |-> id, at |-> turn[t].began, chat |-> turn[t].chat, role |-> role, turn |-> t,
     question |-> turn[t].question]

-----------------------------------------------------------------------------
(* The user's message: flushed by create_message, committed by              *)
(* create_message_stream, whose next transaction begins at once             *)

CommitsUser(t) == turn[t].kind = "stream"

SaveUser(t) ==
    /\ turn[t].pc = "save" /\ Exists(turn[t].chat)
    /\ clock' = clock + 1
    /\ LET m == Message(t, "user", clock + 1) IN
       IF CommitsUser(t)
       THEN /\ messages' = messages \cup {m}
            /\ turn' = [turn EXCEPT ![t].pc = "history", ![t].began = clock + 1]
       ELSE /\ turn' = [turn EXCEPT ![t].pc = "history", ![t].pending = {m}]
            /\ UNCHANGED messages
    /\ UNCHANGED <<workspaceVars, loops, overlapped>>

SaveUserFails(t) == turn[t].pc = "save" /\ ~Exists(turn[t].chat) /\ Raise(t)

(* previous_user_message, by id *)
Precedes(m, n) == m.id < n.id

PreviousUserMessages(n) ==
    {m \in messages : m.chat = n.chat /\ m.role = "user" /\ Precedes(m, n)}

LoadQuestion(t) ==
    /\ turn[t].pc = "load" /\ turn[t].target \in messages
    /\ \E m \in PreviousUserMessages(turn[t].target) :
        /\ \A n \in PreviousUserMessages(turn[t].target) : n.id <= m.id
        /\ turn' = [turn EXCEPT ![t].pc = "history", ![t].question = m.turn]
    /\ UNCHANGED <<workspaceVars, messages, clock, loops, overlapped>>

(* 404, 409 *)
NothingToRegenerate(t) ==
    /\ turn[t].pc = "load"
    /\ turn[t].target \notin messages \/ PreviousUserMessages(turn[t].target) = {}
    /\ Raise(t)

(* list_for_chat orders by created_at: of two messages of one transaction   *)
(* either may be the last                                                   *)
ByTime(m, S) == \A n \in S : n.at <= m.at

History(t) == {m \in messages : m.chat = turn[t].chat} \cup turn[t].pending

ListForChat(t) ==
    /\ turn[t].pc = "history"
    /\ \/ \E m \in History(t) :
            /\ ByTime(m, History(t))
            /\ turn' = [turn EXCEPT ![t].pc = "answer", ![t].last = [role |-> m.role, turn |-> m.turn]]
       \/ /\ History(t) = {}
          /\ turn' = [turn EXCEPT ![t].pc = "answer"]
    /\ UNCHANGED <<workspaceVars, messages, clock, loops, overlapped>>

(* The request, or the chat, names an agent that does not exist *)
InvalidAgent(t) == turn[t].pc = "history" /\ Raise(t)

-----------------------------------------------------------------------------
(* The answer of the models; which of the two kinds of turn it is depends   *)
(* on the agent and its tools.  Besides the providers, the documents agent  *)
(* itself may raise: without relevant documents it returns four values      *)
(* where the caller takes two.                                              *)

Reply(t) == [turn EXCEPT ![t].pc = "reply", ![t].steps = 0, ![t].invalid = 0]

Answers(t) ==
    /\ turn[t].pc = "answer"
    /\ turn' = Reply(t)
    /\ UNCHANGED <<workspaceVars, messages, clock, loops, overlapped>>

AnswerRaises(t) == turn[t].pc = "answer" /\ Raise(t)

(* _run_workspace_task.  A first call without a tool, or an exception of    *)
(* it, leaves the question to the documents agent: Answers.                 *)
FirstToolCall(t) ==
    /\ turn[t].pc = "answer" /\ loops < MaxLoops
    /\ turn' = [turn EXCEPT ![t].pc = "tool", ![t].steps = 1]
    /\ loops' = loops + 1
    /\ UNCHANGED <<workspaceVars, messages, clock, overlapped>>

(* A tool that only reads, or raises before it wrote anything; an unknown   *)
(* tool, which does not end a series of invalid arguments: the model is     *)
(* told                                                                     *)
ToolReads(t) ==
    /\ turn[t].pc = "tool"
    /\ \E valid \in BOOLEAN :
        turn' = [turn EXCEPT ![t].pc = "next", ![t].invalid = IF valid THEN 0 ELSE @]
    /\ UNCHANGED <<workspaceVars, messages, clock, loops, overlapped>>

InvalidArguments(t) ==
    /\ turn[t].pc = "tool"
    /\ turn' = IF turn[t].invalid + 1 > MaxInvalid THEN Reply(t)
                ELSE [turn EXCEPT ![t].pc = "next", ![t].invalid = @ + 1]
    /\ UNCHANGED <<workspaceVars, messages, clock, loops, overlapped>>

(* A tool commits the session of the turn, with the user's message in it    *)
ToolCommits(t) ==
    /\ messages' = messages \cup turn[t].pending
    /\ turn' = [turn EXCEPT ![t].pc = "next", ![t].invalid = 0, ![t].pending = {},
                ![t].committed = TRUE, ![t].began = clock]
    /\ UNCHANGED <<edit, requests, clock, loops, overlapped>>

(* create_workflow, create_workflow_step: the argument names any workflow   *)
ToolCreates(t) ==
    /\ turn[t].pc = "tool" /\ ~turn[t].broken
    /\ \E x \in Workflows \cup Steps :
        /\ row[x] = "none" /\ Exists(Parent(x))
        /\ row' = [row EXCEPT ![x] = "live"]
    /\ ToolCommits(t)

(* update_files, sync, process_document, rebuild, run_workflow: rows that   *)
(* are not part of this module                                              *)
ToolQueuesJob(t) ==
    /\ turn[t].pc = "tool" /\ ~turn[t].broken
    /\ UNCHANGED row
    /\ ToolCommits(t)

(* A flush that fails takes the whole transaction back; the session refuses *)
(* everything after it, and the model is told that the tool failed          *)
ToolBreaks(t) ==
    /\ turn[t].pc = "tool"
    /\ \/ turn[t].broken
       \/ \E x \in Workflows \cup Steps : row[x] = "none" /\ ~Exists(Parent(x))
    /\ turn' = [turn EXCEPT ![t].pc = "next", ![t].invalid = 0, ![t].broken = TRUE, ![t].pending = {}]
    /\ UNCHANGED <<workspaceVars, messages, clock, loops, overlapped>>

LastStep(t) == turn[t].steps >= MaxSteps

(* Another tool call; after the last step the loop ends with a notice *)
NextToolCall(t) ==
    /\ turn[t].pc = "next"
    /\ turn' = IF LastStep(t) THEN Reply(t)
                ELSE [turn EXCEPT ![t].pc = "tool", ![t].steps = @ + 1]
    /\ UNCHANGED <<workspaceVars, messages, clock, loops, overlapped>>

FinalAnswer(t) ==
    /\ turn[t].pc = "next"
    /\ turn' = Reply(t)
    /\ UNCHANGED <<workspaceVars, messages, clock, loops, overlapped>>

NextCallRaises(t) == turn[t].pc = "next" /\ Raise(t)

-----------------------------------------------------------------------------
(* The assistant's message and the commit; then the response, or the        *)
(* completed frame                                                          *)

SaveAnswer(t) ==
    /\ turn[t].pc = "reply" /\ ~turn[t].broken /\ Exists(turn[t].chat)
    /\ clock' = clock + 1
    /\ messages' = messages \cup turn[t].pending \cup {Message(t, "assistant", clock + 1)}
    /\ turn' = Ended(t, "saved")
    /\ UNCHANGED <<workspaceVars, loops, overlapped>>

SaveAnswerFails(t) ==
    /\ turn[t].pc = "reply"
    /\ turn[t].broken \/ ~Exists(turn[t].chat)
    /\ Raise(t)

(* The reader of a stream leaves and its generator is cancelled; or the     *)
(* process dies                                                             *)
Abort(t) ==
    /\ Active(t)
    /\ Raise(t)

-----------------------------------------------------------------------------
(* The edits of the workspace next to the turns.  A deletion waits for the  *)
(* messages that are flushed and not committed, and takes the others along. *)

Edit(e) ==
    /\ Request(e) \/ Save(e)
    /\ UNCHANGED turnVars

DeleteRows(e) ==
    /\ RemoveProject(e) \/ RemoveChat(e)
    /\ ~Locked(edit[e].on)
    /\ messages' = {m \in messages : m.chat \notin Below(edit[e].on)}
    /\ UNCHANGED <<turn, clock, loops, overlapped>>

TurnNext ==
    \/ \E e \in Editors : Edit(e) \/ DeleteRows(e)
    \/ \E t \in Turns :
        \/ CreateMessage(t) \/ CreateMessageStream(t) \/ RegenerateMessage(t)
        \/ SaveUser(t) \/ SaveUserFails(t) \/ LoadQuestion(t) \/ NothingToRegenerate(t)
        \/ ListForChat(t) \/ InvalidAgent(t) \/ Answers(t) \/ AnswerRaises(t)
        \/ FirstToolCall(t) \/ ToolReads(t) \/ InvalidArguments(t)
        \/ ToolCreates(t) \/ ToolQueuesJob(t) \/ ToolBreaks(t)
        \/ NextToolCall(t) \/ FinalAnswer(t) \/ NextCallRaises(t)
        \/ SaveAnswer(t) \/ SaveAnswerFails(t) \/ Abort(t)

TurnSpec == TurnInit /\ [][TurnNext]_<<workspaceVars, turnVars>>

-----------------------------------------------------------------------------
(* Properties *)

TurnTypeOK ==
    /\ row \in [Rows -> {"none", "live", "deleted_at", "gone"}]
    /\ \A x \in Rows \ Workflows : row[x] # "deleted_at"
    /\ edit \in [Editors -> [op : {"idle", "create", "rename", "delete"}, on : Rows \cup {Absent}]]
    /\ \A m, n \in messages : m.id = n.id => m = n
    /\ \A m \in messages : m.id <= clock /\ m.at < m.id /\ m.role \in {"user", "assistant"}
    /\ \A t \in Turns :
        /\ turn[t].pc \in Over \cup {"none", "load", "save", "history", "answer", "tool", "next", "reply"}
        /\ turn[t].steps \in 0 .. MaxSteps /\ turn[t].invalid \in 0 .. MaxInvalid
        /\ Cardinality(turn[t].pending) <= 1

(* What a chat keeps of a turn: the answer exactly when the turn was        *)
(* answered; the question of a message that was refused, failed or given up *)
(* only when it was streamed, or when a tool of the turn committed.         *)
TurnSaved ==
    \A t \in Turns :
        LET asked    == \E m \in messages : m.turn = t /\ m.role = "user"
            answered == \E m \in messages : m.turn = t /\ m.role = "assistant"
        IN  /\ answered => turn[t].pc = "saved" /\ (asked \/ turn[t].kind = "regenerate")
            /\ turn[t].pc = "saved" /\ Exists(turn[t].chat) => answered
            /\ asked /\ ~answered => turn[t].kind = "stream" \/ turn[t].committed

(* A regeneration asks the question that the chosen answer belongs to, when *)
(* no other turn ran beside that one and it was no regeneration itself.     *)
RegeneratesItsQuestion ==
    \A t \in Turns : turn[t].kind = "regenerate" /\ turn[t].question # Absent =>
        LET answer == turn[t].target IN
        \/ turn[t].question = answer.question
        \/ answer.turn \in overlapped \/ turn[answer.turn].kind = "regenerate"

(* The history that goes to the model ends with the question of the turn,   *)
(* when no other turn ran beside it in the chat.                            *)
AsksItsQuestion ==
    \A t \in Turns \ overlapped : turn[t].kind # "regenerate" /\ turn[t].last # Absent =>
        turn[t].last = [role |-> "user", turn |-> t]

(* What belongs to a deleted row is deleted with it, and nothing is added   *)
(* to it afterwards: not by a request that read the row before, nor by a    *)
(* turn or one of its tools.                                                *)
NothingOutlivesItsParent ==
    /\ \A x \in Rows \ {Project} : Exists(x) => Exists(Parent(x))
    /\ \A m \in messages : Exists(m.chat)
=============================================================================
