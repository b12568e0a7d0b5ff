--------------------------- MODULE ChatTurnsProofs ---------------------------
(***************************************************************************)
(* Nothing is left below a deleted project, chat or workflow, and nothing  *)
(* is added below it afterwards, for any rows, requests and turns.         *)
(*                                                                         *)
(* What a request read before does not matter: it inserts only below a row *)
(* that is there.  A turn's messages wait in its transaction; the chat     *)
(* they refer to is locked as long as they do, so that no deletion can     *)
(* pass between the flush of the user's message and a commit, even one of  *)
(* a tool, which looks at no chat.                                         *)
(*                                                                         *)
(* The second part is about the messages of a turn: what a chat keeps of   *)
(* it, and that they stay together, in the order of the ids and of         *)
(* created_at, as long as no other turn ran beside it.                     *)
(***************************************************************************)
EXTENDS ChatTurns, FiniteSetTheorems, TLAPS

RowsOK ==
    /\ row \in [Rows -> {"none", "live", "deleted_at", "gone"}]
    /\ \A x \in Rows \ {Project} : Exists(x) => Exists(Parent(x))

EditsOK == edit \in [Editors -> [op : {"idle", "create", "rename", "delete"}, on : Rows \cup {Absent}]]

MessageType ==
    [id : Nat, at : Nat, chat : Chats, role : {"user", "assistant"}, turn : Turns,
     question : Turns \cup {Absent}]

TurnType ==
    [pc : Over \cup {"none", "load", "save", "history", "answer", "tool", "next", "reply"},
     kind : {"none", "create", "stream", "regenerate"}, chat : Chats \cup {Absent}, began : Nat,
     pending : SUBSET MessageType, target : MessageType \cup {Absent},
     question : Turns \cup {Absent},
     last : [role : {"user", "assistant"}, turn : Turns] \cup {Absent},
     steps : Nat, invalid : Nat, committed : BOOLEAN, broken : BOOLEAN]

(* a turn that began has a chat; the messages it flushed are of that chat,  *)
(* and the chat is there                                                    *)
PendingOK(r) ==
    /\ r.pc # "none" => r.chat \in Chats
    /\ r.pending # {} => r.pc # "none" /\ Exists(r.chat)
    /\ \A m \in r.pending : m.chat = r.chat

TurnsOK == clock \in Nat /\ turn \in [Turns -> TurnType] /\ \A t \in Turns : PendingOK(turn[t])

MessagesOK == messages \subseteq MessageType /\ \A m \in messages : Exists(m.chat)

WorkspaceInv == RowsOK /\ EditsOK /\ TurnsOK /\ MessagesOK

-----------------------------------------------------------------------------
(* The tree of the rows *)

LEMMA ParentOfRow ==
  ASSUME NEW x \in Rows
  PROVE  /\ x = Project => Parent(x) = Absent
         /\ x \in Chats \cup Workflows => Parent(x) = Project
         /\ x \in Leaves => Parent(x) = WorkflowOf[x] /\ Parent(x) \in Workflows
  BY WorkspaceAssumption DEF Parent, Rows

(* What is below a row takes what is below itself along *)
LEMMA BelowClosed ==
  ASSUME NEW x \in Rows, NEW y \in Rows \ {Project}, Parent(y) \in Below(x)
  PROVE  y \in Below(x)
<1>1. Parent(y) = x => y \in Below(x)
  BY DEF Below
<1>2. CASE y \in Chats \cup Workflows
  <2>1. Parent(y) = Project /\ Parent(Project) = Absent /\ Absent # x /\ Project \notin Leaves
    BY <1>2, ParentOfRow, WorkspaceAssumption DEF Rows
  <2> QED
    BY <1>1, <2>1 DEF Below
<1>3. CASE y \in Leaves
  <2>1. Parent(y) \in Workflows /\ Parent(y) \notin Leaves
    BY <1>3, ParentOfRow, WorkspaceAssumption
  <2>2. Parent(y) = x \/ Parent(Parent(y)) = x
    BY <2>1 DEF Below
  <2> QED
    BY <1>1, <1>3, <2>2 DEF Below
<1> QED
  BY <1>2, <1>3 DEF Rows

(* No chat is below a step or an agent run *)
LEMMA NoChatBelowLeaf ==
  ASSUME NEW x \in Leaves, NEW c \in Chats
  PROVE  c \notin Below(x)
<1>1. c \in Rows /\ x \in Rows /\ c # x /\ c \notin Leaves /\ Project # x
  BY WorkspaceAssumption DEF Rows
<1>2. Parent(c) = Project
  BY <1>1, ParentOfRow
<1> QED
  BY <1>1, <1>2 DEF Below

-----------------------------------------------------------------------------
(* The writes of the requests *)

LEMMA InsertKeeps ==
  ASSUME WorkspaceInv, NEW x \in Rows, row[x] = "none", x = Project \/ Exists(Parent(x)),
         row' = [row EXCEPT ![x] = "live"]
  PROVE  /\ RowsOK'
         /\ \A y \in Rows : Exists(y) => Exists(y)'
<1> USE DEF WorkspaceInv, RowsOK, Exists
<1>1. \A y \in Rows : Exists(y) => Exists(y)'
  OBVIOUS
<1>2. row' \in [Rows -> {"none", "live", "deleted_at", "gone"}]
  OBVIOUS
<1>3. \A y \in Rows \ {Project} : Parent(y) \in Rows
  BY ParentOfRow DEF Rows
<1>4. ASSUME NEW y \in Rows \ {Project}, Exists(y)' PROVE Exists(Parent(y))'
  <2>1. Exists(Parent(y))
    BY <1>4
  <2> QED
    BY <1>1, <1>3, <2>1
<1> QED
  BY <1>1, <1>2, <1>4 DEF Parent

LEMMA RemoveKeeps ==
  ASSUME WorkspaceInv, NEW x \in Rows,
         row' = [y \in Rows |-> IF y \in Below(x) /\ Exists(y) THEN "gone" ELSE row[y]]
  PROVE  /\ RowsOK'
         /\ \A y \in Rows : Exists(y) /\ y \notin Below(x) => Exists(y)'
<1> USE DEF WorkspaceInv, RowsOK
<1>1. \A y \in Rows : Exists(y)' <=> Exists(y) /\ y \notin Below(x)
  BY DEF Exists
<1>2. row' \in [Rows -> {"none", "live", "deleted_at", "gone"}]
  OBVIOUS
<1>3. ASSUME NEW y \in Rows \ {Project}, Exists(y)' PROVE Exists(Parent(y))'
  <2>1. Exists(Parent(y)) /\ y \notin Below(x)
    BY <1>1, <1>3
  <2>2. Parent(y) \notin Below(x) /\ Parent(y) \in Rows
    BY <2>1, BelowClosed, ParentOfRow DEF Rows
  <2> QED
    BY <1>1, <2>1, <2>2
<1> QED
  BY <1>1, <1>2, <1>3 DEF Parent

-----------------------------------------------------------------------------
(* One lemma per kind of step.  The first: rows may come, or stay with      *)
(* deleted_at, but none goes.                                               *)

LEMMA NoneGone ==
  ASSUME WorkspaceInv, RowsOK', EditsOK', \A y \in Rows : Exists(y) => Exists(y)',
         UNCHANGED turnVars
  PROVE  WorkspaceInv'
<1> USE DEF WorkspaceInv, turnVars
<1>1. Chats \subseteq Rows
  BY DEF Rows
<1>2. TurnsOK'
  BY <1>1 DEF TurnsOK, PendingOK
<1>3. MessagesOK'
  BY <1>1 DEF MessagesOK, MessageType
<1> QED
  BY <1>2, <1>3

LEMMA StartStep ==
  ASSUME WorkspaceInv, NEW e \in Editors, Request(e), UNCHANGED turnVars
  PROVE  WorkspaceInv'
<1>1. PICK op \in {"create", "rename", "delete"}, x \in Rows : Start(e, op, x)
  <2>1. Project \in Rows /\ Chats \subseteq Rows /\ Workflows \subseteq Rows /\ Steps \subseteq Rows
           /\ AgentRuns \subseteq Rows
    BY DEF Rows, Leaves
  <2>2. CASE CreateProject(e) \/ CreateChat(e) \/ CreateWorkflow(e) \/ CreateStep(e) \/ RunAgent(e)
    BY <2>1, <2>2 DEF CreateProject, CreateChat, CreateWorkflow, CreateStep, RunAgent
  <2>3. CASE UpdateProject(e) \/ UpdateChat(e) \/ UpdateWorkflow(e)
    BY <2>1, <2>3 DEF UpdateProject, UpdateChat, UpdateWorkflow
  <2>4. CASE DeleteProject(e) \/ DeleteChat(e) \/ DeleteWorkflow(e) \/ DeleteStep(e)
    BY <2>1, <2>4 DEF DeleteProject, DeleteChat, DeleteWorkflow, DeleteStep
  <2> QED
    BY <2>2, <2>3, <2>4 DEF Request
<1>2. EditsOK'
  BY <1>1 DEF Start, WorkspaceInv, EditsOK
<1>3. RowsOK' /\ \A y \in Rows : Exists(y) => Exists(y)'
  BY <1>1 DEF Start, WorkspaceInv, RowsOK, Exists, Parent
<1> QED
  BY <1>2, <1>3, NoneGone

LEMMA SaveStep ==
  ASSUME WorkspaceInv, NEW e \in Editors, Save(e), UNCHANGED turnVars
  PROVE  WorkspaceInv'
<1> DEFINE x == edit[e].on
<1>1. Ends(e)
  BY DEF Save, InsertProject, InsertChat, InsertWorkflow, InsertStep, InsertAgentRun, Insert,
         RenameProject, RenameChat, RenameWorkflow, Rename, RemoveStep, Remove, RemoveWorkflow
<1>2. EditsOK'
  BY <1>1 DEF Ends, NoEdit, WorkspaceInv, EditsOK
<1>3. x \in Rows
  <2>1. \A op, S : S \subseteq Rows /\ Writes(e, op, S) => x \in Rows
    BY DEF Writes
  <2>2. {Project} \subseteq Rows /\ Chats \subseteq Rows /\ Workflows \subseteq Rows /\ Steps \subseteq Rows
           /\ AgentRuns \subseteq Rows
    BY DEF Rows, Leaves
  <2> QED
    BY <2>1, <2>2 DEF Save, InsertProject, InsertChat, InsertWorkflow, InsertStep, InsertAgentRun,
         RenameProject, RenameChat, RenameWorkflow, RemoveStep, RemoveWorkflow
<1> HIDE DEF x
<1>4. CASE row' = row
  <2>1. RowsOK' /\ \A y \in Rows : Exists(y) => Exists(y)'
    BY <1>4 DEF WorkspaceInv, RowsOK, Exists, Parent
  <2> QED
    BY <1>2, <2>1, NoneGone
<1>5. CASE Insert(e)
  <2>1. CASE row[x] = "none" /\ (x = Project \/ Exists(Parent(x)))
    <3>1. row' = [row EXCEPT ![x] = "live"]
      BY <1>5, <2>1 DEF Insert, x
    <3> QED
      BY <1>2, <1>3, <2>1, <3>1, InsertKeeps, NoneGone
  <2>2. CASE ~(row[x] = "none" /\ (x = Project \/ Exists(Parent(x))))
    BY <1>4, <1>5, <2>2 DEF Insert, x
  <2> QED
    BY <2>1, <2>2
<1>6. CASE Rename(e)
  BY <1>4, <1>6 DEF Rename
<1>7. CASE RemoveStep(e)
  <2>1. x \in Leaves /\ row' = [y \in Rows |-> IF y \in Below(x) /\ Exists(y) THEN "gone" ELSE row[y]]
    BY <1>7 DEF RemoveStep, Writes, Remove, x, Leaves
  <2>2. RowsOK' /\ \A y \in Rows : Exists(y) /\ y \notin Below(x) => Exists(y)'
    BY <1>3, <2>1, RemoveKeeps
  <2>3. \A c \in Chats : Exists(c) => Exists(c)'
    BY <2>1, <2>2, NoChatBelowLeaf DEF Rows
  <2>4. TurnsOK'
    BY <2>3 DEF WorkspaceInv, TurnsOK, PendingOK, turnVars
  <2>5. MessagesOK'
    BY <2>3 DEF WorkspaceInv, MessagesOK, MessageType, turnVars
  <2> QED
    BY <1>2, <2>2, <2>4, <2>5 DEF WorkspaceInv
<1>8. CASE RemoveWorkflow(e)
  <2>1. row' = [row EXCEPT ![x] = IF row[x] = "live" THEN "deleted_at" ELSE row[x]]
    BY <1>8 DEF RemoveWorkflow, x
  <2>2. \A y \in Rows : Exists(y)' <=> Exists(y)
    BY <1>3, <2>1 DEF WorkspaceInv, RowsOK, Exists
  <2>3. row' \in [Rows -> {"none", "live", "deleted_at", "gone"}]
    BY <1>3, <2>1 DEF WorkspaceInv, RowsOK
  <2>4. \A y \in Rows \ {Project} : Parent(y) \in Rows
    BY ParentOfRow DEF Rows
  <2>5. RowsOK'
    BY <2>2, <2>3, <2>4 DEF WorkspaceInv, RowsOK, Parent
  <2> QED
    BY <1>2, <2>2, <2>5, NoneGone
<1> QED
  BY <1>5, <1>6, <1>7, <1>8 DEF Save, InsertProject, InsertChat, InsertWorkflow, InsertStep, InsertAgentRun,
         RenameProject, RenameChat, RenameWorkflow

(* A deletion waits for the messages flushed below the row, and takes the   *)
(* committed ones along.                                                    *)
LEMMA DeletionStep ==
  ASSUME WorkspaceInv, NEW e \in Editors, DeleteRows(e)
  PROVE  WorkspaceInv'
<1>1. PICK x \in Rows :
         /\ Ends(e) /\ ~Locked(x)
         /\ row' = [y \in Rows |-> IF y \in Below(x) /\ Exists(y) THEN "gone" ELSE row[y]]
         /\ messages' = {m \in messages : m.chat \notin Below(x)}
  BY DEF DeleteRows, RemoveProject, RemoveChat, Remove, Writes, Rows
<1>2. turn' = turn /\ clock' = clock
  BY DEF DeleteRows
<1>3. EditsOK'
  BY <1>1 DEF Ends, NoEdit, WorkspaceInv, EditsOK
<1>4. RowsOK' /\ \A y \in Rows : Exists(y) /\ y \notin Below(x) => Exists(y)'
  BY <1>1, RemoveKeeps
<1>5. TurnsOK'
  <2>1. \A t \in Turns : turn[t].pending # {} => turn[t].chat \notin Below(x) /\ turn[t].chat \in Rows
    BY <1>1 DEF Locked, WorkspaceInv, TurnsOK, PendingOK, Rows
  <2> QED
    BY <1>2, <1>4, <2>1 DEF WorkspaceInv, TurnsOK, PendingOK
<1>6. MessagesOK'
  BY <1>1, <1>4 DEF WorkspaceInv, MessagesOK, MessageType, Rows
<1> QED
  BY <1>3, <1>4, <1>5, <1>6 DEF WorkspaceInv

-----------------------------------------------------------------------------
(* The turns.  What the lemmas of the actions come to: a turn that keeps    *)
(* its part of the invariant, rows and messages that keep theirs.           *)

LEMMA TurnStep ==
  ASSUME WorkspaceInv, RowsOK', UNCHANGED edit, \A y \in Rows : Exists(y) => Exists(y)',
         clock' \in Nat, MessagesOK', NEW t \in Turns, NEW r \in TurnType,
         turn' = [turn EXCEPT ![t] = r], PendingOK(r)'
  PROVE  WorkspaceInv'
<1>1. EditsOK'
  BY DEF WorkspaceInv, EditsOK
<1>2. turn' \in [Turns -> TurnType] /\ turn'[t] = r /\ \A u \in Turns \ {t} : turn'[u] = turn[u]
  BY DEF WorkspaceInv, TurnsOK
<1>3. \A u \in Turns \ {t} : PendingOK(turn[u])'
  <2>1. Chats \subseteq Rows
    BY DEF Rows
  <2> QED
    BY <1>2, <2>1 DEF WorkspaceInv, TurnsOK, PendingOK
<1>4. PendingOK(turn[t])'
  BY <1>2 DEF PendingOK
<1> QED
  BY <1>1, <1>2, <1>3, <1>4 DEF WorkspaceInv, TurnsOK

(* A step that leaves rows and messages alone *)
LEMMA QuietStep ==
  ASSUME WorkspaceInv, UNCHANGED <<row, edit, messages>>, clock' \in Nat,
         NEW t \in Turns, NEW r \in TurnType, turn' = [turn EXCEPT ![t] = r],
         PendingOK(r)
  PROVE  WorkspaceInv'
<1>1. RowsOK' /\ MessagesOK' /\ (\A y \in Rows : Exists(y) => Exists(y)') /\ PendingOK(r)'
  BY DEF WorkspaceInv, RowsOK, MessagesOK, PendingOK, Exists, Parent
<1> QED
  BY <1>1, TurnStep

LEMMA BeginStep ==
  ASSUME WorkspaceInv, NEW t \in Turns,
         CreateMessage(t) \/ CreateMessageStream(t) \/ RegenerateMessage(t)
  PROVE  WorkspaceInv'
<1>1. PICK kind \in {"create", "stream", "regenerate"}, c \in Chats, m \in MessageType \cup {Absent} :
         Begin(t, kind, c, m)
  BY DEF CreateMessage, CreateMessageStream, RegenerateMessage, WorkspaceInv, MessagesOK, MessageType
<1> DEFINE r == [NotStarted EXCEPT !.pc = IF kind = "regenerate" THEN "load" ELSE "save",
                    !.kind = kind, !.chat = c, !.began = clock, !.target = m,
                    !.question = IF kind = "regenerate" THEN Absent ELSE t]
<1>2. r \in TurnType /\ r.pending = {}
  BY DEF TurnType, NotStarted, WorkspaceInv, TurnsOK
<1>3. PendingOK(r)
  BY <1>2 DEF PendingOK, NotStarted
<1>4. UNCHANGED <<row, edit, messages, clock>> /\ turn' = [turn EXCEPT ![t] = r]
  BY <1>1 DEF Begin
<1> QED
  BY <1>2, <1>3, <1>4, QuietStep DEF WorkspaceInv, TurnsOK

(* An exception takes back what the turn had not committed *)
LEMMA RaiseStep ==
  ASSUME WorkspaceInv, NEW t \in Turns, turn[t].pc # "none", Raise(t)
  PROVE  WorkspaceInv'
<1> DEFINE r == [NotStarted EXCEPT !.pc = "failed", !.kind = turn[t].kind, !.chat = turn[t].chat,
                    !.committed = turn[t].committed]
<1>1. turn[t] \in TurnType /\ turn[t].chat \in Chats
  BY DEF WorkspaceInv, TurnsOK, PendingOK
<1>2. r \in TurnType /\ PendingOK(r)
  BY <1>1 DEF TurnType, NotStarted, Over, PendingOK
<1>3. UNCHANGED <<row, edit, messages, clock>> /\ turn' = [turn EXCEPT ![t] = r]
  BY DEF Raise, Ended, workspaceVars
<1> QED
  BY <1>2, <1>3, QuietStep DEF WorkspaceInv, TurnsOK

(* A step of a turn between its question and its answer that writes nothing *)
LEMMA GoesOn ==
  ASSUME WorkspaceInv, NEW t \in Turns, turn[t].pc # "none",
         UNCHANGED <<row, edit, messages, clock>>,
         NEW r \in TurnType, turn' = [turn EXCEPT ![t] = r],
         r.pc # "none", r.chat = turn[t].chat, r.pending \subseteq turn[t].pending
  PROVE  WorkspaceInv'
<1>1. PendingOK(r)
  BY DEF WorkspaceInv, TurnsOK, PendingOK
<1> QED
  BY <1>1, QuietStep DEF WorkspaceInv, TurnsOK

(* What the steps of the answer do to the record of the turn: they choose   *)
(* the last message of its history, go on, or take back what it flushed     *)
Onward(t, r) ==
    /\ turn[t].pc \in {"history", "answer", "tool", "next"}
    /\ r.pc \in {"answer", "tool", "next", "reply"}
    /\ r.kind = turn[t].kind /\ r.chat = turn[t].chat /\ r.began = turn[t].began
    /\ r.question = turn[t].question /\ r.target = turn[t].target /\ r.committed = turn[t].committed
    /\ \/ r.pending = turn[t].pending /\ r.broken = turn[t].broken
       \/ r.pending = {} /\ r.broken
    /\ \/ r.last = turn[t].last
       \/ /\ turn[t].pc = "history"
          /\ \E m \in History(t) : ByTime(m, History(t)) /\ r.last = [role |-> m.role, turn |-> m.turn]

LEMMA OnwardStep ==
  ASSUME WorkspaceInv, NEW t \in Turns,
         \/ ListForChat(t) \/ Answers(t) \/ FirstToolCall(t) \/ ToolReads(t)
         \/ InvalidArguments(t) \/ ToolBreaks(t) \/ NextToolCall(t) \/ FinalAnswer(t)
  PROVE  /\ UNCHANGED <<row, edit, messages, clock, overlapped>>
         /\ \E r \in TurnType : turn' = [turn EXCEPT ![t] = r] /\ Onward(t, r)
<1>1. turn[t] \in TurnType /\ messages \subseteq MessageType /\ turn[t].pending \subseteq MessageType
  BY DEF WorkspaceInv, TurnsOK, MessagesOK, TurnType
<1>2. /\ UNCHANGED <<row, edit, messages, clock, overlapped>>
      /\ turn[t].pc \in {"history", "answer", "tool", "next"}
      /\ ListForChat(t) => turn[t].pc = "history"
  BY DEF ListForChat, Answers, FirstToolCall, ToolReads, InvalidArguments, ToolBreaks,
         NextToolCall, FinalAnswer, workspaceVars
<1>3. CASE ListForChat(t)
  <2>1. History(t) \subseteq MessageType
    BY <1>1 DEF History
  <2>2. CASE turn' = [turn EXCEPT ![t].pc = "answer"]
    <3>1. PICK r : r = [turn[t] EXCEPT !.pc = "answer"]
      OBVIOUS
    <3>2. turn' = [turn EXCEPT ![t] = r]
      BY <2>2, <3>1
    <3>3. r \in TurnType /\ Onward(t, r)
      BY <1>1, <1>2, <3>1 DEF TurnType, Onward
    <3> QED
      BY <1>2, <3>2, <3>3
  <2>3. ASSUME NEW m \in History(t), ByTime(m, History(t)),
               turn' = [turn EXCEPT ![t].pc = "answer", ![t].last = [role |-> m.role, turn |-> m.turn]]
        PROVE  \E r \in TurnType : turn' = [turn EXCEPT ![t] = r] /\ Onward(t, r)
    <3>1. m.role \in {"user", "assistant"} /\ m.turn \in Turns
      BY <2>1 DEF MessageType
    <3>2. PICK last \in [role : {"user", "assistant"}, turn : Turns] : last = [role |-> m.role, turn |-> m.turn]
      BY <3>1
    <3>3. PICK r : r = [turn[t] EXCEPT !.pc = "answer", !.last = last]
      OBVIOUS
    <3>4. turn' = [turn EXCEPT ![t] = r]
      BY <2>3, <3>2, <3>3
    <3>5. r \in TurnType
      BY <1>1, <3>3 DEF TurnType
    <3>6. Onward(t, r)
      BY <1>1, <1>2, <1>3, <2>3, <3>2, <3>3 DEF TurnType, Onward
    <3> QED
      BY <3>4, <3>5, <3>6
  <2> QED
    BY <1>2, <1>3, <2>2, <2>3 DEF ListForChat
<1>4. CASE turn' = Reply(t) /\ ~ListForChat(t)
  <2>1. PICK r : r = [turn[t] EXCEPT !.pc = "reply", !.steps = 0, !.invalid = 0]
    OBVIOUS
  <2>2. turn' = [turn EXCEPT ![t] = r]
    BY <1>4, <2>1 DEF Reply
  <2>3. r \in TurnType /\ Onward(t, r)
    BY <1>1, <1>2, <2>1 DEF TurnType, Onward
  <2> QED
    BY <1>2, <2>2, <2>3
<1>5. CASE FirstToolCall(t)
  <2>1. PICK r : r = [turn[t] EXCEPT !.pc = "tool", !.steps = 1]
    OBVIOUS
  <2>2. turn' = [turn EXCEPT ![t] = r]
    BY <1>5, <2>1 DEF FirstToolCall
  <2>3. r \in TurnType /\ Onward(t, r)
    BY <1>1, <1>2, <2>1 DEF TurnType, Onward
  <2> QED
    BY <1>2, <2>2, <2>3
<1>6. CASE ToolReads(t)
  <2>1. PICK n \in Nat : turn' = [turn EXCEPT ![t].pc = "next", ![t].invalid = n]
    BY <1>1, <1>6 DEF ToolReads, TurnType
  <2>2. PICK r : r = [turn[t] EXCEPT !.pc = "next", !.invalid = n]
    OBVIOUS
  <2>3. turn' = [turn EXCEPT ![t] = r]
    BY <1>6, <2>1, <2>2 DEF ToolReads, TurnType
  <2>4. r \in TurnType /\ Onward(t, r)
    BY <1>1, <1>2, <2>2 DEF TurnType, Onward
  <2> QED
    BY <1>2, <2>3, <2>4
<1>7. CASE InvalidArguments(t) /\ turn' # Reply(t)
  <2>1. PICK n \in Nat : n = turn[t].invalid + 1
    BY <1>1 DEF TurnType
  <2>2. PICK r : r = [turn[t] EXCEPT !.pc = "next", !.invalid = n]
    OBVIOUS
  <2>3. turn' = [turn EXCEPT ![t] = r]
    BY <1>7, <2>1, <2>2 DEF InvalidArguments
  <2>4. r \in TurnType /\ Onward(t, r)
    BY <1>1, <1>2, <2>2 DEF TurnType, Onward
  <2> QED
    BY <1>2, <2>3, <2>4
<1>8. CASE ToolBreaks(t)
  <2>1. PICK r : r = [turn[t] EXCEPT !.pc = "next", !.invalid = 0, !.broken = TRUE, !.pending = {}]
    OBVIOUS
  <2>2. turn' = [turn EXCEPT ![t] = r]
    BY <1>8, <2>1 DEF ToolBreaks
  <2>3. r \in TurnType /\ Onward(t, r)
    BY <1>1, <1>2, <2>1 DEF TurnType, Onward
  <2> QED
    BY <1>2, <2>2, <2>3
<1>9. CASE NextToolCall(t) /\ turn' # Reply(t)
  <2>1. PICK n \in Nat : n = turn[t].steps + 1
    BY <1>1 DEF TurnType
  <2>2. PICK r : r = [turn[t] EXCEPT !.pc = "tool", !.steps = n]
    OBVIOUS
  <2>3. turn' = [turn EXCEPT ![t] = r]
    BY <1>9, <2>1, <2>2 DEF NextToolCall
  <2>4. r \in TurnType /\ Onward(t, r)
    BY <1>1, <1>2, <2>2 DEF TurnType, Onward
  <2> QED
    BY <1>2, <2>3, <2>4
<1> QED
  BY <1>2, <1>3, <1>4, <1>5, <1>6, <1>7, <1>8, <1>9 DEF Answers, FinalAnswer

LEMMA LoadStep ==
  ASSUME WorkspaceInv, NEW t \in Turns, LoadQuestion(t)
  PROVE  /\ UNCHANGED <<row, edit, messages, clock, overlapped>> /\ turn[t].pc = "load"
         /\ \E m \in messages, r \in TurnType :
                /\ m \in PreviousUserMessages(turn[t].target) /\ turn[t].target \in messages
                /\ \A n \in PreviousUserMessages(turn[t].target) : n.id <= m.id
                /\ r = [turn[t] EXCEPT !.pc = "history", !.question = m.turn]
                /\ turn' = [turn EXCEPT ![t] = r]
<1>1. turn[t] \in TurnType /\ messages \subseteq MessageType
  BY DEF WorkspaceInv, TurnsOK, MessagesOK
<1>2. PICK m \in PreviousUserMessages(turn[t].target) :
         /\ \A n \in PreviousUserMessages(turn[t].target) : n.id <= m.id
         /\ turn' = [turn EXCEPT ![t].pc = "history", ![t].question = m.turn]
  BY DEF LoadQuestion
<1>3. m \in messages /\ m.turn \in Turns
  BY <1>1, <1>2 DEF PreviousUserMessages, MessageType
<1>4. PICK r : r = [turn[t] EXCEPT !.pc = "history", !.question = m.turn]
  OBVIOUS
<1>5. r \in TurnType
  BY <1>1, <1>3, <1>4 DEF TurnType
<1>6. turn' = [turn EXCEPT ![t] = r]
  BY <1>2, <1>4
<1>7. turn[t].target \in messages /\ turn[t].pc = "load" /\ UNCHANGED <<row, edit, messages, clock, overlapped>>
  BY DEF LoadQuestion, workspaceVars
<1> QED
  BY <1>2, <1>3, <1>4, <1>5, <1>6, <1>7

LEMMA AnswerStep ==
  ASSUME WorkspaceInv, NEW t \in Turns,
         \/ LoadQuestion(t) \/ ListForChat(t) \/ Answers(t) \/ FirstToolCall(t) \/ ToolReads(t)
         \/ InvalidArguments(t) \/ ToolBreaks(t) \/ NextToolCall(t) \/ FinalAnswer(t)
  PROVE  WorkspaceInv'
<1>1. CASE LoadQuestion(t)
  <2>1. turn[t] \in TurnType /\ turn[t].pc = "load" /\ UNCHANGED <<row, edit, messages, clock>>
    BY <1>1, LoadStep DEF WorkspaceInv, TurnsOK
  <2>2. PICK m \in messages, r \in TurnType :
           r = [turn[t] EXCEPT !.pc = "history", !.question = m.turn] /\ turn' = [turn EXCEPT ![t] = r]
    BY <1>1, LoadStep
  <2>3. /\ r.pc = "history" /\ r.began = turn[t].began /\ r.pending = turn[t].pending
        /\ r.kind = turn[t].kind /\ r.chat = turn[t].chat
    BY <2>1, <2>2 DEF TurnType
  <2> QED
    BY <2>1, <2>2, <2>3, GoesOn
<1>2. CASE ~LoadQuestion(t)
  <2>1. PICK r \in TurnType : turn' = [turn EXCEPT ![t] = r] /\ Onward(t, r)
    BY <1>2, OnwardStep
  <2>2. UNCHANGED <<row, edit, messages, clock>>
    BY <1>2, OnwardStep
  <2>3. turn[t].pc # "none" /\ r.pc # "none" /\ r.chat = turn[t].chat /\ r.pending \subseteq turn[t].pending
    BY <2>1 DEF Onward
  <2> QED
    BY <2>1, <2>2, <2>3, GoesOn
<1> QED
  BY <1>1, <1>2

(* The messages of a turn: the chat is there when they are flushed, and     *)
(* when they are committed                                                  *)

LEMMA MessageOfTurn ==
  ASSUME WorkspaceInv, NEW t \in Turns, turn[t].pc # "none",
         NEW role \in {"user", "assistant"}, NEW id \in Nat
  PROVE  Message(t, role, id) \in MessageType /\ Message(t, role, id).chat = turn[t].chat
<1>1. turn[t].began \in Nat /\ turn[t].chat \in Chats /\ turn[t].question \in Turns \cup {Absent}
  BY DEF WorkspaceInv, TurnsOK, PendingOK, TurnType
<1> QED
  BY <1>1 DEF Message, MessageType

LEMMA SaveUserStep ==
  ASSUME WorkspaceInv, NEW t \in Turns, SaveUser(t)
  PROVE  WorkspaceInv'
<1> DEFINE m == Message(t, "user", clock + 1)
<1>1. turn[t] \in TurnType /\ turn[t].pc # "none" /\ turn[t].chat \in Chats /\ clock + 1 \in Nat
  BY DEF WorkspaceInv, TurnsOK, PendingOK, SaveUser
<1>2. m \in MessageType /\ m.chat = turn[t].chat /\ Exists(turn[t].chat)
  BY <1>1, MessageOfTurn DEF SaveUser
<1>3. UNCHANGED <<row, edit>> /\ clock' \in Nat /\ RowsOK' /\ \A y \in Rows : Exists(y) => Exists(y)'
  BY <1>1 DEF SaveUser, workspaceVars, WorkspaceInv, RowsOK, Exists, Parent
<1>4. CASE CommitsUser(t)
  <2>1. PICK r : r = [turn[t] EXCEPT !.pc = "history", !.began = clock + 1]
    OBVIOUS
  <2>2. messages' = messages \cup {m} /\ turn' = [turn EXCEPT ![t] = r]
    BY <1>4, <2>1 DEF SaveUser
  <2>3. r \in TurnType /\ PendingOK(r)
    BY <1>1, <2>1 DEF TurnType, WorkspaceInv, TurnsOK, PendingOK
  <2> HIDE DEF m
  <2>4. MessagesOK' /\ PendingOK(r)'
    BY <1>2, <1>3, <2>2, <2>3 DEF WorkspaceInv, MessagesOK, PendingOK, Exists
  <2> QED
    BY <1>3, <2>2, <2>3, <2>4, TurnStep
<1>5. CASE ~CommitsUser(t)
  <2> DEFINE r == [turn[t] EXCEPT !.pc = "history", !.pending = {m}]
  <2>1. messages' = messages /\ turn' = [turn EXCEPT ![t] = r]
    BY <1>5 DEF SaveUser
  <2> HIDE DEF m
  <2>2. r \in TurnType /\ PendingOK(r)
    BY <1>1, <1>2 DEF TurnType, PendingOK
  <2> HIDE DEF r
  <2> QED
    BY <1>3, <2>1, <2>2, QuietStep
<1> QED
  BY <1>4, <1>5

(* A tool commits what the turn flushed, below a chat that is still there *)
LEMMA ToolStep ==
  ASSUME WorkspaceInv, NEW t \in Turns, ToolCreates(t) \/ ToolQueuesJob(t)
  PROVE  WorkspaceInv'
<1>1. turn[t] \in TurnType /\ turn[t].pc = "tool" /\ turn[t].chat \in Chats /\ PendingOK(turn[t])
  BY DEF WorkspaceInv, TurnsOK, PendingOK, ToolCreates, ToolQueuesJob
<1>2. PICK r : r = [turn[t] EXCEPT !.pc = "next", !.invalid = 0, !.pending = {}, !.committed = TRUE,
                        !.began = clock]
  OBVIOUS
<1>3. /\ UNCHANGED <<edit, clock>> /\ messages' = messages \cup turn[t].pending
      /\ turn' = [turn EXCEPT ![t] = r]
  BY <1>2 DEF ToolCreates, ToolQueuesJob, ToolCommits
<1>4. r \in TurnType /\ PendingOK(r)'
  BY <1>1, <1>2 DEF TurnType, WorkspaceInv, TurnsOK, PendingOK
<1>5. RowsOK' /\ \A y \in Rows : Exists(y) => Exists(y)'
  <2>1. CASE ToolCreates(t)
    <3>1. PICK x \in Rows : row[x] = "none" /\ Exists(Parent(x)) /\ row' = [row EXCEPT ![x] = "live"]
      BY <2>1 DEF ToolCreates, Rows, Leaves
    <3> QED
      BY <3>1, InsertKeeps
  <2>2. CASE ToolQueuesJob(t)
    BY <2>2 DEF ToolQueuesJob, WorkspaceInv, RowsOK, Exists, Parent
  <2> QED
    BY <2>1, <2>2
<1>6. MessagesOK'
  <2>1. turn[t].pending \subseteq MessageType /\ \A m \in turn[t].pending : Exists(m.chat)
    BY <1>1 DEF TurnType, PendingOK
  <2>2. \A m \in MessageType : m.chat \in Rows
    BY DEF MessageType, Rows
  <2> QED
    BY <1>3, <1>5, <2>1, <2>2 DEF WorkspaceInv, MessagesOK
<1> QED
  BY <1>3, <1>4, <1>5, <1>6, TurnStep DEF WorkspaceInv, TurnsOK

LEMMA SaveAnswerStep ==
  ASSUME WorkspaceInv, NEW t \in Turns, SaveAnswer(t)
  PROVE  WorkspaceInv'
<1> DEFINE m == Message(t, "assistant", clock + 1)
<1>1. /\ turn[t] \in TurnType /\ turn[t].pc # "none" /\ turn[t].chat \in Chats
      /\ PendingOK(turn[t]) /\ clock + 1 \in Nat
  BY DEF WorkspaceInv, TurnsOK, PendingOK, SaveAnswer
<1>2. m \in MessageType /\ m.chat = turn[t].chat /\ Exists(turn[t].chat)
  BY <1>1, MessageOfTurn DEF SaveAnswer
<1>3. PICK r : r = [NotStarted EXCEPT !.pc = "saved", !.kind = turn[t].kind, !.chat = turn[t].chat,
                        !.committed = turn[t].committed]
  OBVIOUS
<1>4. /\ UNCHANGED <<row, edit>> /\ clock' \in Nat /\ turn' = [turn EXCEPT ![t] = r]
      /\ messages' = messages \cup turn[t].pending \cup {m}
  BY <1>1, <1>3 DEF SaveAnswer, Ended, workspaceVars
<1>5. r \in TurnType /\ PendingOK(r)'
  BY <1>1, <1>3 DEF TurnType, NotStarted, Over, PendingOK
<1> HIDE DEF m
<1>6. RowsOK' /\ \A y \in Rows : Exists(y) => Exists(y)'
  BY <1>4 DEF WorkspaceInv, RowsOK, Exists, Parent
<1>7. MessagesOK'
  <2>1. turn[t].pending \subseteq MessageType /\ \A n \in turn[t].pending : Exists(n.chat)
    BY <1>1 DEF TurnType, PendingOK
  <2> QED
    BY <1>2, <1>4, <2>1 DEF WorkspaceInv, MessagesOK, Exists
<1> QED
  BY <1>4, <1>5, <1>6, <1>7, TurnStep

-----------------------------------------------------------------------------
LEMMA InitInv == TurnInit => WorkspaceInv
<1> SUFFICES ASSUME TurnInit PROVE WorkspaceInv
  OBVIOUS
<1>1. PICK made \in Made : row = [x \in Rows |-> IF x \in made THEN "live" ELSE "none"]
  BY DEF TurnInit, WorkspaceInit
<1>2. RowsOK
  <2>1. \A x \in Rows \ {Project} : Parent(x) \in Rows /\ (x \in made => Parent(x) \in made)
    BY ParentOfRow, WorkspaceAssumption DEF Rows
  <2> QED
    BY <1>1, <2>1 DEF RowsOK, Exists
<1>3. EditsOK /\ MessagesOK
  BY DEF TurnInit, WorkspaceInit, NoEdit, EditsOK, MessagesOK
<1>4. TurnsOK
  <2>1. NotStarted \in TurnType /\ PendingOK(NotStarted)
    BY DEF NotStarted, TurnType, PendingOK
  <2> QED
    BY <2>1 DEF TurnInit, TurnsOK
<1> QED
  BY <1>2, <1>3, <1>4 DEF WorkspaceInv

LEMMA NextInv == WorkspaceInv /\ [TurnNext]_<<workspaceVars, turnVars>> => WorkspaceInv'
<1> SUFFICES ASSUME WorkspaceInv, [TurnNext]_<<workspaceVars, turnVars>> PROVE WorkspaceInv'
  OBVIOUS
<1>1. ASSUME NEW e \in Editors, Edit(e) PROVE WorkspaceInv'
  BY <1>1, StartStep, SaveStep DEF Edit
<1>2. ASSUME NEW e \in Editors, DeleteRows(e) PROVE WorkspaceInv'
  BY <1>2, DeletionStep
<1>3. ASSUME NEW t \in Turns,
             \/ SaveUserFails(t) \/ NothingToRegenerate(t) \/ InvalidAgent(t) \/ AnswerRaises(t)
             \/ NextCallRaises(t) \/ SaveAnswerFails(t) \/ Abort(t)
      PROVE  WorkspaceInv'
  <2>1. turn[t].pc # "none" /\ Raise(t)
    BY <1>3 DEF SaveUserFails, NothingToRegenerate, InvalidAgent, AnswerRaises, NextCallRaises,
           SaveAnswerFails, Abort, Active
  <2> QED
    BY <2>1, RaiseStep
<1>4. CASE UNCHANGED <<workspaceVars, turnVars>>
  BY <1>4, NoneGone DEF workspaceVars, turnVars, WorkspaceInv, RowsOK, EditsOK, Exists, Parent
<1> QED
  BY <1>1, <1>2, <1>3, <1>4, BeginStep, SaveUserStep, AnswerStep, ToolStep, SaveAnswerStep DEF TurnNext

(* What belongs to a deleted project, chat or workflow is deleted with it,  *)
(* and no request, turn or tool adds to it afterwards: the foreign keys,    *)
(* the cascades and the key share locks of the flushed messages are enough, *)
(* whatever a request or a turn had read before.                            *)
THEOREM NothingOutlives == TurnSpec => []NothingOutlivesItsParent
<1>1. WorkspaceInv => NothingOutlivesItsParent
  BY DEF WorkspaceInv, RowsOK, MessagesOK, NothingOutlivesItsParent
<1> QED
  BY <1>1, InitInv, NextInv, PTL DEF TurnSpec

-----------------------------------------------------------------------------
(* What a turn leaves in its chat, and in which order: for the question it  *)
(* asks, the question a regeneration repeats and what is saved of it        *)

Mine(t) == {m \in messages : m.turn = t}
Of(t)   == Mine(t) \cup turn[t].pending
Busy(t) == turn[t].pc \in {"history", "answer", "tool", "next", "reply"}

(* The messages of a turn are in its chat, the answer with the end of the   *)
(* turn and the question when something committed it                        *)
OwnOK(t) ==
    /\ \A m \in Mine(t) : m.chat = turn[t].chat
    /\ \A m \in turn[t].pending : m.turn = t /\ m.role = "user"
    /\ turn[t].pc \in {"none", "load", "save"} => Mine(t) = {} /\ turn[t].pending = {}
    /\ turn[t].pc \in Over => turn[t].pending = {}
    /\ turn[t].pc = "none" => turn[t].kind = "none"
    /\ turn[t].pc = "load" => turn[t].kind = "regenerate"
    /\ turn[t].pc = "save" => turn[t].kind # "regenerate"
    /\ turn[t].pc \in {"load", "save", "history"} => ~turn[t].broken
    /\ turn[t].pc # "none" => row[turn[t].chat] # "none"
    /\ \A m \in Mine(t) : m.role = "assistant" => turn[t].pc = "saved"
    /\ \A m \in Mine(t) : m.role = "user" =>
            turn[t].kind = "stream" \/ turn[t].committed \/ turn[t].pc = "saved"
    /\ Active(t) /\ turn[t].kind # "regenerate" => turn[t].question = t
    /\ ~Active(t) => turn[t].question = Absent /\ turn[t].last = Absent
    /\ \A m \in Of(t) : turn[t].kind # "regenerate" => m.question = t

(* ... and they are there as long as the chat is *)
KeptOK(t) ==
    turn[t].pc # "none" /\ Exists(turn[t].chat) =>
        /\ Busy(t) /\ turn[t].kind # "regenerate" /\ ~turn[t].broken => \E m \in Of(t) : m.role = "user"
        /\ turn[t].pc = "saved" =>
            /\ \E m \in Mine(t) : m.role = "assistant"
            /\ turn[t].kind # "regenerate" => \E m \in Mine(t) : m.role = "user"

(* Ids are given out once a transaction began, and to the question first *)
Dated(m) == m.at < m.id /\ m.id <= clock

IdsOK ==
    /\ \A m \in messages : Dated(m)
    /\ \A t \in Turns : turn[t].began <= clock /\ \A m \in turn[t].pending : Dated(m)
    /\ \A m, n \in messages : m.turn = n.turn /\ m.role = "user" /\ n.role = "assistant" => m.id < n.id

OverlapOK ==
    \A t, u \in Turns : Active(t) /\ Active(u) /\ turn[t].chat = turn[u].chat /\ t # u =>
        t \in overlapped

(* The messages of a turn that ran alone follow all of its chat while it    *)
(* lasts; nothing came between them, and nothing will                       *)
Follows(t) ==
    Active(t) => \A m \in messages : m.chat = turn[t].chat /\ m.turn # t =>
        /\ \A w \in Of(t) : m.id < w.id /\ m.at < w.at
        /\ turn[t].pc = "save" => m.at < turn[t].began

Together(t) ==
    \A w, n \in Mine(t), m \in messages :
        m.turn # t /\ m.chat = w.chat => ~(w.id <= m.id /\ m.id < n.id)

Ahead(t) ==
    \A u \in Turns \ {t} : \A p \in turn[u].pending, n \in Mine(t) : n.chat = p.chat => n.id < p.id

AloneOK(t) == t \notin overlapped => Follows(t) /\ Together(t) /\ Ahead(t)

(* The last message that a model is sent, and the question of a regeneration *)
LastOK(t) ==
    t \notin overlapped /\ turn[t].kind # "regenerate" /\ turn[t].last # Absent =>
        turn[t].last = [role |-> "user", turn |-> t]

TargetOK(t) ==
    turn[t].kind = "regenerate" /\ Active(t) =>
        /\ turn[t].target \in MessageType /\ turn[t].target.role = "assistant"
        /\ turn[turn[t].target.turn].pc # "none"
        /\ turn[t].question # Absent =>
            \/ turn[t].question = turn[t].target.question
            \/ turn[t].target.turn \in overlapped
            \/ turn[turn[t].target.turn].kind = "regenerate"

OrderInv ==
    /\ IdsOK /\ OverlapOK
    /\ \A t \in Turns : OwnOK(t) /\ KeptOK(t) /\ AloneOK(t) /\ LastOK(t) /\ TargetOK(t)


-----------------------------------------------------------------------------
(* Rows do not come back *)

RowsKept ==
    \A x \in Rows : row[x] # "none" => row'[x] # "none" /\ (row'[x] \in {"live", "deleted_at"} => Exists(x))

LEMMA RowsStay ==
  ASSUME WorkspaceInv, TurnNext
  PROVE  RowsKept
<1> USE DEF WorkspaceInv, RowsOK
<1>1. CASE row' = row
  BY <1>1 DEF RowsKept, Exists
<1>2. ASSUME NEW x \in Rows, row[x] = "none", row' = [row EXCEPT ![x] = "live"] PROVE RowsKept
  BY <1>2 DEF RowsKept, Exists
<1>3. ASSUME NEW x \in Rows, row' = [y \in Rows |-> IF y \in Below(x) /\ Exists(y) THEN "gone" ELSE row[y]]
      PROVE  RowsKept
  BY <1>3 DEF RowsKept, Exists
<1>4. ASSUME NEW x \in Rows, row' = [row EXCEPT ![x] = IF row[x] = "live" THEN "deleted_at" ELSE row[x]]
      PROVE  RowsKept
  BY <1>4 DEF RowsKept, Exists
<1>5. {Project} \subseteq Rows /\ Chats \subseteq Rows /\ Workflows \subseteq Rows /\ Steps \subseteq Rows
         /\ AgentRuns \subseteq Rows
  BY DEF Rows, Leaves
<1>6. ASSUME NEW e \in Editors, Edit(e) PROVE RowsKept
  <2>1. CASE Request(e)
    BY <1>1, <2>1 DEF Request, CreateProject, CreateChat, CreateWorkflow, CreateStep, RunAgent,
           UpdateProject, UpdateChat, UpdateWorkflow, DeleteProject, DeleteChat, DeleteWorkflow, DeleteStep, Start
  <2>2. \A op, S : S \subseteq Rows /\ Writes(e, op, S) => edit[e].on \in Rows
    BY DEF Writes
  <2>3. ASSUME Save(e) PROVE edit[e].on \in Rows
    BY <1>5, <2>2, <2>3 DEF Save, InsertProject, InsertChat, InsertWorkflow, InsertStep, InsertAgentRun,
         RenameProject, RenameChat, RenameWorkflow, RemoveStep, RemoveWorkflow
  <2>4. CASE Save(e) /\ Insert(e)
    BY <1>1, <1>2, <2>3, <2>4 DEF Insert
  <2>5. CASE Rename(e)
    BY <1>1, <2>5 DEF Rename
  <2>6. CASE Save(e) /\ RemoveStep(e)
    BY <1>3, <2>3, <2>6 DEF RemoveStep, Remove
  <2>7. CASE Save(e) /\ RemoveWorkflow(e)
    BY <1>4, <2>3, <2>7 DEF RemoveWorkflow
  <2> QED
    BY <1>6, <2>1, <2>4, <2>5, <2>6, <2>7 DEF Edit, Save, InsertProject, InsertChat, InsertWorkflow,
           InsertStep, InsertAgentRun, RenameProject, RenameChat, RenameWorkflow
<1>7. ASSUME NEW e \in Editors, DeleteRows(e) PROVE RowsKept
  BY <1>3, <1>5, <1>7 DEF DeleteRows, RemoveProject, RemoveChat, Remove, Writes
<1>8. ASSUME NEW t \in Turns, ToolCreates(t) PROVE RowsKept
  BY <1>2, <1>5, <1>8 DEF ToolCreates
<1>9. ASSUME NEW t \in Turns,
             \/ CreateMessage(t) \/ CreateMessageStream(t) \/ RegenerateMessage(t)
             \/ SaveUser(t) \/ SaveUserFails(t) \/ LoadQuestion(t) \/ NothingToRegenerate(t)
             \/ ListForChat(t) \/ InvalidAgent(t) \/ Answers(t) \/ AnswerRaises(t)
             \/ FirstToolCall(t) \/ ToolReads(t) \/ InvalidArguments(t)
             \/ ToolQueuesJob(t) \/ ToolBreaks(t)
             \/ NextToolCall(t) \/ FinalAnswer(t) \/ NextCallRaises(t)
             \/ SaveAnswer(t) \/ SaveAnswerFails(t) \/ Abort(t)
      PROVE  RowsKept
  <2>1. row' = row
    BY <1>9 DEF CreateMessage, CreateMessageStream, RegenerateMessage, Begin, SaveUser, SaveUserFails,
           LoadQuestion, NothingToRegenerate, ListForChat, InvalidAgent, Answers, AnswerRaises,
           FirstToolCall, ToolReads, InvalidArguments, ToolQueuesJob, ToolBreaks, NextToolCall,
           FinalAnswer, NextCallRaises, SaveAnswer, SaveAnswerFails, Abort, Raise, workspaceVars
  <2> QED
    BY <1>1, <2>1
<1> QED
  BY <1>6, <1>7, <1>8, <1>9 DEF TurnNext

(* A step of one active turn, and what it leaves to prove.  It commits or   *)
(* flushes what it had flushed, and one new message f.                      *)
LEMMA MoveStep ==
  ASSUME WorkspaceInv, OrderInv, RowsKept,
         NEW t \in Turns, NEW r \in TurnType, NEW f \in MessageType, NEW new \in SUBSET MessageType,
         Active(t), turn' = [turn EXCEPT ![t] = r], UNCHANGED overlapped, messages' = messages \cup new,
         r.kind = turn[t].kind, r.chat = turn[t].chat, r.pc \notin {"none", "load", "save"},
         r.began <= clock', clock' \in {clock, clock + 1},
         new \cup r.pending \subseteq turn[t].pending \cup {f},
         f.id = clock + 1, f.at = turn[t].began, f.chat = turn[t].chat, f.turn = t,
         f \in new \cup r.pending => clock' = clock + 1 /\ (r.pc = "saved" \/ turn[t].pc = "save"),
         OwnOK(t)', KeptOK(t)', LastOK(t)', TargetOK(t)'
  PROVE  OrderInv'
<1>1. turn'[t] = r /\ \A u \in Turns \ {t} : turn'[u] = turn[u]
  BY DEF WorkspaceInv, TurnsOK
<1>2. /\ turn[t] \in TurnType /\ turn[t].began \in Nat /\ turn[t].chat \in Chats /\ clock \in Nat
      /\ messages \subseteq MessageType /\ \A u \in Turns : turn[u].pending \subseteq MessageType
      /\ \A m \in MessageType : m.id \in Nat /\ m.at \in Nat
  BY DEF WorkspaceInv, TurnsOK, MessagesOK, PendingOK, Active, TurnType, MessageType
<1>3. \A m \in turn[t].pending : m.turn = t /\ m.role = "user"
  BY DEF OrderInv, OwnOK
<1>4. \A u \in Turns \ {t} : Mine(u)' = Mine(u) /\ Of(u)' = Of(u)
  BY <1>1, <1>3 DEF Mine, Of
<1>5. Mine(t)' \subseteq Of(t) \cup {f} /\ Of(t)' \subseteq Of(t) \cup {f}
  BY <1>1 DEF Mine, Of
<1>6. \A u \in Turns : Active(u)' => Active(u)
  BY <1>1 DEF Active
<1>7. OverlapOK'
  BY <1>1, <1>6 DEF OrderInv, OverlapOK
<1>8. \A m \in MessageType : Dated(m) => Dated(m)'
  BY <1>2 DEF Dated
<1>9. IdsOK'
  <2>1. \A m \in new \cup r.pending : Dated(m)'
    <3>1. \A m \in turn[t].pending : Dated(m)'
      BY <1>2, <1>8 DEF OrderInv, IdsOK
    <3>2. f \in new \cup r.pending => Dated(f)'
      <4>1. turn[t].began <= clock
        BY DEF OrderInv, IdsOK
      <4> QED
        BY <1>2, <4>1 DEF Dated
    <3> QED
      BY <3>1, <3>2
  <2>2. \A m \in messages' : Dated(m)'
    BY <1>2, <1>8, <2>1 DEF OrderInv, IdsOK
  <2>3. ASSUME NEW u \in Turns
        PROVE  (turn[u].began <= clock)' /\ \A m \in turn'[u].pending : Dated(m)'
    <3>1. CASE u = t
      BY <1>1, <2>1, <3>1
    <3>2. CASE u # t
      <4>1. turn[u].began <= clock /\ turn[u].began \in Nat
        BY DEF OrderInv, IdsOK, WorkspaceInv, TurnsOK, TurnType
      <4>2. (turn[u].began <= clock)'
        BY <1>1, <1>2, <3>2, <4>1
      <4> QED
        BY <1>1, <1>2, <1>8, <3>2, <4>2 DEF OrderInv, IdsOK
    <3> QED
      BY <3>1, <3>2
  <2>4. ASSUME NEW m \in messages', NEW n \in messages', m.turn = n.turn, m.role = "user", n.role = "assistant"
        PROVE  m.id < n.id
    <3>1. CASE m \in messages /\ n \in messages
      BY <2>4, <3>1 DEF OrderInv, IdsOK
    <3>2. CASE n \notin messages
      <4>1. n = f /\ m # f
        BY <1>3, <2>4, <3>2
      <4>2. m \in messages \/ m \in turn[t].pending
        BY <4>1
      <4>3. Dated(m)
        BY <4>2 DEF OrderInv, IdsOK
      <4> QED
        BY <1>2, <4>1, <4>2, <4>3 DEF Dated
    <3>3. CASE m \notin messages /\ n \in messages
      <4>1. n.turn = t
        BY <1>3, <2>4, <3>3
      <4> QED
        BY <2>4, <3>3, <4>1 DEF OrderInv, OwnOK, Mine, Active, Over
    <3> QED
      BY <3>1, <3>2, <3>3
  <2> QED
    BY <2>2, <2>3, <2>4 DEF IdsOK
<1>10. ASSUME NEW u \in Turns \ {t} PROVE OwnOK(u)' /\ KeptOK(u)' /\ LastOK(u)' /\ TargetOK(u)'
  <2>1. turn[u].pc # "none" => turn[u].chat \in Rows
    BY DEF WorkspaceInv, TurnsOK, PendingOK, Rows
  <2>2. turn'[u] = turn[u] /\ Mine(u)' = Mine(u) /\ Of(u)' = Of(u)
    BY <1>1, <1>4
  <2>3. OwnOK(u)'
    <3>1. OwnOK(u)
      BY DEF OrderInv
    <3>2. turn[u].pc # "none" => row'[turn[u].chat] # "none"
      BY <2>1, <3>1 DEF OwnOK, RowsKept
    <3> QED
      BY <2>2, <3>1, <3>2 DEF OwnOK, Active
  <2>4. KeptOK(u)'
    <3>1. KeptOK(u) /\ OwnOK(u)
      BY DEF OrderInv
    <3>2. turn[u].pc # "none" /\ Exists(turn[u].chat)' => Exists(turn[u].chat)
      BY <2>1, <3>1 DEF OwnOK, RowsKept, Exists
    <3> QED
      BY <2>2, <3>1, <3>2 DEF KeptOK, Busy, Exists
  <2>5. LastOK(u)'
    BY <2>2 DEF OrderInv, LastOK
  <2>6. TargetOK(u)'
    <3>1. TargetOK(u) /\ turn[u] \in TurnType
      BY DEF OrderInv, WorkspaceInv, TurnsOK
    <3>2. SUFFICES ASSUME turn[u].kind = "regenerate", Active(u)
                   PROVE  TargetOK(u)'
      BY <2>2 DEF TargetOK, Active
    <3>3. turn[u].target \in MessageType /\ turn[u].target.turn \in Turns
      BY <3>1, <3>2 DEF TargetOK, TurnType, MessageType
    <3>4. PICK v \in Turns : v = turn[u].target.turn
      BY <3>3
    <3>5. turn'[v].kind = turn[v].kind /\ turn'[v].pc # "none"
      BY <1>1, <3>1, <3>2, <3>4 DEF TargetOK
    <3> QED
      BY <2>2, <3>1, <3>2, <3>4, <3>5 DEF TargetOK
  <2> QED
    BY <2>3, <2>4, <2>5, <2>6
<1>11. \A m \in messages : Dated(m) /\ m.id \in Nat /\ m.at \in Nat
  BY <1>2 DEF OrderInv, IdsOK
<1>12. ASSUME NEW u \in Turns \ {t}, u \notin overlapped PROVE (Follows(u) /\ Together(u) /\ Ahead(u))'
  <2>1. turn'[u] = turn[u] /\ Mine(u)' = Mine(u) /\ Of(u)' = Of(u)
    BY <1>1, <1>4
  <2>2. Follows(u) /\ Together(u) /\ Ahead(u) /\ OwnOK(u) /\ OwnOK(t)
    BY <1>12 DEF OrderInv, AloneOK
  <2>3. \A m \in new : m.turn = t /\ m.chat = turn[t].chat
    BY <1>3 DEF WorkspaceInv, TurnsOK, PendingOK
  <2>4. Follows(u)'
    <3>1. ~(Active(u) /\ turn[u].chat = turn[t].chat)
      BY <1>12 DEF OrderInv, OverlapOK
    <3>2. Active(u)' = Active(u)
      BY <2>1 DEF Active
    <3> QED
      BY <2>1, <2>2, <2>3, <3>1, <3>2 DEF Follows
  <2>5. Together(u)'
    <3> SUFFICES ASSUME NEW w \in Mine(u), NEW n \in Mine(u), NEW m \in messages', m.turn # u, m.chat = w.chat
                 PROVE  ~(w.id <= m.id /\ m.id < n.id)
      BY <2>1 DEF Together
    <3>1. CASE m \in messages
      BY <2>2, <3>1 DEF Together
    <3>2. CASE m = f
      BY <1>2, <1>11, <3>2 DEF Mine, Dated
    <3>3. CASE m \in turn[t].pending
      <4>1. n.id < m.id
        BY <2>2, <3>3 DEF Ahead, OwnOK
      <4> QED
        BY <1>2, <1>11, <3>3, <4>1 DEF Mine
    <3> QED
      BY <3>1, <3>2, <3>3
  <2>6. Ahead(u)'
    <3> SUFFICES ASSUME NEW v \in Turns \ {u}, NEW p \in turn'[v].pending, NEW n \in Mine(u), n.chat = p.chat
                 PROVE  n.id < p.id
      BY <2>1 DEF Ahead
    <3>1. CASE p \in turn[v].pending
      BY <2>2, <3>1 DEF Ahead
    <3>2. CASE p \notin turn[v].pending
      <4>1. p = f
        BY <1>1, <3>2
      <4> QED
        BY <1>2, <1>11, <4>1 DEF Mine, Dated
    <3> QED
      BY <3>1, <3>2
  <2> QED
    BY <2>4, <2>5, <2>6
<1>13. ASSUME t \notin overlapped PROVE (Follows(t) /\ Together(t) /\ Ahead(t))'
  <2>1. Follows(t) /\ OwnOK(t)
    BY <1>13 DEF OrderInv, AloneOK
  <2>2. ASSUME NEW m \in messages', m.turn # t
        PROVE  m \in messages /\ Dated(m)
    BY <1>3, <1>11, <2>2
  <2>3. ASSUME NEW m \in messages, m.turn # t, m.chat = turn[t].chat, NEW w \in Of(t) \cup {f}
        PROVE  m.id < w.id
    <3>1. CASE w = f
      BY <1>2, <1>11, <2>3, <3>1 DEF Dated
    <3>2. CASE w \in Of(t)
      BY <2>1, <2>3, <3>2 DEF Follows
    <3> QED
      BY <3>1, <3>2
  <2>4. \A w \in Mine(t)' : w.chat = turn[t].chat /\ w.id \in Nat
    BY <1>1, <1>2 DEF OwnOK, Mine
  <2>5. Follows(t)'
    <3> SUFFICES ASSUME Active(t)', NEW m \in messages', m.chat = turn[t].chat, m.turn # t,
                        NEW w \in Of(t)'
                 PROVE  m.id < w.id /\ m.at < w.at
      BY <1>1 DEF Follows
    <3>1. m \in messages /\ m.id < w.id
      BY <1>5, <2>2, <2>3
    <3>2. CASE w \in Of(t)
      BY <2>1, <3>1, <3>2 DEF Follows
    <3>3. CASE w = f /\ f \notin Of(t)
      <4>1. turn[t].pc = "save"
        <5>1. r.pc # "saved"
          BY <1>1 DEF Active, Over
        <5>2. f \in new \cup r.pending
          BY <1>1, <3>3 DEF Of, Mine
        <5> QED
          BY <5>1, <5>2
      <4> QED
        BY <2>1, <3>1, <3>3, <4>1 DEF Follows
    <3> QED
      BY <1>5, <3>2, <3>3
  <2>6. Together(t)'
    <3> SUFFICES ASSUME NEW w \in Mine(t)', NEW n \in Mine(t)', NEW m \in messages', m.turn # t, m.chat = w.chat
                 PROVE  ~(w.id <= m.id /\ m.id < n.id)
      BY DEF Together
    <3>1. m.id < w.id /\ m.id \in Nat /\ w.id \in Nat
      BY <1>5, <1>11, <2>2, <2>3, <2>4
    <3> QED
      BY <3>1
  <2>7. Ahead(t)'
    <3> SUFFICES ASSUME NEW u \in Turns \ {t}, NEW p \in turn[u].pending, NEW n \in Mine(t)', n.chat = p.chat
                 PROVE  n.id < p.id
      BY <1>1 DEF Ahead
    <3>1. Active(u) /\ turn[u].chat = p.chat
      BY DEF OrderInv, OwnOK, Active, Over, WorkspaceInv, TurnsOK, PendingOK
    <3> QED
      BY <1>13, <2>4, <3>1 DEF OrderInv, OverlapOK
  <2> QED
    BY <2>5, <2>6, <2>7
<1>14. \A u \in Turns : AloneOK(u)'
  BY <1>12, <1>13 DEF AloneOK
<1> QED
  BY <1>7, <1>9, <1>10, <1>14 DEF OrderInv


(* The requests: a deletion takes all messages of a chat, or none *)
LEMMA RowStep ==
  ASSUME WorkspaceInv, OrderInv, RowsKept, UNCHANGED <<turn, clock, overlapped>>,
         messages' \subseteq messages,
         \A m \in messages : row'[m.chat] \in {"live", "deleted_at"} => m \in messages'
  PROVE  OrderInv'
<1>1. \A t \in Turns : turn[t].pc # "none" => turn[t].chat \in Rows
  BY DEF WorkspaceInv, TurnsOK, PendingOK, Rows
<1>2. \A t \in Turns : Mine(t)' \subseteq Mine(t) /\ Of(t)' \subseteq Of(t) /\ Active(t)' = Active(t)
  BY DEF Mine, Of, Active
<1>3. IdsOK' /\ OverlapOK'
  BY DEF OrderInv, IdsOK, OverlapOK, Dated, Active
<1>4. ASSUME NEW t \in Turns PROVE OwnOK(t)'
  <2>1. OwnOK(t)
    BY DEF OrderInv
  <2>2. turn[t].pc # "none" => row'[turn[t].chat] # "none"
    BY <1>1, <2>1 DEF OwnOK, RowsKept
  <2> QED
    BY <1>2, <2>1, <2>2 DEF OwnOK
<1>5. ASSUME NEW t \in Turns PROVE KeptOK(t)'
  <2>1. OwnOK(t) /\ KeptOK(t)
    BY DEF OrderInv
  <2> SUFFICES ASSUME turn[t].pc # "none", Exists(turn[t].chat)'
               PROVE  KeptOK(t)'
    BY DEF KeptOK
  <2>2. Exists(turn[t].chat)
    BY <1>1, <2>1 DEF OwnOK, RowsKept, Exists
  <2>3. Mine(t)' = Mine(t)
    BY <2>1 DEF OwnOK, Mine, Exists
  <2>4. Of(t)' = Of(t)
    BY <2>3 DEF Of
  <2> QED
    BY <2>1, <2>2, <2>3, <2>4 DEF KeptOK, Busy
<1>6. ASSUME NEW t \in Turns PROVE AloneOK(t)'
  <2>1. AloneOK(t)
    BY DEF OrderInv
  <2>2. Follows(t) => Follows(t)'
    BY <1>2 DEF Follows
  <2>3. Together(t) => Together(t)'
    BY <1>2 DEF Together
  <2>4. Ahead(t) => Ahead(t)'
    BY <1>2 DEF Ahead
  <2> QED
    BY <2>1, <2>2, <2>3, <2>4 DEF AloneOK
<1>7. ASSUME NEW t \in Turns PROVE LastOK(t)' /\ TargetOK(t)'
  BY <1>2 DEF OrderInv, LastOK, TargetOK, Active
<1> QED
  BY <1>3, <1>4, <1>5, <1>6, <1>7 DEF OrderInv

LEMMA EditOrder ==
  ASSUME WorkspaceInv, OrderInv, RowsKept, NEW e \in Editors, Edit(e) \/ DeleteRows(e)
  PROVE  OrderInv'
<1>1. CASE Edit(e)
  BY <1>1, RowStep DEF Edit, turnVars
<1>2. CASE DeleteRows(e)
  <2>1. PICK x \in Rows :
           /\ row' = [y \in Rows |-> IF y \in Below(x) /\ Exists(y) THEN "gone" ELSE row[y]]
           /\ messages' = {m \in messages : m.chat \notin Below(x)}
    BY <1>2 DEF DeleteRows, RemoveProject, RemoveChat, Remove, Writes, Rows
  <2>2. ASSUME NEW m \in messages, row'[m.chat] \in {"live", "deleted_at"} PROVE m \in messages'
    <3>1. m.chat \in Rows /\ Exists(m.chat)
      BY DEF WorkspaceInv, MessagesOK, MessageType, Rows
    <3> QED
      BY <2>1, <2>2, <3>1
  <2>3. UNCHANGED <<turn, clock, overlapped>>
    BY <1>2 DEF DeleteRows
  <2> QED
    BY <2>1, <2>2, <2>3, RowStep
<1> QED
  BY <1>1, <1>2

(* A turn begins: nothing of it is there, and what is there was committed   *)
(* before.  The turns of the chat that are active overlap with it.          *)
LEMMA BeginOrder ==
  ASSUME WorkspaceInv, OrderInv, RowsKept, NEW t \in Turns,
         CreateMessage(t) \/ CreateMessageStream(t) \/ RegenerateMessage(t)
  PROVE  OrderInv'
<1>1. PICK kind \in {"create", "stream", "regenerate"}, c \in Chats, m \in MessageType \cup {Absent} :
         /\ Begin(t, kind, c, m) /\ Exists(c)
         /\ kind = "regenerate" => m \in messages /\ m.role = "assistant"
  BY DEF CreateMessage, CreateMessageStream, RegenerateMessage, OwnedChat, Exists, WorkspaceInv, MessagesOK,
         MessageType
<1>2. PICK pc \in {"load", "save"} : pc = IF kind = "regenerate" THEN "load" ELSE "save"
  OBVIOUS
<1>3. PICK question \in Turns \cup {Absent} : question = IF kind = "regenerate" THEN Absent ELSE t
  OBVIOUS
<1>4. PICK r : r = [NotStarted EXCEPT !.pc = pc, !.kind = kind, !.chat = c, !.began = clock, !.target = m,
                        !.question = question]
  OBVIOUS
<1>5. /\ r.pc = pc /\ r.kind = kind /\ r.chat = c /\ r.began = clock /\ r.target = m /\ r.question = question
      /\ r.pending = {} /\ r.last = Absent /\ ~r.broken
  BY <1>4 DEF NotStarted
<1>6. UNCHANGED <<row, messages, clock>> /\ turn[t].pc = "none" /\ turn' = [turn EXCEPT ![t] = r]
  BY <1>1, <1>2, <1>3, <1>4 DEF Begin
<1>7. turn'[t] = r /\ \A u \in Turns \ {t} : turn'[u] = turn[u]
  BY <1>6 DEF WorkspaceInv, TurnsOK
<1>8. Mine(t) = {} /\ Of(t)' = {} /\ \A u \in Turns : Mine(u)' = Mine(u)
  BY <1>5, <1>6, <1>7 DEF OrderInv, OwnOK, Of, Mine
<1>9. \A u \in Turns \ {t} : Of(u)' = Of(u) /\ Active(u)' = Active(u)
  BY <1>6, <1>7 DEF Of, Mine, Active
<1>10. /\ overlapped \subseteq overlapped'
       /\ \A u \in Turns : Active(u) /\ turn[u].chat = c => u \in overlapped' /\ t \in overlapped'
  BY <1>1 DEF Begin
<1>11. OverlapOK'
  BY <1>5, <1>7, <1>9, <1>10 DEF OrderInv, OverlapOK
<1>12. clock \in Nat /\ messages \subseteq MessageType /\ \A n \in MessageType : n.id \in Nat /\ n.at \in Nat
  BY DEF WorkspaceInv, TurnsOK, MessagesOK, MessageType
<1>13. IdsOK'
  BY <1>5, <1>6, <1>7, <1>12 DEF OrderInv, IdsOK, Dated
<1>14. OwnOK(t)' /\ KeptOK(t)' /\ LastOK(t)'
  <2>1. Mine(t)' = {} /\ turn'[t].pending = {} /\ row'[c] # "none"
    BY <1>1, <1>5, <1>6, <1>7, <1>8 DEF Exists
  <2>2. OwnOK(t)'
    BY <1>2, <1>3, <1>5, <1>7, <1>8, <2>1 DEF OwnOK, Active, Over
  <2> QED
    BY <1>2, <1>5, <1>7, <2>2 DEF KeptOK, Busy, LastOK
<1>15. TargetOK(t)'
  <2> SUFFICES ASSUME kind = "regenerate" PROVE TargetOK(t)'
    BY <1>5, <1>7 DEF TargetOK
  <2>1. m \in messages /\ m \in MessageType /\ m.role = "assistant" /\ question = Absent
    BY <1>1, <1>3, <1>12
  <2>2. PICK u \in Turns : u = m.turn /\ turn[u].pc = "saved"
    BY <2>1 DEF MessageType, OrderInv, OwnOK, Mine
  <2>3. turn'[u].pc # "none"
    BY <1>6, <1>7, <2>2
  <2> QED
    BY <1>5, <1>7, <2>1, <2>2, <2>3 DEF TargetOK
<1>16. ASSUME NEW u \in Turns \ {t} PROVE OwnOK(u)' /\ KeptOK(u)' /\ LastOK(u)' /\ TargetOK(u)'
  <2>1. turn'[u] = turn[u] /\ Mine(u)' = Mine(u) /\ Of(u)' = Of(u) /\ Active(u)' = Active(u)
    BY <1>7, <1>8, <1>9
  <2>2. OwnOK(u) /\ KeptOK(u) /\ LastOK(u) /\ TargetOK(u) /\ turn[u] \in TurnType
    BY DEF OrderInv, WorkspaceInv, TurnsOK
  <2>3. OwnOK(u)' /\ KeptOK(u)'
    BY <1>6, <2>1, <2>2 DEF OwnOK, KeptOK, Busy, Exists
  <2>4. LastOK(u)'
    BY <1>10, <2>1, <2>2 DEF LastOK
  <2>5. TargetOK(u)'
    <3> SUFFICES ASSUME turn[u].kind = "regenerate", Active(u)
                 PROVE  TargetOK(u)'
      BY <2>1 DEF TargetOK
    <3>1. turn[u].target \in MessageType /\ turn[u].target.turn \in Turns
      BY <2>2 DEF TargetOK, TurnType, MessageType
    <3>2. PICK v \in Turns : v = turn[u].target.turn
      BY <3>1
    <3>3. turn[v].pc # "none" /\ turn'[v] = turn[v]
      BY <1>6, <1>7, <2>2, <3>2 DEF TargetOK
    <3> QED
      BY <1>10, <2>1, <2>2, <3>2, <3>3 DEF TargetOK
  <2> QED
    BY <2>3, <2>4, <2>5
<1>17. ASSUME NEW u \in Turns \ {t} PROVE AloneOK(u)'
  <2> SUFFICES ASSUME u \notin overlapped' PROVE AloneOK(u)'
    BY DEF AloneOK
  <2>1. Follows(u) /\ Together(u) /\ Ahead(u)
    BY <1>10 DEF OrderInv, AloneOK
  <2>2. turn'[u] = turn[u] /\ Mine(u)' = Mine(u) /\ Of(u)' = Of(u) /\ Active(u)' = Active(u)
    BY <1>7, <1>8, <1>9
  <2>3. Follows(u)' /\ Together(u)'
    BY <1>6, <2>1, <2>2 DEF Follows, Together
  <2>4. Ahead(u)'
    BY <1>5, <1>7, <2>1, <2>2 DEF Ahead
  <2> QED
    BY <2>3, <2>4 DEF AloneOK
<1>18. AloneOK(t)'
  <2>1. ASSUME NEW n \in messages PROVE n.at < clock
    <3>1. Dated(n) /\ n.id \in Nat /\ n.at \in Nat
      BY <1>12 DEF OrderInv, IdsOK
    <3> QED
      BY <1>12, <3>1 DEF Dated
  <2>2. Follows(t)'
    BY <1>5, <1>6, <1>7, <1>8, <2>1 DEF Follows
  <2>3. Together(t)' /\ Ahead(t)'
    BY <1>8 DEF Together, Ahead
  <2> QED
    BY <2>2, <2>3 DEF AloneOK
<1> QED
  BY <1>11, <1>13, <1>14, <1>15, <1>16, <1>17, <1>18 DEF OrderInv


(* A step that commits nothing and flushes nothing *)
LEMMA QuietOrder ==
  ASSUME WorkspaceInv, OrderInv, RowsKept, NEW t \in Turns, NEW r \in TurnType, Active(t),
         turn' = [turn EXCEPT ![t] = r], UNCHANGED <<messages, clock, overlapped>>,
         r.kind = turn[t].kind, r.chat = turn[t].chat, r.pc \notin {"none", "load", "save"},
         r.began <= clock, r.pending \subseteq turn[t].pending,
         OwnOK(t)', KeptOK(t)', LastOK(t)', TargetOK(t)'
  PROVE  OrderInv'
<1>1. turn[t].pc # "none" /\ clock \in Nat /\ clock + 1 \in Nat
  BY DEF WorkspaceInv, TurnsOK, Active
<1>2. PICK f \in MessageType : f = Message(t, "user", clock + 1) /\ f.chat = turn[t].chat
  BY <1>1, MessageOfTurn
<1>3. f.id = clock + 1 /\ f.at = turn[t].began /\ f.turn = t
  BY <1>2 DEF Message
<1>4. f \notin r.pending
  <2>1. ~Dated(f)
    BY <1>1, <1>3 DEF Dated
  <2> QED
    BY <2>1 DEF OrderInv, IdsOK
<1>5. PICK new \in SUBSET MessageType : new = {}
  OBVIOUS
<1>6. /\ messages' = messages \cup new /\ r.began <= clock' /\ clock' \in {clock, clock + 1}
      /\ new \cup r.pending \subseteq turn[t].pending \cup {f} /\ f \notin new \cup r.pending
  BY <1>4, <1>5
<1> QED
  BY <1>2, <1>3, <1>6, MoveStep

LEMMA RaiseOrder ==
  ASSUME WorkspaceInv, OrderInv, RowsKept, NEW t \in Turns, Active(t), Raise(t)
  PROVE  OrderInv'
<1>1. PICK r : r = [NotStarted EXCEPT !.pc = "failed", !.kind = turn[t].kind, !.chat = turn[t].chat,
                        !.committed = turn[t].committed]
  OBVIOUS
<1>2. /\ r.pc = "failed" /\ r.kind = turn[t].kind /\ r.chat = turn[t].chat /\ r.began = 0 /\ r.pending = {}
      /\ r.committed = turn[t].committed /\ r.question = Absent /\ r.last = Absent
  BY <1>1 DEF NotStarted
<1>3. turn[t] \in TurnType /\ turn[t].chat \in Rows /\ clock \in Nat /\ turn \in [Turns -> TurnType]
  BY DEF WorkspaceInv, TurnsOK, PendingOK, Active, Rows
<1>4. r \in TurnType
  <2>1. /\ turn[t].kind \in {"none", "create", "stream", "regenerate"}
        /\ turn[t].chat \in Chats \cup {Absent}
    BY <1>3 DEF TurnType
  <2>2. turn[t].committed \in BOOLEAN
    BY <1>3 DEF TurnType
  <2>3. r = [pc |-> "failed", kind |-> turn[t].kind, chat |-> turn[t].chat, began |-> 0,
             pending |-> {}, target |-> Absent, question |-> Absent, last |-> Absent,
             steps |-> 0, invalid |-> 0, committed |-> turn[t].committed, broken |-> FALSE]
    BY <1>1 DEF NotStarted
  <2> QED
    BY <2>1, <2>2, <2>3 DEF TurnType, Over
<1>5. turn' = [turn EXCEPT ![t] = r] /\ UNCHANGED <<messages, clock, overlapped>>
  BY <1>1 DEF Raise, Ended
<1>6. turn'[t] = r /\ Mine(t)' = Mine(t)
  BY <1>3, <1>5 DEF Mine
<1>7. OwnOK(t)'
  <2>1. OwnOK(t) /\ row'[turn[t].chat] # "none"
    BY <1>3 DEF OrderInv, OwnOK, RowsKept, Active
  <2>2. Of(t)' \subseteq Of(t)
    BY <1>2, <1>6 DEF Of
  <2> QED
    BY <1>2, <1>6, <2>1, <2>2 DEF OwnOK, Active, Over
<1>8. KeptOK(t)' /\ LastOK(t)' /\ TargetOK(t)'
  BY <1>2, <1>6 DEF KeptOK, Busy, LastOK, TargetOK, Active, Over
<1>9. r.pc \notin {"none", "load", "save"} /\ r.began <= clock /\ r.pending \subseteq turn[t].pending
  BY <1>2, <1>3
<1> QED
  BY <1>2, <1>4, <1>5, <1>7, <1>8, <1>9, QuietOrder

(* The question of a regeneration: the last one before the answer.  Nothing *)
(* came between the answer and its question, if its turn ran alone.         *)
LEMMA LoadOrder ==
  ASSUME WorkspaceInv, OrderInv, RowsKept, NEW t \in Turns, LoadQuestion(t)
  PROVE  OrderInv'
<1>1. turn[t] \in TurnType /\ clock \in Nat /\ messages \subseteq MessageType /\ turn \in [Turns -> TurnType]
  BY DEF WorkspaceInv, TurnsOK, MessagesOK
<1>2. UNCHANGED <<messages, clock, overlapped>> /\ turn[t].pc = "load" /\ Active(t)
  BY LoadStep DEF Active, Over
<1>3. PICK m \in messages, r \in TurnType :
         /\ m \in PreviousUserMessages(turn[t].target) /\ turn[t].target \in messages
         /\ \A n \in PreviousUserMessages(turn[t].target) : n.id <= m.id
         /\ r = [turn[t] EXCEPT !.pc = "history", !.question = m.turn]
         /\ turn' = [turn EXCEPT ![t] = r]
  BY LoadStep
<1>4. /\ r.pc = "history" /\ r.question = m.turn /\ r.kind = turn[t].kind /\ r.chat = turn[t].chat
      /\ r.began = turn[t].began /\ r.pending = turn[t].pending /\ r.target = turn[t].target
      /\ r.last = turn[t].last /\ r.broken = turn[t].broken /\ r.committed = turn[t].committed
  BY <1>1, <1>3 DEF TurnType
<1>5. OwnOK(t) /\ TargetOK(t) /\ turn[t].kind = "regenerate" /\ Mine(t) = {} /\ turn[t].pending = {}
  BY <1>2 DEF OrderInv, OwnOK
<1>6. turn'[t] = r /\ Mine(t)' = {} /\ Of(t)' = {}
  BY <1>1, <1>2, <1>3, <1>4, <1>5 DEF Mine, Of
<1>7. OwnOK(t)'
  <2>1. turn[t].chat \in Rows
    BY <1>2 DEF WorkspaceInv, TurnsOK, PendingOK, Rows
  <2>2. row'[turn[t].chat] # "none"
    BY <1>2, <1>5, <2>1 DEF OwnOK, RowsKept
  <2>3. ~turn[t].broken
    BY <1>1, <1>2, <1>5 DEF OwnOK
  <2> QED
    BY <1>4, <1>5, <1>6, <2>2, <2>3 DEF OwnOK, Active, Over
<1>8. KeptOK(t)' /\ LastOK(t)'
  BY <1>4, <1>5, <1>6 DEF KeptOK, LastOK
<1>9. TargetOK(t)'
  <2> DEFINE answer == turn[t].target
  <2>1. answer \in messages /\ answer \in MessageType /\ answer.role = "assistant" /\ answer.turn \in Turns
    BY <1>1, <1>2, <1>3, <1>5 DEF TargetOK, MessageType
  <2>2. PICK u \in Turns : u = answer.turn
    BY <2>1
  <2>3. turn[u].pc = "saved" /\ answer.chat = turn[u].chat /\ answer \in Mine(u) /\ u # t
    BY <1>2, <2>1, <2>2 DEF OrderInv, OwnOK, Mine
  <2>4. turn'[u] = turn[u]
    BY <1>1, <1>3, <2>3
  <2>5. ASSUME u \notin overlapped, turn[u].kind # "regenerate"
        PROVE  m.turn = answer.question
    <3>1. Exists(turn[u].chat)
      BY <2>1, <2>3 DEF WorkspaceInv, MessagesOK
    <3>2. PICK q \in Mine(u) : q.role = "user"
      BY <2>3, <2>5, <3>1 DEF OrderInv, KeptOK
    <3>3. q \in messages /\ q.chat = answer.chat /\ q.id < answer.id /\ q.id \in Nat
      BY <1>1, <2>1, <2>2, <2>3, <3>2 DEF OrderInv, OwnOK, IdsOK, Mine, MessageType
    <3>4. q.id <= m.id
      BY <1>3, <3>2, <3>3 DEF PreviousUserMessages, Precedes
    <3>5. m.id < answer.id /\ m.chat = answer.chat
      BY <1>3 DEF PreviousUserMessages, Precedes
    <3>6. m.turn = u
      BY <2>3, <2>5, <3>2, <3>3, <3>4, <3>5 DEF OrderInv, AloneOK, Together
    <3>7. answer.question = u
      BY <2>3, <2>5 DEF OrderInv, OwnOK, Of
    <3> QED
      BY <3>6, <3>7
  <2>6. r.target = answer /\ r.question = m.turn /\ turn'[t] = r
    BY <1>4, <1>6
  <2>7. turn'[u].pc # "none" /\ turn'[u].kind = turn[u].kind
    BY <2>3, <2>4
  <2> HIDE DEF answer
  <2> QED
    BY <1>2, <2>1, <2>2, <2>5, <2>6, <2>7 DEF TargetOK
<1>10. r.began <= clock
  BY <1>4 DEF OrderInv, IdsOK
<1> QED
  BY <1>2, <1>3, <1>4, <1>7, <1>8, <1>9, <1>10, QuietOrder

(* The last message of the history is the question of the turn, if the turn *)
(* runs alone: what it flushed follows all that is there                    *)
LEMMA OnwardOrder ==
  ASSUME WorkspaceInv, OrderInv, RowsKept, NEW t \in Turns,
         \/ ListForChat(t) \/ Answers(t) \/ FirstToolCall(t) \/ ToolReads(t)
         \/ InvalidArguments(t) \/ ToolBreaks(t) \/ NextToolCall(t) \/ FinalAnswer(t)
  PROVE  OrderInv'
<1>1. /\ turn[t] \in TurnType /\ clock \in Nat /\ messages \subseteq MessageType /\ turn \in [Turns -> TurnType]
      /\ turn[t].pending \subseteq MessageType
  BY DEF WorkspaceInv, TurnsOK, MessagesOK, TurnType
<1>2. UNCHANGED <<messages, clock, overlapped>>
  BY OnwardStep
<1>3. PICK r \in TurnType : turn' = [turn EXCEPT ![t] = r] /\ Onward(t, r)
  BY OnwardStep
<1>4. /\ turn[t].pc \in {"history", "answer", "tool", "next"} /\ r.pc \in {"answer", "tool", "next", "reply"}
      /\ r.kind = turn[t].kind /\ r.chat = turn[t].chat /\ r.began = turn[t].began
      /\ r.question = turn[t].question /\ r.target = turn[t].target /\ r.committed = turn[t].committed
      /\ r.pending \subseteq turn[t].pending
  BY <1>3 DEF Onward
<1>5. turn'[t] = r /\ Mine(t)' = Mine(t) /\ Of(t)' \subseteq Of(t) /\ Active(t) /\ Active(t)' /\ Busy(t)
  BY <1>1, <1>2, <1>3, <1>4 DEF Mine, Of, Active, Over, Busy
<1>6. OwnOK(t)'
  <2>1. OwnOK(t) /\ turn[t].chat \in Rows
    BY <1>4 DEF OrderInv, WorkspaceInv, TurnsOK, PendingOK, Rows
  <2>2. row'[turn[t].chat] # "none"
    BY <1>4, <2>1 DEF OwnOK, RowsKept
  <2> QED
    BY <1>4, <1>5, <2>1, <2>2 DEF OwnOK, Over
<1>7. KeptOK(t)'
  <2>1. KeptOK(t) /\ OwnOK(t) /\ turn[t].chat \in Rows
    BY <1>4 DEF OrderInv, WorkspaceInv, TurnsOK, PendingOK, Rows
  <2>2. row'[turn[t].chat] \in {"live", "deleted_at"} => Exists(turn[t].chat)
    BY <1>4, <2>1 DEF OwnOK, RowsKept
  <2>3. CASE r.pending = turn[t].pending /\ r.broken = turn[t].broken
    <3>1. Of(t)' = Of(t)
      BY <1>5, <2>3 DEF Of
    <3> QED
      BY <1>4, <1>5, <2>1, <2>2, <2>3, <3>1 DEF KeptOK, Exists
  <2>4. CASE r.broken
    BY <1>4, <1>5, <2>4 DEF KeptOK
  <2> QED
    BY <1>3, <2>3, <2>4 DEF Onward
<1>8. LastOK(t)'
  <2>1. CASE r.last = turn[t].last
    BY <1>2, <1>4, <1>5, <2>1 DEF OrderInv, LastOK
  <2>2. CASE r.last # turn[t].last
    <3> SUFFICES ASSUME t \notin overlapped, turn[t].kind # "regenerate"
                 PROVE  r.last = [role |-> "user", turn |-> t]
      BY <1>2, <1>4, <1>5 DEF LastOK
    <3>1. turn[t].pc = "history"
      BY <1>3, <2>2 DEF Onward
    <3>2. PICK m \in History(t) : ByTime(m, History(t)) /\ r.last = [role |-> m.role, turn |-> m.turn]
      BY <1>3, <2>2 DEF Onward
    <3>3. Follows(t) /\ OwnOK(t) /\ KeptOK(t) /\ ~turn[t].broken
      BY <3>1 DEF OrderInv, AloneOK, OwnOK
    <3>4. Of(t) \subseteq History(t)
      BY <3>3 DEF OwnOK, Of, History, Mine
    <3>5. m.turn = t
      <4> SUFFICES ASSUME m.turn # t PROVE FALSE
        OBVIOUS
      <4>1. m \in messages /\ m.chat = turn[t].chat
        BY <3>3 DEF OwnOK, History
      <4>2. Exists(turn[t].chat)
        BY <4>1 DEF WorkspaceInv, MessagesOK
      <4>3. PICK w \in Of(t) : w.role = "user"
        BY <1>4, <1>5, <3>3, <4>2 DEF KeptOK
      <4>4. m.at < w.at /\ w.at <= m.at
        BY <1>5, <3>2, <3>3, <3>4, <4>1, <4>3 DEF Follows, ByTime
      <4>5. m.at \in Nat /\ w.at \in Nat
        BY <1>1, <4>1 DEF MessageType, Of, Mine
      <4> QED
        BY <4>4, <4>5
    <3>6. m.role = "user"
      <4>1. m \in messages \/ m \in turn[t].pending
        BY DEF History
      <4>2. m \in messages => m.role \in {"user", "assistant"}
        BY <1>1 DEF MessageType
      <4> QED
        BY <3>1, <3>3, <3>5, <4>1, <4>2 DEF OwnOK, Mine
    <3> QED
      BY <3>2, <3>5, <3>6
  <2> QED
    BY <2>1, <2>2
<1>9. TargetOK(t)'
  <2>1. TargetOK(t)
    BY DEF OrderInv
  <2> SUFFICES ASSUME turn[t].kind = "regenerate" PROVE TargetOK(t)'
    BY <1>4, <1>5 DEF TargetOK
  <2>2. turn[t].target \in MessageType
    BY <1>5, <2>1 DEF TargetOK
  <2>3. PICK u \in Turns : u = turn[t].target.turn
    BY <2>2 DEF MessageType
  <2>4. turn'[u].kind = turn[u].kind /\ turn'[u].pc # "none"
    BY <1>1, <1>3, <1>4, <1>5, <2>1, <2>3 DEF TargetOK
  <2> QED
    BY <1>2, <1>4, <1>5, <2>1, <2>3, <2>4 DEF TargetOK
<1>10. r.began <= clock
  BY <1>4 DEF OrderInv, IdsOK
<1>11. r.pc \notin {"none", "load", "save"}
  BY <1>4
<1> QED
  BY <1>2, <1>3, <1>4, <1>5, <1>6, <1>7, <1>8, <1>9, <1>10, <1>11, QuietOrder


(* The three steps that flush or commit.  The user's message: *)
LEMMA SaveUserOrder ==
  ASSUME WorkspaceInv, OrderInv, RowsKept, NEW t \in Turns, SaveUser(t)
  PROVE  OrderInv'
<1>1. /\ turn[t] \in TurnType /\ turn[t].pc = "save" /\ turn[t].chat \in Rows /\ clock \in Nat /\ clock + 1 \in Nat
      /\ turn \in [Turns -> TurnType] /\ Active(t)
  BY DEF SaveUser, WorkspaceInv, TurnsOK, PendingOK, Rows, Active, Over
<1>2. PICK f \in MessageType : f = Message(t, "user", clock + 1) /\ f.chat = turn[t].chat
  BY <1>1, MessageOfTurn
<1>3. /\ f.id = clock + 1 /\ f.at = turn[t].began /\ f.turn = t /\ f.role = "user"
      /\ f.question = turn[t].question
  BY <1>2 DEF Message
<1>4. /\ OwnOK(t) /\ Mine(t) = {} /\ turn[t].pending = {} /\ turn[t].kind # "regenerate" /\ turn[t].question = t
      /\ ~turn[t].broken /\ row'[turn[t].chat] # "none"
  <2>1. OwnOK(t)
    BY DEF OrderInv
  <2>2. row'[turn[t].chat] # "none"
    BY <1>1, <2>1 DEF OwnOK, RowsKept
  <2> QED
    BY <1>1, <2>1, <2>2 DEF OwnOK
<1>5. turn[t].kind # "regenerate"
  BY <1>4
<1>6. PICK r \in TurnType, new \in SUBSET MessageType :
         /\ turn' = [turn EXCEPT ![t] = r] /\ messages' = messages \cup new
         /\ r.pc = "history" /\ r.kind = turn[t].kind /\ r.chat = turn[t].chat
         /\ r.question = turn[t].question /\ r.last = turn[t].last /\ ~r.broken /\ r.began <= clock + 1
         /\ \/ new = {f} /\ r.pending = {} /\ r.kind = "stream"
            \/ new = {} /\ r.pending = {f}
  <2>1. CASE CommitsUser(t)
    <3>1. PICK r : r = [turn[t] EXCEPT !.pc = "history", !.began = clock + 1]
      OBVIOUS
    <3>2. turn' = [turn EXCEPT ![t] = r] /\ messages' = messages \cup {f} /\ turn[t].kind = "stream"
      BY <1>2, <2>1, <3>1 DEF SaveUser, CommitsUser
    <3>3. r \in TurnType
      BY <1>1, <3>1 DEF TurnType
    <3>4. /\ r.pc = "history" /\ r.kind = turn[t].kind /\ r.chat = turn[t].chat
          /\ r.question = turn[t].question /\ r.last = turn[t].last /\ ~r.broken /\ r.began <= clock + 1
          /\ r.pending = {}
      BY <1>1, <1>4, <3>1 DEF TurnType
    <3>5. PICK new \in SUBSET MessageType : new = {f}
      OBVIOUS
    <3>6. messages' = messages \cup new /\ r.kind = "stream"
      BY <3>2, <3>4, <3>5
    <3> QED
      BY <3>2, <3>3, <3>4, <3>5, <3>6
  <2>2. CASE ~CommitsUser(t)
    <3>1. PICK pending \in SUBSET MessageType : pending = {f}
      OBVIOUS
    <3>2. PICK r : r = [turn[t] EXCEPT !.pc = "history", !.pending = pending]
      OBVIOUS
    <3>3. turn' = [turn EXCEPT ![t] = r] /\ messages' = messages \cup {}
      BY <1>2, <2>2, <3>1, <3>2 DEF SaveUser
    <3>4. r \in TurnType
      BY <1>1, <3>2 DEF TurnType
    <3>5. turn[t].began <= clock /\ turn[t].began \in Nat
      BY <1>1 DEF OrderInv, IdsOK, TurnType
    <3>6. /\ r.pc = "history" /\ r.kind = turn[t].kind /\ r.chat = turn[t].chat
          /\ r.question = turn[t].question /\ r.last = turn[t].last /\ ~r.broken /\ r.began <= clock + 1
          /\ r.pending = {f}
      BY <1>1, <1>4, <3>1, <3>2, <3>5 DEF TurnType
    <3>7. PICK new \in SUBSET MessageType : new = {}
      OBVIOUS
    <3>8. messages' = messages \cup new
      BY <3>3, <3>7
    <3> QED
      BY <3>3, <3>4, <3>6, <3>7, <3>8
  <2> QED
    BY <2>1, <2>2
<1>7. clock' = clock + 1 /\ UNCHANGED overlapped
  BY DEF SaveUser
<1>8. /\ turn'[t] = r /\ Mine(t)' \subseteq {f} /\ Of(t)' = {f}
      /\ Mine(t)' # {} => r.kind = "stream"
  BY <1>1, <1>3, <1>4, <1>6 DEF Mine, Of
<1>9. OwnOK(t)'
  BY <1>2, <1>3, <1>4, <1>6, <1>8 DEF OwnOK, Active, Over
<1>10. KeptOK(t)'
  BY <1>3, <1>6, <1>8 DEF KeptOK
<1>11. LastOK(t)'
  BY <1>6, <1>7, <1>8 DEF OrderInv, LastOK
<1>12. TargetOK(t)'
  BY <1>5, <1>6, <1>8 DEF TargetOK
<1>13. /\ r.began <= clock' /\ clock' \in {clock, clock + 1} /\ r.pc \notin {"none", "load", "save"}
       /\ new \cup r.pending \subseteq turn[t].pending \cup {f}
  BY <1>6, <1>7
<1> QED
  BY <1>1, <1>2, <1>3, <1>6, <1>7, <1>9, <1>10, <1>11, <1>12, <1>13, MoveStep

(* the commit of a tool, *)
LEMMA ToolOrder ==
  ASSUME WorkspaceInv, OrderInv, RowsKept, NEW t \in Turns, ToolCreates(t) \/ ToolQueuesJob(t)
  PROVE  OrderInv'
<1>1. /\ turn[t] \in TurnType /\ turn[t].pc = "tool" /\ turn[t].chat \in Rows /\ clock \in Nat
      /\ turn \in [Turns -> TurnType] /\ Active(t) /\ turn[t].pending \subseteq MessageType /\ ~turn[t].broken
  BY DEF ToolCreates, ToolQueuesJob, WorkspaceInv, TurnsOK, PendingOK, Rows, Active, Over, TurnType
<1>2. PICK f \in MessageType : f = Message(t, "user", clock + 1) /\ f.chat = turn[t].chat
  BY <1>1, MessageOfTurn
<1>3. f.id = clock + 1 /\ f.at = turn[t].began /\ f.turn = t
  BY <1>2 DEF Message
<1>4. f \notin turn[t].pending
  <2>1. ~Dated(f)
    BY <1>1, <1>3 DEF Dated
  <2> QED
    BY <2>1 DEF OrderInv, IdsOK
<1>5. PICK r : r = [turn[t] EXCEPT !.pc = "next", !.invalid = 0, !.pending = {}, !.committed = TRUE,
                        !.began = clock]
  OBVIOUS
<1>6. /\ r \in TurnType /\ r.pc = "next" /\ r.kind = turn[t].kind /\ r.chat = turn[t].chat /\ r.pending = {}
      /\ r.committed /\ r.began = clock /\ r.question = turn[t].question /\ r.target = turn[t].target
      /\ r.last = turn[t].last /\ r.broken = turn[t].broken
  BY <1>1, <1>5 DEF TurnType
<1>7. /\ UNCHANGED <<clock, overlapped>> /\ messages' = messages \cup turn[t].pending
      /\ turn' = [turn EXCEPT ![t] = r]
  BY <1>5 DEF ToolCreates, ToolQueuesJob, ToolCommits
<1>8. OwnOK(t) /\ KeptOK(t) /\ LastOK(t) /\ TargetOK(t)
  BY DEF OrderInv
<1>9. turn'[t] = r /\ Mine(t)' = Of(t) /\ Of(t)' = Of(t) /\ Active(t)'
  BY <1>1, <1>6, <1>7, <1>8 DEF Mine, Of, OwnOK, Active, Over
<1>10. OwnOK(t)'
  <2>1. row'[turn[t].chat] # "none"
    BY <1>1, <1>8 DEF OwnOK, RowsKept
  <2>2. \A m \in Of(t) : m.chat = turn[t].chat /\ (m.role = "assistant" => FALSE)
    BY <1>1, <1>8 DEF OwnOK, Of, WorkspaceInv, TurnsOK, PendingOK
  <2> QED
    BY <1>6, <1>8, <1>9, <1>1, <2>1, <2>2 DEF OwnOK, Over
<1>11. KeptOK(t)'
  <2>1. row'[turn[t].chat] \in {"live", "deleted_at"} => Exists(turn[t].chat)
    BY <1>1, <1>8 DEF OwnOK, RowsKept
  <2> QED
    BY <1>1, <1>6, <1>8, <1>9, <2>1 DEF KeptOK, Busy, Exists
<1>12. LastOK(t)'
  BY <1>6, <1>7, <1>8, <1>9 DEF LastOK
<1>13. TargetOK(t)'
  <2> SUFFICES ASSUME turn[t].kind = "regenerate" PROVE TargetOK(t)'
    BY <1>6, <1>9 DEF TargetOK
  <2>1. turn[t].target \in MessageType
    BY <1>1, <1>8 DEF TargetOK
  <2>2. PICK u \in Turns : u = turn[t].target.turn
    BY <2>1 DEF MessageType
  <2>3. turn'[u].kind = turn[u].kind /\ turn'[u].pc # "none"
    BY <1>1, <1>6, <1>7, <1>8, <1>9, <2>2 DEF TargetOK
  <2> QED
    BY <1>1, <1>6, <1>7, <1>8, <1>9, <2>2, <2>3 DEF TargetOK
<1>14. PICK new \in SUBSET MessageType : new = turn[t].pending
  BY <1>1
<1>15. /\ r.began <= clock' /\ clock' \in {clock, clock + 1} /\ r.pc \notin {"none", "load", "save"}
       /\ new \cup r.pending \subseteq turn[t].pending \cup {f} /\ f \notin new \cup r.pending
       /\ messages' = messages \cup new
  BY <1>1, <1>4, <1>6, <1>7, <1>14
<1> QED
  BY <1>1, <1>2, <1>3, <1>6, <1>7, <1>10, <1>11, <1>12, <1>13, <1>15, MoveStep

(* and the end of the turn *)
LEMMA SaveAnswerOrder ==
  ASSUME WorkspaceInv, OrderInv, RowsKept, NEW t \in Turns, SaveAnswer(t)
  PROVE  OrderInv'
<1>1. /\ turn[t] \in TurnType /\ turn[t].pc = "reply" /\ turn[t].chat \in Rows /\ clock \in Nat /\ clock + 1 \in Nat
      /\ turn \in [Turns -> TurnType] /\ Active(t) /\ turn[t].pending \subseteq MessageType /\ ~turn[t].broken
      /\ Exists(turn[t].chat)
  BY DEF SaveAnswer, WorkspaceInv, TurnsOK, PendingOK, Rows, Active, Over, TurnType
<1>2. PICK f \in MessageType : f = Message(t, "assistant", clock + 1) /\ f.chat = turn[t].chat
  BY <1>1, MessageOfTurn
<1>3. /\ f.id = clock + 1 /\ f.at = turn[t].began /\ f.turn = t /\ f.role = "assistant"
      /\ f.question = turn[t].question
  BY <1>2 DEF Message
<1>4. PICK r : r = [NotStarted EXCEPT !.pc = "saved", !.kind = turn[t].kind, !.chat = turn[t].chat,
                        !.committed = turn[t].committed]
  OBVIOUS
<1>5. /\ r.pc = "saved" /\ r.kind = turn[t].kind /\ r.chat = turn[t].chat /\ r.began = 0 /\ r.pending = {}
      /\ r.committed = turn[t].committed /\ r.question = Absent /\ r.last = Absent
  BY <1>4 DEF NotStarted
<1>6. r \in TurnType
  BY <1>1, <1>4 DEF TurnType, NotStarted, Over
<1>7. /\ UNCHANGED overlapped /\ clock' = clock + 1 /\ turn' = [turn EXCEPT ![t] = r]
      /\ messages' = messages \cup (turn[t].pending \cup {f})
  BY <1>2, <1>4 DEF SaveAnswer, Ended
<1>8. OwnOK(t) /\ KeptOK(t)
  BY DEF OrderInv
<1>9. turn'[t] = r /\ Mine(t)' = Of(t) \cup {f} /\ Of(t)' = Of(t) \cup {f}
  BY <1>1, <1>3, <1>5, <1>7, <1>8 DEF Mine, Of, OwnOK
<1>10. OwnOK(t)'
  <2>1. row'[turn[t].chat] # "none"
    BY <1>1, <1>8 DEF OwnOK, RowsKept
  <2>2. \A m \in Of(t) : m.chat = turn[t].chat
    BY <1>1, <1>8 DEF OwnOK, Of, WorkspaceInv, TurnsOK, PendingOK
  <2>3. turn[t].kind # "regenerate" => f.question = t
    BY <1>1, <1>3, <1>8 DEF OwnOK
  <2> QED
    BY <1>2, <1>3, <1>5, <1>8, <1>9, <2>1, <2>2, <2>3 DEF OwnOK, Active, Over
<1>11. KeptOK(t)'
  <2>1. turn[t].kind # "regenerate" => \E m \in Of(t) : m.role = "user"
    BY <1>1, <1>8 DEF KeptOK, Busy
  <2> QED
    BY <1>3, <1>5, <1>9, <2>1 DEF KeptOK, Busy
<1>12. LastOK(t)' /\ TargetOK(t)'
  BY <1>5, <1>9 DEF LastOK, TargetOK, Active, Over
<1>13. PICK new \in SUBSET MessageType : new = turn[t].pending \cup {f}
  BY <1>1
<1>14. /\ r.began <= clock' /\ clock' \in {clock, clock + 1} /\ r.pc \notin {"none", "load", "save"}
       /\ new \cup r.pending \subseteq turn[t].pending \cup {f}
       /\ messages' = messages \cup new
  BY <1>1, <1>5, <1>7, <1>13
<1> QED
  BY <1>1, <1>2, <1>3, <1>5, <1>6, <1>7, <1>10, <1>11, <1>12, <1>14, MoveStep

LEMMA InitOrder == TurnInit => OrderInv
<1> SUFFICES ASSUME TurnInit PROVE OrderInv
  OBVIOUS
<1>1. messages = {} /\ clock = 0 /\ \A t \in Turns : turn[t] = NotStarted
  BY DEF TurnInit
<1>2. \A t \in Turns : ~Active(t) /\ Mine(t) = {} /\ Of(t) = {}
  BY <1>1 DEF NotStarted, Active, Mine, Of
<1>3. IdsOK /\ OverlapOK
  BY <1>1, <1>2 DEF IdsOK, OverlapOK, NotStarted
<1>4. \A t \in Turns : OwnOK(t) /\ KeptOK(t)
  BY <1>1, <1>2 DEF OwnOK, KeptOK, NotStarted, Over
<1>5. \A t \in Turns : AloneOK(t) /\ LastOK(t) /\ TargetOK(t)
  BY <1>1, <1>2 DEF AloneOK, Follows, Together, Ahead, LastOK, TargetOK, NotStarted
<1> QED
  BY <1>3, <1>4, <1>5 DEF OrderInv

LEMMA NextOrder == WorkspaceInv /\ OrderInv /\ [TurnNext]_<<workspaceVars, turnVars>> => OrderInv'
<1> SUFFICES ASSUME WorkspaceInv, OrderInv, [TurnNext]_<<workspaceVars, turnVars>> PROVE OrderInv'
  OBVIOUS
<1>1. CASE UNCHANGED <<workspaceVars, turnVars>>
  <2>1. RowsKept
    BY <1>1 DEF RowsKept, workspaceVars, Exists
  <2> QED
    BY <1>1, <2>1, RowStep DEF turnVars
<1>2. CASE TurnNext
  <2>1. RowsKept
    BY <1>2, RowsStay
  <2>2. ASSUME NEW t \in Turns,
               \/ SaveUserFails(t) \/ NothingToRegenerate(t) \/ InvalidAgent(t) \/ AnswerRaises(t)
               \/ NextCallRaises(t) \/ SaveAnswerFails(t) \/ Abort(t)
        PROVE  OrderInv'
    <3>1. Active(t) /\ Raise(t)
      BY <2>2 DEF SaveUserFails, NothingToRegenerate, InvalidAgent, AnswerRaises, NextCallRaises,
             SaveAnswerFails, Abort, Active, Over
    <3> QED
      BY <2>1, <3>1, RaiseOrder
  <2> QED
    BY <1>2, <2>1, <2>2, EditOrder, BeginOrder, SaveUserOrder, LoadOrder, OnwardOrder, ToolOrder,
       SaveAnswerOrder DEF TurnNext
<1> QED
  BY <1>1, <1>2

LEMMA OrderInvariant == TurnSpec => [](WorkspaceInv /\ OrderInv)
<1>1. WorkspaceInv /\ OrderInv /\ [TurnNext]_<<workspaceVars, turnVars>> => (WorkspaceInv /\ OrderInv)'
  BY NextInv, NextOrder
<1> QED
  BY <1>1, InitInv, InitOrder, PTL DEF TurnSpec

(* A chat keeps the answer of a turn exactly when it was answered, and the  *)
(* question of another one only when something committed it: the stream     *)
(* before the answer, or a tool.  A rollback takes back all the rest, and   *)
(* an answer is never there without its question.                           *)
THEOREM SavesWhatWasAnswered == TurnSpec => []TurnSaved
<1>1. WorkspaceInv /\ OrderInv => TurnSaved
  <2> SUFFICES ASSUME WorkspaceInv, OrderInv, NEW t \in Turns
               PROVE  LET asked    == \E m \in messages : m.turn = t /\ m.role = "user"
                          answered == \E m \in messages : m.turn = t /\ m.role = "assistant"
                      IN  /\ answered => turn[t].pc = "saved" /\ (asked \/ turn[t].kind = "regenerate")
                          /\ turn[t].pc = "saved" /\ Exists(turn[t].chat) => answered
                          /\ asked /\ ~answered => turn[t].kind = "stream" \/ turn[t].committed
    BY DEF TurnSaved
  <2>1. OwnOK(t) /\ KeptOK(t)
    BY DEF OrderInv
  <2>2. \A m \in Mine(t) : Exists(turn[t].chat) /\ turn[t].pc # "none"
    BY <2>1 DEF OwnOK, Mine, WorkspaceInv, MessagesOK
  <2>3. \A m \in messages : m.turn = t <=> m \in Mine(t)
    BY DEF Mine
  <2>4. \A m \in Mine(t) : m \in messages
    BY DEF Mine
  <2> QED
    BY <2>1, <2>2, <2>3, <2>4 DEF OwnOK, KeptOK
<1> QED
  BY <1>1, OrderInvariant, PTL

(* The last message that goes to the model is the user's message of the     *)
(* turn, when no other turn runs beside it in the chat: created_at, which   *)
(* is the beginning of the transaction, is then later than that of all      *)
(* messages of the others.                                                  *)
THEOREM AsksTheLastQuestion == TurnSpec => []AsksItsQuestion
<1>1. OrderInv => AsksItsQuestion
  BY DEF OrderInv, LastOK, AsksItsQuestion
<1> QED
  BY <1>1, OrderInvariant, PTL

(* The question that is asked again is the one of the chosen answer: the    *)
(* last user message before it in the order of the ids, when its own turn   *)
(* ran alone in the chat.                                                   *)
THEOREM RegeneratesTheQuestion == TurnSpec => []RegeneratesItsQuestion
<1>1. OrderInv => RegeneratesItsQuestion
  <2> SUFFICES ASSUME OrderInv, NEW t \in Turns, turn[t].kind = "regenerate", turn[t].question # Absent
               PROVE  \/ turn[t].question = turn[t].target.question
                      \/ turn[t].target.turn \in overlapped \/ turn[turn[t].target.turn].kind = "regenerate"
    BY DEF RegeneratesItsQuestion
  <2>1. Active(t) /\ TargetOK(t)
    BY DEF OrderInv, OwnOK
  <2> QED
    BY <2>1 DEF TargetOK
<1> QED
  BY <1>1, OrderInvariant, PTL

-----------------------------------------------------------------------------
(* The counters of the tool loop, and the ids *)

Flushed == messages \cup UNION {turn[u].pending : u \in Turns}

BoundsInv ==
    /\ \A t \in Turns : turn[t].steps <= MaxSteps /\ turn[t].invalid <= MaxInvalid
    /\ \A t \in Turns : \A m, n \in turn[t].pending : m = n
    /\ \A m, n \in Flushed : m.id = n.id => m = n
    /\ \A x \in Rows \ Workflows : row[x] # "deleted_at"

(* A step of one turn that flushes or commits at most one message of a new id *)
LEMMA BoundsStep ==
  ASSUME WorkspaceInv, IdsOK, BoundsInv, NEW t \in Turns,
         \A u \in Turns \ {t} : turn'[u] = turn[u],
         turn'[t].steps <= MaxSteps, turn'[t].invalid <= MaxInvalid,
         \A m, n \in turn'[t].pending : m = n,
         NEW New, \A m, n \in New : m = n /\ m.id = clock + 1,
         messages' \cup turn'[t].pending \subseteq messages \cup turn[t].pending \cup New,
         \A x \in Rows \ Workflows : row'[x] # "deleted_at"
  PROVE  BoundsInv'
<1>1. Flushed' \subseteq Flushed \cup New
  BY DEF Flushed
<1>2. \A m \in Flushed : m.id <= clock /\ m.id \in Nat
  BY DEF Flushed, IdsOK, Dated, WorkspaceInv, TurnsOK, MessagesOK, TurnType, MessageType
<1>3. clock \in Nat
  BY DEF WorkspaceInv, TurnsOK
<1>4. \A m \in Flushed, n \in New : m.id # n.id
  BY <1>2, <1>3
<1>5. \A m, n \in Flushed' : m.id = n.id => m = n
  BY <1>1, <1>4 DEF BoundsInv
<1> QED
  BY <1>5 DEF BoundsInv

LEMMA BoundsInit == TurnInit => BoundsInv
BY ChatTurnsAssumption DEF TurnInit, WorkspaceInit, NotStarted, BoundsInv, Flushed

(* The edits, which change no turn *)
LEMMA BoundsEdit ==
  ASSUME WorkspaceInv, BoundsInv, NEW e \in Editors, Edit(e) \/ DeleteRows(e)
  PROVE  BoundsInv'
<1>1. turn' = turn /\ messages' \subseteq messages
  BY DEF Edit, turnVars, DeleteRows
<1>2. row \in [Rows -> {"none", "live", "deleted_at", "gone"}]
  BY DEF WorkspaceInv, RowsOK
<1>3. \A x \in Rows \ Workflows : row'[x] # "deleted_at"
  <2>1. CASE row' = row
    BY <2>1 DEF BoundsInv
  <2>2. CASE Insert(e)
    BY <1>2, <2>2 DEF Insert, BoundsInv
  <2>3. CASE Remove(e)
    BY <1>2, <2>3 DEF Remove, BoundsInv
  <2>4. CASE RemoveWorkflow(e)
    BY <1>2, <2>4 DEF RemoveWorkflow, Writes, BoundsInv
  <2> QED
    BY <2>1, <2>2, <2>3, <2>4
    DEF Edit, DeleteRows, Save, Request, Start, CreateProject, CreateChat, CreateWorkflow, CreateStep,
        RunAgent, UpdateProject, UpdateChat, UpdateWorkflow, DeleteProject, DeleteChat, DeleteWorkflow,
        DeleteStep, InsertProject, InsertChat, InsertWorkflow, InsertStep, InsertAgentRun, RenameProject,
        RenameChat, RenameWorkflow, Rename, RemoveProject, RemoveChat, RemoveStep
<1> QED
  BY <1>1, <1>3 DEF BoundsInv, Flushed

(* A turn begins or is over *)
LEMMA BoundsFresh ==
  ASSUME WorkspaceInv, IdsOK, BoundsInv, NEW t \in Turns,
         Raise(t) \/ \E kind, c, m : Begin(t, kind, c, m)
  PROVE  BoundsInv'
<1>1. turn \in [Turns -> TurnType]
  BY DEF WorkspaceInv, TurnsOK
<1>2. UNCHANGED <<row, messages>>
  BY DEF Raise, Begin, workspaceVars
<1>3. \A u \in Turns \ {t} : turn'[u] = turn[u]
  BY <1>1 DEF Raise, Ended, Begin
<1>4. turn'[t].steps = 0 /\ turn'[t].invalid = 0 /\ turn'[t].pending = {}
  <2>1. CASE Raise(t)
    BY <1>1, <2>1 DEF Raise, Ended, NotStarted
  <2>2. ASSUME NEW kind, NEW c, NEW m, Begin(t, kind, c, m)
        PROVE  turn'[t].steps = 0 /\ turn'[t].invalid = 0 /\ turn'[t].pending = {}
    BY <1>1, <2>2 DEF Begin, NotStarted
  <2> QED
    BY <2>1, <2>2
<1>5. turn'[t].steps <= MaxSteps /\ turn'[t].invalid <= MaxInvalid
  BY <1>4, ChatTurnsAssumption
<1>6. messages' \cup turn'[t].pending \subseteq messages \cup turn[t].pending \cup {}
  BY <1>2, <1>4
<1>7. \A x \in Rows \ Workflows : row'[x] # "deleted_at"
  BY <1>2 DEF BoundsInv
<1> QED
  BY <1>3, <1>4, <1>5, <1>6, <1>7, BoundsStep

(* The tool loop: a step more as long as MaxSteps is not reached, an        *)
(* invalid argument more as long as MaxInvalid is not                       *)
LEMMA BoundsLoop ==
  ASSUME WorkspaceInv, IdsOK, BoundsInv, NEW t \in Turns,
         \/ LoadQuestion(t) \/ ListForChat(t) \/ Answers(t) \/ FirstToolCall(t) \/ ToolReads(t)
         \/ InvalidArguments(t) \/ ToolBreaks(t) \/ NextToolCall(t) \/ FinalAnswer(t)
  PROVE  BoundsInv'
<1>1. turn \in [Turns -> TurnType] /\ turn[t] \in TurnType
  BY DEF WorkspaceInv, TurnsOK
<1>2. UNCHANGED <<row, messages>>
  BY DEF LoadQuestion, ListForChat, Answers, FirstToolCall, ToolReads, InvalidArguments, ToolBreaks,
         NextToolCall, FinalAnswer, workspaceVars
<1>3. \A u \in Turns \ {t} : turn'[u] = turn[u]
  BY <1>1 DEF LoadQuestion, ListForChat, Answers, FirstToolCall, ToolReads, InvalidArguments, ToolBreaks,
         NextToolCall, FinalAnswer, Reply
<1>4. turn'[t].pending \subseteq turn[t].pending
  BY <1>1 DEF LoadQuestion, ListForChat, Answers, FirstToolCall, ToolReads, InvalidArguments, ToolBreaks,
         NextToolCall, FinalAnswer, Reply, TurnType
<1>5. /\ turn[t].steps \in Nat /\ turn[t].invalid \in Nat
      /\ turn[t].steps <= MaxSteps /\ turn[t].invalid <= MaxInvalid
  BY <1>1 DEF TurnType, BoundsInv
<1>6. turn'[t].steps <= MaxSteps /\ turn'[t].invalid <= MaxInvalid
  <2>1. CASE turn' = Reply(t)
    BY <1>1, <2>1, ChatTurnsAssumption DEF Reply
  <2>2. CASE LoadQuestion(t) \/ ListForChat(t)
    <3>1. turn'[t].steps = turn[t].steps /\ turn'[t].invalid = turn[t].invalid
      BY <1>1, <2>2 DEF LoadQuestion, ListForChat, TurnType
    <3> QED
      BY <1>5, <3>1
  <2>3. CASE FirstToolCall(t) \/ ToolReads(t) \/ ToolBreaks(t)
    <3>1. turn'[t].steps \in {1, turn[t].steps} /\ turn'[t].invalid \in {0, turn[t].invalid}
      BY <1>1, <2>3 DEF FirstToolCall, ToolReads, ToolBreaks, TurnType
    <3> QED
      BY <1>5, <3>1, ChatTurnsAssumption
  <2>4. CASE InvalidArguments(t) /\ turn' # Reply(t)
    BY <1>1, <1>5, <2>4, ChatTurnsAssumption DEF InvalidArguments
  <2>5. CASE NextToolCall(t) /\ turn' # Reply(t)
    BY <1>1, <1>5, <2>5, ChatTurnsAssumption DEF NextToolCall, LastStep
  <2> QED
    BY <2>1, <2>2, <2>3, <2>4, <2>5 DEF Answers, FinalAnswer
<1>7. \A m, n \in turn'[t].pending : m = n
  BY <1>4 DEF BoundsInv
<1>8. messages' \cup turn'[t].pending \subseteq messages \cup turn[t].pending
  BY <1>2, <1>4
<1>9. \A x \in Rows \ Workflows : row'[x] # "deleted_at"
  BY <1>2 DEF BoundsInv
<1> QED
  <2>1. PICK New : New = {}
    OBVIOUS
  <2>2. \A m, n \in New : m = n /\ m.id = clock + 1
    BY <2>1
  <2>3. messages' \cup turn'[t].pending \subseteq messages \cup turn[t].pending \cup New
    BY <1>8
  <2> QED
    BY <1>3, <1>6, <1>7, <1>9, <2>2, <2>3, BoundsStep

(* A tool commits, and creates no project or chat that is deleted *)
LEMMA BoundsTool ==
  ASSUME WorkspaceInv, IdsOK, BoundsInv, NEW t \in Turns, ToolCreates(t) \/ ToolQueuesJob(t)
  PROVE  BoundsInv'
<1>1. turn \in [Turns -> TurnType] /\ turn[t] \in TurnType
  BY DEF WorkspaceInv, TurnsOK
<1>2. messages' = messages \cup turn[t].pending
  BY DEF ToolCreates, ToolQueuesJob, ToolCommits
<1>3. /\ \A u \in Turns \ {t} : turn'[u] = turn[u]
      /\ turn'[t].steps = turn[t].steps /\ turn'[t].invalid = 0 /\ turn'[t].pending = {}
  BY <1>1 DEF ToolCreates, ToolQueuesJob, ToolCommits, TurnType
<1>4. row \in [Rows -> {"none", "live", "deleted_at", "gone"}]
  BY DEF WorkspaceInv, RowsOK
<1>5. \A x \in Rows \ Workflows : row'[x] # "deleted_at"
  BY <1>4 DEF ToolCreates, ToolQueuesJob, BoundsInv
<1>6. turn'[t].steps <= MaxSteps /\ turn'[t].invalid <= MaxInvalid
  BY <1>3, ChatTurnsAssumption DEF BoundsInv
<1>7. messages' \cup turn'[t].pending \subseteq messages \cup turn[t].pending \cup {}
  BY <1>2, <1>3
<1> QED
  BY <1>3, <1>5, <1>6, <1>7, BoundsStep

(* The messages of the user and of the assistant get the next id *)
LEMMA BoundsSave ==
  ASSUME WorkspaceInv, IdsOK, BoundsInv, NEW t \in Turns, SaveUser(t) \/ SaveAnswer(t)
  PROVE  BoundsInv'
<1>1. turn \in [Turns -> TurnType] /\ turn[t] \in TurnType
  BY DEF WorkspaceInv, TurnsOK
<1>2. PICK m : /\ m.id = clock + 1
               /\ \/ SaveUser(t) /\ m = Message(t, "user", clock + 1)
                  \/ SaveAnswer(t) /\ m = Message(t, "assistant", clock + 1)
  BY DEF Message
<1>3. UNCHANGED row /\ \A u \in Turns \ {t} : turn'[u] = turn[u]
  BY <1>1 DEF SaveUser, SaveAnswer, Ended, workspaceVars
<1>4. /\ turn'[t].steps <= MaxSteps /\ turn'[t].invalid <= MaxInvalid
      /\ turn'[t].pending \in {turn[t].pending, {m}, {}}
      /\ messages' \subseteq messages \cup turn[t].pending \cup {m}
  <2>1. CASE SaveUser(t) /\ m = Message(t, "user", clock + 1)
    BY <1>1, <2>1 DEF SaveUser, TurnType, BoundsInv
  <2>2. CASE SaveAnswer(t) /\ m = Message(t, "assistant", clock + 1)
    BY <1>1, <2>2, ChatTurnsAssumption DEF SaveAnswer, Ended, NotStarted
  <2> QED
    BY <1>2, <2>1, <2>2
<1>5. \A p, q \in turn'[t].pending : p = q
  BY <1>4 DEF BoundsInv
<1>6. \A p, q \in {m} : p = q /\ p.id = clock + 1
  BY <1>2
<1>7. messages' \cup turn'[t].pending \subseteq messages \cup turn[t].pending \cup {m}
  BY <1>4
<1>8. \A x \in Rows \ Workflows : row'[x] # "deleted_at"
  BY <1>3 DEF BoundsInv
<1> QED
  BY <1>3, <1>4, <1>5, <1>6, <1>7, <1>8, BoundsStep

LEMMA BoundsNext ==
  ASSUME WorkspaceInv, IdsOK, BoundsInv, [TurnNext]_<<workspaceVars, turnVars>>
  PROVE  BoundsInv'
<1>1. CASE UNCHANGED <<workspaceVars, turnVars>>
  BY <1>1 DEF workspaceVars, turnVars, BoundsInv, Flushed
<1>2. ASSUME NEW t \in Turns,
             \/ SaveUserFails(t) \/ NothingToRegenerate(t) \/ InvalidAgent(t) \/ AnswerRaises(t)
             \/ NextCallRaises(t) \/ SaveAnswerFails(t) \/ Abort(t)
             \/ CreateMessage(t) \/ CreateMessageStream(t) \/ RegenerateMessage(t)
      PROVE  BoundsInv'
  <2>1. Raise(t) \/ \E kind, c, m : Begin(t, kind, c, m)
    BY <1>2 DEF SaveUserFails, NothingToRegenerate, InvalidAgent, AnswerRaises, NextCallRaises,
           SaveAnswerFails, Abort, CreateMessage, CreateMessageStream, RegenerateMessage
  <2> QED
    BY <2>1, BoundsFresh
<1> QED
  BY <1>1, <1>2, BoundsEdit, BoundsLoop, BoundsTool, BoundsSave DEF TurnNext

(* Types, and the two bounds of the tool loop: whatever the tools answer, a *)
(* turn makes no more than MaxSteps tool calls and goes on after no more    *)
(* than MaxInvalid invalid arguments in a row.  No id is given out twice.   *)
THEOREM TurnTypes == TurnSpec => []TurnTypeOK
<1>1. WorkspaceInv /\ OrderInv /\ BoundsInv => TurnTypeOK
  <2> SUFFICES ASSUME WorkspaceInv, OrderInv, BoundsInv PROVE TurnTypeOK
    OBVIOUS
  <2>1. ASSUME NEW t \in Turns PROVE Cardinality(turn[t].pending) <= 1
    <3>1. CASE turn[t].pending = {}
      BY <3>1, FS_EmptySet
    <3>2. ASSUME NEW m \in turn[t].pending PROVE Cardinality(turn[t].pending) = 1
      <4>1. turn[t].pending = {m}
        BY <3>2 DEF BoundsInv
      <4> QED
        BY <4>1, FS_Singleton
    <3> QED
      BY <3>1, <3>2
  <2>2. ASSUME NEW t \in Turns
        PROVE  /\ turn[t].pc \in Over \cup {"none", "load", "save", "history", "answer", "tool", "next", "reply"}
               /\ turn[t].steps \in 0 .. MaxSteps /\ turn[t].invalid \in 0 .. MaxInvalid
    <3>1. turn[t] \in TurnType /\ turn[t].steps <= MaxSteps /\ turn[t].invalid <= MaxInvalid
      BY DEF WorkspaceInv, TurnsOK, BoundsInv
    <3> QED
      BY <3>1, ChatTurnsAssumption DEF TurnType
  <2>3. \A m \in messages : m.id <= clock /\ m.at < m.id /\ m.role \in {"user", "assistant"}
    BY DEF OrderInv, IdsOK, Dated, WorkspaceInv, MessagesOK, MessageType
  <2>4. \A m, n \in messages : m.id = n.id => m = n
    BY DEF BoundsInv, Flushed
  <2> QED
    BY <2>1, <2>2, <2>3, <2>4 DEF TurnTypeOK, WorkspaceInv, RowsOK, EditsOK, BoundsInv
<1>2. WorkspaceInv /\ OrderInv /\ BoundsInv /\ [TurnNext]_<<workspaceVars, turnVars>> => BoundsInv'
  BY BoundsNext DEF OrderInv
<1> QED
  BY <1>1, <1>2, BoundsInit, OrderInvariant, PTL DEF TurnSpec
=============================================================================
