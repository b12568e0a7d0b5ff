------------------------------- MODULE Workspace -------------------------------
(***************************************************************************)
(* The rows of a project: its chats, its workflows and their steps and     *)
(* agent runs, and the requests that create, rename and delete them:       *)
(* app/services/resource_updates.py, the repositories and routes of the    *)
(* four resources and the get_owned_* dependencies.                        *)
(*                                                                         *)
(* A request reads the row it is about (404 without it) and writes after   *)
(* an await, when the row or its parent may be gone.  Flush and commit     *)
(* follow each other and are one step.                                     *)
(***************************************************************************)
EXTENDS Naturals, Sequences, FiniteSets

CONSTANTS
    Project, Chats, Workflows,
    Steps, AgentRuns,   \* of the workflows
    WorkflowOf,    \* the workflow of each step and agent run
    Editors,       \* concurrent requests
    MaxRequests,   \* bound on the requests of a behaviour
    Made,          \* sets of rows that may be there at the start
    Absent         \* none of the above

VARIABLES
    row,           \* of each row: "none" yet, "live", "deleted_at" set, "gone"
    edit,          \* what each request is doing
    requests          \* requests so far

workspaceVars == <<row, edit, requests>>

Leaves == Steps \cup AgentRuns
Rows   == {Project} \cup Chats \cup Workflows \cup Leaves

Parent(x) == CASE x \in Chats \cup Workflows -> Project
               [] x \in Leaves               -> WorkflowOf[x]
               [] OTHER                      -> Absent

ASSUME WorkspaceAssumption ==
    /\ Project \notin Chats \cup Workflows \cup Leaves /\ Absent \notin Rows
    /\ Chats \cap Workflows = {} /\ Chats \cap Leaves = {} /\ Workflows \cap Leaves = {}
    /\ WorkflowOf \in [Leaves -> Workflows]
    /\ \A made \in Made : made \subseteq Rows /\ \A x \in made \ {Project} : Parent(x) \in made

NoEdit == [op |-> "idle", on |-> Absent]

WorkspaceInit ==
    /\ row \in {[x \in Rows |-> IF x \in made THEN "live" ELSE "none"] : made \in Made}
    /\ edit = [e \in Editors |-> NoEdit]
    /\ requests = 0

(* A foreign key refers to the row, also when deleted_at is set *)
Exists(x) == row[x] \in {"live", "deleted_at"}

(* get_owned_project, get_owned_chat, get_owned_workflow and                *)
(* get_owned_workflow_step: the row of a chat joined to its project, of a   *)
(* step to its workflow without deleted_at                                  *)
OwnedProject     == row[Project] = "live"
OwnedChat(x)     == row[x] = "live" /\ Exists(Project)
OwnedWorkflow(x) == row[x] = "live"
OwnedStep(x)     == row[x] = "live" /\ row[Parent(x)] = "live"

-----------------------------------------------------------------------------
(* Faulty forms of definitions below, for the mutation runs of the README *)

Below_Children(x) == {x} \cup {y \in Rows : Parent(y) = x}

-----------------------------------------------------------------------------
Start(e, op, x) ==
    /\ edit[e].op = "idle" /\ requests < MaxRequests
    /\ edit' = [edit EXCEPT ![e] = [op |-> op, on |-> x]]
    /\ requests' = requests + 1
    /\ UNCHANGED row

(* POST: the parent is the owned one; a project needs none *)
CreateProject(e)  == row[Project] = "none" /\ Start(e, "create", Project)
CreateChat(e)     == \E x \in Chats : row[x] = "none" /\ OwnedProject /\ Start(e, "create", x)
CreateWorkflow(e) == \E x \in Workflows : row[x] = "none" /\ OwnedProject /\ Start(e, "create", x)
CreateStep(e)     == \E x \in Steps : row[x] = "none" /\ OwnedWorkflow(Parent(x)) /\ Start(e, "create", x)
RunAgent(e)       == \E x \in AgentRuns : row[x] = "none" /\ OwnedWorkflow(Parent(x)) /\ Start(e, "create", x)

(* PATCH; steps and agent runs have none *)
UpdateProject(e)  == OwnedProject /\ Start(e, "rename", Project)
UpdateChat(e)     == \E x \in Chats : OwnedChat(x) /\ Start(e, "rename", x)
UpdateWorkflow(e) == \E x \in Workflows : OwnedWorkflow(x) /\ Start(e, "rename", x)

(* DELETE; agent runs have none *)
DeleteProject(e)  == OwnedProject /\ Start(e, "delete", Project)
DeleteChat(e)     == \E x \in Chats : OwnedChat(x) /\ Start(e, "delete", x)
DeleteWorkflow(e) == \E x \in Workflows : OwnedWorkflow(x) /\ Start(e, "delete", x)
DeleteStep(e)     == \E x \in Steps : OwnedStep(x) /\ Start(e, "delete", x)

-----------------------------------------------------------------------------
(* The services: the write and the commit *)

Writes(e, op, S) == edit[e].op = op /\ edit[e].on \in S

Ends(e) ==
    /\ edit' = [edit EXCEPT ![e] = NoEdit]
    /\ UNCHANGED requests

(* INSERT: IntegrityError when the parent is gone; two requests make two    *)
(* rows, here the second finds the row of the first                         *)
Insert(e) ==
    /\ row' = IF row[edit[e].on] = "none" /\ (edit[e].on = Project \/ Exists(Parent(edit[e].on)))
              THEN [row EXCEPT ![edit[e].on] = "live"] ELSE row
    /\ Ends(e)

InsertProject(e)  == Writes(e, "create", {Project}) /\ Insert(e)
InsertChat(e)     == Writes(e, "create", Chats) /\ Insert(e)
InsertWorkflow(e) == Writes(e, "create", Workflows) /\ Insert(e)
InsertStep(e)     == Writes(e, "create", Steps) /\ Insert(e)
InsertAgentRun(e) == Writes(e, "create", AgentRuns) /\ Insert(e)

(* UPDATE of the name: 422 for a blank or long one, StaleDataError when the *)
(* row is gone; that of a workflow whose deleted_at was set meanwhile       *)
(* succeeds                                                                 *)
Rename(e) == UNCHANGED row /\ Ends(e)

RenameProject(e)  == Writes(e, "rename", {Project}) /\ Rename(e)
RenameChat(e)     == Writes(e, "rename", Chats) /\ Rename(e)
RenameWorkflow(e) == Writes(e, "rename", Workflows) /\ Rename(e)

(* cascade="all, delete-orphan" and ON DELETE CASCADE: the rows of x and of *)
(* everything below                                                         *)
Below(x) == {y \in Rows : y = x \/ Parent(y) = x \/ (y \in Leaves /\ Parent(Parent(y)) = x)}

Remove(e) ==
    /\ row' = [x \in Rows |-> IF x \in Below(edit[e].on) /\ Exists(x) THEN "gone" ELSE row[x]]
    /\ Ends(e)

RemoveProject(e) == Writes(e, "delete", {Project}) /\ Remove(e)
RemoveChat(e)    == Writes(e, "delete", Chats) /\ Remove(e)
RemoveStep(e)    == Writes(e, "delete", Steps) /\ Remove(e)

(* A workflow is kept with deleted_at *)
RemoveWorkflow(e) ==
    /\ Writes(e, "delete", Workflows)
    /\ row' = [row EXCEPT ![edit[e].on] = IF @ = "live" THEN "deleted_at" ELSE @]
    /\ Ends(e)

Request(e) ==
    \/ CreateProject(e) \/ CreateChat(e) \/ CreateWorkflow(e) \/ CreateStep(e) \/ RunAgent(e)
    \/ UpdateProject(e) \/ UpdateChat(e) \/ UpdateWorkflow(e)
    \/ DeleteProject(e) \/ DeleteChat(e) \/ DeleteWorkflow(e) \/ DeleteStep(e)

Save(e) ==
    \/ InsertProject(e) \/ InsertChat(e) \/ InsertWorkflow(e) \/ InsertStep(e) \/ InsertAgentRun(e)
    \/ RenameProject(e) \/ RenameChat(e) \/ RenameWorkflow(e)
    \/ RemoveStep(e) \/ RemoveWorkflow(e)
=============================================================================
