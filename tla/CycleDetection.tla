---------------------------- MODULE CycleDetection ----------------------------
(***************************************************************************)
(* DAGEngine.detect_cycles (app/services/workflow/dag_engine.py): a        *)
(* recursive depth-first search that raises when it meets a node of its    *)
(* own stack.  A step of this module is one call of dfs, or the return of  *)
(* one.  The dependencies of a node are a Python set: they come in any     *)
(* order.                                                                  *)
(***************************************************************************)
EXTENDS Naturals, Sequences, StepGraph

CONSTANT Nodes

VARIABLES
    graph,     \* depends_on of each step, dependencies already validated
    roots,     \* keys of graph the outer loop has not reached
    visited,
    path,      \* the nodes of the calls that have not returned: stack
    left,      \* dependencies such a call has not descended into
    verdict    \* "searching", "cycle" when ValueError is raised, "acyclic"

searchVars == <<graph, roots, visited, path, left, verdict>>

SearchInit ==
    /\ graph \in [Nodes -> SUBSET Nodes]
    /\ roots = Nodes
    /\ visited = {}
    /\ path = <<>>
    /\ left = [n \in Nodes |-> {}]
    /\ verdict = "searching"

Stack == {path[i] : i \in 1..Len(path)}

(* Faulty forms of definitions below, for the mutation runs of the README *)
OnStack_Visited(n) == n \in visited
Rest_All(n, d)     == left[n]

OnStack(n) == n \in Stack
Rest(n, d) == left[n] \ {d}

(* dfs(n), entered with the remaining dependencies of the callers in rest *)
Dfs(n, rest) ==
    CASE OnStack(n) ->
            /\ verdict' = "cycle"
            /\ left' = rest
            /\ UNCHANGED <<visited, path>>
      [] ~OnStack(n) /\ n \in visited ->
            /\ left' = rest
            /\ UNCHANGED <<visited, path, verdict>>
      [] ~OnStack(n) /\ n \notin visited ->
            /\ visited' = visited \cup {n}
            /\ path' = Append(path, n)
            /\ left' = [rest EXCEPT ![n] = graph[n]]
            /\ UNCHANGED verdict

Root(n) ==
    /\ verdict = "searching" /\ path = <<>> /\ n \in roots
    /\ roots' = roots \ {n}
    /\ Dfs(n, left)
    /\ UNCHANGED graph

Top == path[Len(path)]

Descend(d) ==
    /\ verdict = "searching" /\ path # <<>> /\ d \in left[Top]
    /\ Dfs(d, [left EXCEPT ![Top] = Rest(Top, d)])
    /\ UNCHANGED <<graph, roots>>

Return ==
    /\ verdict = "searching" /\ path # <<>> /\ left[Top] = {}
    /\ path' = SubSeq(path, 1, Len(path) - 1)
    /\ UNCHANGED <<graph, roots, visited, left, verdict>>

LoopEnds ==
    /\ verdict = "searching" /\ path = <<>> /\ roots = {}
    /\ verdict' = "acyclic"
    /\ UNCHANGED <<graph, roots, visited, path, left>>

SearchNext == (\E n \in Nodes : Root(n) \/ Descend(n)) \/ Return \/ LoopEnds

SearchSpec == SearchInit /\ [][SearchNext]_searchVars /\ WF_searchVars(SearchNext)

-----------------------------------------------------------------------------
(* The search raises exactly on the graphs that have a cycle, in whatever   *)
(* order it takes the nodes and their dependencies.                         *)
VerdictRight ==
    /\ verdict = "cycle" => HasCycle(graph, Nodes)
    /\ verdict = "acyclic" => ~HasCycle(graph, Nodes)

(* It ends on every graph. *)
SearchEnds == <>(verdict # "searching")
=============================================================================
