----------------------------- MODULE MCAlgorithms -----------------------------
(***************************************************************************)
(* One run for four parts that share no state: a behaviour is a behaviour  *)
(* of one of them, the variables of the others keep their initial values.  *)
(***************************************************************************)
EXTENDS Integers, Failover, Retrieval, CycleDetection, Chunker

VARIABLE part

NoSearch ==
    /\ graph = [n \in Nodes |-> {}] /\ roots = {} /\ visited = {} /\ path = <<>>
    /\ left = [n \in Nodes |-> {}] /\ verdict = "acyclic"

NoText ==
    /\ length = 0 /\ size = 1 /\ overlap = 0 /\ blank = {}
    /\ start = 0 /\ chunks = <<>> /\ state = "cutting"

Init ==
    /\ part \in {"failover", "retrieval", "cycles", "chunks"}
    /\ IF part = "cycles" THEN SearchInit ELSE NoSearch
    /\ IF part = "chunks" THEN ChunkInit ELSE NoText
    /\ FailoverInit
    /\ RetrievalInit /\ (part # "retrieval" => agentic)

vars == <<part, failoverVars, retrievalVars, searchVars, chunkVars>>

Next ==
    /\ UNCHANGED part
    /\ \/ /\ part = "failover" /\ FailoverNext
          /\ UNCHANGED <<retrievalVars, searchVars, chunkVars>>
       \/ /\ part = "retrieval" /\ RetrievalNext
          /\ UNCHANGED <<failoverVars, searchVars, chunkVars>>
       \/ /\ part = "cycles" /\ SearchNext
          /\ UNCHANGED <<failoverVars, retrievalVars, chunkVars>>
       \/ /\ part = "chunks" /\ ChunkNext
          /\ UNCHANGED <<failoverVars, retrievalVars, searchVars>>

Spec ==
    /\ Init /\ [][Next]_vars
    /\ \A r \in Requests :
        WF_vars(part = "failover" /\ Progress(r)
                /\ UNCHANGED <<part, retrievalVars, searchVars, chunkVars>>)
    /\ WF_vars(part = "cycles" /\ Next)

MC_Chain == <<"gemini", "ollama">>
MC_Relevant == <<2>>
MC_Overlaps == -1 .. 3
=============================================================================
