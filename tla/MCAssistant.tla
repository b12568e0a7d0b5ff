------------------------------ MODULE MCAssistant ------------------------------
(***************************************************************************)
(* One run for two parts that share no state, the chats and the provider   *)
(* settings: a behaviour is a behaviour of one of them.                    *)
(***************************************************************************)
EXTENDS ChatTurns, ProviderConfig, TLC

VARIABLE part

vars == <<part, workspaceVars, turnVars, configVars>>

Init ==
    /\ part \in {"chats", "settings"}
    /\ TurnInit
    /\ ConfigInit

Next ==
    /\ UNCHANGED part
    /\ \/ part = "chats" /\ TurnNext /\ UNCHANGED configVars
       \/ part = "settings" /\ ConfigNext /\ UNCHANGED <<workspaceVars, turnVars>>

Spec == Init /\ [][Next]_vars

(* Nothing is there, or the project with its chat *)
MC_Made == {{}, {Project} \cup Chats}
MC_Order == <<"ollama", "gemini">>
MC_WorkflowOf == [x \in Leaves |-> CHOOSE w \in Workflows : TRUE]
MC_Symmetry == Permutations(Turns)

(* Types of the variables of both parts; the steps and the repeated invalid *)
(* arguments of the tool loop stay within their limits                      *)
TypeOK == TurnTypeOK /\ ConfigTypeOK
=============================================================================
