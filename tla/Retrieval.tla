------------------------------- MODULE Retrieval -------------------------------
(***************************************************************************)
(* The documents behind an answer: the searches AgentService plans         *)
(* (app/services/agent.py), the chunks RAGService keeps of each search     *)
(* (rag.py, retrieval.py), the excerpts the agent adds, and the sources    *)
(* cited to the user.  A step goes from one await of the code to the next. *)
(***************************************************************************)
EXTENDS Naturals, Sequences, FiniteSets, SequencesExt, Ordering

CONSTANTS
    Docs,          \* ids of the documents of the project, positive
    PerDoc,        \* indexed chunks of each
    Relevant,      \* the documents _relevant_documents selects, in their order
    Lines,         \* what a planner may write on a line
    Question,      \* the user's question: one of Lines
    MaxQueries,    \* max_queries
    TopK,          \* top_k
    MaxSources     \* MAX_SOURCES

ASSUME RetrievalAssumption ==
    /\ Docs \subseteq Nat \ {0} /\ IsFiniteSet(Docs)
    /\ Relevant \in Seq(Docs) /\ \A i, j \in DOMAIN Relevant : Relevant[i] = Relevant[j] => i = j
    /\ Question \in Lines
    /\ MaxQueries \in Nat \ {0} /\ PerDoc \in Nat /\ TopK \in Nat /\ MaxSources \in Nat

VARIABLES
    stage,         \* "plan", "search", "cite", "done"
    agentic,       \* the question goes to AgentService, else to RAGService
    queries,       \* retrieval_queries
    searched,      \* how many of them were sent to the vector search
    context,       \* retrieved_chunks
    sources        \* what build_sources returned

retrievalVars == <<stage, agentic, queries, searched, context, sources>>

(* Cosine distances, told apart by SOURCE_RELEVANCE_THRESHOLD, above 1, and *)
(* by SIMILARITY_THRESHOLD, above 2.  An excerpt has distance 0.            *)
Scores == 0 .. 3
SourceRelevance == 1
Similarity == 2

RetrievalInit ==
    /\ stage = "plan" /\ agentic \in BOOLEAN
    /\ queries = <<>> /\ searched = 0 /\ context = <<>> /\ sources = <<>>

-----------------------------------------------------------------------------
(* _plan_document_searches *)

UpTo(n, s) == SubSeq(s, 1, IF Len(s) < n THEN Len(s) ELSE n)

(* What was appended unless it was there already *)
Distinct(qs) == Keeping(qs, {i \in DOMAIN qs : \A j \in 1 .. i - 1 : qs[j] # qs[i]})

Query(line) == [doc |-> 0, text |-> line]

(* Blank lines and repetitions are dropped *)
ParseQueries(lines) ==
    UpTo(MaxQueries, Distinct([i \in DOMAIN lines |-> Query(lines[i])]))

(* The name of a document before the question *)
DocumentQueries == [i \in DOMAIN Relevant |-> [doc |-> Relevant[i], text |-> Question]]

(* A faulty form, for the mutation runs of the README *)
WithQuestion_Last(qs) ==
    IF Contains(qs, Query(Question)) THEN qs ELSE Append(qs, Query(Question))

WithQuestion(qs) ==
    IF Contains(qs, Query(Question)) THEN qs ELSE <<Query(Question)>> \o qs

(* The planner may answer anything, and the call may raise *)
PlanDocumentSearches ==
    /\ stage = "plan" /\ agentic
    /\ \E n \in 0 .. MaxQueries + 1 : \E lines \in [1 .. n -> Lines] :
        queries' = UpTo(MaxQueries, WithQuestion(Distinct(ParseQueries(lines) \o DocumentQueries)))
    /\ stage' = "search"
    /\ UNCHANGED <<agentic, searched, context, sources>>

(* A question that asks for the list of the documents is answered with it; *)
(* one that is about no document, alone or in its thread, without any       *)
ListProjectDocuments ==
    /\ stage = "plan" /\ agentic
    /\ stage' = "done"
    /\ UNCHANGED <<agentic, queries, searched, context, sources>>

NeedsNoDocuments ==
    /\ stage = "plan" /\ agentic
    /\ stage' = "cite"
    /\ UNCHANGED <<agentic, queries, searched, context, sources>>

(* RAGService.answer searches for the question alone *)
Answer ==
    /\ stage = "plan" /\ ~agentic
    /\ queries' = <<Query(Question)>> /\ stage' = "search"
    /\ UNCHANGED <<agentic, searched, context, sources>>

-----------------------------------------------------------------------------
(* search_project_documents *)

Chunks == Docs \X (1 .. PerDoc)

InContext(c) == \E i \in DOMAIN context : context[i].chunk = c

(* The nearest chunks of the project, by distance *)
Retrieved ==
    UNION {{r \in [1 .. k -> [chunk : Chunks, score : Scores]] :
                \A i, j \in 1 .. k : i < j => r[i].chunk # r[j].chunk /\ r[i].score <= r[j].score} :
           k \in 0 .. TopK}

Keeps(result) == result.score <= Similarity /\ ~InContext(result.chunk)

SearchProjectDocuments ==
    /\ stage = "search" /\ searched < Len(queries)
    /\ \E results \in Retrieved :
            context' = context \o Keeping(results, {i \in DOMAIN results : Keeps(results[i])})
    /\ searched' = searched + 1
    /\ UNCHANGED <<stage, agentic, queries, sources>>

-----------------------------------------------------------------------------
(* _with_relevant_document_excerpts: the documents that have text *)

Excerpt(d) == [chunk |-> <<d, 0>>, score |-> 0]

Missing(d) == \A i \in DOMAIN context : context[i].chunk[1] # d

(* Without any chunk the agent returns at once, and the turn raises on what *)
(* it returned (see the README)                                             *)
AddExcerpts ==
    /\ stage = "search" /\ searched = Len(queries)
    /\ IF agentic
       THEN \E withText \in SUBSET Docs :
                LET added == Keeping(Relevant, {i \in DOMAIN Relevant :
                                         Relevant[i] \in withText /\ Missing(Relevant[i])}) IN
                context' = context \o [i \in DOMAIN added |-> Excerpt(added[i])]
       ELSE UNCHANGED context
    /\ stage' = IF agentic /\ context' = <<>> THEN "done" ELSE "cite"
    /\ UNCHANGED <<agentic, queries, searched, sources>>

(* build_sources *)
Smallest(S) == CHOOSE s \in S : \A t \in S : s <= t

Cited(d) == {i \in DOMAIN context : context[i].chunk[1] = d /\ context[i].score <= SourceRelevance}

Source(d) == [doc |-> d, matches |-> Cardinality(Cited(d)),
              best |-> Smallest({context[i].score : i \in Cited(d)})]

(* Equal distances keep the order in which the documents were grouped *)
First(d) == CHOOSE i \in Cited(d) : \A j \in Cited(d) : i <= j

Before(a, b) == a.best < b.best \/ (a.best = b.best /\ First(a.doc) < First(b.doc))

Grouped == {Source(d) : d \in {e \in Docs : Cited(e) # {}}}

BuildSources ==
    /\ stage = "cite"
    /\ sources' = UpTo(MaxSources,
                       OrderBy(Grouped, {p \in Grouped \X Grouped : Before(p[1], p[2])}))
    /\ stage' = "done"
    /\ UNCHANGED <<agentic, queries, searched, context>>

RetrievalNext ==
    \/ PlanDocumentSearches \/ ListProjectDocuments \/ NeedsNoDocuments
    \/ Answer \/ SearchProjectDocuments \/ AddExcerpts \/ BuildSources

RetrievalSpec == RetrievalInit /\ [][RetrievalNext]_retrievalVars

-----------------------------------------------------------------------------
(* Whatever the planner writes, the question itself is among the searches;  *)
(* no chunk is given to the model twice; and the sources shown to the user  *)
(* are documents of that context, none of them farther from the question    *)
(* than a document left out (constants.py, above MAX_SOURCES: "ranked by    *)
(* their single best (closest) chunk match").                               *)
AnswerGrounded ==
    /\ queries # <<>> \/ stage = "search" =>
            Contains(queries, Query(Question)) /\ Len(queries) <= MaxQueries
    /\ \A i, j \in DOMAIN context : context[i].chunk = context[j].chunk => i = j
    /\ stage = "done" =>
        /\ \A i \in DOMAIN sources : \E j \in DOMAIN context :
                context[j] = [chunk |-> <<sources[i].doc, context[j].chunk[2]>>, score |-> sources[i].best]
        /\ \A j \in DOMAIN context : context[j].score <= SourceRelevance =>
                \/ \E i \in DOMAIN sources : sources[i].doc = context[j].chunk[1]
                \/ Len(sources) = MaxSources /\ \A i \in DOMAIN sources : sources[i].best <= context[j].score
=============================================================================
