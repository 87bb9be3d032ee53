----------------------------- MODULE AgentGraph -----------------------------
(***************************************************************************)
(* One analyst run through the agent graph of backend/app/agents:          *)
(* supervisor -> evidence agent -> supervisor -> ... -> generate -> critic *)
(* -> end or supervisor again, with the budgets of workflow.py.            *)
(*                                                                         *)
(* The model's answers are any answers.  AgentState is reduced to what the *)
(* code decides on.  Every node appends exactly one entry to `steps', and  *)
(* the code asks only for its length and for the presence of the entries   *)
(* of evidence agents: nsteps and taken.  A piece of evidence is named by  *)
(* the number of the tool call that brought it.  Time is whether           *)
(* deadline_seconds have passed.  The data node without an SQL executor is *)
(* left out: `data' is routed to only when there is one.                   *)
(***************************************************************************)
EXTENDS Naturals

CONSTANTS
  MaxSteps,      \* settings.max_agent_steps
  MaxToolCalls,  \* settings.max_tool_calls
  MaxRevisions,  \* settings.max_agent_revisions
  WebEnabled,    \* deps.web_enabled
  SqlEnabled     \* deps.execute_sql is given

ASSUME GraphAssumption ==
  /\ MaxSteps \in Nat \ {0}
  /\ MaxToolCalls \in Nat \ {0}
  /\ MaxRevisions \in Nat
  /\ WebEnabled \in BOOLEAN
  /\ SqlEnabled \in BOOLEAN

VARIABLES
  node,       \* the node to run next, or how the run ended
  nsteps,     \* len(state["steps"])
  taken,      \* the entries of evidence agents in state["steps"]
  calls,      \* budget._tool_calls
  revisions,  \* state["revisions"]
  documents,  \* tool calls whose results are in state["documents"]
  sql,        \* tool call whose result is in state["sql_result"], 0 for None
  citations,  \* tool calls whose results are in state["citations"]
  numeric,    \* the question contains one of numeric_words
  late        \* the deadline has passed

graphVars == <<node, nsteps, taken, calls, revisions, documents, sql, citations, numeric, late>>

Tool == {"retriever", "web", "data"}
Node == Tool \cup {"supervisor", "generate", "critic"}
Ending == {"answered", "failed", "refused", "out_of_steps"}
EvidenceStep == {"retriever", "web", "web_unavailable", "data(sql)"}

GraphTypeOK ==
  /\ node \in Node \cup Ending
  /\ nsteps \in Nat
  /\ taken \in SUBSET EvidenceStep
  /\ calls \in Nat
  /\ revisions \in Nat
  /\ documents \in SUBSET Nat
  /\ sql \in Nat
  /\ citations \in SUBSET Nat
  /\ numeric \in BOOLEAN
  /\ late \in BOOLEAN

GraphInit ==
  /\ node = "supervisor"
  /\ nsteps = 0
  /\ taken = {}
  /\ calls = 0
  /\ revisions = 0
  /\ documents = {}
  /\ sql = 0
  /\ citations = {}
  /\ numeric \in BOOLEAN
  /\ late = FALSE

(* The bound run_workflow hands to LangGraph. *)
RecursionLimit == IF MaxSteps * 4 > 8 THEN MaxSteps * 4 ELSE 8

(* LangGraph runs the next node while the recursion limit allows it. *)
Enter(n) == node = n /\ nsteps < RecursionLimit /\ nsteps' = nsteps + 1

-----------------------------------------------------------------------------
(* Routing: supervisor.py *)

Allowed ==
  {"retriever"} \cup (IF WebEnabled THEN {"web"} ELSE {}) \cup (IF SqlEnabled THEN {"data"} ELSE {})

HasGathered == taken # {}

(* Mutant: the router may finish before it has gathered. *)
OfferedFinish == Allowed \cup {"finish"}

(* choose_route: finish is withheld until an evidence agent has run. *)
Offered == IF HasGathered THEN Allowed \cup {"finish"} ELSE Allowed

(* _fallback_route *)
FallbackRoute ==
  IF "data" \in Allowed /\ numeric /\ "data(sql)" \notin taken THEN "data"
  ELSE IF "retriever" \notin taken THEN "retriever"
  ELSE IF "web" \in Allowed /\ "web" \notin taken THEN "web"
  ELSE "finish"

(* choose_route: the model's route if it was offered; an invalid answer or *)
(* a transient provider error falls back.                                  *)
RouteChoices == IF nsteps >= MaxSteps THEN {"finish"} ELSE Offered \cup {FallbackRoute}

(* Mutant: the call that would go over the ceiling is let through. *)
BudgetOverrun == calls > MaxToolCalls \/ late

(* _RunBudget.exhausted_reason is not None. *)
BudgetExhausted == calls >= MaxToolCalls \/ late

-----------------------------------------------------------------------------
(* Nodes: workflow.py and the agents *)

Supervisor ==
  /\ Enter("supervisor")
  /\ \E route \in IF BudgetExhausted THEN {"finish"} ELSE RouteChoices :
       /\ node' = IF route = "finish" THEN "generate" ELSE route
       /\ calls' = IF route \in Tool THEN calls + 1 ELSE calls
  /\ UNCHANGED <<taken, revisions, documents, sql, citations, numeric, late>>

(* retriever_agent and web_agent append their results, if there are any,   *)
(* to the documents and to the citations.                                  *)
Search(found) ==
  /\ documents' = IF found THEN documents \cup {calls} ELSE documents
  /\ citations' = IF found THEN citations \cup {calls} ELSE citations
  /\ node' = "supervisor"
  /\ UNCHANGED <<calls, revisions, sql, numeric, late>>

Retrieve ==
  /\ Enter("retriever")
  /\ \E found \in BOOLEAN : Search(found)
  /\ taken' = taken \cup {"retriever"}

WebSearch ==
  /\ Enter("web")
  /\ \/ taken' = taken \cup {"web"} /\ \E found \in BOOLEAN : Search(found)
     \/ taken' = taken \cup {"web_unavailable"} /\ Search(FALSE)

(* Mutant: the query result is used and not cited. *)
DataUncited ==
  /\ Enter("data")
  /\ sql' = calls
  /\ taken' = taken \cup {"data(sql)"}
  /\ node' = "supervisor"
  /\ UNCHANGED <<calls, revisions, documents, citations, numeric, late>>

(* Mutant: the step is recorded under a name the router does not know. *)
DataMisnamed ==
  /\ Enter("data")
  /\ sql' = calls
  /\ citations' = citations \cup {calls}
  /\ taken' = taken \cup {"data"}
  /\ node' = "supervisor"
  /\ UNCHANGED <<calls, revisions, documents, numeric, late>>

(* data_agent: the result replaces the previous one, the citation is added *)
(* to the previous ones.                                                   *)
Data ==
  /\ Enter("data")
  /\ sql' = calls
  /\ citations' = citations \cup {calls}
  /\ taken' = taken \cup {"data(sql)"}
  /\ node' = "supervisor"
  /\ UNCHANGED <<calls, revisions, documents, numeric, late>>

Generate ==
  /\ Enter("generate")
  /\ node' = "critic"
  /\ UNCHANGED <<taken, calls, revisions, documents, sql, citations, numeric, late>>

(* Mutant: a rejected answer is revised however often it was. *)
CriticInsists ==
  /\ Enter("critic")
  /\ \E ok \in BOOLEAN :
       /\ node' = IF ok THEN "answered" ELSE "supervisor"
       /\ revisions' = IF ok THEN revisions ELSE revisions + 1
  /\ UNCHANGED <<taken, calls, documents, sql, citations, numeric, late>>

(* The answer is returned when it is approved, or when it is rejected and  *)
(* no revision is left.                                                    *)
Critic ==
  /\ Enter("critic")
  /\ \E ok \in BOOLEAN :
       /\ node' = IF ~ok /\ revisions < MaxRevisions THEN "supervisor" ELSE "answered"
       /\ revisions' = IF ok THEN revisions ELSE revisions + 1
  /\ UNCHANGED <<taken, calls, documents, sql, citations, numeric, late>>

(* graph.invoke raises: LangGraph has run as many nodes as it may, or an   *)
(* event could not be stored, the search, the query or the model failed,   *)
(* the answer was empty or the verdict malformed.  Only web search does    *)
(* not call the model provider, which may refuse for good.                 *)
InvokeRaises ==
  /\ node \in Node
  /\ node' \in IF nsteps >= RecursionLimit THEN {"out_of_steps"}
               ELSE IF node = "web" THEN {"failed"}
               ELSE {"failed", "refused"}
  /\ UNCHANGED <<nsteps, taken, calls, revisions, documents, sql, citations, numeric, late>>

(* The clock: before, between or during nodes. *)
DeadlinePasses ==
  /\ node \in Node
  /\ ~late
  /\ late' = TRUE
  /\ UNCHANGED <<node, nsteps, taken, calls, revisions, documents, sql, citations, numeric>>

RunNode == Supervisor \/ Retrieve \/ WebSearch \/ Data \/ Generate \/ Critic

GraphNext == RunNode \/ InvokeRaises \/ DeadlinePasses

GraphSpec == GraphInit /\ [][GraphNext]_graphVars

-----------------------------------------------------------------------------
(* Properties *)

(* workflow.py ("Hard ceiling on evidence-gathering calls"): over all      *)
(* revisions together the run never makes more tool calls than allowed,    *)
(* and every piece of evidence comes from one of them.                     *)
WithinToolBudget ==
  /\ calls <= MaxToolCalls
  /\ documents \cup citations \subseteq 1 .. calls
  /\ sql <= calls

(* workflow.py ("Exhausting either does not fail the run ... the terminal  *)
(* state is deterministic"): whatever the model answers and however often  *)
(* the critic asks for a revision, the run never hits the recursion limit. *)
RecursionLimitSuffices == node # "out_of_steps"

(* supervisor.py ("`finish' is withheld until an evidence agent has run"): *)
(* no answer is written before evidence was sought, unless the deadline    *)
(* passed first.                                                           *)
GatheredBeforeAnswer ==
  node \in {"generate", "critic", "answered"} => HasGathered \/ late

(* critic.py ("exactly the material the answer was allowed to use and that *)
(* the run will cite"): the answer is given no evidence that is not cited. *)
EvidenceIsCited == documents \cup ({sql} \ {0}) \subseteq citations

=============================================================================
