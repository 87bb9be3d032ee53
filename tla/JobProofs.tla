----------------------------- MODULE JobProofs -----------------------------
(***************************************************************************)
(* Proofs about what a worker does with the two kinds of job: executing a  *)
(* run (AgentGraph, for every setting of the budgets and every combination *)
(* of enabled tools) and ingesting a document (DocumentService, for any    *)
(* number of documents, ingestion handlers and delete requests).           *)
(***************************************************************************)
EXTENDS AgentGraph, DocumentService, TLAPS

(***************************************************************************)
(* The graph.  None of its properties is inductive.  That the recursion    *)
(* limit suffices rests on StepBound: how many nodes can have run when     *)
(* each node is entered.  The supervisor starts a tool only below MaxSteps,*)
(* so gathering ends by MaxSteps + 1, whatever the critic asks for; every  *)
(* round of the critic costs three more nodes.  That nothing is answered   *)
(* before evidence was sought rests on NothingYet: a supervisor that has   *)
(* gathered nothing is at its first step, so no budget can have sent it on.*)
(***************************************************************************)
StepBound ==
  /\ node \in Node => revisions <= MaxRevisions
  /\ node = "supervisor" => nsteps <= MaxSteps + 1 + 3 * revisions
  /\ node \in Tool => nsteps <= MaxSteps
  /\ node = "generate" => nsteps <= MaxSteps + 2 + 3 * revisions
  /\ node = "critic" => nsteps <= MaxSteps + 3 + 3 * revisions

NothingYet ==
  /\ node = "supervisor" /\ taken = {} => late \/ (nsteps = 0 /\ calls = 0)
  /\ GatheredBeforeAnswer

Provenance ==
  /\ WithinToolBudget
  /\ EvidenceIsCited
  /\ node \in Tool => calls >= 1

(* Every step of the graph keeps the state well typed. *)
LEMMA GraphTypeStep == GraphTypeOK /\ [GraphNext]_graphVars => GraphTypeOK'
<1> USE GraphAssumption
<1> SUFFICES ASSUME GraphTypeOK, [GraphNext]_graphVars PROVE GraphTypeOK'
  OBVIOUS
<1>1. CASE Supervisor
  <2>1. PICK route \in IF BudgetExhausted THEN {"finish"} ELSE RouteChoices :
          /\ node' = IF route = "finish" THEN "generate" ELSE route
          /\ calls' = IF route \in Tool THEN calls + 1 ELSE calls
    BY <1>1 DEF Supervisor
  <2>2. route \in Tool \cup {"finish"}
    BY <2>1 DEF RouteChoices, Offered, Allowed, FallbackRoute, Tool
  <2>3. node' \in Node /\ calls' \in Nat
    BY <2>1, <2>2 DEF Node, Tool, GraphTypeOK
  <2> QED BY <1>1, <2>3 DEF GraphTypeOK, Supervisor, Enter
<1>2. CASE Retrieve
  BY <1>2 DEF GraphTypeOK, Retrieve, Search, Enter, EvidenceStep, Node
<1>3. CASE WebSearch
  <2>1. PICK found \in BOOLEAN : Search(found)
    BY <1>3 DEF WebSearch
  <2>2. taken' = taken \cup {"web"} \/ taken' = taken \cup {"web_unavailable"}
    BY <1>3, Zenon DEF WebSearch
  <2>3. nsteps' = nsteps + 1
    BY <1>3, Zenon DEF WebSearch, Enter
  <2>4. taken \in SUBSET EvidenceStep /\ nsteps \in Nat
    BY DEF GraphTypeOK
  <2>5. taken' \in SUBSET EvidenceStep
    BY <2>2, <2>4, Zenon DEF EvidenceStep
  <2>6. nsteps' \in Nat
    BY <2>3, <2>4
  <2> QED BY <2>1, <2>5, <2>6 DEF GraphTypeOK, Search, Node
<1>4. CASE Data
  BY <1>4 DEF GraphTypeOK, Data, Enter, EvidenceStep, Node
<1>5. CASE Generate
  BY <1>5 DEF GraphTypeOK, Generate, Enter, Node
<1>6. CASE Critic
  BY <1>6 DEF GraphTypeOK, Critic, Enter, Node, Ending
<1>7. CASE InvokeRaises
  BY <1>7 DEF GraphTypeOK, InvokeRaises, Ending
<1>8. CASE DeadlinePasses
  BY <1>8 DEF GraphTypeOK, DeadlinePasses
<1>9. CASE UNCHANGED graphVars
  BY <1>9 DEF GraphTypeOK, graphVars
<1> QED BY <1>1, <1>2, <1>3, <1>4, <1>5, <1>6, <1>7, <1>8, <1>9 DEF GraphNext, RunNode

(* What the supervisor decides: it goes on to a tool only below MaxSteps   *)
(* and within the budget, and with nothing gathered it cannot finish       *)
(* unless one of them is spent.                                            *)
LEMMA SupervisorRoutes ==
  ASSUME GraphTypeOK, Supervisor
  PROVE  /\ node' \in Tool \cup {"generate"}
         /\ node' \in Tool => nsteps < MaxSteps /\ calls < MaxToolCalls /\ calls' = calls + 1
         /\ node' = "generate" => calls' = calls
         /\ node' = "generate" /\ taken = {} => calls >= MaxToolCalls \/ late \/ nsteps >= MaxSteps
<1> USE GraphAssumption
<1>1. PICK route \in IF BudgetExhausted THEN {"finish"} ELSE RouteChoices :
        /\ node' = IF route = "finish" THEN "generate" ELSE route
        /\ calls' = IF route \in Tool THEN calls + 1 ELSE calls
  BY DEF Supervisor
<1>2. route \in Tool \cup {"finish"}
  BY <1>1 DEF RouteChoices, Offered, Allowed, FallbackRoute, Tool
<1>3. route \in Tool => nsteps < MaxSteps /\ calls < MaxToolCalls
  BY <1>1 DEF RouteChoices, BudgetExhausted, GraphTypeOK, Tool
<1>4. route = "finish" /\ taken = {} => BudgetExhausted \/ nsteps >= MaxSteps
  BY <1>1 DEF RouteChoices, Offered, HasGathered, Allowed, FallbackRoute
<1> QED BY <1>1, <1>2, <1>3, <1>4 DEF Tool, BudgetExhausted

(* The bounds on the number of executed nodes are inductive. *)
LEMMA StepBoundStep == GraphTypeOK /\ StepBound /\ [GraphNext]_graphVars => StepBound'
<1> USE GraphAssumption
<1> SUFFICES ASSUME GraphTypeOK, StepBound, [GraphNext]_graphVars PROVE StepBound'
  OBVIOUS
<1>1. CASE Supervisor
  <2>1. /\ node' \in Tool \cup {"generate"}
        /\ node' \in Tool => nsteps < MaxSteps
    BY <1>1, SupervisorRoutes
  <2>2. node = "supervisor" /\ nsteps' = nsteps + 1 /\ revisions' = revisions
    BY <1>1 DEF Supervisor, Enter
  <2> QED BY <2>1, <2>2 DEF StepBound, GraphTypeOK, Tool, Node
<1>2. CASE Retrieve
  BY <1>2 DEF StepBound, GraphTypeOK, Retrieve, Search, Enter, Tool, Node
<1>3. CASE WebSearch
  BY <1>3 DEF StepBound, GraphTypeOK, WebSearch, Search, Enter, Tool, Node
<1>4. CASE Data
  BY <1>4 DEF StepBound, GraphTypeOK, Data, Enter, Tool, Node
<1>5. CASE Generate
  BY <1>5 DEF StepBound, GraphTypeOK, Generate, Enter, Tool, Node
<1>6. CASE Critic
  BY <1>6 DEF StepBound, GraphTypeOK, Critic, Enter, Tool, Node
<1>7. CASE InvokeRaises
  BY <1>7 DEF StepBound, InvokeRaises, Tool, Node
<1>8. CASE DeadlinePasses
  BY <1>8 DEF StepBound, DeadlinePasses
<1>9. CASE UNCHANGED graphVars
  BY <1>9 DEF StepBound, graphVars
<1> QED BY <1>1, <1>2, <1>3, <1>4, <1>5, <1>6, <1>7, <1>8, <1>9 DEF GraphNext, RunNode

(* A supervisor with nothing gathered is at its first step, or late. *)
LEMMA NothingYetStep == GraphTypeOK /\ NothingYet /\ [GraphNext]_graphVars => NothingYet'
<1> USE GraphAssumption
<1> SUFFICES ASSUME GraphTypeOK, NothingYet, [GraphNext]_graphVars PROVE NothingYet'
  OBVIOUS
<1> USE DEF NothingYet, GatheredBeforeAnswer, HasGathered
<1>1. CASE Supervisor
  <2>1. /\ node' \in Tool \cup {"generate"}
        /\ node' = "generate" /\ taken = {} => calls >= MaxToolCalls \/ late \/ nsteps >= MaxSteps
    BY <1>1, SupervisorRoutes
  <2>2. node = "supervisor" /\ taken' = taken /\ late' = late
    BY <1>1 DEF Supervisor, Enter
  <2> QED BY <2>1, <2>2 DEF GraphTypeOK, Tool
<1>2. CASE Retrieve
  BY <1>2 DEF Retrieve, Search
<1>3. CASE WebSearch
  BY <1>3 DEF WebSearch, Search
<1>4. CASE Data
  BY <1>4 DEF Data
<1>5. CASE Generate
  BY <1>5 DEF Generate, Enter
<1>6. CASE Critic
  BY <1>6 DEF Critic, Enter
<1>7. CASE InvokeRaises
  BY <1>7 DEF InvokeRaises
<1>8. CASE DeadlinePasses
  BY <1>8 DEF DeadlinePasses
<1>9. CASE UNCHANGED graphVars
  BY <1>9 DEF graphVars
<1> QED BY <1>1, <1>2, <1>3, <1>4, <1>5, <1>6, <1>7, <1>8, <1>9 DEF GraphNext, RunNode

(* Every piece of evidence stems from a counted call and is cited. *)
LEMMA ProvenanceStep == GraphTypeOK /\ Provenance /\ [GraphNext]_graphVars => Provenance'
<1> USE GraphAssumption
<1> SUFFICES ASSUME GraphTypeOK, Provenance, [GraphNext]_graphVars PROVE Provenance'
  OBVIOUS
<1> USE DEF Provenance, WithinToolBudget, EvidenceIsCited
<1>1. CASE Supervisor
  <2>1. /\ node' \in Tool \cup {"generate"}
        /\ node' \in Tool => calls < MaxToolCalls /\ calls' = calls + 1
        /\ node' = "generate" => calls' = calls
    BY <1>1, SupervisorRoutes
  <2>2. UNCHANGED <<documents, sql, citations>>
    BY <1>1 DEF Supervisor
  <2>3. CASE node' \in Tool
    BY <2>1, <2>2, <2>3 DEF GraphTypeOK
  <2>4. CASE node' = "generate"
    BY <2>1, <2>2, <2>4 DEF GraphTypeOK, Tool
  <2> QED BY <2>1, <2>3, <2>4
<1>2. ASSUME NEW found \in BOOLEAN, Search(found), node \in Tool
      PROVE  Provenance'
  <2>1. CASE found
    BY <1>2, <2>1 DEF Search, GraphTypeOK, Tool
  <2>2. CASE ~found
    BY <1>2, <2>2 DEF Search, GraphTypeOK, Tool
  <2> QED BY <2>1, <2>2
<1>3. CASE Retrieve
  BY <1>2, <1>3 DEF Retrieve, Enter, Tool
<1>4. CASE WebSearch
  BY <1>2, <1>4 DEF WebSearch, Enter, Tool
<1>5. CASE Data
  BY <1>5 DEF Data, Enter, GraphTypeOK, Tool
<1>6. CASE Generate
  BY <1>6 DEF Generate, Tool
<1>7. CASE Critic
  BY <1>7 DEF Critic, Tool
<1>8. CASE InvokeRaises
  BY <1>8 DEF InvokeRaises, Tool
<1>9. CASE DeadlinePasses
  BY <1>9 DEF DeadlinePasses
<1>10. CASE UNCHANGED graphVars
  BY <1>10 DEF graphVars
<1> QED
  BY <1>1, <1>3, <1>4, <1>5, <1>6, <1>7, <1>8, <1>9, <1>10 DEF GraphNext, RunNode

(* The state of the graph stays well typed. *)
THEOREM GraphTypeCorrect == GraphSpec => []GraphTypeOK
<1>1. GraphInit => GraphTypeOK
  <2> HAVE GraphInit
  <2>1. numeric \in BOOLEAN /\ late \in BOOLEAN
    BY DEF GraphInit
  <2>2. node \in Node /\ nsteps \in Nat /\ calls \in Nat /\ revisions \in Nat /\ sql \in Nat
    BY DEF GraphInit, Node
  <2>3. taken = {} /\ documents = {} /\ citations = {}
    BY DEF GraphInit
  <2> QED BY <2>1, <2>2, <2>3 DEF GraphTypeOK
<1> QED BY <1>1, GraphTypeStep, PTL DEF GraphSpec

(* workflow.py, run_workflow: with more steps allowed than revisions plus  *)
(* one, max(8, 4 * max_steps) nodes are enough for every run.  The         *)
(* defaults (8 steps, at most 3 revisions) satisfy the hypothesis;         *)
(* config.py does not demand it.                                           *)
THEOREM RecursionLimitNeverHit ==
  ASSUME MaxSteps > MaxRevisions + 1
  PROVE  GraphSpec => []RecursionLimitSuffices
<1> USE GraphAssumption
<1>1. GraphInit => StepBound /\ RecursionLimitSuffices
  BY DEF GraphInit, StepBound, RecursionLimitSuffices, Tool, Node
<1>2. ASSUME GraphTypeOK, StepBound, node \in Node
      PROVE  nsteps < RecursionLimit
  <2>1. nsteps <= MaxSteps + 3 + 3 * MaxRevisions
    BY <1>2 DEF StepBound, GraphTypeOK, Node, Tool
  <2> QED BY <1>2, <2>1 DEF RecursionLimit, GraphTypeOK
<1>3. GraphTypeOK /\ StepBound /\ RecursionLimitSuffices /\ [GraphNext]_graphVars
        => RecursionLimitSuffices'
  <2> SUFFICES ASSUME GraphTypeOK, StepBound, RecursionLimitSuffices, [GraphNext]_graphVars
               PROVE  RecursionLimitSuffices'
    OBVIOUS
  <2>1. CASE InvokeRaises
    BY <1>2, <2>1 DEF InvokeRaises, GraphTypeOK, RecursionLimit, RecursionLimitSuffices
  <2>2. CASE Supervisor
    BY <2>2, SupervisorRoutes DEF RecursionLimitSuffices, Tool
  <2>3. CASE Retrieve \/ WebSearch \/ Data \/ Generate \/ Critic \/ DeadlinePasses
    BY <2>3 DEF Retrieve, WebSearch, Search, Data, Generate, Critic, DeadlinePasses,
                RecursionLimitSuffices
  <2>4. CASE UNCHANGED graphVars
    BY <2>4 DEF graphVars, RecursionLimitSuffices
  <2> QED BY <2>1, <2>2, <2>3, <2>4 DEF GraphNext, RunNode
<1> QED BY <1>1, <1>3, GraphTypeCorrect, StepBoundStep, PTL DEF GraphSpec

(* supervisor.py, choose_route: no run answers before it sought evidence,  *)
(* unless its deadline passed first.                                       *)
THEOREM NoUngroundedAnswer == GraphSpec => []GatheredBeforeAnswer
<1>1. GraphInit => NothingYet
  BY DEF GraphInit, NothingYet, GatheredBeforeAnswer
<1>2. NothingYet => GatheredBeforeAnswer
  BY DEF NothingYet
<1> QED BY <1>1, <1>2, GraphTypeCorrect, NothingYetStep, PTL DEF GraphSpec

LEMMA ProvenanceInit == GraphInit => Provenance
BY GraphAssumption DEF GraphInit, Provenance, WithinToolBudget, EvidenceIsCited, Tool

(* workflow.py, _RunBudget: whatever the model asks for and however often  *)
(* it is sent back, the tool-call ceiling holds over all revisions of one  *)
(* run.                                                                    *)
THEOREM ToolBudgetHolds == GraphSpec => []WithinToolBudget
<1>1. Provenance => WithinToolBudget
  BY DEF Provenance
<1> QED BY <1>1, ProvenanceInit, GraphTypeCorrect, ProvenanceStep, PTL DEF GraphSpec

(* workflow.py: every piece of evidence the answer is given is cited.      *)
THEOREM EvidenceAlwaysCited == GraphSpec => []EvidenceIsCited
<1>1. Provenance => EvidenceIsCited
  BY DEF Provenance
<1> QED BY <1>1, ProvenanceInit, GraphTypeCorrect, ProvenanceStep, PTL DEF GraphSpec

-----------------------------------------------------------------------------
(***************************************************************************)
(* Documents.  ReadyMeansIndexed is inductive together with Indexed: a     *)
(* handler about to mark a row ready has put the chunks in the index, and  *)
(* only a delete request takes them out again.  GoneForGood needs no       *)
(* strengthening beyond the types: Gone names every actor that could still *)
(* write to the document.                                                  *)
(***************************************************************************)

Indexed ==
  \A w \in Worker : step[w] = "indexed" => vectors[task[w]] \/ task[w] \in purged

ReadyInv == ReadyMeansIndexed /\ Indexed

(* Every step of the upload, of a handler or of a delete request keeps the *)
(* state well typed.                                                       *)
LEMMA DocTypeStep == DocTypeOK /\ [DocNext]_docVars => DocTypeOK'
<1> SUFFICES ASSUME DocTypeOK, [DocNext]_docVars PROVE DocTypeOK'
  OBVIOUS
<1> USE DEF storeVars, apiVars, handlerVars, SetStatus, At, Goto, SetSeen, DelGoto
<1>1. CASE UNCHANGED docVars
  BY <1>1 DEF DocTypeOK, docVars
<1>2. ASSUME NEW d \in Document, UploadStep(d) \/ SweepDocument(d)
      PROVE  DocTypeOK'
  <2>1. CASE CreateDocument(d)
    BY <2>1 DEF DocTypeOK, CreateDocument, DocumentStatus
  <2>2. CASE PutDocument(d)
    BY <2>2 DEF DocTypeOK, PutDocument
  <2>3. CASE PutRaises(d)
    <3> PICK arrived \in BOOLEAN : object' = [object EXCEPT ![d] = arrived]
      BY <2>3 DEF PutRaises
    <3>1. object' \in [Document -> BOOLEAN]
      BY DEF DocTypeOK
    <3> QED BY <2>3, <3>1 DEF DocTypeOK, PutRaises
  <2>4. CASE MarkUnstored(d)
    BY <2>4 DEF DocTypeOK, MarkUnstored, DocumentStatus
  <2>5. CASE EnqueueIngest(d)
    BY <2>5 DEF DocTypeOK, EnqueueIngest
  <2>6. CASE UploadEnds(d)
    BY <2>6 DEF DocTypeOK, UploadEnds
  <2>7. CASE SweepDocument(d)
    BY <2>7 DEF DocTypeOK, SweepDocument
  <2> QED BY <1>2, <2>1, <2>2, <2>3, <2>4, <2>5, <2>6, <2>7 DEF UploadStep
<1>3. ASSUME NEW w \in Worker, IngestStep(w)
      PROVE  DocTypeOK'
  <2>0. ASSUME NEW s \in DocumentStatus, Write(w, s), task[w] \in Document
        PROVE  /\ status' \in [Document -> DocumentStatus]
               /\ seen' \in [Worker -> DocumentStatus \cup {"expired"}]
    BY <2>0 DEF Write, DocTypeOK
  <2>1. CASE \E d \in Document : Deliver(w, d)
    BY <2>1 DEF DocTypeOK, Deliver, Step
  <2>2. CASE LoadDocument(w)
    BY <2>2 DEF DocTypeOK, LoadDocument, Step
  <2>3. CASE MarkProcessing(w)
    BY <2>0, <2>3 DEF DocTypeOK, MarkProcessing, Step, DocumentStatus
  <2>4. CASE FetchObject(w)
    BY <2>4 DEF DocTypeOK, FetchObject, Step
  <2>5. CASE RejectContent(w)
    BY <2>0, <2>5 DEF DocTypeOK, RejectContent, Step, DocumentStatus
  <2>6. CASE IndexChunks(w)
    BY <2>6 DEF DocTypeOK, IndexChunks, Step
  <2>7. CASE IndexRaises(w)
    BY <2>7 DEF DocTypeOK, IndexRaises, Step
  <2>8. CASE MarkReady(w)
    BY <2>0, <2>8 DEF DocTypeOK, MarkReady, Step, DocumentStatus
  <2>9. CASE DatabaseRaises(w)
    BY <2>9 DEF DocTypeOK, DatabaseRaises, Step
  <2>10. CASE FetchRaises(w) \/ Finish(w) \/ AckRaises(w) \/ GiveUp(w)
    BY <2>10 DEF DocTypeOK, FetchRaises, Finish, AckRaises, GiveUp, Step
  <2>11. CASE Reload(w)
    BY <2>11 DEF DocTypeOK, Reload, Step
  <2>12. CASE MarkFailed(w)
    <3>1. /\ status' \in [Document -> DocumentStatus]
          /\ seen' \in [Worker -> DocumentStatus \cup {"expired"}]
      BY <2>0, <2>12 DEF DocTypeOK, MarkFailed, Step, DocumentStatus
    <3> QED BY <2>12, <3>1 DEF DocTypeOK, MarkFailed, Step
  <2> QED BY <1>3, <2>1, <2>2, <2>3, <2>4, <2>5, <2>6, <2>7, <2>8, <2>9, <2>10, <2>11, <2>12
          DEF IngestStep
<1>4. ASSUME NEW x \in Deleter, DeleteStep(x)
      PROVE  DocTypeOK'
  <2>1. CASE \E d \in Document : DeleteDocument(x, d)
    BY <2>1 DEF DocTypeOK, DeleteDocument
  <2>2. CASE DeleteObject(x)
    BY <2>2 DEF DocTypeOK, DeleteObject
  <2>3. CASE DeleteVectors(x)
    BY <2>3 DEF DocTypeOK, DeleteVectors
  <2>4. CASE MarkDeleted(x)
    BY <2>4 DEF DocTypeOK, MarkDeleted, DocumentStatus
  <2>5. CASE DeleteEnds(x)
    BY <2>5 DEF DocTypeOK, DeleteEnds
  <2> QED BY <1>4, <2>1, <2>2, <2>3, <2>4, <2>5 DEF DeleteStep
<1> QED BY <1>1, <1>2, <1>3, <1>4 DEF DocNext

(* Every step keeps ready documents, and those about to be, indexed. *)
LEMMA ReadyStep == DocTypeOK /\ ReadyInv /\ [DocNext]_docVars => ReadyInv'
<1> SUFFICES ASSUME DocTypeOK, ReadyInv, [DocNext]_docVars PROVE ReadyInv'
  OBVIOUS
<1> USE DEF storeVars, apiVars, handlerVars, SetStatus, At, Goto, SetSeen, DelGoto
<1> USE DEF ReadyInv, ReadyMeansIndexed, Indexed, DocTypeOK
<1>1. CASE UNCHANGED docVars
  BY <1>1 DEF docVars
<1>2. ASSUME NEW d \in Document, UploadStep(d) \/ SweepDocument(d)
      PROVE  ReadyInv'
  BY <1>2 DEF UploadStep, SweepDocument, CreateDocument, PutDocument, PutRaises, MarkUnstored,
              EnqueueIngest, UploadEnds
<1>3. ASSUME NEW w \in Worker, IngestStep(w)
      PROVE  ReadyInv'
  <2>1. CASE \E d \in Document : Deliver(w, d)
    BY <2>1 DEF Deliver
  <2>2. CASE LoadDocument(w) \/ FetchObject(w) \/ DatabaseRaises(w) \/ FetchRaises(w) \/ Finish(w)
               \/ AckRaises(w) \/ GiveUp(w) \/ Reload(w)
    BY <2>2 DEF LoadDocument, FetchObject, DatabaseRaises, FetchRaises, Finish, AckRaises, GiveUp,
                Reload
  <2>3. CASE MarkProcessing(w)
    BY <2>3 DEF MarkProcessing, Write
  <2>4. CASE RejectContent(w)
    BY <2>4 DEF RejectContent, Write
  <2>5. CASE IndexChunks(w)
    BY <2>5 DEF IndexChunks
  <2>6. CASE IndexRaises(w)
    BY <2>6 DEF IndexRaises
  <2>7. CASE MarkReady(w)
    BY <2>7 DEF MarkReady, Write
  <2>8. CASE MarkFailed(w)
    BY <2>8 DEF MarkFailed, Write
  <2> QED BY <1>3, <2>1, <2>2, <2>3, <2>4, <2>5, <2>6, <2>7, <2>8 DEF IngestStep
<1>4. ASSUME NEW x \in Deleter, DeleteStep(x)
      PROVE  ReadyInv'
  <2>1. CASE \E d \in Document : DeleteDocument(x, d)
    BY <2>1 DEF DeleteDocument
  <2>2. CASE DeleteObject(x) \/ DeleteEnds(x)
    BY <2>2 DEF DeleteObject, DeleteEnds
  <2>3. CASE DeleteVectors(x)
    BY <2>3 DEF DeleteVectors
  <2>4. CASE MarkDeleted(x)
    BY <2>4 DEF MarkDeleted
  <2> QED BY <1>4, <2>1, <2>2, <2>3, <2>4 DEF DeleteStep
<1> QED BY <1>1, <1>2, <1>3, <1>4 DEF DocNext

(* No step of anyone brings a document back that is gone. *)
LEMMA GoneStep ==
  ASSUME DocTypeOK, DocNext, NEW d \in Document, Gone(d)
  PROVE  Gone(d)'
<1> USE DEF storeVars, apiVars, handlerVars, SetStatus, At, Goto, SetSeen, DelGoto, Gone, DocTypeOK
<1>1. ASSUME NEW e \in Document, UploadStep(e) \/ SweepDocument(e)
      PROVE  Gone(d)'
  BY <1>1 DEF UploadStep, SweepDocument, CreateDocument, PutDocument, PutRaises, MarkUnstored,
              EnqueueIngest, UploadEnds
<1>2. ASSUME NEW w \in Worker, IngestStep(w)
      PROVE  Gone(d)'
  <2>1. CASE \E e \in Document : Deliver(w, e)
    BY <2>1 DEF Deliver
  <2>2. CASE LoadDocument(w)
    BY <2>2 DEF LoadDocument
  <2>3. CASE FetchObject(w) \/ DatabaseRaises(w) \/ FetchRaises(w) \/ Finish(w) \/ AckRaises(w)
               \/ GiveUp(w)
    BY <2>3 DEF FetchObject, DatabaseRaises, FetchRaises, Finish, AckRaises, GiveUp
  <2>4. CASE MarkProcessing(w) \/ RejectContent(w) \/ MarkReady(w)
    BY <2>4 DEF MarkProcessing, RejectContent, MarkReady, Write
  <2>5. CASE IndexChunks(w) \/ IndexRaises(w)
    BY <2>5 DEF IndexChunks, IndexRaises
  <2>6. CASE Reload(w)
    BY <2>6 DEF Reload
  <2>7. CASE MarkFailed(w)
    BY <2>7 DEF MarkFailed, Write
  <2> QED BY <1>2, <2>1, <2>2, <2>3, <2>4, <2>5, <2>6, <2>7 DEF IngestStep
<1>3. ASSUME NEW x \in Deleter, DeleteStep(x)
      PROVE  Gone(d)'
  BY <1>3 DEF DeleteStep, DeleteDocument, DeleteObject, DeleteVectors, MarkDeleted, DeleteEnds
<1> QED BY <1>1, <1>2, <1>3 DEF DocNext

(* The rows, stores and requests stay well typed. *)
THEOREM DocTypeCorrect == DocSpec => []DocTypeOK
<1>1. DocInit => DocTypeOK
  BY DEF DocInit, DocTypeOK, DocumentStatus, Step
<1> QED BY <1>1, DocTypeStep, PTL DEF DocSpec

(* worker.py _ingest_document: a ready document is in the index unless a   *)
(* delete request took it out, for any number of concurrent handlers.      *)
THEOREM ReadyIsIndexed == DocSpec => []ReadyMeansIndexed
<1>1. DocInit => ReadyInv
  BY DEF DocInit, ReadyInv, ReadyMeansIndexed, Indexed
<1>2. ReadyInv => ReadyMeansIndexed
  BY DEF ReadyInv
<1> QED BY <1>1, <1>2, DocTypeCorrect, ReadyStep, PTL DEF DocSpec

(* documents.py delete_document: jobs that outlive a finished deletion can *)
(* never bring the document back.                                          *)
THEOREM DeletionIsPermanent == DocSpec => GoneForGood
<1>1. DocTypeOK /\ [DocNext]_docVars => [\A d \in Document : Gone(d) => Gone(d)']_docVars
  BY GoneStep
<1> QED BY <1>1, DocTypeCorrect, PTL DEF DocSpec, GoneForGood
=============================================================================
