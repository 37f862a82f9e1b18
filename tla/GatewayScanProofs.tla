--------------------------- MODULE GatewayScanProofs ---------------------------
(***************************************************************************)
(* What holds of GatewayScan for every set of requests, artifacts and       *)
(* reconcilers and every number of attempts: its safety properties, and that *)
(* it implements ScanPromise.                                               *)
(***************************************************************************)
EXTENDS GatewayScan, TLAPS

-------------------------------------------------------------------------------
(* Typing *)

\* The queue operations keep a job row well-typed.
LEMMA JobLeaseTypes ==
  ASSUME NEW max \in Nat \ {0}, NEW job \in Job(max)
  PROVE  /\ NoJob \in Job(max)
         /\ Enqueue(job) \in Job(max)
         /\ Claimable(job, max) => Claim(job) \in Job(max)
         /\ Succeed(job) \in Job(max)
         /\ Fail(job, max) \in Job(max)
         /\ \A token : FailHeld(job, token, max) \in Job(max)
         /\ Expire(job) \in Job(max)
<1>. USE DEF Job, JobStatuses
<1>1. NoJob \in Job(max)
  BY DEF NoJob
<1>2. Enqueue(job) \in Job(max)
  BY DEF Enqueue
<1>3. Claimable(job, max) => Claim(job) \in Job(max)
  BY DEF Claimable, Claim
<1>4. Succeed(job) \in Job(max) /\ Expire(job) \in Job(max)
  BY DEF Succeed, Expire
<1>5. Fail(job, max) \in Job(max)
  BY DEF Fail
<1>6. \A token : FailHeld(job, token, max) \in Job(max)
  BY <1>5 DEF FailHeld
<1>. QED
  BY <1>1, <1>2, <1>3, <1>4, <1>5, <1>6

\* A decision published from a set of evidence rows is well-typed.
LEMMA RecommendTypes ==
  ASSUME NEW rows \in SUBSET Rows
  PROVE  Recommend(rows) \in Recommendations
BY FailModeAssumption DEF Recommend, Recommendations

LEMMA PublishTypes ==
  ASSUME TypeOK, NEW kind, NEW d \in Decisions, Publish(kind, d)
  PROVE  status' \in Statuses /\ final' \in Decisions /\ prelim' \in Decisions
BY DEF TypeOK, Publish, Statuses, Open, Terminal

LEMMA ExecutionParts ==
  ASSUME NEW e \in Executions
  PROVE  e[1] \in Media /\ e[2] \in 1..MaxAttempts /\ e = <<e[1], e[2]>>
BY DEF Executions

LEMMA NoResponseTypes ==
  /\ NoResponse \in Responses
  /\ \A c \in {0, 200, 202, 400, 500} : [NoResponse EXCEPT !.code = c] \in Responses
BY DEF NoResponse, Responses

LEMMA ReportKindTypes == ReportKind \in {"none", "preliminary", "final"}
BY DEF ReportKind

LEMMA AnswerTypes ==
  ASSUME TypeOK, NEW r \in Requests, NEW body \in Responses, Answer(r, body)
  PROVE  resp' \in [Requests -> Responses] /\
         pc' \in [Requests -> {"new", "checked", "submitted", "claimed", "enqueue",
                          "report", "store", "replied", "crashed"}]
BY DEF TypeOK, Answer

\* A step of a request keeps the types.
LEMMA RequestStepTypes ==
  ASSUME TypeOK, NEW r \in Requests, RequestStep(r)
  PROVE  TypeOK'
<1>1. CASE CheckUploads(r)
  <2>1. CASE attached = {}
    BY <1>1, <2>1 DEF CheckUploads, TypeOK, dbVars, finVars
  <2>2. CASE attached # {}
    BY <1>1, <2>2, AnswerTypes, NoResponseTypes DEF CheckUploads, TypeOK, dbVars, finVars
  <2>. QED BY <2>1, <2>2
<1>2. CASE Submit(r)
  <2>1. status' \in Statuses
    BY <1>2 DEF Submit, TypeOK, Statuses, Open
  <2>2. CASE stored.code = 0
    BY <1>2, <2>1, <2>2 DEF Submit, TypeOK, finVars
  <2>3. CASE stored.code # 0
    <3>1. stored \in Responses /\ Answer(r, stored)
      BY <1>2, <2>3 DEF Submit, TypeOK
    <3>. QED BY <1>2, <2>1, <3>1, AnswerTypes DEF Submit, TypeOK, finVars
  <2>. QED BY <2>2, <2>3
<1>3. CASE ClaimScan(r)
  BY <1>3 DEF ClaimScan, TypeOK, Statuses, Open, finVars
<1>4. CASE AnswerCurrent(r)
  <2>1. [code |-> ReplayCode, kind |-> ReportKind] \in Responses
    BY ReportKindTypes DEF ReplayCode, Responses
  <2>. QED BY <1>4, <2>1, AnswerTypes DEF AnswerCurrent, TypeOK, dbVars, finVars
<1>5. ASSUME NEW a \in Media, AttachUpload(r, a) PROVE TypeOK'
  BY <1>5 DEF AttachUpload, TypeOK, reqVars, finVars
<1>6. ASSUME NEW a \in Media, EnqueueMedia(r, a) PROVE TypeOK'
  <2>1. Enqueue(jobs[a]) \in Job(MaxAttempts)
    BY JobLeaseTypes, ScanAssumption DEF TypeOK
  <2>. QED BY <1>6, <2>1 DEF EnqueueMedia, TypeOK, reqVars, finVars
<1>7. ASSUME NEW a \in FastArts, NEW o \in Outcomes, RecordFast(r, a, o)
      PROVE  TypeOK'
  BY <1>7 DEF RecordFast, TypeOK, Rows, reqVars, finVars
<1>8. CASE Correlate(r)
  BY <1>8 DEF Correlate, TypeOK, dbVars, finVars
<1>9. CASE PublishDecision(r)
  <2>. DEFINE rec == IF Media # {} /\ FastRows = {} THEN "hold" ELSE Recommend(FastRows)
              d == [ev |-> FastRows, rec |-> rec, by |-> "orchestrator"]
  <2>1. FastRows \in SUBSET Rows
    BY DEF FastRows, TypeOK
  <2>2. d \in Decisions
    BY <2>1, RecommendTypes DEF Decisions, Authors, Recommendations
  <2>3. Publish(IF Media # {} THEN "preliminary" ELSE "final", d)
    BY <1>9 DEF PublishDecision
  <2>4. status' \in Statuses /\ final' \in Decisions /\ prelim' \in Decisions
    BY <2>2, <2>3, PublishTypes
  <2>. QED BY <1>9, <2>4 DEF PublishDecision, TypeOK, finVars
<1>10. CASE BuildReport(r)
  <2>1. [code |-> IF Media = {} THEN 200 ELSE 202, kind |-> ReportKind] \in Responses
    BY ReportKindTypes DEF Responses
  <2>. QED BY <1>10, <2>1 DEF BuildReport, TypeOK, dbVars, finVars
<1>11. CASE StoreResponse(r)
  <2>1. resp[r] \in Responses
    BY DEF TypeOK
  <2>. QED BY <1>11, <2>1, AnswerTypes DEF StoreResponse, TypeOK, finVars
<1>. QED
  BY <1>1, <1>2, <1>3, <1>4, <1>5, <1>6, <1>7, <1>8, <1>9, <1>10, <1>11 DEF RequestStep

LEMMA RequestFaultTypes ==
  ASSUME TypeOK, NEW r \in Requests, RequestFault(r)
  PROVE  TypeOK'
<1>1. CASE OrchestratorFails(r)
  <2>1. status' \in Statuses
    BY <1>1 DEF OrchestratorFails, FailedStatus, TypeOK, Statuses, Terminal
  <2>2. Answer(r, [NoResponse EXCEPT !.code = 500])
    BY <1>1 DEF OrchestratorFails
  <2>. QED
    BY <1>1, <2>1, <2>2, AnswerTypes, NoResponseTypes
    DEF OrchestratorFails, TypeOK, finVars
<1>2. CASE RequestDies(r)
  BY <1>2 DEF RequestDies, TypeOK, dbVars, finVars
<1>. QED
  BY <1>1, <1>2 DEF RequestFault

LEMMA QueueStepTypes ==
  ASSUME TypeOK, NEW a \in Media, QueueStep(a)
  PROVE  TypeOK'
<1>. USE DEF TypeOK, reqVars, finVars
<1>0. jobs[a] \in Job(MaxAttempts) /\ MaxAttempts \in Nat \ {0}
  BY ScanAssumption
<1>1. CASE ClaimJob(a)
  BY <1>0, <1>1, JobLeaseTypes DEF ClaimJob
<1>2. CASE LeaseExpires(a)
  BY <1>0, <1>2, JobLeaseTypes DEF LeaseExpires
<1>3. CASE DeadLetter(a)
  BY <1>0, <1>3, JobLeaseTypes DEF DeadLetter
<1>. QED
  BY <1>1, <1>2, <1>3 DEF QueueStep

LEMMA ExecutionTypes ==
  ASSUME TypeOK, NEW e \in Executions, ExecutionStep(e) \/ ExecutionFault(e)
  PROVE  TypeOK'
<1>. USE DEF TypeOK, reqVars, dbVars, finVars
<1>0. e[1] \in Media /\ jobs[e[1]] \in Job(MaxAttempts) /\ MaxAttempts \in Nat \ {0}
  BY ScanAssumption, ExecutionParts
<1>1. CASE StartHandler(e)
  BY <1>1 DEF StartHandler
<1>2. ASSUME NEW o \in Outcomes, AnalyseImage(e, o) PROVE TypeOK'
  BY <1>0, <1>2 DEF AnalyseImage, Rows
<1>3. CASE CompleteJob(e)
  BY <1>0, <1>3, JobLeaseTypes DEF CompleteJob, Finalizers
<1>4. CASE CompleteJobUnheard(e)
  BY <1>0, <1>4, JobLeaseTypes DEF CompleteJobUnheard
<1>5. CASE FailExecution(e)
  BY <1>0, <1>5, JobLeaseTypes DEF FailExecution
<1>6. CASE ExecutionDies(e)
  BY <1>6 DEF ExecutionDies
<1>. QED
  BY <1>1, <1>2, <1>3, <1>4, <1>5, <1>6 DEF ExecutionStep, ExecutionFault

LEMMA FinalizerTypes ==
  ASSUME TypeOK, NEW x \in Finalizers,
         FinalizeStep(x) \/ FinalizeFails(x) \/ ReconcileList(x)
  PROVE  TypeOK'
<1>. USE DEF TypeOK, dbVars, reqVars
<1>1. CASE FinalizeCheck(x)
  BY <1>1 DEF FinalizeCheck
<1>2. CASE FinalizeRead(x)
  BY <1>2 DEF FinalizeRead
<1>3. CASE FinalizePublish(x)
  <2>. DEFINE d == [ev  |-> snap[x],
                    rec |-> IF OtherMedia # {} THEN "hold" ELSE Recommend(snap[x]),
                    by  |-> IF x \in Reconcilers THEN "reconciler" ELSE "worker"]
  <2>1. snap[x] \in SUBSET Rows
    OBVIOUS
  <2>2. Recommend(snap[x]) \in Recommendations
    BY <2>1, RecommendTypes
  <2>3. d \in Decisions
    BY <2>1, <2>2 DEF Decisions, Authors, Recommendations
  <2>4. Publish("final", d)
    BY <1>3 DEF FinalizePublish
  <2>5. status' \in Statuses /\ final' \in Decisions /\ prelim' \in Decisions
    BY <2>3, <2>4, PublishTypes
  <2>. QED
    BY <1>3, <2>5 DEF FinalizePublish
<1>4. CASE FinalizeFails(x)
  BY <1>4 DEF FinalizeFails
<1>5. CASE ReconcileList(x)
  BY <1>5 DEF ReconcileList
<1>. QED
  BY <1>1, <1>2, <1>3, <1>4, <1>5 DEF FinalizeStep

LEMMA InitTypes == Init => TypeOK
<1>1. NoJob \in Job(MaxAttempts)
  BY ScanAssumption DEF NoJob, Job, JobStatuses
<1>2. NoDecision \in Decisions /\ NoResponse \in Responses
  BY DEF NoDecision, Decisions, Recommendations, Authors, NoResponse, Responses
<1>. QED
  BY <1>1, <1>2 DEF Init, TypeOK, Statuses

LEMMA StepTypes == TypeOK /\ [Next]_vars => TypeOK'
<1>. SUFFICES ASSUME TypeOK, [Next]_vars PROVE TypeOK'
  OBVIOUS
<1>1. CASE CancelScan
  BY <1>1 DEF CancelScan, TypeOK, reqVars, finVars, Statuses, Terminal
<1>2. CASE UNCHANGED vars
  BY <1>2 DEF vars, dbVars, reqVars, finVars, TypeOK
<1>3. Reconcilers \subseteq Finalizers /\ Executions \subseteq Finalizers
  BY DEF Finalizers
<1>. QED
  BY <1>1, <1>2, <1>3, RequestStepTypes, RequestFaultTypes, QueueStepTypes,
     ExecutionTypes, FinalizerTypes DEF Next

\* Type correctness.
THEOREM TypeCorrect == Spec => []TypeOK
BY InitTypes, StepTypes, PTL DEF Spec

-------------------------------------------------------------------------------
(* What no step undoes *)

\* A settled status stays, whoever moves.
LEMMA TerminalStep ==
  ASSUME TypeOK, [Next]_vars, status \in Terminal
  PROVE  status' = status
<1>. USE DEF Terminal, Open, reqVars, dbVars, finVars
<1>1. ASSUME NEW r \in Requests, RequestStep(r) PROVE status' = status
  BY <1>1 DEF RequestStep, CheckUploads, Submit, ClaimScan, ClaimWins, AnswerCurrent,
     AttachUpload, EnqueueMedia, RecordFast, Correlate, PublishDecision, Publish,
     BuildReport, StoreResponse
<1>2. ASSUME NEW r \in Requests, RequestFault(r) PROVE status' = status
  BY <1>2 DEF RequestFault, OrchestratorFails, FailedStatus, RequestDies
<1>3. CASE CancelScan
  BY <1>3 DEF CancelScan
<1>4. ASSUME NEW a \in Media, QueueStep(a) PROVE status' = status
  BY <1>4 DEF QueueStep, ClaimJob, LeaseExpires, DeadLetter
<1>5. ASSUME NEW e \in Executions, ExecutionStep(e) \/ ExecutionFault(e)
      PROVE  status' = status
  BY <1>5 DEF ExecutionStep, ExecutionFault, StartHandler, AnalyseImage, CompleteJob,
     CompleteJobUnheard, FailExecution, ExecutionDies
<1>6. ASSUME NEW x \in Finalizers,
             FinalizeStep(x) \/ FinalizeFails(x) \/ ReconcileList(x)
      PROVE  status' = status
  BY <1>6 DEF FinalizeStep, FinalizeCheck, FinalizeRead, FinalizePublish, Publish,
     FinalizeFails, ReconcileList
<1>7. CASE UNCHANGED vars
  BY <1>7 DEF vars
<1>. QED
  BY <1>1, <1>2, <1>3, <1>4, <1>5, <1>6, <1>7 DEF Next, Finalizers

\* TerminalAbsorbing, for every instance.
THEOREM SettledStaysSettled == Spec => TerminalAbsorbing
<1>1. TypeOK /\ [Next]_vars => [(status \in Terminal) => (status' = status)]_vars
  BY TerminalStep
<1>. QED
  BY <1>1, TypeCorrect, PTL DEF Spec, TerminalAbsorbing

-------------------------------------------------------------------------------
(* One owner *)

\* Once claimed, the row never goes back to a status claimScan accepts.
OwnerInv ==
  /\ OneOwner
  /\ claimedBy # {} => status \notin {"none", "accepted"}

LEMMA OwnerStep ==
  ASSUME TypeOK, OwnerInv, [Next]_vars
  PROVE  OwnerInv'
<1>. USE DEF OwnerInv, OneOwner, Terminal, Open, reqVars, dbVars, finVars
<1>1. ASSUME NEW r \in Requests, RequestStep(r) PROVE OwnerInv'
  <2>1. CASE ClaimScan(r)
    <3>1. claimedBy = {}
      BY <2>1 DEF ClaimScan, ClaimWins
    <3>. QED BY <2>1, <3>1 DEF ClaimScan
  <2>2. CASE Submit(r)
    BY <2>2 DEF Submit
  <2>3. CASE PublishDecision(r)
    BY <2>3 DEF PublishDecision, Publish
  <2>4. CASE UNCHANGED <<status, claimedBy>>
    BY <2>4
  <2>. QED
    BY <1>1, <2>1, <2>2, <2>3, <2>4 DEF RequestStep, CheckUploads, AnswerCurrent,
       AttachUpload, EnqueueMedia, RecordFast, Correlate, BuildReport, StoreResponse
<1>2. ASSUME NEW r \in Requests, RequestFault(r) PROVE OwnerInv'
  BY <1>2 DEF RequestFault, OrchestratorFails, FailedStatus, RequestDies
<1>3. CASE CancelScan
  BY <1>3 DEF CancelScan
<1>4. ASSUME NEW a \in Media, QueueStep(a) PROVE OwnerInv'
  BY <1>4 DEF QueueStep, ClaimJob, LeaseExpires, DeadLetter
<1>5. ASSUME NEW e \in Executions, ExecutionStep(e) \/ ExecutionFault(e)
      PROVE  OwnerInv'
  BY <1>5 DEF ExecutionStep, ExecutionFault, StartHandler, AnalyseImage, CompleteJob,
     CompleteJobUnheard, FailExecution, ExecutionDies
<1>6. ASSUME NEW x \in Finalizers,
             FinalizeStep(x) \/ FinalizeFails(x) \/ ReconcileList(x)
      PROVE  OwnerInv'
  BY <1>6 DEF FinalizeStep, FinalizeCheck, FinalizeRead, FinalizePublish, Publish,
     FinalizeFails, ReconcileList
<1>7. CASE UNCHANGED vars
  BY <1>7 DEF vars
<1>. QED
  BY <1>1, <1>2, <1>3, <1>4, <1>5, <1>6, <1>7 DEF Next, Finalizers

\* OneOwner, for any number of racing retries.
THEOREM OneOwnerAlways == Spec => []OneOwner
<1>1. Init => OwnerInv
  BY DEF Init, OwnerInv, OneOwner
<1>2. TypeOK /\ OwnerInv /\ [Next]_vars => OwnerInv'
  BY OwnerStep
<1>3. OwnerInv => OneOwner
  BY DEF OwnerInv
<1>. QED
  BY <1>1, <1>2, <1>3, TypeCorrect, PTL DEF Spec

-------------------------------------------------------------------------------
(* A 200 means a final decision *)

\* Completion, the fast path's own report and every stored or answered 200 all
\* come after the final decision.
FinalInv ==
  /\ status = "completed" => final # NoDecision
  /\ \A r \in Requests :
       pc[r] \in {"report", "store"} /\ Media = {} => final # NoDecision
  /\ \A r \in Requests : resp[r].code = 200 => resp[r].kind = "final"
  /\ stored.code = 200 => stored.kind = "final"

\* Publishing never takes a final decision back.
LEMMA PublishFinal ==
  ASSUME NEW kind, NEW d, d.by # "none", Publish(kind, d)
  PROVE  /\ final # NoDecision => final' # NoDecision
         /\ kind = "final" => final' # NoDecision
         /\ status' = "completed" => status = "completed" \/ kind = "final"
BY DEF Publish, NoDecision

LEMMA FinalRequestStep ==
  ASSUME TypeOK, FinalInv, NEW r \in Requests, RequestStep(r)
  PROVE  FinalInv'
<1>. USE DEF FinalInv, TypeOK, dbVars, reqVars, finVars
<1>1. CASE CheckUploads(r)
  BY <1>1 DEF CheckUploads, Answer, NoResponse
<1>2. CASE Submit(r)
  BY <1>2 DEF Submit, Answer
<1>3. CASE ClaimScan(r)
  BY <1>3 DEF ClaimScan
<1>4. CASE AnswerCurrent(r)
  <2>1. ReplayCode = 200 => ReportKind = "final"
    BY DEF ReplayCode, ReportKind
  <2>. QED BY <1>4, <2>1 DEF AnswerCurrent, Answer
<1>5. ASSUME NEW a \in Media, AttachUpload(r, a) \/ EnqueueMedia(r, a) PROVE FinalInv'
  BY <1>5 DEF AttachUpload, EnqueueMedia
<1>6. ASSUME NEW a \in FastArts, NEW o \in Outcomes, RecordFast(r, a, o)
      PROVE  FinalInv'
  BY <1>6 DEF RecordFast
<1>7. CASE Correlate(r)
  BY <1>7 DEF Correlate
<1>8. CASE PublishDecision(r)
  <2>. DEFINE kind == IF Media # {} THEN "preliminary" ELSE "final"
              d == [ev |-> FastRows,
                    rec |-> IF Media # {} /\ FastRows = {} THEN "hold"
                            ELSE Recommend(FastRows),
                    by |-> "orchestrator"]
  <2>1. Publish(kind, d) /\ d.by # "none"
    BY <1>8 DEF PublishDecision
  <2>2. /\ final # NoDecision => final' # NoDecision
        /\ Media = {} => final' # NoDecision
        /\ status' = "completed" => status = "completed" \/ Media = {}
    <3>. HIDE DEF d
    <3>. QED BY <2>1, PublishFinal
  <2>. QED BY <1>8, <2>2 DEF PublishDecision
<1>9. CASE BuildReport(r)
  <2>1. Media = {} => ReportKind = "final"
    BY <1>9 DEF BuildReport, ReportKind
  <2>. QED BY <1>9, <2>1 DEF BuildReport
<1>10. CASE StoreResponse(r)
  BY <1>10 DEF StoreResponse, Answer
<1>. QED
  BY <1>1, <1>2, <1>3, <1>4, <1>5, <1>6, <1>7, <1>8, <1>9, <1>10 DEF RequestStep

LEMMA FinalStep ==
  ASSUME TypeOK, FinalInv, [Next]_vars
  PROVE  FinalInv'
<1>. USE DEF FinalInv, TypeOK, dbVars, reqVars, finVars
<1>1. ASSUME NEW r \in Requests, RequestFault(r) PROVE FinalInv'
  BY <1>1 DEF RequestFault, OrchestratorFails, FailedStatus, Answer, NoResponse,
     RequestDies
<1>2. CASE CancelScan
  BY <1>2 DEF CancelScan
<1>3. ASSUME NEW a \in Media, QueueStep(a) PROVE FinalInv'
  BY <1>3 DEF QueueStep, ClaimJob, LeaseExpires, DeadLetter
<1>4. ASSUME NEW e \in Executions, ExecutionStep(e) \/ ExecutionFault(e)
      PROVE  FinalInv'
  BY <1>4 DEF ExecutionStep, ExecutionFault, StartHandler, AnalyseImage, CompleteJob,
     CompleteJobUnheard, FailExecution, ExecutionDies
<1>5. ASSUME NEW x \in Finalizers,
             FinalizeStep(x) \/ FinalizeFails(x) \/ ReconcileList(x)
      PROVE  FinalInv'
  <2>1. CASE FinalizePublish(x)
    <3>. DEFINE d == [ev  |-> snap[x],
                      rec |-> IF OtherMedia # {} THEN "hold" ELSE Recommend(snap[x]),
                      by  |-> IF x \in Reconcilers THEN "reconciler" ELSE "worker"]
    <3>1. Publish("final", d) /\ d.by # "none"
      BY <2>1 DEF FinalizePublish
    <3>2. final' # NoDecision
      <4>. HIDE DEF d
      <4>. QED BY <3>1, PublishFinal
    <3>. QED BY <2>1, <3>2 DEF FinalizePublish
  <2>2. CASE UNCHANGED <<dbVars, reqVars>>
    BY <2>2
  <2>. QED
    BY <1>5, <2>1, <2>2 DEF FinalizeStep, FinalizeCheck, FinalizeRead, FinalizeFails,
       ReconcileList
<1>6. CASE UNCHANGED vars
  BY <1>6 DEF vars
<1>. QED
  BY <1>1, <1>2, <1>3, <1>4, <1>5, <1>6, FinalRequestStep DEF Next, Finalizers

\* OkMeansFinal, whichever path answers.
THEOREM OkAlwaysFinal == Spec => []OkMeansFinal
<1>1. Init => FinalInv
  BY DEF Init, FinalInv, NoResponse
<1>2. TypeOK /\ FinalInv /\ [Next]_vars => FinalInv'
  BY FinalStep
<1>3. FinalInv => OkMeansFinal
  BY DEF FinalInv, OkMeansFinal
<1>. QED
  BY <1>1, <1>2, <1>3, TypeCorrect, PTL DEF Spec

\* What a 200 promises, for good: neither late failures nor late jobs take it back.
THEOREM OkAlwaysForGood == Spec => OkIsForGood
BY OkAlwaysFinal, SettledStaysSettled DEF OkIsForGood

-------------------------------------------------------------------------------
(* Every final decision rests on the fast evidence *)

\* Evidence rows are only ever added.
LEMMA EvidenceGrows ==
  ASSUME TypeOK, [Next]_vars
  PROVE  evidence \subseteq evidence'
<1>. USE DEF dbVars, reqVars, finVars
<1>1. ASSUME NEW r \in Requests, RequestStep(r) \/ RequestFault(r)
      PROVE  evidence \subseteq evidence'
  BY <1>1 DEF RequestStep, CheckUploads, Submit, ClaimScan, AnswerCurrent, AttachUpload,
     EnqueueMedia, RecordFast, Correlate, PublishDecision, BuildReport, StoreResponse,
     RequestFault, OrchestratorFails, RequestDies
<1>2. ASSUME NEW a \in Media, QueueStep(a) PROVE evidence \subseteq evidence'
  BY <1>2 DEF QueueStep, ClaimJob, LeaseExpires, DeadLetter
<1>3. ASSUME NEW e \in Executions, ExecutionStep(e) \/ ExecutionFault(e)
      PROVE  evidence \subseteq evidence'
  BY <1>3 DEF ExecutionStep, ExecutionFault, StartHandler, AnalyseImage, CompleteJob,
     CompleteJobUnheard, FailExecution, ExecutionDies
<1>4. ASSUME NEW x \in Finalizers,
             FinalizeStep(x) \/ FinalizeFails(x) \/ ReconcileList(x)
      PROVE  evidence \subseteq evidence'
  BY <1>4 DEF FinalizeStep, FinalizeCheck, FinalizeRead, FinalizePublish,
     FinalizeFails, ReconcileList
<1>. QED
  BY <1>1, <1>2, <1>3, <1>4 DEF Next, vars, CancelScan, Finalizers

LEMMA CoveredGrows ==
  ASSUME NEW rows, NEW more, rows \subseteq more
  PROVE  /\ \A a : Covered(rows, a) => Covered(more, a)
         /\ FastRecorded(rows) => FastRecorded(more)
BY DEF Covered, FastRecorded

\* Nothing that can lead to a final decision starts before the fast evidence is
\* there, and every decision that exists or is about to be published has it.
FastInv ==
  /\ FastRecorded(evidence)
     \/ /\ \A r \in Requests : pc[r] \notin {"enqueue", "report", "store"}
        /\ \A a \in Media : jobs[a] = NoJob
        /\ \A e \in Executions : run[e] = "idle"
        /\ \A x \in Finalizers : fin[x] = "idle"
        /\ status # "partially_completed"
  /\ \A x \in Finalizers : fin[x] = "publish" => FastRecorded(snap[x])
  /\ final # NoDecision => FastRecorded(final.ev)

\* The disjunction of FastInv, step by step.
LEMMA FastFirst ==
  ASSUME TypeOK, FastInv, ~FastRecorded(evidence'), [Next]_vars
  PROVE  /\ \A r \in Requests : pc'[r] \notin {"enqueue", "report", "store"}
         /\ \A a \in Media : jobs'[a] = NoJob
         /\ \A e \in Executions : run'[e] = "idle"
         /\ \A x \in Finalizers : fin'[x] = "idle"
         /\ status' # "partially_completed"
<1>. USE DEF TypeOK, dbVars, reqVars, finVars
<1>0. /\ ~FastRecorded(evidence)
      /\ \A r \in Requests : pc[r] \notin {"enqueue", "report", "store"}
      /\ \A a \in Media : jobs[a] = NoJob
      /\ \A e \in Executions : run[e] = "idle"
      /\ \A x \in Finalizers : fin[x] = "idle"
      /\ status # "partially_completed"
  BY EvidenceGrows, CoveredGrows DEF FastInv
<1>1. ASSUME NEW r \in Requests, RequestStep(r)
      PROVE  /\ \A s \in Requests : pc'[s] \notin {"enqueue", "report", "store"}
             /\ jobs' = jobs /\ run' = run /\ fin' = fin
             /\ status' # "partially_completed"
  BY <1>0, <1>1 DEF RequestStep, CheckUploads, Submit, ClaimScan, AnswerCurrent, Answer,
     AttachUpload, EnqueueMedia, RecordFast, Correlate, PublishDecision, BuildReport,
     StoreResponse
<1>2. ASSUME NEW r \in Requests, RequestFault(r)
      PROVE  /\ \A s \in Requests : pc'[s] \notin {"enqueue", "report", "store"}
             /\ jobs' = jobs /\ run' = run /\ fin' = fin
             /\ status' # "partially_completed"
  BY <1>0, <1>2 DEF RequestFault, OrchestratorFails, FailedStatus, Answer, RequestDies
<1>3. ASSUME NEW a \in Media, QueueStep(a) PROVE FALSE
  BY <1>0, <1>3 DEF QueueStep, ClaimJob, LeaseExpires, DeadLetter, Claimable, Exhausted,
     NoJob
<1>4. ASSUME NEW e \in Executions, ExecutionStep(e) \/ ExecutionFault(e) PROVE FALSE
  BY <1>0, <1>4 DEF ExecutionStep, ExecutionFault, StartHandler, AnalyseImage,
     CompleteJob, CompleteJobUnheard, FailExecution, ExecutionDies
<1>5. ASSUME NEW x \in Finalizers,
             FinalizeStep(x) \/ FinalizeFails(x) \/ ReconcileList(x)
      PROVE  FALSE
  BY <1>0, <1>5 DEF FinalizeStep, FinalizeCheck, FinalizeRead, FinalizePublish,
     FinalizeFails, ReconcileList
<1>. QED
  BY <1>0, <1>1, <1>2, <1>3, <1>4, <1>5 DEF Next, vars, CancelScan, Finalizers

LEMMA FastStep ==
  ASSUME TypeOK, FastInv, [Next]_vars
  PROVE  FastInv'
<1>. USE DEF TypeOK, dbVars, reqVars, finVars
<1>1. \/ FastRecorded(evidence')
      \/ /\ \A r \in Requests : pc'[r] \notin {"enqueue", "report", "store"}
         /\ \A a \in Media : jobs'[a] = NoJob
         /\ \A e \in Executions : run'[e] = "idle"
         /\ \A x \in Finalizers : fin'[x] = "idle"
         /\ status' # "partially_completed"
  BY FastFirst
<1>2. /\ \A x \in Finalizers : fin'[x] = "publish" => FastRecorded(snap'[x])
      /\ final' # NoDecision => FastRecorded(final'.ev)
  <2>. USE DEF FastInv
  <2>1. ASSUME NEW r \in Requests, PublishDecision(r)
        PROVE  final' # NoDecision => FastRecorded(final'.ev)
    <3>1. FastRecorded(evidence)
      BY <2>1 DEF PublishDecision
    <3>2. FastRecorded(FastRows)
      BY <3>1 DEF FastRecorded, FastRows, Covered
    <3>3. final' = final \/ final'.ev = FastRows
      BY <2>1 DEF PublishDecision, Publish
    <3>. QED BY <3>2, <3>3
  <2>2. ASSUME NEW r \in Requests, RequestStep(r) \/ RequestFault(r)
        PROVE  /\ fin' = fin /\ snap' = snap
               /\ final' # NoDecision => FastRecorded(final'.ev)
    BY <2>1, <2>2 DEF RequestStep, CheckUploads, Submit, ClaimScan, AnswerCurrent,
       AttachUpload, EnqueueMedia, RecordFast, Correlate, PublishDecision, BuildReport,
       StoreResponse, RequestFault, OrchestratorFails, RequestDies
  <2>3. ASSUME NEW a \in Media, QueueStep(a) PROVE final' = final /\ UNCHANGED finVars
    BY <2>3 DEF QueueStep, ClaimJob, LeaseExpires, DeadLetter
  <2>4. ASSUME NEW e \in Executions, ExecutionStep(e) \/ ExecutionFault(e)
        PROVE  /\ final' = final /\ snap' = snap
               /\ \A x \in Finalizers : fin'[x] = "publish" => fin[x] = "publish"
    BY <2>4 DEF ExecutionStep, ExecutionFault, StartHandler, AnalyseImage, CompleteJob,
       CompleteJobUnheard, FailExecution, ExecutionDies
  <2>5. ASSUME NEW x \in Finalizers, FinalizePublish(x)
        PROVE  /\ FastRecorded(final'.ev)
               /\ \A y \in Finalizers : fin'[y] = "publish" => FastRecorded(snap'[y])
    <3>1. FastRecorded(snap[x]) /\ final'.ev = snap[x]
      BY <2>5 DEF FinalizePublish, Publish
    <3>. QED BY <2>5, <3>1 DEF FinalizePublish
  <2>6. ASSUME NEW x \in Finalizers, FinalizeRead(x)
        PROVE  /\ final' = final
               /\ \A y \in Finalizers : fin'[y] = "publish" => FastRecorded(snap'[y])
    <3>1. FastRecorded(evidence)
      BY <2>6 DEF FinalizeRead
    <3>. QED BY <2>6, <3>1 DEF FinalizeRead
  <2>7. ASSUME NEW x \in Finalizers,
               FinalizeCheck(x) \/ FinalizeFails(x) \/ ReconcileList(x)
        PROVE  /\ final' = final
               /\ \A y \in Finalizers : fin'[y] = "publish" => FastRecorded(snap'[y])
    BY <2>7 DEF FinalizeCheck, FinalizeFails, ReconcileList
  <2>8. CASE CancelScan \/ UNCHANGED vars
    BY <2>8 DEF CancelScan, vars
  <2>. QED
    BY <2>2, <2>3, <2>4, <2>5, <2>6, <2>7, <2>8 DEF Next, FinalizeStep, Finalizers
<1>. QED
  BY <1>1, <1>2 DEF FastInv

\* FinalCoversFast, whoever publishes.
THEOREM FinalAlwaysCoversFast == Spec => []FinalCoversFast
<1>1. Init => FastInv
  BY DEF Init, FastInv
<1>2. TypeOK /\ FastInv /\ [Next]_vars => FastInv'
  BY FastStep
<1>3. FastInv => FinalCoversFast
  BY DEF FastInv, FinalCoversFast
<1>. QED
  BY <1>1, <1>2, <1>3, TypeCorrect, PTL DEF Spec

-------------------------------------------------------------------------------
(* What a reconciliation publishes *)

\* A settled job never moves again and an enqueued one never disappears.
LEMMA JobsAdvance ==
  ASSUME TypeOK, [Next]_vars, NEW a \in Media
  PROVE  /\ Settled(jobs[a]) => jobs'[a] = jobs[a]
         /\ jobs[a].status # "absent" => jobs'[a].status # "absent"
<1>. DEFINE Advance == /\ Settled(jobs[a]) => jobs'[a] = jobs[a]
                       /\ jobs[a].status # "absent" => jobs'[a].status # "absent"
<1>. USE DEF TypeOK, dbVars, reqVars, finVars
<1>1. ASSUME NEW r \in Requests, RequestStep(r) \/ RequestFault(r) PROVE Advance
  BY <1>1 DEF RequestStep, CheckUploads, Submit, ClaimScan, AnswerCurrent, AttachUpload,
     EnqueueMedia, Enqueue, Settled, RecordFast, Correlate, PublishDecision, BuildReport,
     StoreResponse, RequestFault, OrchestratorFails, RequestDies
<1>2. ASSUME NEW b \in Media, QueueStep(b) PROVE Advance
  <2>1. CASE a = b
    <3>1. /\ jobs[a].status \in {"queued", "retry", "leased"}
          /\ jobs'[a].status \in {"leased", "retry", "dead"}
      <4>0. jobs[a] \in Job(MaxAttempts)
        OBVIOUS
      <4>1. CASE ClaimJob(a)
        BY <4>1 DEF ClaimJob, Claimable, Claim
      <4>2. CASE LeaseExpires(a)
        BY <4>0, <4>2 DEF LeaseExpires, Expire, Job
      <4>3. CASE DeadLetter(a)
        BY <4>0, <4>3 DEF DeadLetter, Exhausted, Fail, Job
      <4>. QED
        BY <1>2, <2>1, <4>1, <4>2, <4>3 DEF QueueStep
    <3>. QED
      BY <3>1 DEF Settled
  <2>2. CASE a # b
    BY <1>2, <2>2 DEF QueueStep, ClaimJob, LeaseExpires, DeadLetter
  <2>. QED
    BY <2>1, <2>2
<1>3. ASSUME NEW e \in Executions, ExecutionStep(e) \/ ExecutionFault(e) PROVE Advance
  <2>1. e[1] \in Media
    BY ExecutionParts
  <2>. QED
    BY <1>3, <2>1 DEF ExecutionStep, ExecutionFault, StartHandler, AnalyseImage,
       CompleteJob, CompleteJobUnheard, FailExecution, ExecutionDies, Holds, Succeed,
       FailHeld, Fail, Settled, Job
<1>4. ASSUME NEW x \in Finalizers,
             FinalizeStep(x) \/ FinalizeFails(x) \/ ReconcileList(x)
      PROVE  Advance
  BY <1>4 DEF FinalizeStep, FinalizeCheck, FinalizeRead, FinalizePublish,
     FinalizeFails, ReconcileList
<1>5. CASE CancelScan \/ UNCHANGED vars
  BY <1>5 DEF CancelScan, vars
<1>. QED
  BY <1>1, <1>2, <1>3, <1>4, <1>5 DEF Next, Finalizers

\* An image is done with: its evidence is recorded, or the scan was settled (say,
\* cancelled) when its handler looked.
Handled(a) == Covered(evidence, a) \/ status \in Terminal

\* A decision with this evidence lacks only images whose job was dead-lettered.
Accounted(js, ev) == \A a \in ImageArts : Covered(ev, a) \/ js[a].status = "dead"

\* The scans the reconciler lists have all their jobs; a job only succeeds once its
\* image is done with; what the reconciler reads after seeing every job settled is
\* therefore all that can still come.
ReconcileInv ==
  /\ status = "partially_completed" => \A a \in Media : jobs[a].status # "absent"
  /\ \A x \in Reconcilers :
       /\ fin[x] # "idle" => \A a \in Media : jobs[a].status # "absent"
       /\ fin[x] \in {"read", "publish"} => \A a \in Media : Settled(jobs[a])
       /\ fin[x] = "publish" => Accounted(jobs, snap[x])
  /\ \A a \in ImageArts : jobs[a].status = "succeeded" => Handled(a)
  /\ \A e \in Executions : run[e] = "handled" /\ e[1] \in ImageArts => Handled(e[1])
  /\ final.by = "reconciler" => Accounted(jobs, final.ev)

\* What was done with stays done with, and what was accounted for stays so.
LEMMA HandledStays ==
  ASSUME TypeOK, [Next]_vars
  PROVE  /\ \A a : Handled(a) => Handled(a)'
         /\ \A ev : Accounted(jobs, ev) => Accounted(jobs', ev)
<1>1. \A a : Handled(a) => Handled(a)'
  BY EvidenceGrows, CoveredGrows, TerminalStep DEF Handled
<1>2. \A a \in ImageArts : jobs[a].status = "dead" => jobs'[a].status = "dead"
  BY JobsAdvance DEF Settled, Media
<1>3. \A ev : Accounted(jobs, ev) => Accounted(jobs', ev)
  BY <1>2 DEF Accounted, Covered
<1>. QED
  BY <1>1, <1>3

\* Every job that is settled when the evidence is read is accounted for in it.
LEMMA ReadAccounts ==
  ASSUME TypeOK, ReconcileInv, \A a \in Media : Settled(jobs[a]), status \notin Terminal
  PROVE  Accounted(jobs, evidence)
<1>1. ASSUME NEW a \in ImageArts PROVE Covered(evidence, a) \/ jobs[a].status = "dead"
  <2>1. jobs[a].status \in {"succeeded", "dead"}
    BY DEF Settled, Media
  <2>. QED
    BY <2>1 DEF ReconcileInv, Handled
<1>. QED
  BY <1>1 DEF Accounted

\* Where the scan is partially completed, and how far each reconciler is.
LEMMA ReconcilerStep ==
  ASSUME TypeOK, ReconcileInv, [Next]_vars
  PROVE  /\ status' = "partially_completed" => \A a \in Media : jobs'[a].status # "absent"
         /\ \A x \in Reconcilers :
              /\ fin'[x] # "idle" => \A a \in Media : jobs'[a].status # "absent"
              /\ fin'[x] \in {"read", "publish"} => \A a \in Media : Settled(jobs'[a])
              /\ fin'[x] = "publish" => Accounted(jobs', snap'[x])
<1>. DEFINE Enqueued == \A a \in Media : jobs[a].status # "absent"
            AllSettled == \A a \in Media : Settled(jobs[a])
<1>. USE DEF TypeOK, dbVars, reqVars, finVars
<1>1. (Enqueued => Enqueued') /\ (AllSettled => AllSettled')
  BY JobsAdvance
<1>2. \A ev : Accounted(jobs, ev) => Accounted(jobs', ev)
  BY HandledStays
<1>3. status' = "partially_completed" => Enqueued'
  <2>1. ASSUME NEW r \in Requests, RequestStep(r)
        PROVE  status' = "partially_completed" => status = status' \/ Enqueued
    BY <2>1 DEF RequestStep, CheckUploads, Submit, ClaimScan, AnswerCurrent,
       AttachUpload, EnqueueMedia, RecordFast, Correlate, PublishDecision, Publish,
       BuildReport, StoreResponse
  <2>2. ASSUME NEW r \in Requests, RequestFault(r)
        PROVE  status' = "partially_completed" => status = status'
    BY <2>2 DEF RequestFault, OrchestratorFails, FailedStatus, RequestDies
  <2>3. ASSUME NEW a \in Media, QueueStep(a) PROVE status' = status
    BY <2>3 DEF QueueStep, ClaimJob, LeaseExpires, DeadLetter
  <2>4. ASSUME NEW e \in Executions, ExecutionStep(e) \/ ExecutionFault(e)
        PROVE  status' = status
    BY <2>4 DEF ExecutionStep, ExecutionFault, StartHandler, AnalyseImage, CompleteJob,
       CompleteJobUnheard, FailExecution, ExecutionDies
  <2>5. ASSUME NEW x \in Finalizers,
               FinalizeStep(x) \/ FinalizeFails(x) \/ ReconcileList(x)
        PROVE  status' = "partially_completed" => status = status'
    BY <2>5 DEF FinalizeStep, FinalizeCheck, FinalizeRead, FinalizePublish, Publish,
       FinalizeFails, ReconcileList
  <2>6. ASSUME CancelScan \/ UNCHANGED vars
        PROVE  status' = "partially_completed" => status = status'
    BY <2>6 DEF CancelScan, vars
  <2>7. status' = "partially_completed" => status = status' \/ Enqueued
    BY <2>1, <2>2, <2>3, <2>4, <2>5, <2>6 DEF Next, Finalizers
  <2>. QED
    BY <1>1, <2>7 DEF ReconcileInv
<1>4. ASSUME NEW x \in Reconcilers
      PROVE  /\ fin'[x] # "idle" => Enqueued'
             /\ fin'[x] \in {"read", "publish"} => AllSettled'
             /\ fin'[x] = "publish" => Accounted(jobs', snap'[x])
  <2>0. /\ fin[x] # "idle" => Enqueued
        /\ fin[x] \in {"read", "publish"} => AllSettled
        /\ fin[x] = "publish" => Accounted(jobs, snap[x])
    BY DEF ReconcileInv
  <2>1. CASE fin'[x] = fin[x] /\ snap'[x] = snap[x]
    BY <1>1, <1>2, <2>0, <2>1
  <2>2. CASE fin'[x] = "idle"
    BY <2>2
  <2>3. CASE ReconcileList(x)
    <3>1. Enqueued
      BY <2>3 DEF ReconcileList, ReconcileInv
    <3>2. fin'[x] = "check"
      BY <2>3 DEF ReconcileList, Finalizers
    <3>. QED BY <1>1, <3>1, <3>2
  <2>4. CASE FinalizeCheck(x)
    <3>1. Enqueued /\ fin'[x] # "publish"
      BY <2>0, <2>4 DEF FinalizeCheck, Finalizers
    <3>2. fin'[x] = "read" => AllSettled
      BY <2>4, <3>1 DEF FinalizeCheck, Finalizers, Actionable, Settled, Job, JobStatuses
    <3>. QED BY <1>1, <3>1, <3>2
  <2>5. CASE FinalizeRead(x)
    <3>1. fin[x] = "read" /\ Enqueued /\ AllSettled
      BY <2>0, <2>5 DEF FinalizeRead
    <3>2. fin'[x] = "publish" => snap'[x] = evidence /\ status \notin Terminal
      BY <2>5 DEF FinalizeRead, Finalizers
    <3>3. fin'[x] = "publish" => Accounted(jobs, evidence)
      BY <3>1, <3>2, ReadAccounts
    <3>. QED BY <1>1, <1>2, <3>1, <3>2, <3>3
  <2>6. ASSUME NEW r \in Requests, RequestStep(r) \/ RequestFault(r)
        PROVE  fin' = fin /\ snap' = snap
    BY <2>6 DEF RequestStep, CheckUploads, Submit, ClaimScan, AnswerCurrent,
       AttachUpload, EnqueueMedia, RecordFast, Correlate, PublishDecision, BuildReport,
       StoreResponse, RequestFault, OrchestratorFails, RequestDies
  <2>7. ASSUME NEW a \in Media, QueueStep(a) PROVE fin' = fin /\ snap' = snap
    BY <2>7 DEF QueueStep, ClaimJob, LeaseExpires, DeadLetter
  <2>8. ASSUME NEW e \in Executions, ExecutionStep(e) \/ ExecutionFault(e)
        PROVE  fin'[x] = fin[x] /\ snap' = snap
    <3>1. e # x
      BY FinalizerAssumption
    <3>. QED
      BY <2>8, <3>1 DEF ExecutionStep, ExecutionFault, StartHandler, AnalyseImage,
         CompleteJob, CompleteJobUnheard, FailExecution, ExecutionDies, Finalizers
  <2>9. ASSUME NEW y \in Finalizers,
               FinalizeStep(y) \/ FinalizeFails(y) \/ ReconcileList(y)
        PROVE  \/ fin'[x] = fin[x] /\ snap'[x] = snap[x]
               \/ fin'[x] = "idle"
               \/ FinalizeCheck(x) \/ FinalizeRead(x) \/ ReconcileList(x)
    BY <2>9 DEF FinalizeStep, FinalizeCheck, FinalizeRead, FinalizePublish,
       FinalizeFails, ReconcileList, Finalizers
  <2>10. CASE CancelScan \/ UNCHANGED vars
    BY <2>1, <2>10 DEF CancelScan, vars
  <2>. QED
    BY <2>1, <2>2, <2>3, <2>4, <2>5, <2>6, <2>7, <2>8, <2>9, <2>10 DEF Next, Finalizers
<1>. QED
  BY <1>3, <1>4

\* A job succeeds, and a handler returns, only when the image is done with.
LEMMA HandledStep ==
  ASSUME TypeOK, ReconcileInv, [Next]_vars
  PROVE  /\ \A a \in ImageArts : jobs'[a].status = "succeeded" => Handled(a)'
         /\ \A e \in Executions : run'[e] = "handled" /\ e[1] \in ImageArts => Handled(e[1])'
<1>. DEFINE Inv(js, rn) ==
       /\ \A a \in ImageArts : js[a].status = "succeeded" => Handled(a)'
       /\ \A e \in Executions : rn[e] = "handled" /\ e[1] \in ImageArts => Handled(e[1])'
<1>. USE DEF TypeOK, dbVars, reqVars, finVars
<1>0. Inv(jobs, run)
  BY HandledStays DEF ReconcileInv
<1>1. ASSUME NEW r \in Requests, RequestStep(r) \/ RequestFault(r) PROVE Inv(jobs', run')
  <2>1. run' = run
    BY <1>1 DEF RequestStep, CheckUploads, Submit, ClaimScan, AnswerCurrent, AttachUpload,
       EnqueueMedia, RecordFast, Correlate, PublishDecision, BuildReport, StoreResponse,
       RequestFault, OrchestratorFails, RequestDies
  <2>2. ASSUME NEW a \in ImageArts
        PROVE  jobs'[a].status = "succeeded" => jobs[a].status = "succeeded"
    <3>0. a \in Media
      BY DEF Media
    <3>1. ASSUME NEW b \in Media, EnqueueMedia(r, b)
          PROVE  jobs'[a].status = "succeeded" => jobs[a].status = "succeeded"
      <4>1. Enqueue(jobs[b]).status = "queued"
        BY <3>1 DEF EnqueueMedia, Enqueue, Job
      <4>. QED
        BY <3>0, <3>1, <4>1 DEF EnqueueMedia
    <3>. QED
      BY <1>1, <3>1 DEF RequestStep, CheckUploads, Submit, ClaimScan, AnswerCurrent,
         AttachUpload, RecordFast, Correlate, PublishDecision, BuildReport,
         StoreResponse, RequestFault, OrchestratorFails, RequestDies
  <2>. QED
    BY <1>0, <2>1, <2>2
<1>2. ASSUME NEW b \in Media, QueueStep(b) PROVE Inv(jobs', run')
  <2>1. \A e \in Executions : run'[e] = "handled" => run[e] = "handled"
    BY <1>2 DEF QueueStep, ClaimJob, LeaseExpires, DeadLetter
  <2>2. ASSUME NEW a \in ImageArts
        PROVE  jobs'[a].status = "succeeded" => jobs[a].status = "succeeded"
    <3>0. a \in Media /\ jobs[a] \in Job(MaxAttempts)
      BY DEF Media
    <3>1. CASE ClaimJob(b)
      BY <3>0, <3>1 DEF ClaimJob, Claim
    <3>2. CASE LeaseExpires(b)
      BY <3>0, <3>2 DEF LeaseExpires, Expire, Job
    <3>3. CASE DeadLetter(b)
      BY <3>0, <3>3 DEF DeadLetter, Fail, Job
    <3>. QED
      BY <1>2, <3>1, <3>2, <3>3 DEF QueueStep
  <2>. QED
    BY <1>0, <2>1, <2>2
<1>3. ASSUME NEW e \in Executions, ExecutionStep(e) \/ ExecutionFault(e)
      PROVE  Inv(jobs', run')
  <2>0. e[1] \in Media /\ jobs[e[1]] \in Job(MaxAttempts)
    BY ExecutionParts
  <2>1. CASE StartHandler(e)
    <3>1. run'[e] = "handled" /\ e[1] \in ImageArts => Handled(e[1])
      BY <2>1 DEF StartHandler, NeedsAnalysis, Handled
    <3>2. Handled(e[1]) => Handled(e[1])'
      BY HandledStays
    <3>. QED
      BY <1>0, <2>1, <3>1, <3>2 DEF StartHandler
  <2>2. ASSUME NEW o \in Outcomes, AnalyseImage(e, o) PROVE Inv(jobs', run')
    <3>0. [art |-> e[1], outcome |-> o] \in evidence'
      BY <2>2 DEF AnalyseImage
    <3>1. Covered(evidence', e[1])
      BY <3>0 DEF Covered
    <3>2. Handled(e[1])'
      BY <3>1 DEF Handled
    <3>3. jobs' = jobs /\ \A f \in Executions \ {e} : run'[f] = run[f]
      BY <2>2 DEF AnalyseImage
    <3>. QED
      BY <1>0, <3>2, <3>3
  <2>3. CASE CompleteJob(e) \/ CompleteJobUnheard(e)
    <3>1. e[1] \in ImageArts => Handled(e[1])'
      BY <1>0, <2>3 DEF CompleteJob, CompleteJobUnheard
    <3>2. \A f \in Executions : run'[f] = "handled" => run[f] = "handled"
      BY <2>3 DEF CompleteJob, CompleteJobUnheard
    <3>3. \A a \in ImageArts \ {e[1]} : jobs'[a] = jobs[a]
      BY <2>0, <2>3 DEF CompleteJob, CompleteJobUnheard, Media
    <3>. QED
      BY <1>0, <3>1, <3>2, <3>3
  <2>4. CASE FailExecution(e) \/ ExecutionDies(e)
    <3>1. \A f \in Executions : run'[f] = "handled" => run[f] = "handled"
      BY <2>4 DEF FailExecution, ExecutionDies
    <3>2. \A a \in ImageArts : jobs'[a].status = "succeeded" => jobs[a].status = "succeeded"
      <4>1. FailHeld(jobs[e[1]], e[2], MaxAttempts).status = "succeeded"
              => jobs[e[1]].status = "succeeded"
        BY <2>0 DEF FailHeld, Fail, Job
      <4>. QED
        BY <2>0, <2>4, <4>1 DEF FailExecution, ExecutionDies, Media
    <3>. QED
      BY <1>0, <3>1, <3>2
  <2>. QED
    BY <1>3, <2>1, <2>2, <2>3, <2>4 DEF ExecutionStep, ExecutionFault
<1>4. ASSUME NEW x \in Finalizers,
             FinalizeStep(x) \/ FinalizeFails(x) \/ ReconcileList(x)
      PROVE  jobs' = jobs /\ run' = run
  BY <1>4 DEF FinalizeStep, FinalizeCheck, FinalizeRead, FinalizePublish,
     FinalizeFails, ReconcileList
<1>5. ASSUME CancelScan \/ UNCHANGED vars
      PROVE  jobs' = jobs /\ run' = run
  BY <1>5 DEF CancelScan, vars
<1>6. Inv(jobs', run')
  <2>. HIDE DEF Inv
  <2>. QED BY <1>0, <1>1, <1>2, <1>3, <1>4, <1>5 DEF Next, Finalizers
<1>. QED
  BY <1>6

\* Only a reconciler's publication makes a final decision a reconciler's.
LEMMA ReconciledStep ==
  ASSUME TypeOK, ReconcileInv, [Next]_vars, final'.by = "reconciler"
  PROVE  Accounted(jobs', final'.ev)
<1>. USE DEF TypeOK, dbVars, reqVars, finVars
<1>1. ASSUME NEW r \in Requests, RequestStep(r) \/ RequestFault(r) PROVE final' = final
  BY <1>1 DEF RequestStep, CheckUploads, Submit, ClaimScan, AnswerCurrent, AttachUpload,
     EnqueueMedia, RecordFast, Correlate, PublishDecision, Publish, BuildReport,
     StoreResponse, RequestFault, OrchestratorFails, RequestDies
<1>2. ASSUME NEW a \in Media, QueueStep(a) PROVE final' = final
  BY <1>2 DEF QueueStep, ClaimJob, LeaseExpires, DeadLetter
<1>3. ASSUME NEW e \in Executions, ExecutionStep(e) \/ ExecutionFault(e)
      PROVE  final' = final
  BY <1>3 DEF ExecutionStep, ExecutionFault, StartHandler, AnalyseImage, CompleteJob,
     CompleteJobUnheard, FailExecution, ExecutionDies
<1>4. ASSUME NEW x \in Finalizers, FinalizePublish(x)
      PROVE  x \in Reconcilers /\ final'.ev = snap[x] /\ fin[x] = "publish"
  BY <1>4 DEF FinalizePublish, Publish
<1>5. ASSUME NEW x \in Finalizers,
             FinalizeCheck(x) \/ FinalizeRead(x) \/ FinalizeFails(x) \/ ReconcileList(x)
      PROVE  final' = final
  BY <1>5 DEF FinalizeCheck, FinalizeRead, FinalizeFails, ReconcileList
<1>6. ASSUME CancelScan \/ UNCHANGED vars PROVE final' = final
  BY <1>6 DEF CancelScan, vars
<1>7. \/ final' = final
      \/ \E x \in Reconcilers : final'.ev = snap[x] /\ fin[x] = "publish"
  BY <1>1, <1>2, <1>3, <1>4, <1>5, <1>6 DEF Next, FinalizeStep, Finalizers
<1>8. Accounted(jobs, final'.ev)
  BY <1>7 DEF ReconcileInv
<1>. QED
  BY <1>8, HandledStays

LEMMA ReconcileStep ==
  ASSUME TypeOK, ReconcileInv, [Next]_vars
  PROVE  ReconcileInv'
BY ReconcilerStep, HandledStep, ReconciledStep DEF ReconcileInv

\* ReconciledFinalCoversImages, for any number of images, attempts and reconcilers.
THEOREM ReconciledAlwaysCovers == Spec => []ReconciledFinalCoversImages
<1>1. Init => ReconcileInv
  BY DEF Init, ReconcileInv, NoJob, NoDecision, Finalizers, Media
<1>2. TypeOK /\ ReconcileInv /\ [Next]_vars => ReconcileInv'
  BY ReconcileStep
<1>3. ReconcileInv => ReconciledFinalCoversImages
  BY DEF ReconcileInv, Accounted, ReconciledFinalCoversImages
<1>. QED
  BY <1>1, <1>2, <1>3, TypeCorrect, PTL DEF Spec

\* Both together.
THEOREM FinalAlwaysCovers == Spec => []FinalCovers
<1>1. FinalCoversFast /\ ReconciledFinalCoversImages => FinalCovers
  BY DEF FinalCovers
<1> QED
  BY <1>1, FinalAlwaysCoversFast, ReconciledAlwaysCovers, PTL

-------------------------------------------------------------------------------
(* The promise *)

\* An answer that is stored, or about to be: it has a code, and it is backed by what the
\* database holds.
Backed(body) ==
  /\ body.code \in {200, 202}
  /\ body.code = 200 => body.kind = "final" /\ status \in Terminal
  /\ body.kind = "final" => final # NoDecision
  /\ body.kind = "preliminary" => claimedBy # {}

\* Nothing has been done for the scan yet.
Quiet ==
  /\ status # "partially_completed" /\ prelim = NoDecision /\ stored.code = 0
  /\ \A a \in Media : jobs[a].status = "absent"
  /\ \A e \in Executions : run[e] = "idle"
  /\ \A x \in Finalizers : fin[x] = "idle"

\* Whatever goes on behind a scan goes on for the request that claimed it, and what is to
\* be answered is backed.
PromiseInv ==
  /\ \A r \in Requests : Owner(r) => r \in claimedBy
  /\ claimedBy = {} => Quiet
  /\ \A r \in Requests :
       pc[r] \in {"report", "store"} /\ Media = {} => status \in Terminal
  /\ \A r \in Requests : pc[r] = "store" => Backed(resp[r])
  /\ stored.code # 0 => Backed(stored)

\* No step takes back a claim, a final decision or a settled status.
LEMMA NothingTakenBack ==
  ASSUME TypeOK, [Next]_vars
  PROVE  /\ claimedBy \subseteq claimedBy'
         /\ final # NoDecision => final' # NoDecision
         /\ status \in Terminal => status' \in Terminal
<1>. USE DEF dbVars, reqVars, finVars
<1>1. ASSUME NEW r \in Requests, RequestStep(r) \/ RequestFault(r)
      PROVE  claimedBy \subseteq claimedBy' /\ (final' = final \/ PublishDecision(r))
  BY <1>1 DEF RequestStep, CheckUploads, Submit, ClaimScan, AnswerCurrent, AttachUpload,
     EnqueueMedia, RecordFast, Correlate, PublishDecision, BuildReport, StoreResponse,
     RequestFault, OrchestratorFails, RequestDies
<1>2. ASSUME NEW a \in Media, QueueStep(a) PROVE claimedBy' = claimedBy /\ final' = final
  BY <1>2 DEF QueueStep, ClaimJob, LeaseExpires, DeadLetter
<1>3. ASSUME NEW e \in Executions, ExecutionStep(e) \/ ExecutionFault(e)
      PROVE  claimedBy' = claimedBy /\ final' = final
  BY <1>3 DEF ExecutionStep, ExecutionFault, StartHandler, AnalyseImage, CompleteJob,
     CompleteJobUnheard, FailExecution, ExecutionDies
<1>4. ASSUME NEW x \in Finalizers,
             FinalizeStep(x) \/ FinalizeFails(x) \/ ReconcileList(x)
      PROVE  claimedBy' = claimedBy /\ (final' = final \/ FinalizePublish(x))
  BY <1>4 DEF FinalizeStep, FinalizeCheck, FinalizeRead, FinalizePublish,
     FinalizeFails, ReconcileList
<1>5. ASSUME CancelScan \/ UNCHANGED vars PROVE claimedBy' = claimedBy /\ final' = final
  BY <1>5 DEF CancelScan, vars
<1>6. ASSUME NEW r \in Requests, PublishDecision(r)
      PROVE  final # NoDecision => final' # NoDecision
  BY <1>6 DEF PublishDecision, Publish, NoDecision
<1>7. ASSUME NEW x \in Finalizers, FinalizePublish(x) PROVE final' # NoDecision
  BY <1>7 DEF FinalizePublish, Publish, NoDecision
<1>8. claimedBy \subseteq claimedBy' /\ (final # NoDecision => final' # NoDecision)
  BY <1>1, <1>2, <1>3, <1>4, <1>5, <1>6, <1>7 DEF Next, Finalizers
<1>. QED
  BY <1>8, TerminalStep

\* As long as nobody has claimed the scan, nothing happens behind it.
LEMMA QuietStep ==
  ASSUME TypeOK, PromiseInv, [Next]_vars, claimedBy' = {}
  PROVE  Quiet'
<1>. USE DEF Quiet, TypeOK, dbVars, reqVars, finVars
<1>0. Quiet /\ claimedBy = {} /\ \A r \in Requests : ~Owner(r)
  BY NothingTakenBack DEF PromiseInv
<1>1. ASSUME NEW r \in Requests, RequestStep(r) \/ RequestFault(r) PROVE Quiet'
  BY <1>0, <1>1 DEF RequestStep, CheckUploads, Submit, ClaimScan, AnswerCurrent,
     AttachUpload, EnqueueMedia, RecordFast, Correlate, PublishDecision, BuildReport,
     StoreResponse, RequestFault, OrchestratorFails, RequestDies, Owner
<1>2. ASSUME NEW a \in Media, QueueStep(a) PROVE Quiet'
  BY <1>0, <1>2 DEF QueueStep, ClaimJob, LeaseExpires, DeadLetter, Claimable, Exhausted
<1>3. ASSUME NEW e \in Executions, ExecutionStep(e) \/ ExecutionFault(e) PROVE Quiet'
  BY <1>0, <1>3 DEF ExecutionStep, ExecutionFault, StartHandler, AnalyseImage,
     CompleteJob, CompleteJobUnheard, FailExecution, ExecutionDies
<1>4. ASSUME NEW x \in Finalizers,
             FinalizeStep(x) \/ FinalizeFails(x) \/ ReconcileList(x)
      PROVE  Quiet'
  BY <1>0, <1>4 DEF FinalizeStep, FinalizeCheck, FinalizeRead, FinalizePublish,
     FinalizeFails, ReconcileList
<1>5. CASE CancelScan \/ UNCHANGED vars
  BY <1>0, <1>5 DEF CancelScan, vars
<1>. QED
  BY <1>1, <1>2, <1>3, <1>4, <1>5 DEF Next, Finalizers

\* Only a request's own steps move it, and only it moves what it is about to answer.
LEMMA RequestMoves ==
  ASSUME TypeOK, [Next]_vars, NEW r \in Requests,
         ~RequestStep(r), ~RequestFault(r)
  PROVE  pc'[r] = pc[r] /\ resp'[r] = resp[r]
<1>. USE DEF TypeOK, dbVars, reqVars, finVars
<1>1. ASSUME NEW q \in Requests \ {r}, RequestStep(q) \/ RequestFault(q)
      PROVE  pc'[r] = pc[r] /\ resp'[r] = resp[r]
  BY <1>1 DEF RequestStep, CheckUploads, Submit, ClaimScan, AnswerCurrent, AttachUpload,
     EnqueueMedia, RecordFast, Correlate, PublishDecision, BuildReport, StoreResponse,
     RequestFault, OrchestratorFails, RequestDies, Answer
<1>2. ASSUME NEW a \in Media, QueueStep(a) PROVE pc' = pc /\ resp' = resp
  BY <1>2 DEF QueueStep, ClaimJob, LeaseExpires, DeadLetter
<1>3. ASSUME NEW e \in Executions, ExecutionStep(e) \/ ExecutionFault(e)
      PROVE  pc' = pc /\ resp' = resp
  BY <1>3 DEF ExecutionStep, ExecutionFault, StartHandler, AnalyseImage, CompleteJob,
     CompleteJobUnheard, FailExecution, ExecutionDies
<1>4. ASSUME NEW x \in Finalizers,
             FinalizeStep(x) \/ FinalizeFails(x) \/ ReconcileList(x)
      PROVE  pc' = pc /\ resp' = resp
  BY <1>4 DEF FinalizeStep, FinalizeCheck, FinalizeRead, FinalizePublish,
     FinalizeFails, ReconcileList
<1>5. ASSUME CancelScan \/ UNCHANGED vars PROVE pc' = pc /\ resp' = resp
  BY <1>5 DEF CancelScan, vars
<1>. QED
  BY <1>1, <1>2, <1>3, <1>4, <1>5 DEF Next, Finalizers

\* A request that moves itself: it claims before it owns, settles a scan without media
\* before it reports, and reports what is there.
LEMMA RequestPromise ==
  ASSUME TypeOK, OwnerInv, FinalInv, PromiseInv, NEW r \in Requests,
         RequestStep(r) \/ RequestFault(r)
  PROVE  /\ Owner(r)' => r \in claimedBy'
         /\ pc'[r] \in {"report", "store"} /\ Media = {} => status' \in Terminal
         /\ pc'[r] = "store" => Backed(resp[r])'
<1>. DEFINE G == /\ Owner(r)' => r \in claimedBy'
                 /\ pc'[r] \in {"report", "store"} /\ Media = {} => status' \in Terminal
                 /\ pc'[r] = "store" => Backed(resp[r])'
<1>. USE DEF TypeOK, dbVars, reqVars, finVars
<1>0. /\ Owner(r) => r \in claimedBy
      /\ pc[r] \in {"report", "store"} /\ Media = {} => status \in Terminal
  BY DEF PromiseInv
<1>1. CASE CheckUploads(r) \/ Submit(r) \/ ClaimScan(r) \/ AnswerCurrent(r) \/ RequestFault(r)
           \/ StoreResponse(r)
  BY <1>1 DEF CheckUploads, Submit, ClaimScan, AnswerCurrent, RequestFault,
     OrchestratorFails, RequestDies, StoreResponse, Answer, Owner
<1>2. ASSUME NEW a \in Media, AttachUpload(r, a) \/ EnqueueMedia(r, a) PROVE G
  BY <1>0, <1>2 DEF AttachUpload, EnqueueMedia, Owner
<1>3. ASSUME NEW a \in FastArts, NEW o \in Outcomes, RecordFast(r, a, o) PROVE G
  BY <1>0, <1>3 DEF RecordFast, Owner
<1>4. CASE Correlate(r)
  BY <1>0, <1>4 DEF Correlate, Owner
<1>5. CASE PublishDecision(r)
  <2>1. r \in claimedBy /\ status \notin {"none", "accepted"}
    BY <1>0, <1>5 DEF PublishDecision, Owner, OwnerInv
  <2>2. Media = {} => status' \in Terminal
    BY <1>5, <2>1 DEF PublishDecision, Publish, Statuses, Open, Terminal
  <2>. QED
    BY <1>5, <2>1, <2>2 DEF PublishDecision, Owner
<1>6. CASE BuildReport(r)
  <2>1. r \in claimedBy /\ (Media = {} => status \in Terminal /\ final # NoDecision)
    BY <1>0, <1>6 DEF BuildReport, Owner, FinalInv
  <2>2. resp'[r] = [code |-> IF Media = {} THEN 200 ELSE 202, kind |-> ReportKind]
    BY <1>6 DEF BuildReport
  <2>3. /\ ReportKind = "final" <=> final # NoDecision
        /\ ReportKind = "preliminary" => prelim # NoDecision
    BY DEF ReportKind
  <2>4. Backed(resp[r])'
    BY <1>6, <2>1, <2>2, <2>3 DEF BuildReport, Backed
  <2>. QED
    BY <1>6, <2>1, <2>4 DEF BuildReport, Owner
<1>. QED
  BY <1>1, <1>2, <1>3, <1>4, <1>5, <1>6 DEF RequestStep

\* What is stored is what a request was about to answer.
LEMMA StoredMoves ==
  ASSUME [Next]_vars
  PROVE  stored' = stored \/ \E r \in Requests : pc[r] = "store" /\ stored' = resp[r]
<1>. USE DEF dbVars, reqVars, finVars
<1>1. ASSUME NEW r \in Requests, RequestStep(r) \/ RequestFault(r)
      PROVE  stored' = stored \/ (pc[r] = "store" /\ stored' = resp[r])
  BY <1>1 DEF RequestStep, CheckUploads, Submit, ClaimScan, AnswerCurrent, AttachUpload,
     EnqueueMedia, RecordFast, Correlate, PublishDecision, BuildReport, StoreResponse,
     RequestFault, OrchestratorFails, RequestDies
<1>2. ASSUME NEW a \in Media, QueueStep(a) PROVE stored' = stored
  BY <1>2 DEF QueueStep, ClaimJob, LeaseExpires, DeadLetter
<1>3. ASSUME NEW e \in Executions, ExecutionStep(e) \/ ExecutionFault(e)
      PROVE  stored' = stored
  BY <1>3 DEF ExecutionStep, ExecutionFault, StartHandler, AnalyseImage, CompleteJob,
     CompleteJobUnheard, FailExecution, ExecutionDies
<1>4. ASSUME NEW x \in Finalizers,
             FinalizeStep(x) \/ FinalizeFails(x) \/ ReconcileList(x)
      PROVE  stored' = stored
  BY <1>4 DEF FinalizeStep, FinalizeCheck, FinalizeRead, FinalizePublish,
     FinalizeFails, ReconcileList
<1>5. ASSUME CancelScan \/ UNCHANGED vars PROVE stored' = stored
  BY <1>5 DEF CancelScan, vars
<1>. QED
  BY <1>1, <1>2, <1>3, <1>4, <1>5 DEF Next, Finalizers

LEMMA PromiseStep ==
  ASSUME TypeOK, OwnerInv, FinalInv, PromiseInv, [Next]_vars
  PROVE  PromiseInv'
<1>1. ASSUME NEW r \in Requests
      PROVE  /\ Owner(r)' => r \in claimedBy'
             /\ pc'[r] \in {"report", "store"} /\ Media = {} => status' \in Terminal
             /\ pc'[r] = "store" => Backed(resp[r])'
  <2>1. CASE RequestStep(r) \/ RequestFault(r)
    BY <2>1, RequestPromise
  <2>2. CASE pc'[r] = pc[r] /\ resp'[r] = resp[r]
    <3>1. /\ Owner(r) => r \in claimedBy
          /\ pc[r] \in {"report", "store"} /\ Media = {} => status \in Terminal
      BY DEF PromiseInv
    <3>2. pc[r] = "store" => Backed(resp[r])
      BY DEF PromiseInv
    <3>3. pc'[r] = "store" => Backed(resp[r])'
      BY <2>2, <3>2, NothingTakenBack DEF Backed
    <3>. QED
      BY <2>2, <3>1, <3>3, NothingTakenBack DEF Owner
  <2>. QED
    BY <2>1, <2>2, RequestMoves
<1>2. (stored.code # 0 => Backed(stored))'
  <2>1. stored'.code # 0 => Backed(stored')
    BY StoredMoves DEF PromiseInv
  <2>. QED
    BY <2>1, NothingTakenBack DEF Backed
<1>3. claimedBy' = {} => Quiet'
  BY QuietStep
<1>. QED
  BY <1>1, <1>2, <1>3 DEF PromiseInv

LEMMA PromiseInvariant == Spec => [](OwnerInv /\ FinalInv /\ PromiseInv)
<1>1. Init => OwnerInv /\ FinalInv /\ PromiseInv
  BY DEF Init, OwnerInv, OneOwner, FinalInv, PromiseInv, Quiet, Owner, NoResponse, NoJob,
     Finalizers
<1>2. TypeOK /\ OwnerInv /\ FinalInv /\ PromiseInv /\ [Next]_vars
        => OwnerInv' /\ FinalInv' /\ PromiseInv'
  BY OwnerStep, FinalStep, PromiseStep
<1>. QED
  BY <1>1, <1>2, TypeCorrect, PTL DEF Spec

\* Where the promise stands the same, it is kept.
LEMMA StandsStill ==
  ASSUME Phase' = Phase, UNCHANGED <<claimedBy, final>>, Told' = Told
  PROVE  [Promise!Next]_(Promise!vars)
BY DEF Promise!vars

\* What a request that has not been answered answers, it tells.
LEMMA AnswerTells ==
  ASSUME TypeOK, NEW r \in Requests, pc[r] # "replied", NEW body, Answer(r, body)
  PROVE  Promise!Tell(r, body)
<1>1. Told[r] = NoResponse
  BY DEF Told
<1>2. Told' = [Told EXCEPT ![r] = body]
  BY DEF Answer, Told, TypeOK
<1>. QED
  BY <1>1, <1>2 DEF Promise!Tell, Promise!NoAnswer, NoResponse

\* A backed answer is truthful.
LEMMA BackedAnswer ==
  ASSUME TypeOK, NEW r \in Requests, pc[r] # "replied", NEW body \in Responses,
         Answer(r, body), Backed(body) \/ body = [NoResponse EXCEPT !.code = 400],
         Phase' = Phase, UNCHANGED <<claimedBy, final>>
  PROVE  [Promise!Next]_(Promise!vars)
<1>1. Promise!Tell(r, body)
  BY AnswerTells
<1>2. /\ body = [code |-> body.code, kind |-> body.kind]
      /\ body.code \in {200, 202, 400} /\ body.kind \in {"none", "preliminary", "final"}
  BY DEF Backed, NoResponse, Responses
<1>3. status \in Terminal => Phase \notin {"absent", "open"}
  BY DEF Phase, Terminal, Open
<1>4. Promise!Truthful(body)
  BY <1>3 DEF Promise!Truthful, Backed, NoResponse
<1>5. Promise!Answer(r)
  BY <1>1, <1>2, <1>4 DEF Promise!Answer
<1>. QED
  BY <1>5 DEF Promise!Next

\* A final decision of the claimed scan settles it.
LEMMA PublishDecides ==
  ASSUME TypeOK, OwnerInv, claimedBy # {}, NEW d, d.by # "none", Publish("final", d),
         UNCHANGED claimedBy, Told' = Told
  PROVE  [Promise!Next]_(Promise!vars)
<1>1. final' # NoDecision
  BY DEF Publish, NoDecision
<1>2. status \notin {"none", "accepted"}
  BY DEF OwnerInv
<1>3. Phase' = IF Phase = "open" THEN "completed" ELSE Phase
  BY <1>2 DEF Publish, Phase, TypeOK, Statuses, Open, Terminal
<1>4. Promise!Decide
  BY <1>1, <1>3 DEF Promise!Decide
<1>. QED
  BY <1>4 DEF Promise!Next

LEMMA RequestKeepsPromise ==
  ASSUME TypeOK, OwnerInv, FinalInv, PromiseInv, NEW r \in Requests,
         RequestStep(r) \/ RequestFault(r)
  PROVE  [Promise!Next]_(Promise!vars)
<1>. USE DEF dbVars, reqVars, finVars
<1>1. CASE CheckUploads(r)
  <2>1. CASE attached = {}
    <3>1. Told' = Told
      BY <1>1, <2>1 DEF CheckUploads, Told, TypeOK
    <3>. QED
      BY <1>1, <3>1, StandsStill DEF CheckUploads, Phase
  <2>2. CASE attached # {}
    BY <1>1, <2>2, BackedAnswer, NoResponseTypes DEF CheckUploads, Phase
  <2>. QED
    BY <2>1, <2>2
<1>2. CASE Submit(r)
  <2>1. CASE stored.code = 0
    <3>1. Told' = Told
      BY <1>2, <2>1 DEF Submit, Told, TypeOK
    <3>2. CASE status = "none"
      <4>1. Phase = "absent" /\ Phase' = "open"
        BY <1>2, <3>2 DEF Submit, Phase, Open
      <4>2. Promise!Open
        BY <1>2, <3>1, <4>1 DEF Submit, Promise!Open
      <4>. QED
        BY <4>2 DEF Promise!Next
    <3>3. CASE status # "none"
      BY <1>2, <3>1, <3>3, StandsStill DEF Submit, Phase
    <3>. QED
      BY <3>2, <3>3
  <2>2. CASE stored.code # 0
    <3>1. Backed(stored) /\ status # "none"
      BY <2>2 DEF PromiseInv, Quiet, OwnerInv
    <3>. QED
      BY <1>2, <2>2, <3>1, BackedAnswer DEF Submit, Phase, TypeOK
  <2>. QED
    BY <2>1, <2>2
<1>3. CASE ClaimScan(r)
  <2>1. claimedBy = {}
    BY <1>3 DEF ClaimScan, ClaimWins, OwnerInv
  <2>2. Phase = "open" /\ Phase' = "open"
    BY <1>3 DEF ClaimScan, ClaimWins, Phase, Open
  <2>3. Told' = Told
    BY <1>3 DEF ClaimScan, Told, TypeOK
  <2>4. Promise!Own(r)
    BY <1>3, <2>1, <2>2, <2>3 DEF ClaimScan, Promise!Own
  <2>. QED
    BY <2>4 DEF Promise!Next
<1>4. CASE AnswerCurrent(r)
  <2>. DEFINE body == [code |-> ReplayCode, kind |-> ReportKind]
  <2>1. body \in Responses
    BY ReportKindTypes DEF ReplayCode, Responses
  <2>2. Backed(body)
    BY DEF Backed, ReplayCode, ReportKind, FinalInv, PromiseInv, Quiet, Terminal
  <2>3. Answer(r, body) /\ pc[r] # "replied"
    BY <1>4 DEF AnswerCurrent
  <2>. HIDE DEF body
  <2>. QED
    BY <1>4, <2>1, <2>2, <2>3, BackedAnswer DEF AnswerCurrent, Phase
<1>5. ASSUME NEW a \in Media, AttachUpload(r, a) \/ EnqueueMedia(r, a)
      PROVE  [Promise!Next]_(Promise!vars)
  BY <1>5, StandsStill DEF AttachUpload, EnqueueMedia, Phase, Told
<1>6. ASSUME NEW a \in FastArts, NEW o \in Outcomes, RecordFast(r, a, o)
      PROVE  [Promise!Next]_(Promise!vars)
  BY <1>6, StandsStill DEF RecordFast, Phase, Told
<1>7. CASE Correlate(r) \/ BuildReport(r) \/ RequestDies(r)
  <2>1. Told' = Told
    BY <1>7 DEF Correlate, BuildReport, RequestDies, Told, TypeOK
  <2>. QED
    BY <1>7, <2>1, StandsStill DEF Correlate, BuildReport, RequestDies, Phase
<1>8. CASE PublishDecision(r)
  <2>. DEFINE d == [ev  |-> FastRows,
                    rec |-> IF Media # {} /\ FastRows = {} THEN "hold"
                            ELSE Recommend(FastRows),
                    by  |-> "orchestrator"]
  <2>1. Told' = Told
    BY <1>8 DEF PublishDecision, Told, TypeOK
  <2>2. claimedBy # {}
    BY <1>8 DEF PublishDecision, PromiseInv, Owner
  <2>3. Publish(IF Media # {} THEN "preliminary" ELSE "final", d) /\ d.by # "none"
    BY <1>8 DEF PublishDecision
  <2>4. UNCHANGED claimedBy
    BY <1>8 DEF PublishDecision
  <2>. HIDE DEF d
  <2>5. CASE Media = {}
    BY <2>1, <2>2, <2>3, <2>4, <2>5, PublishDecides
  <2>6. CASE Media # {}
    <3>1. Phase' = Phase /\ final' = final
      BY <2>3, <2>6 DEF Publish, Phase, Open
    <3>. QED
      BY <2>1, <2>4, <3>1, StandsStill
  <2>. QED
    BY <2>5, <2>6
<1>9. CASE StoreResponse(r)
  <2>1. Backed(resp[r]) /\ resp[r] \in Responses
    BY <1>9 DEF StoreResponse, PromiseInv, TypeOK
  <2>. QED
    BY <1>9, <2>1, BackedAnswer DEF StoreResponse, Phase
<1>10. CASE OrchestratorFails(r)
  <2>1. Promise!Tell(r, [code |-> 500, kind |-> "none"])
    BY <1>10, AnswerTells DEF OrchestratorFails, Owner, NoResponse
  <2>2. r \in claimedBy
    BY <1>10 DEF OrchestratorFails, PromiseInv
  <2>3. Phase' = Phase \/ (Phase = "open" /\ Phase' = "failed")
    BY <1>10 DEF OrchestratorFails, FailedStatus, Phase, Open
  <2>4. Promise!Fail(r)
    BY <1>10, <2>1, <2>2, <2>3 DEF OrchestratorFails, Promise!Fail
  <2>. QED
    BY <2>4 DEF Promise!Next
<1>. QED
  BY <1>1, <1>2, <1>3, <1>4, <1>5, <1>6, <1>7, <1>8, <1>9, <1>10
  DEF RequestStep, RequestFault

\* Every step of the system is a step of the promise, or none.
LEMMA PromiseSimulation ==
  TypeOK /\ OwnerInv /\ FinalInv /\ PromiseInv /\ [Next]_vars
    => [Promise!Next]_(Promise!vars)
<1>. SUFFICES ASSUME TypeOK, OwnerInv, FinalInv, PromiseInv, [Next]_vars
              PROVE  [Promise!Next]_(Promise!vars)
  OBVIOUS
<1>. USE DEF dbVars, reqVars, finVars
<1>0. ASSUME UNCHANGED <<status, final, claimedBy, pc, resp>>
      PROVE  [Promise!Next]_(Promise!vars)
  BY <1>0, StandsStill DEF Phase, Told
<1>1. CASE CancelScan
  <2>1. Phase = "open" /\ Phase' \in {"cancelled", "cancel_requested"} /\ Told' = Told
    BY <1>1 DEF CancelScan, Phase, Open, Told
  <2>2. Promise!Cancel
    BY <1>1, <2>1 DEF CancelScan, Promise!Cancel
  <2>. QED
    BY <2>2 DEF Promise!Next
<1>2. ASSUME NEW a \in Media, QueueStep(a) PROVE [Promise!Next]_(Promise!vars)
  BY <1>0, <1>2 DEF QueueStep, ClaimJob, LeaseExpires, DeadLetter
<1>3. ASSUME NEW e \in Executions, ExecutionStep(e) \/ ExecutionFault(e)
      PROVE  [Promise!Next]_(Promise!vars)
  BY <1>0, <1>3 DEF ExecutionStep, ExecutionFault, StartHandler, AnalyseImage,
     CompleteJob, CompleteJobUnheard, FailExecution, ExecutionDies
<1>4. ASSUME NEW x \in Finalizers, FinalizePublish(x)
      PROVE  [Promise!Next]_(Promise!vars)
  <2>. DEFINE d == [ev  |-> snap[x],
                    rec |-> IF OtherMedia # {} THEN "hold" ELSE Recommend(snap[x]),
                    by  |-> IF x \in Reconcilers THEN "reconciler" ELSE "worker"]
  <2>1. Publish("final", d) /\ d.by # "none" /\ UNCHANGED claimedBy
    BY <1>4 DEF FinalizePublish
  <2>2. claimedBy # {} /\ Told' = Told
    BY <1>4 DEF FinalizePublish, PromiseInv, Quiet, Told
  <2>. HIDE DEF d
  <2>. QED
    BY <2>1, <2>2, PublishDecides
<1>5. ASSUME NEW x \in Finalizers,
             FinalizeCheck(x) \/ FinalizeRead(x) \/ FinalizeFails(x) \/ ReconcileList(x)
      PROVE  [Promise!Next]_(Promise!vars)
  BY <1>0, <1>5 DEF FinalizeCheck, FinalizeRead, FinalizeFails, ReconcileList
<1>6. CASE UNCHANGED vars
  BY <1>0, <1>6 DEF vars
<1>. QED
  BY <1>1, <1>2, <1>3, <1>4, <1>5, <1>6, RequestKeepsPromise
  DEF Next, FinalizeStep, Finalizers

\* PromiseSpec, for any number of requests, artifacts, attempts and reconcilers: the
\* gateway implements ScanPromise.
THEOREM ImplementsPromise == Spec => PromiseSpec
<1>1. Init => Promise!Init
  BY DEF Init, Promise!Init, Promise!NoAnswer, Phase, Told, NoResponse
<1>. QED
  BY <1>1, PromiseSimulation, TypeCorrect, PromiseInvariant, PTL
  DEF Spec, PromiseSpec, Promise!Spec
===============================================================================
