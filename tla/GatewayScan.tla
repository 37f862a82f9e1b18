------------------------------ MODULE GatewayScan ------------------------------
(***************************************************************************)
(* The life of one gateway scan: the HTTP requests that submit it under one *)
(* Idempotency-Key (lib/gateway/orchestrator.js), the media jobs the worker *)
(* runs for it (worker/index.js, worker/handlers/media.js) and the periodic *)
(* reconciliation that finishes it.  The processes share only database      *)
(* rows, read and written by separate calls; a process may die between any  *)
(* two of them.                                                             *)
(***************************************************************************)
EXTENDS JobLease, Recommendation, FiniteSets

CONSTANTS
  Requests,     \* HTTP submissions that carry the same Idempotency-Key
  Crashable,    \* those whose process (or database connection) may die
  FastArts,     \* text and URL artifacts: analysed inside the request
  ImageArts,    \* images: analysed by a media job
  OtherMedia,   \* audio and video: no model exists (mode 'unsupported')
  Outcomes,     \* what a model run may record
  MaxAttempts,  \* maxAttempts of a media job (5 in the code)
  Reconcilers   \* workers that run reconcileMediaFinalizations

Media == ImageArts \cup OtherMedia

ASSUME ScanAssumption ==
  /\ Crashable \subseteq Requests
  /\ FastArts \cap Media = {}
  /\ Outcomes \subseteq {"clean", "risky", "failed"}
  /\ MaxAttempts \in Nat \ {0}

Executions == Media \X (1..MaxAttempts)  \* one handler run per claimed lease

ASSUME FinalizerAssumption == Reconcilers \cap Executions = {}

Finalizers == Executions \cup Reconcilers

VARIABLES
  status,     \* gateway_scans.status, "none" before the row exists
  attached,   \* media artifacts whose upload has been attached
  evidence,   \* gateway_evidence rows of the scan
  jobs,       \* gateway_jobs rows of type media
  prelim,     \* the latest preliminary decision
  final,      \* the latest final decision (final_decision_id)
  stored,     \* the idempotency record's stored response
  pc, resp,   \* each request: where it is, what it answers
  claimedBy,  \* history: the requests whose claimScan returned the row
  run,        \* each media handler execution: where it is
  fin, snap   \* each finalizer: where it is, the evidence it read

dbVars == <<status, attached, evidence, jobs, prelim, final, stored>>
reqVars == <<pc, resp, claimedBy>>
finVars == <<fin, snap>>
vars == <<dbVars, reqVars, run, finVars>>

Terminal == {"cancel_requested", "cancelled", "completed", "failed"}
Open == {"accepted", "processing", "partially_completed"}
Statuses == {"none"} \cup Open \cup Terminal

Rows == [art : FastArts \cup Media, outcome : Outcomes]
Covered(rows, a) == \E row \in rows : row.art = a
FastRows == {row \in evidence : row.art \in FastArts}
FastRecorded(rows) == \A a \in FastArts : Covered(rows, a)

Recommendations == {"none", "allow", "escalate", "hold"}
Authors == {"none", "orchestrator", "worker", "reconciler"}
Decisions == [ev : SUBSET Rows, rec : Recommendations, by : Authors]
NoDecision == [ev |-> {}, rec |-> "none", by |-> "none"]

Responses ==
  [code : {0, 200, 202, 400, 500}, kind : {"none", "preliminary", "final"}]
NoResponse == [code |-> 0, kind |-> "none"]

-------------------------------------------------------------------------------
(* Decisions *)

\* gateway_publish_decision: it settles an open scan; on a scan that is already
\* settled it records the decision and leaves the status (or the call fails: see
\* OrchestratorFails and FinalizeFails).
Publish(kind, d) ==
  /\ status' = IF status \notin {"processing", "partially_completed"} THEN status
               ELSE IF kind = "final" THEN "completed" ELSE "partially_completed"
  /\ final' = IF kind = "final" THEN d ELSE final
  /\ prelim' = IF kind = "preliminary" THEN d ELSE prelim

\* publicReport: the final decision, or else the preliminary one.
ReportKind ==
  IF final # NoDecision THEN "final"
  ELSE IF prelim # NoDecision THEN "preliminary" ELSE "none"

-------------------------------------------------------------------------------
(* A request: orchestrateSubmission *)

Owner(r) == pc[r] \in {"claimed", "enqueue", "report", "store"}

Answer(r, body) ==
  /\ resp' = [resp EXCEPT ![r] = body]
  /\ pc' = [pc EXCEPT ![r] = "replied"]

\* uploadsForSubmission: every media upload must still be unattached.
CheckUploads(r) ==
  /\ pc[r] = "new"
  /\ IF attached = {}
       THEN pc' = [pc EXCEPT ![r] = "checked"] /\ UNCHANGED resp
       ELSE Answer(r, [NoResponse EXCEPT !.code = 400])
  /\ UNCHANGED <<dbVars, claimedBy, run, finVars>>

\* submitScan: the first call inserts the scan, a later one replays the stored
\* response if there is one.
Submit(r) ==
  /\ pc[r] = "checked"
  /\ IF stored.code # 0
       THEN Answer(r, stored)
       ELSE pc' = [pc EXCEPT ![r] = "submitted"] /\ UNCHANGED resp
  /\ status' = IF status = "none" THEN "accepted" ELSE status
  /\ UNCHANGED <<attached, evidence, jobs, prelim, final, stored, claimedBy,
                 run, finVars>>

\* claimScan without its status=eq.accepted filter.
ClaimWinsAnyOpen == status \in Open

\* claimScan: a compare-and-set on status=eq.accepted.
ClaimWins == status = "accepted"

ClaimScan(r) ==
  /\ pc[r] = "submitted"
  /\ ClaimWins
  /\ status' = "processing"
  /\ pc' = [pc EXCEPT ![r] = "claimed"]
  /\ claimedBy' = claimedBy \cup {r}
  /\ UNCHANGED <<attached, evidence, jobs, prelim, final, stored, resp,
                 run, finVars>>

\* current.status === 'completed' ? 200 : 202
ReplayCode == IF status = "completed" THEN 200 ELSE 202

\* claimScan found nothing to claim: answer with the scan as it stands.
AnswerCurrent(r) ==
  /\ pc[r] = "submitted"
  /\ ~ClaimWins
  /\ Answer(r, [code |-> ReplayCode, kind |-> ReportKind])
  /\ UNCHANGED <<dbVars, claimedBy, run, finVars>>

\* The loop over uploaded artifacts: prepare, move the object, attach.
AttachUpload(r, a) ==
  /\ pc[r] = "claimed"
  /\ a \in Media \ attached
  /\ attached' = attached \cup {a}
  /\ UNCHANGED <<status, evidence, jobs, prelim, final, stored, reqVars, run,
                 finVars>>

\* executeRoute and recordEvidence for one fast route.
RecordFast(r, a, o) ==
  /\ pc[r] = "claimed"
  /\ Media \subseteq attached
  /\ a \in FastArts
  /\ ~Covered(evidence, a)
  /\ evidence' = evidence \cup {[art |-> a, outcome |-> o]}
  /\ UNCHANGED <<status, attached, jobs, prelim, final, stored, reqVars, run,
                 finVars>>

\* Every fast route has its evidence: the decision can be computed.
Correlate(r) ==
  /\ pc[r] = "claimed"
  /\ Media \subseteq attached
  /\ FastRecorded(evidence)
  /\ pc' = [pc EXCEPT ![r] = "enqueue"]
  /\ UNCHANGED <<dbVars, resp, claimedBy, run, finVars>>

\* Media jobs enqueued before the fast routes have run.
EnqueueMediaFirst(r, a) ==
  /\ pc[r] \in {"claimed", "enqueue"}
  /\ Media \subseteq attached
  /\ jobs[a].status = "absent"
  /\ jobs' = [jobs EXCEPT ![a] = Enqueue(@)]
  /\ UNCHANGED <<status, attached, evidence, prelim, final, stored, reqVars,
                 run, finVars>>

\* for (const route of mediaRoutes) await enqueueJob(...)
EnqueueMedia(r, a) ==
  /\ pc[r] = "enqueue"
  /\ jobs[a].status = "absent"
  /\ jobs' = [jobs EXCEPT ![a] = Enqueue(@)]
  /\ UNCHANGED <<status, attached, evidence, prelim, final, stored, reqVars,
                 run, finVars>>

\* The decision rests on the fast evidence alone; with media it is preliminary.
PublishDecision(r) ==
  /\ pc[r] = "enqueue"
  /\ \A a \in Media : jobs[a].status # "absent"
  /\ LET rec == IF Media # {} /\ FastRows = {} THEN "hold"
                ELSE Recommend(FastRows)
     IN Publish(IF Media # {} THEN "preliminary" ELSE "final",
                [ev |-> FastRows, rec |-> rec, by |-> "orchestrator"])
  /\ pc' = [pc EXCEPT ![r] = "report"]
  /\ UNCHANGED <<attached, evidence, jobs, stored, resp, claimedBy, run,
                 finVars>>

\* completeArtifacts, scanReport and the body that will be answered.
BuildReport(r) ==
  /\ pc[r] = "report"
  /\ resp' = [resp EXCEPT ![r] = [code |-> IF Media = {} THEN 200 ELSE 202,
                                  kind |-> ReportKind]]
  /\ pc' = [pc EXCEPT ![r] = "store"]
  /\ UNCHANGED <<dbVars, claimedBy, run, finVars>>

StoreResponse(r) ==
  /\ pc[r] = "store"
  /\ stored' = resp[r]
  /\ Answer(r, resp[r])
  /\ UNCHANGED <<status, attached, evidence, jobs, prelim, final, claimedBy,
                 run, finVars>>

\* failScan without its status filter.
FailedStatusUnguarded == "failed"

\* failScan: status=in.(accepted,queued,processing,partially_completed).
FailedStatus == IF status \in Open THEN "failed" ELSE status

\* Any call of the claimed request throws; failScan itself may fail (its error
\* is swallowed).  The client gets a 5xx.
OrchestratorFails(r) ==
  /\ Owner(r)
  /\ \/ status' = FailedStatus
     \/ r \in Crashable /\ status' = status
  /\ Answer(r, [NoResponse EXCEPT !.code = 500])
  /\ UNCHANGED <<attached, evidence, jobs, prelim, final, stored, claimedBy,
                 run, finVars>>

\* The process of the request dies, or a call before the claim fails.
RequestDies(r) ==
  /\ r \in Crashable
  /\ pc[r] \notin {"new", "replied", "crashed"}
  /\ pc' = [pc EXCEPT ![r] = "crashed"]
  /\ UNCHANGED <<dbVars, resp, claimedBy, run, finVars>>

\* cancelScan (gateway_request_cancel): settled scans are left alone.
CancelScan ==
  /\ \/ status = "accepted" /\ status' = "cancelled"
     \/ /\ status \in {"processing", "partially_completed"}
        /\ status' \in {"cancel_requested", "cancelled"}
  /\ UNCHANGED <<attached, evidence, jobs, prelim, final, stored, reqVars, run,
                 finVars>>

-------------------------------------------------------------------------------
(* A media job: processQueue and handleMedia *)

ClaimJob(a) ==
  /\ Claimable(jobs[a], MaxAttempts)
  /\ jobs' = [jobs EXCEPT ![a] = Claim(@)]
  /\ run' = [run EXCEPT ![<<a, jobs[a].attempt + 1>>] = "claimed"]
  /\ UNCHANGED <<status, attached, evidence, prelim, final, stored, reqVars,
                 finVars>>

\* handleMedia analyses an image unless the scan is settled or the image already
\* has evidence; the report it decides on is read here and used later.
NeedsAnalysis(a) ==
  /\ status \notin Terminal
  /\ a \in ImageArts
  /\ ~Covered(evidence, a)

StartHandler(e) ==
  /\ run[e] = "claimed"
  /\ run' = [run EXCEPT ![e] =
               IF NeedsAnalysis(e[1]) THEN "analysing" ELSE "handled"]
  /\ UNCHANGED <<dbVars, reqVars, finVars>>

\* downloadObject, validateImageBytes, the model, recordEvidence: whatever the model
\* answered, failures included, becomes an evidence row.
AnalyseImage(e, o) ==
  /\ run[e] = "analysing"
  /\ evidence' = evidence \cup {[art |-> e[1], outcome |-> o]}
  /\ run' = [run EXCEPT ![e] = "handled"]
  /\ UNCHANGED <<status, attached, jobs, prelim, final, stored, reqVars,
                 finVars>>

\* completeJob succeeds and the worker goes on to finalize.
CompleteJob(e) ==
  /\ run[e] = "handled"
  /\ Holds(jobs[e[1]], e[2])
  /\ jobs' = [jobs EXCEPT ![e[1]] = Succeed(@)]
  /\ run' = [run EXCEPT ![e] = "done"]
  /\ fin' = [fin EXCEPT ![e] = "check"]
  /\ UNCHANGED <<status, attached, evidence, prelim, final, stored, reqVars,
                 snap>>

\* completeJob takes effect but the worker never hears of it: no finalize.
CompleteJobUnheard(e) ==
  /\ run[e] = "handled"
  /\ Holds(jobs[e[1]], e[2])
  /\ jobs' = [jobs EXCEPT ![e[1]] = Succeed(@)]
  /\ run' = [run EXCEPT ![e] = "done"]
  /\ UNCHANGED <<status, attached, evidence, prelim, final, stored, reqVars,
                 finVars>>

\* The handler throws, the heartbeat reported the lease lost, or completeJob
\* refused a stale token: failJob.
FailExecution(e) ==
  /\ run[e] \in {"claimed", "analysing", "handled"}
  /\ jobs' = [jobs EXCEPT ![e[1]] = FailHeld(@, e[2], MaxAttempts)]
  /\ run' = [run EXCEPT ![e] = "done"]
  /\ UNCHANGED <<status, attached, evidence, prelim, final, stored, reqVars,
                 finVars>>

\* The worker dies, or failJob fails: the lease has to run out.
ExecutionDies(e) ==
  /\ run[e] \in {"claimed", "analysing", "handled"}
  /\ run' = [run EXCEPT ![e] = "done"]
  /\ UNCHANGED <<dbVars, reqVars, finVars>>

LeaseExpires(a) ==
  /\ jobs[a].status = "leased"
  /\ ~jobs[a].expired
  /\ jobs' = [jobs EXCEPT ![a] = Expire(@)]
  /\ UNCHANGED <<status, attached, evidence, prelim, final, stored, reqVars,
                 run, finVars>>

DeadLetter(a) ==
  /\ Exhausted(jobs[a], MaxAttempts)
  /\ jobs' = [jobs EXCEPT ![a] = Fail(@, MaxAttempts)]
  /\ UNCHANGED <<status, attached, evidence, prelim, final, stored, reqVars,
                 run, finVars>>

-------------------------------------------------------------------------------
(* finalizeMediaScan, after a job or from reconcileMediaFinalizations *)

\* A reconciliation that skips scans with a dead-lettered job.
ReconcileListSucceeded(x) ==
  /\ fin[x] = "idle"
  /\ status = "partially_completed"
  /\ final = NoDecision
  /\ \A a \in Media : jobs[a].status = "succeeded"
  /\ fin' = [fin EXCEPT ![x] = "check"]
  /\ UNCHANGED <<dbVars, reqVars, run, snap>>

\* mediaScansAwaitingFinalization: status=eq.partially_completed and
\* final_decision_id=is.null
ReconcileList(x) ==
  /\ fin[x] = "idle"
  /\ status = "partially_completed"
  /\ final = NoDecision
  /\ fin' = [fin EXCEPT ![x] = "check"]
  /\ UNCHANGED <<dbVars, reqVars, run, snap>>

FinalizeCheck(x) ==
  /\ fin[x] = "check"
  /\ fin' = [fin EXCEPT ![x] =
               IF \E a \in Media : Actionable(jobs[a]) THEN "idle" ELSE "read"]
  /\ UNCHANGED <<dbVars, reqVars, run, snap>>

FinalizeRead(x) ==
  /\ fin[x] = "read"
  /\ IF status \in Terminal
       THEN fin' = [fin EXCEPT ![x] = "idle"] /\ UNCHANGED snap
       ELSE /\ fin' = [fin EXCEPT ![x] = "publish"]
            /\ snap' = [snap EXCEPT ![x] = evidence]
  /\ UNCHANGED <<dbVars, reqVars, run>>

FinalizePublish(x) ==
  /\ fin[x] = "publish"
  /\ LET rec == IF OtherMedia # {} THEN "hold" ELSE Recommend(snap[x])
         by == IF x \in Reconcilers THEN "reconciler" ELSE "worker"
     IN Publish("final", [ev |-> snap[x], rec |-> rec, by |-> by])
  /\ fin' = [fin EXCEPT ![x] = "idle"]
  /\ snap' = [snap EXCEPT ![x] = {}]
  /\ UNCHANGED <<attached, evidence, jobs, stored, reqVars, run>>

\* Any of its calls throws: logged, left to a later reconciliation.
FinalizeFails(x) ==
  /\ fin[x] # "idle"
  /\ fin' = [fin EXCEPT ![x] = "idle"]
  /\ snap' = [snap EXCEPT ![x] = {}]
  /\ UNCHANGED <<dbVars, reqVars, run>>

-------------------------------------------------------------------------------
Init ==
  /\ status = "none"
  /\ attached = {}
  /\ evidence = {}
  /\ jobs = [a \in Media |-> NoJob]
  /\ prelim = NoDecision
  /\ final = NoDecision
  /\ stored = NoResponse
  /\ pc = [r \in Requests |-> "new"]
  /\ resp = [r \in Requests |-> NoResponse]
  /\ claimedBy = {}
  /\ run = [e \in Executions |-> "idle"]
  /\ fin = [x \in Finalizers |-> "idle"]
  /\ snap = [x \in Finalizers |-> {}]

RequestStep(r) ==
  \/ CheckUploads(r) \/ Submit(r) \/ ClaimScan(r) \/ AnswerCurrent(r)
  \/ \E a \in Media : AttachUpload(r, a) \/ EnqueueMedia(r, a)
  \/ \E a \in FastArts, o \in Outcomes : RecordFast(r, a, o)
  \/ Correlate(r) \/ PublishDecision(r) \/ BuildReport(r) \/ StoreResponse(r)

RequestFault(r) == OrchestratorFails(r) \/ RequestDies(r)

QueueStep(a) == ClaimJob(a) \/ LeaseExpires(a) \/ DeadLetter(a)

ExecutionStep(e) ==
  \/ StartHandler(e)
  \/ \E o \in Outcomes : AnalyseImage(e, o)
  \/ CompleteJob(e)

ExecutionFault(e) ==
  CompleteJobUnheard(e) \/ FailExecution(e) \/ ExecutionDies(e)

FinalizeStep(x) == FinalizeCheck(x) \/ FinalizeRead(x) \/ FinalizePublish(x)

Next ==
  \/ \E r \in Requests : RequestStep(r) \/ RequestFault(r)
  \/ CancelScan
  \/ \E a \in Media : QueueStep(a)
  \/ \E e \in Executions : ExecutionStep(e) \/ ExecutionFault(e)
  \/ \E x \in Reconcilers : ReconcileList(x)
  \/ \E x \in Finalizers : FinalizeStep(x) \/ FinalizeFails(x)

Spec == Init /\ [][Next]_vars

\* A request that is not cut off runs on; workers keep polling the queue and the
\* database keeps expiring leases; the reconciler comes back every 15 seconds
\* and its calls do not fail every time.
Fairness ==
  /\ \A r \in Requests : WF_vars(RequestStep(r))
  /\ \A a \in Media : WF_vars(QueueStep(a))
  /\ \A e \in Executions : WF_vars(ExecutionStep(e) \/ ExecutionFault(e))
  /\ \A x \in Reconcilers :
       /\ WF_vars(ReconcileList(x))
       /\ SF_vars(FinalizeCheck(x))
       /\ SF_vars(FinalizeRead(x))
       /\ SF_vars(FinalizePublish(x))

FairSpec == Spec /\ Fairness

-------------------------------------------------------------------------------
(* Properties *)

\* Every variable has its type.
TypeOK ==
  /\ status \in Statuses
  /\ attached \subseteq Media
  /\ evidence \subseteq Rows
  /\ jobs \in [Media -> Job(MaxAttempts)]
  /\ prelim \in Decisions
  /\ final \in Decisions
  /\ stored \in Responses
  /\ pc \in [Requests -> {"new", "checked", "submitted", "claimed", "enqueue",
                          "report", "store", "replied", "crashed"}]
  /\ resp \in [Requests -> Responses]
  /\ claimedBy \subseteq Requests
  /\ run \in [Executions -> {"idle", "claimed", "analysing", "handled", "done"}]
  /\ fin \in [Finalizers -> {"idle", "check", "read", "publish"}]
  /\ snap \in [Finalizers -> SUBSET Rows]

\* However many retries race, crash or come late, at most one request ever runs
\* the analysis of a scan (claimScan).
OneOwner == \A r, s \in claimedBy : r = s

\* A 200 carries a final decision, whichever path produced it: the fast path, a
\* replay of the stored response, or a duplicate that found the scan completed
\* ('200: Fast-path final decision', openapi/veritrust-gateway-v1.yaml).
OkMeansFinal ==
  \A r \in Requests :
    pc[r] = "replied" /\ resp[r].code = 200 => resp[r].kind = "final"

\* Whoever publishes the final decision, and however early, it has taken every
\* text and URL artifact into account.
FinalCoversFast == final # NoDecision => FastRecorded(final.ev)

\* A final decision published by reconcileMediaFinalizations lacks the evidence
\* of an image only if that image's job was dead-lettered.  (One published right
\* after a job can also precede the other jobs: see MissingEvidenceNotBenign.)
ReconciledFinalCoversImages ==
  final.by = "reconciler" =>
    \A a \in ImageArts : Covered(final.ev, a) \/ jobs[a].status = "dead"

\* Both together: what a final decision may lack, whoever publishes it.
FinalCovers == FinalCoversFast /\ ReconciledFinalCoversImages

\* A settled scan stays as it settled: late failures, late jobs, late decisions
\* and late cancellations do not move it.
TerminalAbsorbing == [][(status \in Terminal) => (status' = status)]_vars

\* What a 200 promises: the decision it carries is final, and the scan it tells of
\* never leaves the status it settled in.
OkIsForGood == []OkMeansFinal /\ TerminalAbsorbing

\* Seen from outside, the requests, the worker and the reconciler together keep what
\* ScanPromise says: one analysis, one answer to each request, a status that settles
\* once, and a 200 only for a settled scan with its final decision (orchestrator.js,
\* worker/handlers/media.js).
Phase ==
  IF status = "none" THEN "absent" ELSE IF status \in Open THEN "open" ELSE status
Told == [r \in Requests |-> IF pc[r] = "replied" THEN resp[r] ELSE NoResponse]

Promise == INSTANCE ScanPromise WITH
  phase <- Phase, owner <- claimedBy, decided <- final # NoDecision, told <- Told

PromiseSpec == Promise!Spec

\* When no request is cut off, a submitted scan is settled in the end, whatever
\* happens to its workers (they retry, dead-letter and reconcile).
EventuallySettled == status \in Open ~> status \in Terminal

\* 'Missing, failed, unavailable, or uncertain evidence must not be converted
\* into a benign result' (README.md): a final allow has the evidence of every
\* artifact that has a model.
MissingEvidenceNotBenign ==
  final.rec = "allow" =>
    \A a \in FastArts \cup ImageArts : Covered(final.ev, a)
===============================================================================
