----------------------------- MODULE PlatformJobs -----------------------------
(***************************************************************************)
(* The platform queue: lib/platform-worker.js.  A tick of a worker claims a *)
(* batch of platform_jobs and handles it one job after the other; only the  *)
(* job being handled has a heartbeat, so that the lease of a later one may  *)
(* run out before its turn.  Four kinds of job change state: the export of  *)
(* a person's data, the preparation of an erasure, the purge of a stored    *)
(* file, and an asynchronous scan.  Any call may take effect without its    *)
(* answer arriving, and a worker may die between two calls.                 *)
(***************************************************************************)
EXTENDS JobLease, FiniteSets

CONSTANTS
  PlatformJobIds,      \* rows of platform_jobs
  KindOf,              \* the job_type of a row
  PlatformWorkers,     \* worker processes
  MaxPlatformAttempts, \* max_attempts of the rows
  MaxPlatformFaults    \* bound: lost answers, dead workers, leases that run out

Kinds == {"export", "erase", "purge", "scan"}

ASSUME PlatformAssumption ==
  /\ KindOf \in [PlatformJobIds -> Kinds]
  /\ MaxPlatformAttempts \in Nat \ {0} /\ MaxPlatformFaults \in Nat

VARIABLES
  pjob,        \* the queue's row
  batch,       \* claimed by a worker and not begun, with the lease tokens
  prun,        \* the execution a worker is in
  request,     \* data_rights_requests.status of an export or erasure
  receipt,     \* result_sha256 of an export, as the attempt that wrote it
  stored,      \* the object: the attempt that uploaded it, 0 when absent
  fileRow,     \* the stored_files row of a purge is there
  held,        \* a legal hold on that file or its workspace is active
  scanRow,     \* scans.status
  overlapped,  \* history: jobs that two workers had at the same time
  pfaults      \* history: faults so far

rowVars == <<request, receipt, stored, fileRow, held, scanRow>>
queueVars == <<pjob, batch, overlapped>>
platformVars == <<queueVars, prun, rowVars, pfaults>>

Idle == [job |-> "none", token |-> 0, step |-> "idle"]
PlatformSteps ==
  {"start", "marked", "uploaded", "checked", "deleted", "read", "inferring", "failing",
   "handled", "throwing"}

Of(kind) == {j \in PlatformJobIds : KindOf[j] = kind}
ScanSettled == {"completed", "failed", "cancelled"}

PlatformInit ==
  /\ \E wanted \in SUBSET PlatformJobIds :
       pjob = [j \in PlatformJobIds |-> IF j \in wanted THEN Enqueue(NoJob) ELSE NoJob]
  /\ batch = [w \in PlatformWorkers |-> {}]
  /\ prun = [w \in PlatformWorkers |-> Idle]
  /\ request = [j \in PlatformJobIds |-> "pending"]
  /\ receipt = [j \in PlatformJobIds |-> 0]
  /\ stored = [j \in PlatformJobIds |-> IF KindOf[j] = "purge" THEN MaxPlatformAttempts + 1 ELSE 0]
  /\ fileRow = [j \in PlatformJobIds |-> KindOf[j] = "purge"]
  /\ held = [j \in PlatformJobIds |-> FALSE]
  /\ scanRow = [j \in PlatformJobIds |-> "queued"]
  /\ overlapped = {} /\ pfaults = 0

-------------------------------------------------------------------------------
(* The queue *)

PlatformFault == pfaults < MaxPlatformFaults /\ pfaults' = pfaults + 1
NoPlatformFault == UNCHANGED pfaults
InPhase(w, kind, step) ==
  /\ prun[w].step = step
  /\ prun[w].job \in Of(kind)
GoesTo(w, step) == prun' = [prun EXCEPT ![w].step = step]
Set(row, w, value) == [row EXCEPT ![prun[w].job] = value]

\* A worker has the job: claimed in its batch, or being handled.
HasLease(w, j, token) ==
  <<j, token>> \in batch[w] \/ (prun[w].job = j /\ prun[w].token = token)
Has(w, j) == \E token \in 1..MaxPlatformAttempts : HasLease(w, j, token)

\* claimPlatformJobs at the start of processPlatformQueue.
ClaimBatch(w) ==
  /\ prun[w] = Idle /\ batch[w] = {}
  /\ \E jobs \in SUBSET {j \in PlatformJobIds : Claimable(pjob[j], MaxPlatformAttempts)} :
       /\ jobs # {}
       /\ pjob' = [j \in PlatformJobIds |-> IF j \in jobs THEN Claim(pjob[j]) ELSE pjob[j]]
       /\ batch' = [batch EXCEPT ![w] = {<<j, pjob[j].attempt + 1>> : j \in jobs}]
       /\ overlapped' = overlapped \cup {j \in jobs : \E o \in PlatformWorkers : Has(o, j)}
  /\ UNCHANGED <<prun, rowVars, pfaults>>

\* The next job of the batch, whether or not its lease still holds.
BeginJob(w) ==
  /\ prun[w] = Idle
  /\ \E claim \in batch[w] :
       /\ batch' = [batch EXCEPT ![w] = @ \ {claim}]
       /\ prun' = [prun EXCEPT ![w] = [job |-> claim[1], token |-> claim[2], step |-> "start"]]
  /\ UNCHANGED <<pjob, overlapped, rowVars, pfaults>>

\* The visibility timeout passes: nobody has the lease any more, or no heartbeat
\* of the one who has it reached the row.
LeaseRunsOut(j) ==
  /\ pjob[j].status = "leased" /\ ~pjob[j].expired
  /\ pjob' = [pjob EXCEPT ![j] = Expire(@)]
  /\ IF \E w \in PlatformWorkers : HasLease(w, j, pjob[j].attempt)
     THEN PlatformFault ELSE NoPlatformFault
  /\ UNCHANGED <<batch, overlapped, prun, rowVars>>

\* completePlatformJob, unless the heartbeat has seen the lease lost.  Its answer
\* is not looked at: without the lease it changes nothing.
CompletePlatformJob(w) ==
  LET j == prun[w].job IN
  /\ prun[w].step = "handled"
  /\ \/ /\ pjob' = IF Holds(pjob[j], prun[w].token) THEN [pjob EXCEPT ![j] = Succeed(@)] ELSE pjob
        /\ \/ prun' = [prun EXCEPT ![w] = Idle] /\ NoPlatformFault
           \/ GoesTo(w, "throwing") /\ PlatformFault
     \/ /\ GoesTo(w, "throwing") /\ UNCHANGED pjob
        /\ IF Holds(pjob[j], prun[w].token) THEN PlatformFault ELSE NoPlatformFault
  /\ UNCHANGED <<batch, overlapped, rowVars>>

\* The catch block: failPlatformJob, whose own failure is swallowed.
FailPlatformJob(w) ==
  LET j == prun[w].job IN
  /\ prun[w].step = "throwing"
  /\ \/ pjob' = [pjob EXCEPT ![j] = FailHeld(@, prun[w].token, MaxPlatformAttempts)] /\ NoPlatformFault
     \/ UNCHANGED pjob /\ PlatformFault
  /\ prun' = [prun EXCEPT ![w] = Idle]
  /\ UNCHANGED <<batch, overlapped, rowVars>>

\* The process ends; its leases run out by and by.
PlatformWorkerDies(w) ==
  /\ prun[w] # Idle \/ batch[w] # {}
  /\ PlatformFault
  /\ prun' = [prun EXCEPT ![w] = Idle]
  /\ batch' = [batch EXCEPT ![w] = {}]
  /\ UNCHANGED <<pjob, overlapped, rowVars>>

-------------------------------------------------------------------------------
(* buildPrivacyExport *)

\* An export that does not take the request out of 'completed' again.
MarkNothing(w) ==
  /\ InPhase(w, "export", "start")
  /\ GoesTo(w, "marked")
  /\ UNCHANGED <<queueVars, rowVars, pfaults>>

\* record_data_rights_result 'processing': also when it was completed before.
MarkExport(w) ==
  /\ InPhase(w, "export", "start")
  /\ \/ GoesTo(w, "marked") /\ request' = Set(request, w, "processing") /\ NoPlatformFault
     \/ GoesTo(w, "throwing") /\ request' = Set(request, w, "processing") /\ PlatformFault
     \/ GoesTo(w, "throwing") /\ UNCHANGED request /\ PlatformFault
  /\ UNCHANGED <<queueVars, receipt, stored, fileRow, held, scanRow>>

\* The rows are read page by page (a page that is no array, or too many rows, is an
\* error), and the document, which carries its own time, replaces the object at
\* the request's path.
UploadExport(w) ==
  /\ InPhase(w, "export", "marked")
  /\ \/ GoesTo(w, "uploaded") /\ stored' = Set(stored, w, prun[w].token) /\ NoPlatformFault
     \/ GoesTo(w, "throwing") /\ stored' = Set(stored, w, prun[w].token) /\ PlatformFault
     \/ GoesTo(w, "throwing") /\ UNCHANGED stored /\ NoPlatformFault
  /\ UNCHANGED <<queueVars, request, receipt, fileRow, held, scanRow>>

\* record_data_rights_result 'completed' with the digest of the buffer.
RecordExport(w) ==
  /\ InPhase(w, "export", "uploaded")
  /\ \/ /\ request' = Set(request, w, "completed")
        /\ receipt' = Set(receipt, w, prun[w].token)
        /\ \/ GoesTo(w, "handled") /\ NoPlatformFault
           \/ GoesTo(w, "throwing") /\ PlatformFault
     \/ GoesTo(w, "throwing") /\ PlatformFault /\ UNCHANGED <<request, receipt>>
  /\ UNCHANGED <<queueVars, stored, fileRow, held, scanRow>>

\* prepareErasureReview: nothing is erased, the request waits for a person.
PrepareErasure(w) ==
  /\ InPhase(w, "erase", "start")
  /\ \/ request' = Set(request, w, "awaiting_review") /\ GoesTo(w, "handled") /\ NoPlatformFault
     \/ request' \in {request, Set(request, w, "awaiting_review")}
        /\ GoesTo(w, "throwing") /\ PlatformFault
  /\ UNCHANGED <<queueVars, receipt, stored, fileRow, held, scanRow>>

-------------------------------------------------------------------------------
(* purgeStoredFile *)

\* The row is read, then the holds: a held file is retried an hour later.
CheckFile(w) ==
  LET j == prun[w].job IN
  /\ InPhase(w, "purge", "start")
  /\ \/ ~fileRow[j] /\ GoesTo(w, "handled") /\ NoPlatformFault
     \/ fileRow[j] /\ ~held[j] /\ GoesTo(w, "checked") /\ NoPlatformFault
     \/ fileRow[j] /\ held[j] /\ GoesTo(w, "throwing") /\ NoPlatformFault
     \/ GoesTo(w, "throwing") /\ PlatformFault
  /\ UNCHANGED <<queueVars, rowVars>>

\* deleteObject: an object that is gone already is no error.
DeleteFileObject(w) ==
  /\ InPhase(w, "purge", "checked")
  /\ \/ stored' = Set(stored, w, 0) /\ GoesTo(w, "deleted") /\ NoPlatformFault
     \/ stored' \in {stored, Set(stored, w, 0)} /\ GoesTo(w, "throwing") /\ PlatformFault
  /\ UNCHANGED <<queueVars, request, receipt, fileRow, held, scanRow>>

DeleteFileRow(w) ==
  /\ InPhase(w, "purge", "deleted")
  /\ \/ fileRow' = Set(fileRow, w, FALSE) /\ GoesTo(w, "handled") /\ NoPlatformFault
     \/ fileRow' \in {fileRow, Set(fileRow, w, FALSE)} /\ GoesTo(w, "throwing") /\ PlatformFault
  /\ UNCHANGED <<queueVars, request, receipt, stored, held, scanRow>>

\* An administrator places or lifts a hold.
ChangeHold(j) ==
  /\ j \in Of("purge")
  /\ held' = [held EXCEPT ![j] = ~held[j]]
  /\ UNCHANGED <<queueVars, prun, request, receipt, stored, fileRow, scanRow, pfaults>>

-------------------------------------------------------------------------------
(* runAsyncScan *)

\* A settled scan is left alone; the input is downloaded.
ReadScan(w) ==
  LET settled == scanRow[prun[w].job] \in ScanSettled IN
  /\ InPhase(w, "scan", "start")
  /\ \/ settled /\ GoesTo(w, "handled")
     \/ ~settled /\ GoesTo(w, "read")
     \/ GoesTo(w, "throwing")
  /\ UNCHANGED <<queueVars, rowVars, pfaults>>

\* mark_scan_processing_atomic is not in the try block.  Only an overlapping
\* execution can have settled the scan by now; the RPC decides what then happens.
MarkScanProcessing(w) ==
  /\ InPhase(w, "scan", "read")
  /\ \/ scanRow' = Set(scanRow, w, "processing") /\ GoesTo(w, "inferring") /\ NoPlatformFault
     \/ scanRow' \in {scanRow, Set(scanRow, w, "processing")} /\ GoesTo(w, "throwing") /\ PlatformFault
     \/ /\ scanRow[prun[w].job] \in ScanSettled /\ GoesTo(w, "throwing") /\ NoPlatformFault
        /\ UNCHANGED scanRow
  /\ UNCHANGED <<queueVars, request, receipt, stored, fileRow, held>>

\* The detection, then completeScanRecord.
InferAndComplete(w) ==
  /\ InPhase(w, "scan", "inferring")
  /\ \/ scanRow' = Set(scanRow, w, "completed") /\ GoesTo(w, "handled") /\ NoPlatformFault
     \/ scanRow' = Set(scanRow, w, "completed") /\ GoesTo(w, "failing") /\ PlatformFault
     \/ UNCHANGED scanRow /\ GoesTo(w, "failing") /\ NoPlatformFault
  /\ UNCHANGED <<queueVars, request, receipt, stored, fileRow, held>>

\* failScanRecord(...).catch(() => null), then the error again: the next attempt
\* finds the scan failed and calls it a duplicate.
FailScan(w) ==
  /\ InPhase(w, "scan", "failing")
  /\ \/ NoPlatformFault /\ scanRow' = Set(scanRow, w, "failed")
     \/ /\ scanRow[prun[w].job] = "completed" /\ NoPlatformFault
        /\ UNCHANGED scanRow
     \/ PlatformFault /\ UNCHANGED scanRow
  /\ GoesTo(w, "throwing")
  /\ UNCHANGED <<queueVars, request, receipt, stored, fileRow, held>>

-------------------------------------------------------------------------------
Handle(w) ==
  \/ MarkExport(w) \/ UploadExport(w) \/ RecordExport(w) \/ PrepareErasure(w)
  \/ CheckFile(w) \/ DeleteFileObject(w) \/ DeleteFileRow(w)
  \/ ReadScan(w) \/ MarkScanProcessing(w) \/ InferAndComplete(w) \/ FailScan(w)

Work(w) == ClaimBatch(w) \/ BeginJob(w) \/ Handle(w) \/ CompletePlatformJob(w) \/ FailPlatformJob(w)

PlatformNext ==
  \/ \E w \in PlatformWorkers : Work(w) \/ PlatformWorkerDies(w)
  \/ \E j \in PlatformJobIds : LeaseRunsOut(j) \/ ChangeHold(j)

PlatformSpec == PlatformInit /\ [][PlatformNext]_platformVars

-------------------------------------------------------------------------------
(* Properties *)

Tokens == 0..MaxPlatformAttempts + 1
PlatformTypeOK ==
  /\ pjob \in [PlatformJobIds -> Job(MaxPlatformAttempts)]
  /\ batch \in [PlatformWorkers -> SUBSET (PlatformJobIds \X (1..MaxPlatformAttempts))]
  /\ \A w \in PlatformWorkers :
       \/ prun[w] = Idle
       \/ prun[w] \in [job : PlatformJobIds, token : 1..MaxPlatformAttempts, step : PlatformSteps]
  /\ request \in [PlatformJobIds -> {"pending", "processing", "completed", "awaiting_review"}]
  /\ receipt \in [PlatformJobIds -> Tokens] /\ stored \in [PlatformJobIds -> Tokens]
  /\ fileRow \in [PlatformJobIds -> BOOLEAN] /\ held \in [PlatformJobIds -> BOOLEAN]
  /\ scanRow \in [PlatformJobIds -> ScanSettled \cup {"queued", "processing"}]
  /\ overlapped \subseteq PlatformJobIds
  /\ pfaults \in 0..MaxPlatformFaults

\* The digest a person is given for an export is that of the document they can
\* download, through lost answers, crashes and retries (platform-worker.js:93 takes
\* the request out of 'completed' before :123 replaces the object); only two
\* workers that have the job at the same time can break it.
ReceiptMatchesObject ==
  \A j \in Of("export") \ overlapped :
    request[j] = "completed" => stored[j] # 0 /\ receipt[j] = stored[j]

\* A job that succeeded did its work: the export is there, the erasure waits for its
\* review, object and row of the file are gone, the scan is settled
\* (platform-worker.js:192 keeps the error although the scan is already failed).
SucceededIsDone ==
  \A j \in PlatformJobIds \ overlapped : pjob[j].status = "succeeded" =>
    CASE KindOf[j] = "export" -> request[j] = "completed"
      [] KindOf[j] = "erase"  -> request[j] = "awaiting_review"
      [] KindOf[j] = "purge"  -> stored[j] = 0 /\ ~fileRow[j]
      [] KindOf[j] = "scan"   -> scanRow[j] \in ScanSettled

\* The row that names an object is deleted after it, in every interleaving: no
\* object is left that nothing points to (platform-worker.js:160-161).
NoOrphanObject == \A j \in Of("purge") : stored[j] # 0 => fileRow[j]

\* What rows, digests and job results say is true, in all three of these ways.
RowsTellTruth == ReceiptMatchesObject /\ SucceededIsDone /\ NoOrphanObject
===============================================================================
