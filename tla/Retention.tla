------------------------------- MODULE Retention -------------------------------
(***************************************************************************)
(* The life of the files the gateway stores for a while: media a client    *)
(* uploads and attaches to a scan (lib/gateway/uploads.js, orchestrator.js) *)
(* and raw e-mail (lib/email/service.js).  Rows and objects live in two     *)
(* services and no call changes both, so a request may stop between any two *)
(* calls; the worker's cleanup of expired uploads, its retention jobs and   *)
(* their reconciliation (worker/index.js, worker/handlers/retention.js)     *)
(* must find whatever is left.                                              *)
(***************************************************************************)
EXTENDS JobLease

CONSTANTS
  Uploads,     \* media uploads; every scan submits all of them
  Scans,       \* gateway submissions (different Idempotency-Keys)
  Mails,       \* e-mail submissions with raw content
  Crashable,   \* the submissions whose process or connections may fail
  MaxAttempts  \* maxAttempts of a retention job (8 in the code)

ASSUME RetentionAssumption ==
  /\ Scans \cap Mails = {}
  /\ (Scans \X Uploads) \cap Mails = {}
  /\ MaxAttempts \in Nat \ {0}

Attachments == Scans \X Uploads  \* a media artifact of a scan
Artifacts == Attachments \cup Mails
Executions == Artifacts \X (1..MaxAttempts)

\* The submission an artifact belongs to.
RequestOf(a) == IF a \in Mails THEN a ELSE a[1]

VARIABLES
  upload,  \* gateway_uploads.status; "unsigned": pending, no signed URL was given out
  user,    \* the scan an upload was prepared for (scan_id and final_path of its row), if any
  lapsed,  \* the uploads whose 900 seconds are over
  sweep,   \* the prefixes that the running cleanup of an upload still has to delete
  staged,  \* the uploads with an object at their staging path
  kept,    \* the artifacts with an object at their storage path
  row,     \* gateway_artifacts: "bare" has no storage_path yet, "scrubbed" none any more
  due,     \* the artifacts whose retention_until has passed
  pc, at,  \* each submission, and the artifact it is working on: where they are
  jobs,    \* gateway_jobs rows of type retention
  run      \* each execution of a retention job: where it is

uploadVars == <<upload, user, lapsed, sweep>>
objectVars == <<staged, kept>>
requestVars == <<pc, at>>
workerVars == <<jobs, run>>
vars == <<uploadVars, objectVars, row, due, requestVars, workerVars>>

UploadStatuses ==
  {"none", "unsigned", "pending", "uploaded", "preparing", "attached",
   "claimed", "deleted"}
Prefixes == {"staging", "final"}

-------------------------------------------------------------------------------
(* A client's upload: registerUpload, the signed URL, completeUpload *)

Register(u) ==
  /\ upload[u] = "none"
  /\ upload' = [upload EXCEPT ![u] = "unsigned"]
  /\ UNCHANGED <<user, lapsed, sweep, objectVars, row, due, requestVars,
                 workerVars>>

SignUpload(u) ==
  /\ upload[u] = "unsigned"
  /\ upload' = [upload EXCEPT ![u] = "pending"]
  /\ UNCHANGED <<user, lapsed, sweep, objectVars, row, due, requestVars,
                 workerVars>>

\* createSignedUpload failed: the row, still pending, is marked deleted.
SignFails(u) ==
  /\ upload[u] = "unsigned"
  /\ upload' = [upload EXCEPT ![u] = "deleted"]
  /\ UNCHANGED <<user, lapsed, sweep, objectVars, row, due, requestVars,
                 workerVars>>

\* The client stores the file, no later than the expires_at it was given.
PutObject(u) ==
  /\ upload[u] = "pending"
  /\ u \notin lapsed
  /\ u \notin staged
  /\ staged' = staged \cup {u}
  /\ UNCHANGED <<uploadVars, kept, row, due, requestVars, workerVars>>

\* objectInfo finds the object and gateway_complete_upload still a pending row.
CompleteUpload(u) ==
  /\ upload[u] = "pending"
  /\ u \notin lapsed
  /\ u \in staged
  /\ upload' = [upload EXCEPT ![u] = "uploaded"]
  /\ UNCHANGED <<user, lapsed, sweep, objectVars, row, due, requestVars,
                 workerVars>>

\* target_ttl_seconds: 900
UploadLapses(u) ==
  /\ upload[u] \in {"unsigned", "pending", "uploaded", "preparing"}
  /\ u \notin lapsed
  /\ lapsed' = lapsed \cup {u}
  /\ UNCHANGED <<upload, user, sweep, objectVars, row, due, requestVars,
                 workerVars>>

-------------------------------------------------------------------------------
(* A gateway submission: the storage part of orchestrateSubmission *)

Idle(s) == \A u \in Uploads : at[<<s, u>>] \in {"todo", "queued"}

\* uploadsForSubmission: status=eq.uploaded, whether or not the time is over.
CheckUploads(s) ==
  /\ pc[s] = "new"
  /\ pc' = [pc EXCEPT ![s] =
              IF \A u \in Uploads : upload[u] = "uploaded" THEN "checked"
              ELSE "over"]
  /\ UNCHANGED <<uploadVars, objectVars, row, due, at, workerVars>>

\* createArtifacts: the rows name their storage path and deadline from the start.
CreateMediaArtifacts(s) ==
  /\ pc[s] = "checked"
  /\ row' = [a \in Artifacts |->
               IF a \in Attachments /\ RequestOf(a) = s THEN "stored" ELSE row[a]]
  /\ pc' = [pc EXCEPT ![s] = "storing"]
  /\ UNCHANGED <<uploadVars, objectVars, due, at, workerVars>>

\* prepareUploadAttachment: only an uploaded row can be prepared.
PrepareAttachment(s, u) ==
  /\ pc[s] = "storing"
  /\ Idle(s)
  /\ at[<<s, u>>] = "todo"
  /\ upload[u] = "uploaded"
  /\ upload' = [upload EXCEPT ![u] = "preparing"]
  /\ user' = [user EXCEPT ![u] = {s}]
  /\ at' = [at EXCEPT ![<<s, u>>] = "prepared"]
  /\ UNCHANGED <<lapsed, sweep, objectVars, row, due, pc, workerVars>>

\* moveObject
MoveObject(s, u) ==
  /\ pc[s] = "storing"
  /\ at[<<s, u>>] = "prepared"
  /\ u \in staged
  /\ staged' = staged \ {u}
  /\ kept' = kept \cup {<<s, u>>}
  /\ at' = [at EXCEPT ![<<s, u>>] = "moved"]
  /\ UNCHANGED <<uploadVars, row, due, pc, workerVars>>

\* attachUpload without looking at its result.
AttachAnyway(s, u) ==
  /\ pc[s] = "storing"
  /\ at[<<s, u>>] = "moved"
  /\ upload' = [upload EXCEPT ![u] =
                  IF @ = "preparing" /\ user[u] = {s} THEN "attached" ELSE @]
  /\ at' = [at EXCEPT ![<<s, u>>] = "recorded"]
  /\ UNCHANGED <<user, lapsed, sweep, objectVars, row, due, pc, workerVars>>

\* attachUpload: the row must still be prepared for this scan.
AttachUpload(s, u) ==
  /\ pc[s] = "storing"
  /\ at[<<s, u>>] = "moved"
  /\ upload[u] = "preparing"
  /\ user[u] = {s}
  /\ upload' = [upload EXCEPT ![u] = "attached"]
  /\ at' = [at EXCEPT ![<<s, u>>] = "recorded"]
  /\ UNCHANGED <<user, lapsed, sweep, objectVars, row, due, pc, workerVars>>

\* UPLOAD_STATE_CONFLICT from preparing or attaching, or nothing to move: the scan
\* fails.  Nothing that was done is undone.
StorageConflict(s, u) ==
  /\ pc[s] = "storing"
  /\ \/ at[<<s, u>>] = "todo" /\ Idle(s) /\ upload[u] # "uploaded"
     \/ at[<<s, u>>] = "prepared" /\ u \notin staged
     \/ /\ at[<<s, u>>] = "moved"
        /\ ~(upload[u] = "preparing" /\ user[u] = {s})
  /\ pc' = [pc EXCEPT ![s] = "over"]
  /\ UNCHANGED <<uploadVars, objectVars, row, due, at, workerVars>>

-------------------------------------------------------------------------------
(* An e-mail submission: the storage part of analyzeEmail *)

\* createArtifacts: the row has a deadline, but no storage path yet.
CreateMailArtifact(m) ==
  /\ pc[m] = "new"
  /\ row' = [row EXCEPT ![m] = "bare"]
  /\ pc' = [pc EXCEPT ![m] = "storing"]
  /\ UNCHANGED <<uploadVars, objectVars, due, at, workerVars>>

\* uploadObject
UploadRaw(m) ==
  /\ pc[m] = "storing"
  /\ at[m] = "todo"
  /\ kept' = kept \cup {m}
  /\ at' = [at EXCEPT ![m] = "moved"]
  /\ UNCHANGED <<uploadVars, staged, row, due, pc, workerVars>>

\* updateEmailArtifactStorage
RecordStorage(m) ==
  /\ pc[m] = "storing"
  /\ at[m] = "moved"
  /\ row' = [row EXCEPT ![m] = "stored"]
  /\ at' = [at EXCEPT ![m] = "recorded"]
  /\ UNCHANGED <<uploadVars, objectVars, due, pc, workerVars>>

-------------------------------------------------------------------------------
(* Both: the retention job, and the end of the request *)

EnqueueRetention(a) ==
  /\ pc[RequestOf(a)] = "storing"
  /\ at[a] = "recorded"
  /\ jobs' = [jobs EXCEPT ![a] = Enqueue(@)]
  /\ at' = [at EXCEPT ![a] = "queued"]
  /\ UNCHANGED <<uploadVars, objectVars, row, due, pc, run>>

\* What follows in the request does not touch the stored files.
RequestDone(q) ==
  /\ pc[q] = "storing"
  /\ \A a \in Artifacts : RequestOf(a) = q => at[a] = "queued"
  /\ pc' = [pc EXCEPT ![q] = "over"]
  /\ UNCHANGED <<uploadVars, objectVars, row, due, at, workerVars>>

\* A call fails (the catch clause fails the scan) or the process stops.
RequestCutOff(q) ==
  /\ q \in Crashable
  /\ pc[q] \notin {"new", "over"}
  /\ pc' = [pc EXCEPT ![q] = "over"]
  /\ UNCHANGED <<uploadVars, objectVars, row, due, at, workerVars>>

\* retention_until is at least an hour away, a request lasts a minute at most.
DeadlinePasses(a) ==
  /\ pc[RequestOf(a)] = "over"
  /\ row[a] \in {"bare", "stored"}
  /\ a \notin due
  /\ due' = due \cup {a}
  /\ UNCHANGED <<uploadVars, objectVars, row, requestVars, workerVars>>

-------------------------------------------------------------------------------
(* cleanupExpiredUploads *)

\* claimExpiredUploads: whatever has not been attached in time.
ClaimExpired(u) ==
  /\ u \in lapsed
  /\ upload[u] \in {"unsigned", "pending", "uploaded", "preparing"}
  /\ upload' = [upload EXCEPT ![u] = "claimed"]
  /\ sweep' = [sweep EXCEPT ![u] = Prefixes]
  /\ UNCHANGED <<user, lapsed, objectVars, row, due, requestVars, workerVars>>

\* deleteObjects([staging_path, final_path]): one call, but the objects go one by one.
SweepPrefix(u, p) ==
  /\ upload[u] = "claimed"
  /\ p \in sweep[u]
  /\ sweep' = [sweep EXCEPT ![u] = @ \ {p}]
  /\ IF p = "staging" THEN staged' = staged \ {u} /\ UNCHANGED kept
     ELSE kept' = kept \ (user[u] \X {u}) /\ UNCHANGED staged
  /\ UNCHANGED <<upload, user, lapsed, row, due, requestVars, workerVars>>

\* A mark that does not wait for the deletion.
MarkAnyway(u) ==
  /\ upload[u] = "claimed"
  /\ upload' = [upload EXCEPT ![u] = "deleted"]
  /\ UNCHANGED <<user, lapsed, sweep, objectVars, row, due, requestVars,
                 workerVars>>

\* markUploadDeleted
MarkUploadDeleted(u) ==
  /\ upload[u] = "claimed"
  /\ sweep[u] = {}
  /\ upload' = [upload EXCEPT ![u] = "deleted"]
  /\ UNCHANGED <<user, lapsed, sweep, objectVars, row, due, requestVars,
                 workerVars>>

\* A failed cleanup is logged; the row can be claimed again and all is repeated.
CleanupFails(u) ==
  /\ upload[u] = "claimed"
  /\ sweep' = [sweep EXCEPT ![u] = Prefixes]
  /\ UNCHANGED <<upload, user, lapsed, objectVars, row, due, requestVars,
                 workerVars>>

-------------------------------------------------------------------------------
(* A retention job: processQueue and handleRetention *)

\* available_at is retention_until by the database's clock, which may be ahead of
\* the worker's: a first attempt can come early.
ClaimJob(a) ==
  /\ pc[RequestOf(a)] = "over"
  /\ a \in due \/ jobs[a].attempt = 0
  /\ Claimable(jobs[a], MaxAttempts)
  /\ jobs' = [jobs EXCEPT ![a] = Claim(@)]
  /\ run' = [run EXCEPT ![<<a, jobs[a].attempt + 1>>] = "claimed"]
  /\ UNCHANGED <<uploadVars, objectVars, row, due, requestVars>>

\* loadArtifact: a deleted artifact needs nothing, one that is due is erased.
CheckDue(e) ==
  /\ run[e] = "claimed"
  /\ row[e[1]] = "scrubbed" \/ e[1] \in due
  /\ run' = [run EXCEPT ![e] =
               IF row[e[1]] = "scrubbed" THEN "handled" ELSE "erasing"]
  /\ UNCHANGED <<uploadVars, objectVars, row, due, requestVars, jobs>>

\* RETENTION_NOT_DUE: try again when it is.
NotDue(e) ==
  /\ run[e] = "claimed"
  /\ row[e[1]] # "scrubbed"
  /\ e[1] \notin due
  /\ jobs' = [jobs EXCEPT ![e[1]] = FailHeld(@, e[2], MaxAttempts)]
  /\ run' = [run EXCEPT ![e] = "done"]
  /\ UNCHANGED <<uploadVars, objectVars, row, due, requestVars>>

\* deleteObject
EraseObject(e) ==
  /\ run[e] = "erasing"
  /\ kept' = kept \ {e[1]}
  /\ run' = [run EXCEPT ![e] = "erased"]
  /\ UNCHANGED <<uploadVars, staged, row, due, requestVars, jobs>>

\* The receipt before the deletion.
ReceiptFirst(e) ==
  /\ run[e] \in {"erasing", "erased"}
  /\ row' = [row EXCEPT ![e[1]] = "scrubbed"]
  /\ run' = [run EXCEPT ![e] = IF @ = "erasing" THEN "erasing" ELSE "handled"]
  /\ UNCHANGED <<uploadVars, objectVars, due, requestVars, jobs>>

\* recordRetentionReceipt
RecordReceipt(e) ==
  /\ run[e] = "erased"
  /\ row' = [row EXCEPT ![e[1]] = "scrubbed"]
  /\ run' = [run EXCEPT ![e] = "handled"]
  /\ UNCHANGED <<uploadVars, objectVars, due, requestVars, jobs>>

CompleteJob(e) ==
  /\ run[e] = "handled"
  /\ Holds(jobs[e[1]], e[2])
  /\ jobs' = [jobs EXCEPT ![e[1]] = Succeed(@)]
  /\ run' = [run EXCEPT ![e] = "done"]
  /\ UNCHANGED <<uploadVars, objectVars, row, due, requestVars>>

\* A call of the handler throws, or the lease was lost: failJob.
FailExecution(e) ==
  /\ run[e] \in {"claimed", "erasing", "erased", "handled"}
  /\ jobs' = [jobs EXCEPT ![e[1]] = FailHeld(@, e[2], MaxAttempts)]
  /\ run' = [run EXCEPT ![e] = "done"]
  /\ UNCHANGED <<uploadVars, objectVars, row, due, requestVars>>

\* The worker dies, or failJob fails: the lease has to run out.
ExecutionDies(e) ==
  /\ run[e] \in {"claimed", "erasing", "erased", "handled"}
  /\ run' = [run EXCEPT ![e] = "done"]
  /\ UNCHANGED <<uploadVars, objectVars, row, due, requestVars, jobs>>

LeaseExpires(a) ==
  /\ jobs[a].status = "leased"
  /\ ~jobs[a].expired
  /\ jobs' = [jobs EXCEPT ![a] = Expire(@)]
  /\ UNCHANGED <<uploadVars, objectVars, row, due, requestVars, run>>

DeadLetter(a) ==
  /\ Exhausted(jobs[a], MaxAttempts)
  /\ jobs' = [jobs EXCEPT ![a] = Fail(@, MaxAttempts)]
  /\ UNCHANGED <<uploadVars, objectVars, row, due, requestVars, run>>

\* A reconciliation that only repeats what was tried before.
ReconcileFailed(a) ==
  /\ a \in due
  /\ row[a] = "stored"
  /\ jobs[a].status = "dead"
  /\ jobs' = [jobs EXCEPT ![a] = Enqueue(@)]
  /\ UNCHANGED <<uploadVars, objectVars, row, due, requestVars, run>>

\* reconcileRetentionJobs: retentionArtifactsAwaitingCleanup lists artifacts that are
\* due, not scrubbed and have a storage path; ensureRetentionJob.
ReconcileRetention(a) ==
  /\ a \in due
  /\ row[a] = "stored"
  /\ jobs[a].status = "absent"
  /\ jobs' = [jobs EXCEPT ![a] = Enqueue(@)]
  /\ UNCHANGED <<uploadVars, objectVars, row, due, requestVars, run>>

-------------------------------------------------------------------------------
Init ==
  /\ upload = [u \in Uploads |-> "none"]
  /\ user = [u \in Uploads |-> {}]
  /\ lapsed = {}
  /\ sweep = [u \in Uploads |-> {}]
  /\ staged = {}
  /\ kept = {}
  /\ row = [a \in Artifacts |-> "none"]
  /\ due = {}
  /\ pc = [q \in Scans \cup Mails |-> "new"]
  /\ at = [a \in Artifacts |-> "todo"]
  /\ jobs = [a \in Artifacts |-> NoJob]
  /\ run = [e \in Executions |-> "idle"]

ClientStep(u) ==
  \/ Register(u) \/ SignUpload(u) \/ SignFails(u)
  \/ PutObject(u) \/ CompleteUpload(u)

CleanupStep(u) ==
  \/ ClaimExpired(u)
  \/ \E p \in Prefixes : SweepPrefix(u, p)
  \/ MarkUploadDeleted(u)

ScanUploadStep(s, u) ==
  \/ PrepareAttachment(s, u) \/ MoveObject(s, u) \/ AttachUpload(s, u)
  \/ StorageConflict(s, u)

ScanStep(s) ==
  \/ CheckUploads(s) \/ CreateMediaArtifacts(s)
  \/ \E u \in Uploads : ScanUploadStep(s, u) \/ EnqueueRetention(<<s, u>>)
  \/ RequestDone(s)

MailStep(m) ==
  \/ CreateMailArtifact(m) \/ UploadRaw(m) \/ RecordStorage(m)
  \/ EnqueueRetention(m) \/ RequestDone(m)

QueueStep(a) == ClaimJob(a) \/ LeaseExpires(a) \/ DeadLetter(a)

ExecutionStep(e) ==
  \/ CheckDue(e) \/ NotDue(e) \/ EraseObject(e) \/ RecordReceipt(e)
  \/ CompleteJob(e)

ExecutionFault(e) == FailExecution(e) \/ ExecutionDies(e)

Next ==
  \/ \E u \in Uploads :
       ClientStep(u) \/ UploadLapses(u) \/ CleanupStep(u) \/ CleanupFails(u)
  \/ \E s \in Scans : ScanStep(s)
  \/ \E m \in Mails : MailStep(m)
  \/ \E q \in Scans \cup Mails : RequestCutOff(q)
  \/ \E a \in Artifacts :
       DeadlinePasses(a) \/ QueueStep(a) \/ ReconcileRetention(a)
  \/ \E e \in Executions : ExecutionStep(e) \/ ExecutionFault(e)

Spec == Init /\ [][Next]_vars

\* A submission that has begun runs on or is cut off; time passes; the worker polls
\* its queue and returns to its cleanups every minute, and their calls do not fail
\* every time.  Clients owe nothing.
Fairness ==
  /\ \A s \in Scans : WF_vars(ScanStep(s))
  /\ \A m \in Mails : WF_vars(MailStep(m))
  /\ \A u \in Uploads :
       /\ WF_vars(UploadLapses(u))
       /\ WF_vars(ClaimExpired(u))
       /\ \A p \in Prefixes : SF_vars(SweepPrefix(u, p))
       /\ SF_vars(MarkUploadDeleted(u))
  /\ \A a \in Artifacts :
       WF_vars(DeadlinePasses(a)) /\ WF_vars(QueueStep(a))
       /\ WF_vars(ReconcileRetention(a))
  /\ \A e \in Executions : WF_vars(ExecutionStep(e) \/ ExecutionFault(e))

FairSpec == Spec /\ Fairness

-------------------------------------------------------------------------------
(* Properties *)

\* Every variable has its type.
TypeOK ==
  /\ upload \in [Uploads -> UploadStatuses]
  /\ user \in [Uploads -> SUBSET Scans]
  /\ lapsed \subseteq Uploads
  /\ sweep \in [Uploads -> SUBSET Prefixes]
  /\ staged \subseteq Uploads
  /\ kept \subseteq Artifacts
  /\ row \in [Artifacts -> {"none", "bare", "stored", "scrubbed"}]
  /\ due \subseteq Artifacts
  /\ pc \in [Scans \cup Mails -> {"new", "checked", "storing", "over"}]
  /\ at \in [Artifacts -> {"todo", "prepared", "moved", "recorded", "queued"}]
  /\ jobs \in [Artifacts -> Job(MaxAttempts)]
  /\ run \in [Executions -> {"idle", "claimed", "erasing", "erased", "handled",
                             "done"}]

\* What a submission has attached (or stored, for e-mail) stays readable until its
\* deadline: neither the cleanup of expired uploads, nor another scan with the same
\* upload, nor an early or repeated retention job takes it away.
AvailableUntilDue ==
  \A a \in Artifacts :
    at[a] \in {"recorded", "queued"} /\ a \notin due => a \in kept

\* A receipt is only ever written for an object that is gone and stays gone, although
\* two executions may erase at once and an old move may come late
\* (storage_absent_after_delete, worker/handlers/retention.js).
ReceiptTruthful == \A a \in Artifacts : row[a] = "scrubbed" => a \notin kept

\* No file is forgotten, wherever a media submission was cut off: a staged object
\* has an upload row the cleanup will find or a scan is moving, and a stored one an
\* artifact row that names it and has not been scrubbed.
NothingForgotten ==
  /\ \A u \in staged : upload[u] \in {"pending", "uploaded", "preparing", "claimed"}
  /\ \A a \in kept :
       \/ row[a] = "stored"
       \/ a \in Mails /\ (pc[a] = "storing" \/ a \in Crashable)

\* Every file is erased in the end, unless all attempts of its retention job failed;
\* for e-mail, unless its submission was cut off.
EventuallyErased ==
  /\ \A u \in Uploads : u \in staged ~> u \notin staged
  /\ \A a \in Artifacts \ Crashable :
       a \in kept ~> (a \notin kept \/ jobs[a].status = "dead")

\* 'The application requests raw .eml retention of no more than 24 hours'
\* (phishing.html, privacy.html): once the submission is over, a stored e-mail has
\* a row that requests its removal.
RawMailRetentionRequested ==
  \A m \in Mails : m \in kept /\ pc[m] = "over" => row[m] = "stored"
===============================================================================
