---------------------------- MODULE RetentionProofs ----------------------------
(***************************************************************************)
(* Proofs about Retention: type correctness, that stored files stay         *)
(* readable until their deadline, that receipts are true, and that no file  *)
(* is forgotten.                                                            *)
(***************************************************************************)
EXTENDS Retention, TLAPS

-------------------------------------------------------------------------------
(* The shape of the artifacts *)

\* An attachment is a pair that belongs to its scan; a mail belongs to itself.
LEMMA ArtifactShape ==
  /\ \A s \in Scans, u \in Uploads :
       /\ <<s, u>> \in Artifacts
       /\ <<s, u>> \in Attachments
       /\ <<s, u>> \notin Mails
       /\ RequestOf(<<s, u>>) = s
  /\ \A m \in Mails : m \in Artifacts /\ RequestOf(m) = m /\ m \notin Attachments
  /\ \A a \in Artifacts : RequestOf(a) \in Scans \cup Mails
  /\ \A a \in Artifacts \ Mails :
       \E s \in Scans, u \in Uploads : a = <<s, u>>
  BY RetentionAssumption DEF Artifacts, Attachments, RequestOf

LEMMA ExecutionShape ==
  \A e \in Executions : e[1] \in Artifacts /\ e[2] \in 1..MaxAttempts
  BY DEF Executions

\* The operations of a job keep it a job.
LEMMA JobTyped ==
  ASSUME NEW job \in Job(MaxAttempts)
  PROVE /\ Enqueue(job) \in Job(MaxAttempts)
        /\ Claimable(job, MaxAttempts) =>
             Claim(job) \in Job(MaxAttempts) /\ job.attempt + 1 \in 1..MaxAttempts
        /\ Succeed(job) \in Job(MaxAttempts)
        /\ Fail(job, MaxAttempts) \in Job(MaxAttempts)
        /\ \A n : FailHeld(job, n, MaxAttempts) \in Job(MaxAttempts)
        /\ Expire(job) \in Job(MaxAttempts)
<1> USE RetentionAssumption DEF Job, JobStatuses
<1>1. Enqueue(job) \in Job(MaxAttempts)
  BY DEF Enqueue
<1>2. Claimable(job, MaxAttempts) =>
        Claim(job) \in Job(MaxAttempts) /\ job.attempt + 1 \in 1..MaxAttempts
  BY DEF Claim, Claimable
<1>3. Succeed(job) \in Job(MaxAttempts) /\ Expire(job) \in Job(MaxAttempts)
  BY DEF Succeed, Expire
<1>4. Fail(job, MaxAttempts) \in Job(MaxAttempts)
  BY DEF Fail
<1>5. \A n : FailHeld(job, n, MaxAttempts) \in Job(MaxAttempts)
  BY <1>4 DEF FailHeld
<1> QED
  BY <1>1, <1>2, <1>3, <1>4, <1>5

\* What the queue and the reconciliation leave alone.
LEMMA QueueFrame ==
  ASSUME NEW a \in Artifacts, QueueStep(a) \/ ReconcileRetention(a)
  PROVE UNCHANGED <<uploadVars, objectVars, row, due, requestVars>>
  BY DEF QueueStep, ReconcileRetention, ClaimJob, LeaseExpires, DeadLetter

\* What the executions of retention jobs leave alone.
LEMMA ExecutionFrame ==
  ASSUME NEW e \in Executions, ExecutionStep(e) \/ ExecutionFault(e)
  PROVE UNCHANGED <<uploadVars, staged, due, requestVars>>
  BY DEF ExecutionStep, ExecutionFault, CheckDue, NotDue, EraseObject, RecordReceipt,
         CompleteJob, FailExecution, ExecutionDies, objectVars

-------------------------------------------------------------------------------
LEMMA InitTyped == Init => TypeOK
  BY RetentionAssumption, ArtifactShape
     DEF Init, TypeOK, UploadStatuses, Prefixes, NoJob, Job, JobStatuses

LEMMA NextTyped == TypeOK /\ [Next]_vars => TypeOK'
<1> SUFFICES ASSUME TypeOK, [Next]_vars PROVE TypeOK'
  OBVIOUS
<1> USE DEF TypeOK, UploadStatuses, Prefixes, uploadVars, objectVars, requestVars,
            workerVars
<1>1. ASSUME NEW u \in Uploads, ClientStep(u) \/ UploadLapses(u) PROVE TypeOK'
  BY <1>1 DEF ClientStep, Register, SignUpload, SignFails, PutObject,
              CompleteUpload, UploadLapses
<1>2. ASSUME NEW u \in Uploads, CleanupStep(u) \/ CleanupFails(u) PROVE TypeOK'
  <2>1. CASE ClaimExpired(u) \/ MarkUploadDeleted(u) \/ CleanupFails(u)
    BY <2>1 DEF ClaimExpired, MarkUploadDeleted, CleanupFails
  <2>2. ASSUME NEW p \in Prefixes, SweepPrefix(u, p) PROVE TypeOK'
    BY <2>2 DEF SweepPrefix
  <2> QED
    BY <1>2, <2>1, <2>2 DEF CleanupStep
<1>3. ASSUME NEW a \in Artifacts, EnqueueRetention(a) \/ DeadlinePasses(a)
      PROVE TypeOK'
  <2>1. jobs[a] \in Job(MaxAttempts)
    BY RetentionAssumption
  <2> QED
    BY <1>3, <2>1, JobTyped DEF EnqueueRetention, DeadlinePasses
<1>4. ASSUME NEW q \in Scans \cup Mails, RequestDone(q) \/ RequestCutOff(q)
      PROVE TypeOK'
  BY <1>4 DEF RequestDone, RequestCutOff
<1>5. ASSUME NEW s \in Scans, ScanStep(s) PROVE TypeOK'
  <2>1. CASE CheckUploads(s) \/ CreateMediaArtifacts(s)
    BY <2>1 DEF CheckUploads, CreateMediaArtifacts
  <2>2. ASSUME NEW u \in Uploads, ScanUploadStep(s, u) PROVE TypeOK'
    <3>1. <<s, u>> \in Artifacts
      BY ArtifactShape
    <3>2. CASE PrepareAttachment(s, u)
      BY <3>1, <3>2 DEF PrepareAttachment
    <3>3. CASE MoveObject(s, u)
      BY <3>1, <3>3 DEF MoveObject
    <3>4. CASE AttachUpload(s, u) \/ StorageConflict(s, u)
      BY <3>1, <3>4 DEF AttachUpload, StorageConflict
    <3> QED
      BY <2>2, <3>2, <3>3, <3>4 DEF ScanUploadStep
  <2> QED
    BY <1>3, <1>4, <1>5, <2>1, <2>2, ArtifactShape DEF ScanStep
<1>6. ASSUME NEW m \in Mails, MailStep(m) PROVE TypeOK'
  <2>1. CASE CreateMailArtifact(m) \/ UploadRaw(m) \/ RecordStorage(m)
    BY <2>1, ArtifactShape DEF CreateMailArtifact, UploadRaw, RecordStorage
  <2> QED
    BY <1>3, <1>4, <1>6, <2>1, ArtifactShape DEF MailStep
<1>7. ASSUME NEW a \in Artifacts, QueueStep(a) \/ ReconcileRetention(a) PROVE TypeOK'
  <2>1. jobs[a] \in Job(MaxAttempts)
    BY RetentionAssumption
  <2>2. CASE ClaimJob(a)
    BY <2>1, <2>2, JobTyped DEF ClaimJob
  <2>3. CASE LeaseExpires(a) \/ DeadLetter(a) \/ ReconcileRetention(a)
    BY <2>1, <2>3, JobTyped DEF LeaseExpires, DeadLetter, ReconcileRetention
  <2> QED
    BY <1>7, <2>2, <2>3 DEF QueueStep
<1>8. ASSUME NEW e \in Executions, ExecutionStep(e) \/ ExecutionFault(e)
      PROVE TypeOK'
  <2>1. e[1] \in Artifacts /\ e[2] \in 1..MaxAttempts
    BY ExecutionShape
  <2>2. jobs[e[1]] \in Job(MaxAttempts)
    BY <2>1
  <2>3. CASE CheckDue(e) \/ EraseObject(e) \/ RecordReceipt(e) \/ ExecutionDies(e)
    BY <2>3 DEF CheckDue, EraseObject, RecordReceipt, ExecutionDies
  <2>4. /\ FailHeld(jobs[e[1]], e[2], MaxAttempts) \in Job(MaxAttempts)
        /\ Succeed(jobs[e[1]]) \in Job(MaxAttempts)
    BY <2>2, JobTyped
  <2>5. CASE NotDue(e) \/ CompleteJob(e) \/ FailExecution(e)
    BY <2>1, <2>4, <2>5 DEF NotDue, CompleteJob, FailExecution
  <2> QED
    BY <1>8, <2>3, <2>5 DEF ExecutionStep, ExecutionFault
<1>9. CASE UNCHANGED vars
  BY <1>9 DEF vars
<1> QED
  BY <1>1, <1>2, <1>3, <1>4, <1>5, <1>6, <1>7, <1>8, <1>9 DEF Next

\* Every variable of Retention keeps its type.
THEOREM TypeCorrect == Spec => []TypeOK
  BY InitTyped, NextTyped, PTL DEF Spec

-------------------------------------------------------------------------------
(* The strengthening, in parts *)

\* What a scan has attached is out of the cleanup's reach, and what it is about to
\* attach is no longer staged and already at its storage path.
AttachInvAt(s, u) ==
  /\ at[<<s, u>>] \in {"recorded", "queued"}
       => upload[u] = "attached" /\ user[u] = {s}
  /\ at[<<s, u>>] = "moved" /\ upload[u] = "preparing" /\ user[u] = {s}
       => u \notin staged /\ (<<s, u>> \in kept \/ <<s, u>> \in due)

AttachInv == \A s \in Scans, u \in Uploads : AttachInvAt(s, u)

\* A staged object has a live upload row, also once the cleanup is past it.
StagedInv ==
  \A u \in Uploads :
    /\ u \in staged => upload[u] \in {"pending", "uploaded", "preparing", "claimed"}
    /\ upload[u] = "claimed" /\ "staging" \notin sweep[u] => u \notin staged

\* Nothing is erased or scrubbed before its deadline, and no deadline passes before
\* the submission is over.
DueInv ==
  /\ \A a \in due : pc[RequestOf(a)] = "over"
  /\ \A a \in Artifacts : row[a] = "scrubbed" => a \in due
  /\ \A e \in Executions : run[e] \in {"erasing", "erased"} => e[1] \in due

\* What an execution has erased stays erased.
ErasedInv ==
  /\ ReceiptTruthful
  /\ \A e \in Executions : run[e] = "erased" => e[1] \notin kept

\* From when on an artifact row names its storage path.
RowInv ==
  /\ \A a \in Attachments :
       /\ pc[RequestOf(a)] = "storing" => row[a] = "stored"
       /\ a \in kept => row[a] = "stored"
  /\ \A m \in Mails :
       /\ pc[m] = "new" => at[m] = "todo"
       /\ at[m] \in {"recorded", "queued"} => row[m] \in {"stored", "scrubbed"}
       /\ m \in kept /\ m \notin Crashable => row[m] = "stored" \/ pc[m] = "storing"

\* A file is there until its deadline; a raw e-mail already before its row says so.
AvailableInv ==
  /\ AvailableUntilDue
  /\ \A m \in Mails : at[m] = "moved" /\ m \notin due => m \in kept

-------------------------------------------------------------------------------
LEMMA StagedStep == TypeOK /\ AttachInv /\ StagedInv /\ [Next]_vars => StagedInv'
<1> SUFFICES ASSUME TypeOK, AttachInv, StagedInv, [Next]_vars PROVE StagedInv'
  OBVIOUS
<1> USE DEF TypeOK, StagedInv, uploadVars, objectVars, workerVars, requestVars
<1>1. ASSUME NEW u \in Uploads, ClientStep(u) \/ UploadLapses(u) PROVE StagedInv'
  BY <1>1 DEF ClientStep, Register, SignUpload, SignFails, PutObject,
              CompleteUpload, UploadLapses
<1>2. ASSUME NEW u \in Uploads, CleanupStep(u) \/ CleanupFails(u) PROVE StagedInv'
  <2>1. CASE ClaimExpired(u) \/ MarkUploadDeleted(u) \/ CleanupFails(u)
    BY <2>1 DEF ClaimExpired, MarkUploadDeleted, CleanupFails, Prefixes
  <2>2. ASSUME NEW p \in Prefixes, SweepPrefix(u, p) PROVE StagedInv'
    BY <2>2 DEF SweepPrefix, Prefixes
  <2> QED
    BY <1>2, <2>1, <2>2 DEF CleanupStep
<1>3. ASSUME NEW s \in Scans, ScanStep(s) PROVE StagedInv'
  <2>1. ASSUME NEW u \in Uploads, ScanUploadStep(s, u) PROVE StagedInv'
    <3>1. CASE PrepareAttachment(s, u) \/ MoveObject(s, u) \/ StorageConflict(s, u)
      BY <3>1 DEF PrepareAttachment, MoveObject, StorageConflict
    <3>2. CASE AttachUpload(s, u)
      BY <3>2 DEF AttachUpload, AttachInv, AttachInvAt
    <3> QED
      BY <2>1, <3>1, <3>2 DEF ScanUploadStep
  <2> QED
    BY <1>3, <2>1 DEF ScanStep, CheckUploads, CreateMediaArtifacts, EnqueueRetention,
                      RequestDone
<1>4. ASSUME NEW m \in Mails, MailStep(m) PROVE StagedInv'
  BY <1>4 DEF MailStep, CreateMailArtifact, UploadRaw, RecordStorage,
              EnqueueRetention, RequestDone
<1>5. ASSUME NEW q \in Scans \cup Mails, RequestCutOff(q) PROVE StagedInv'
  BY <1>5 DEF RequestCutOff
<1>6. ASSUME NEW a \in Artifacts,
             DeadlinePasses(a) \/ QueueStep(a) \/ ReconcileRetention(a)
      PROVE StagedInv'
  BY <1>6, QueueFrame DEF DeadlinePasses
<1>7. ASSUME NEW e \in Executions, ExecutionStep(e) \/ ExecutionFault(e)
      PROVE StagedInv'
  BY <1>7, ExecutionFrame
<1>8. CASE UNCHANGED vars
  BY <1>8 DEF vars
<1> QED
  BY <1>1, <1>2, <1>3, <1>4, <1>5, <1>6, <1>7, <1>8 DEF Next

LEMMA DueStep == TypeOK /\ DueInv /\ [Next]_vars => DueInv'
<1> SUFFICES ASSUME TypeOK, DueInv, [Next]_vars PROVE DueInv'
  OBVIOUS
<1>0. \A a \in Artifacts : RequestOf(a) \in Scans \cup Mails
  BY ArtifactShape
<1> USE DEF TypeOK, DueInv, uploadVars, objectVars, workerVars, requestVars
<1>1. ASSUME NEW u \in Uploads,
             ClientStep(u) \/ UploadLapses(u) \/ CleanupStep(u) \/ CleanupFails(u)
      PROVE DueInv'
  BY <1>1 DEF ClientStep, Register, SignUpload, SignFails, PutObject,
              CompleteUpload, UploadLapses, CleanupStep, ClaimExpired, SweepPrefix,
              MarkUploadDeleted, CleanupFails
<1>2. ASSUME NEW q \in Scans \cup Mails, RequestDone(q) \/ RequestCutOff(q)
      PROVE DueInv'
  BY <1>0, <1>2 DEF RequestDone, RequestCutOff
<1>3. ASSUME NEW a \in Artifacts, EnqueueRetention(a) \/ DeadlinePasses(a)
      PROVE DueInv'
  BY <1>3 DEF EnqueueRetention, DeadlinePasses
<1>4. ASSUME NEW s \in Scans, ScanStep(s) PROVE DueInv'
  <2>1. ASSUME NEW u \in Uploads, ScanUploadStep(s, u) PROVE DueInv'
    BY <1>0, <2>1 DEF ScanUploadStep, PrepareAttachment, MoveObject, AttachUpload,
                      StorageConflict
  <2>2. CASE CheckUploads(s) \/ CreateMediaArtifacts(s)
    BY <1>0, <2>2 DEF CheckUploads, CreateMediaArtifacts
  <2> QED
    BY <1>2, <1>3, <1>4, <2>1, <2>2, ArtifactShape DEF ScanStep
<1>5. ASSUME NEW m \in Mails, MailStep(m) PROVE DueInv'
  <2>1. CASE CreateMailArtifact(m) \/ UploadRaw(m) \/ RecordStorage(m)
    BY <2>1, ArtifactShape DEF CreateMailArtifact, UploadRaw, RecordStorage
  <2> QED
    BY <1>2, <1>3, <1>5, <2>1, ArtifactShape DEF MailStep
<1>6. ASSUME NEW a \in Artifacts, QueueStep(a) \/ ReconcileRetention(a) PROVE DueInv'
  BY <1>6 DEF QueueStep, ReconcileRetention, ClaimJob, LeaseExpires, DeadLetter
<1>7. ASSUME NEW e \in Executions, ExecutionStep(e) \/ ExecutionFault(e) PROVE DueInv'
  BY <1>7, ExecutionShape
     DEF ExecutionStep, ExecutionFault, CheckDue, NotDue, EraseObject, RecordReceipt,
         CompleteJob, FailExecution, ExecutionDies
<1>8. CASE UNCHANGED vars
  BY <1>8 DEF vars
<1> QED
  BY <1>1, <1>2, <1>3, <1>4, <1>5, <1>6, <1>7, <1>8 DEF Next

LEMMA ErasedStep ==
  TypeOK /\ DueInv /\ RowInv /\ ErasedInv /\ [Next]_vars => ErasedInv'
<1> SUFFICES ASSUME TypeOK, DueInv, RowInv, ErasedInv, [Next]_vars PROVE ErasedInv'
  OBVIOUS
<1> USE DEF TypeOK, ErasedInv, ReceiptTruthful, uploadVars, objectVars, workerVars,
            requestVars
<1>1. ASSUME NEW u \in Uploads,
             ClientStep(u) \/ UploadLapses(u) \/ CleanupStep(u) \/ CleanupFails(u)
      PROVE ErasedInv'
  BY <1>1 DEF ClientStep, Register, SignUpload, SignFails, PutObject,
              CompleteUpload, UploadLapses, CleanupStep, ClaimExpired, SweepPrefix,
              MarkUploadDeleted, CleanupFails
<1>2. ASSUME NEW q \in Scans \cup Mails, RequestDone(q) \/ RequestCutOff(q)
      PROVE ErasedInv'
  BY <1>2 DEF RequestDone, RequestCutOff
<1>3. ASSUME NEW a \in Artifacts, EnqueueRetention(a) \/ DeadlinePasses(a)
      PROVE ErasedInv'
  BY <1>3 DEF EnqueueRetention, DeadlinePasses
<1>4. ASSUME NEW s \in Scans, ScanStep(s) PROVE ErasedInv'
  <2>1. ASSUME NEW u \in Uploads, ScanUploadStep(s, u) PROVE ErasedInv'
    <3>1. CASE MoveObject(s, u)
      <4>1. <<s, u>> \in Artifacts /\ <<s, u>> \notin due
        BY <3>1, ArtifactShape DEF MoveObject, DueInv
      <4>2. kept' = kept \cup {<<s, u>>} /\ UNCHANGED <<row, run>>
        BY <3>1 DEF MoveObject
      <4> QED
        BY <4>1, <4>2 DEF DueInv
    <3>2. CASE PrepareAttachment(s, u) \/ AttachUpload(s, u) \/ StorageConflict(s, u)
      BY <3>2 DEF PrepareAttachment, AttachUpload, StorageConflict
    <3> QED
      BY <2>1, <3>1, <3>2 DEF ScanUploadStep
  <2>2. CASE CheckUploads(s) \/ CreateMediaArtifacts(s)
    BY <2>2 DEF CheckUploads, CreateMediaArtifacts
  <2> QED
    BY <1>2, <1>3, <1>4, <2>1, <2>2, ArtifactShape DEF ScanStep
<1>5. ASSUME NEW m \in Mails, MailStep(m) PROVE ErasedInv'
  <2>1. CASE UploadRaw(m)
    <3>1. m \in Artifacts /\ m \notin due
      BY <2>1, ArtifactShape DEF UploadRaw, DueInv
    <3>2. kept' = kept \cup {m} /\ UNCHANGED <<row, run>>
      BY <2>1 DEF UploadRaw
    <3> QED
      BY <3>1, <3>2 DEF DueInv
  <2>2. CASE CreateMailArtifact(m) \/ RecordStorage(m)
    BY <2>2 DEF CreateMailArtifact, RecordStorage
  <2> QED
    BY <1>2, <1>3, <1>5, <2>1, <2>2, ArtifactShape DEF MailStep
<1>6. ASSUME NEW a \in Artifacts, QueueStep(a) \/ ReconcileRetention(a)
      PROVE ErasedInv'
  BY <1>6 DEF QueueStep, ReconcileRetention, ClaimJob, LeaseExpires, DeadLetter
<1>7. ASSUME NEW e \in Executions, ExecutionStep(e) \/ ExecutionFault(e)
      PROVE ErasedInv'
  BY <1>7, ExecutionShape
     DEF ExecutionStep, ExecutionFault, CheckDue, NotDue, EraseObject, RecordReceipt,
         CompleteJob, FailExecution, ExecutionDies
<1>8. CASE UNCHANGED vars
  BY <1>8 DEF vars
<1> QED
  BY <1>1, <1>2, <1>3, <1>4, <1>5, <1>6, <1>7, <1>8 DEF Next

LEMMA AttachStep == TypeOK /\ DueInv /\ AttachInv /\ [Next]_vars => AttachInv'
<1> SUFFICES ASSUME TypeOK, DueInv, AttachInv, [Next]_vars,
                    NEW t \in Scans, NEW v \in Uploads
             PROVE AttachInvAt(t, v)'
  BY DEF AttachInv
<1>0. AttachInvAt(t, v) /\ <<t, v>> \in Artifacts /\ <<t, v>> \notin Mails
  BY ArtifactShape DEF AttachInv
<1> USE <1>0 DEF TypeOK, AttachInvAt, uploadVars, objectVars, workerVars, requestVars
<1>1. ASSUME NEW u \in Uploads, ClientStep(u) \/ UploadLapses(u) PROVE AttachInvAt(t, v)'
  BY <1>1 DEF ClientStep, Register, SignUpload, SignFails, PutObject,
              CompleteUpload, UploadLapses
<1>2. ASSUME NEW u \in Uploads, CleanupStep(u) \/ CleanupFails(u) PROVE AttachInvAt(t, v)'
  <2>1. CASE ClaimExpired(u) \/ MarkUploadDeleted(u) \/ CleanupFails(u)
    BY <2>1 DEF ClaimExpired, MarkUploadDeleted, CleanupFails
  <2>2. ASSUME NEW p \in Prefixes, SweepPrefix(u, p) PROVE AttachInvAt(t, v)'
    BY <2>2 DEF SweepPrefix
  <2> QED
    BY <1>2, <2>1, <2>2 DEF CleanupStep
<1>3. ASSUME NEW s \in Scans, ScanStep(s) PROVE AttachInvAt(t, v)'
  <2>1. ASSUME NEW u \in Uploads, ScanUploadStep(s, u) PROVE AttachInvAt(t, v)'
    <3>1. CASE PrepareAttachment(s, u)
      BY <3>1 DEF PrepareAttachment
    <3>2. CASE MoveObject(s, u)
      BY <3>2 DEF MoveObject
    <3>3. CASE AttachUpload(s, u)
      BY <3>3 DEF AttachUpload
    <3>4. CASE StorageConflict(s, u)
      BY <3>4 DEF StorageConflict
    <3> QED
      BY <2>1, <3>1, <3>2, <3>3, <3>4 DEF ScanUploadStep
  <2>2. ASSUME NEW u \in Uploads, EnqueueRetention(<<s, u>>) PROVE AttachInvAt(t, v)'
    BY <2>2 DEF EnqueueRetention
  <2>3. CASE CheckUploads(s) \/ CreateMediaArtifacts(s) \/ RequestDone(s)
    BY <2>3 DEF CheckUploads, CreateMediaArtifacts, RequestDone
  <2> QED
    BY <1>3, <2>1, <2>2, <2>3 DEF ScanStep
<1>4. ASSUME NEW m \in Mails, MailStep(m) PROVE AttachInvAt(t, v)'
  <2>1. m \in Artifacts /\ m # <<t, v>>
    BY ArtifactShape
  <2>2. at'[<<t, v>>] = at[<<t, v>>]
    BY <1>4, <2>1 DEF MailStep, CreateMailArtifact, UploadRaw, RecordStorage,
                      EnqueueRetention, RequestDone
  <2>3. UNCHANGED <<uploadVars, staged, due>> /\ kept \subseteq kept'
    BY <1>4 DEF MailStep, CreateMailArtifact, UploadRaw, RecordStorage,
                EnqueueRetention, RequestDone
  <2> QED
    BY <2>2, <2>3
<1>5. ASSUME NEW q \in Scans \cup Mails, RequestCutOff(q) PROVE AttachInvAt(t, v)'
  BY <1>5 DEF RequestCutOff
<1>6. ASSUME NEW a \in Artifacts,
             DeadlinePasses(a) \/ QueueStep(a) \/ ReconcileRetention(a)
      PROVE AttachInvAt(t, v)'
  BY <1>6, QueueFrame DEF DeadlinePasses
<1>7. ASSUME NEW e \in Executions, ExecutionStep(e) \/ ExecutionFault(e)
      PROVE AttachInvAt(t, v)'
  <2>1. \A a \in Artifacts \ due : a \in kept => a \in kept'
    BY <1>7 DEF ExecutionStep, ExecutionFault, CheckDue, NotDue, EraseObject,
                RecordReceipt, CompleteJob, FailExecution, ExecutionDies, DueInv
  <2> QED
    BY <1>7, <2>1, ExecutionFrame
<1>8. CASE UNCHANGED vars
  BY <1>8 DEF vars
<1> QED
  BY <1>1, <1>2, <1>3, <1>4, <1>5, <1>6, <1>7, <1>8 DEF Next

LEMMA RowStep == TypeOK /\ DueInv /\ ErasedInv /\ RowInv /\ [Next]_vars => RowInv'
<1> SUFFICES ASSUME TypeOK, DueInv, ErasedInv, RowInv, [Next]_vars PROVE RowInv'
  OBVIOUS
<1>0. /\ \A a \in Artifacts : RequestOf(a) \in Scans \cup Mails
      /\ \A m \in Mails : m \in Artifacts /\ m \notin Attachments /\ RequestOf(m) = m
      /\ \A a \in Attachments : a \in Artifacts /\ a \notin Mails /\ RequestOf(a) \in Scans
      /\ Scans \cap Mails = {}
  BY ArtifactShape, RetentionAssumption DEF Artifacts, Attachments, RequestOf
<1> USE <1>0 DEF TypeOK, RowInv, uploadVars, objectVars, workerVars, requestVars
<1>1. ASSUME NEW u \in Uploads,
             ClientStep(u) \/ UploadLapses(u) \/ CleanupStep(u) \/ CleanupFails(u)
      PROVE RowInv'
  BY <1>1 DEF ClientStep, Register, SignUpload, SignFails, PutObject,
              CompleteUpload, UploadLapses, CleanupStep, ClaimExpired, SweepPrefix,
              MarkUploadDeleted, CleanupFails
<1>2. ASSUME NEW q \in Scans \cup Mails, RequestDone(q) PROVE RowInv'
  <2>1. q \in Mails => at[q] = "queued"
    BY <1>2 DEF RequestDone
  <2>2. q \in Mails /\ q \in kept => row[q] = "stored"
    BY <2>1 DEF ErasedInv, ReceiptTruthful
  <2> QED
    BY <1>2, <2>2 DEF RequestDone
<1>3. ASSUME NEW q \in Scans \cup Mails, RequestCutOff(q) PROVE RowInv'
  BY <1>3 DEF RequestCutOff
<1>4. ASSUME NEW a \in Artifacts, EnqueueRetention(a) \/ DeadlinePasses(a)
      PROVE RowInv'
  BY <1>4 DEF EnqueueRetention, DeadlinePasses
<1>5. ASSUME NEW s \in Scans, ScanStep(s) PROVE RowInv'
  <2>1. ASSUME NEW u \in Uploads, ScanUploadStep(s, u) PROVE RowInv'
    <3>0. <<s, u>> \in Attachments /\ RequestOf(<<s, u>>) = s
      BY ArtifactShape
    <3> QED
      BY <2>1, <3>0 DEF ScanUploadStep, PrepareAttachment, MoveObject, AttachUpload,
                        StorageConflict
  <2>2. CASE CheckUploads(s)
    BY <2>2 DEF CheckUploads
  <2>3. CASE CreateMediaArtifacts(s)
    <3>1. \A a \in Attachments : row'[a] = IF RequestOf(a) = s THEN "stored" ELSE row[a]
      BY <2>3 DEF CreateMediaArtifacts
    <3>2. \A m \in Mails : row'[m] = row[m] /\ pc'[m] = pc[m]
      BY <2>3 DEF CreateMediaArtifacts
    <3>3. UNCHANGED <<kept, at>> /\ \A x \in Scans : x # s => pc'[x] = pc[x]
      BY <2>3 DEF CreateMediaArtifacts
    <3> QED
      BY <3>1, <3>2, <3>3
  <2> QED
    BY <1>2, <1>4, <1>5, <2>1, <2>2, <2>3, ArtifactShape DEF ScanStep
<1>6. ASSUME NEW m \in Mails, MailStep(m) PROVE RowInv'
  <2>1. CASE CreateMailArtifact(m)
    BY <2>1 DEF CreateMailArtifact
  <2>2. CASE UploadRaw(m)
    BY <2>2 DEF UploadRaw
  <2>3. CASE RecordStorage(m)
    BY <2>3 DEF RecordStorage
  <2> QED
    BY <1>2, <1>4, <1>6, <2>1, <2>2, <2>3 DEF MailStep
<1>7. ASSUME NEW a \in Artifacts, QueueStep(a) \/ ReconcileRetention(a) PROVE RowInv'
  BY <1>7, QueueFrame
<1>8. ASSUME NEW e \in Executions, ExecutionStep(e) \/ ExecutionFault(e) PROVE RowInv'
  <2>1. CASE RecordReceipt(e)
    <3>1. e[1] \in Artifacts /\ e[1] \notin kept /\ pc[RequestOf(e[1])] = "over"
      BY <2>1, ExecutionShape DEF RecordReceipt, DueInv, ErasedInv
    <3> QED
      BY <2>1, <3>1 DEF RecordReceipt
  <2>2. CASE CheckDue(e) \/ NotDue(e) \/ EraseObject(e) \/ CompleteJob(e)
             \/ ExecutionFault(e)
    BY <2>2 DEF CheckDue, NotDue, EraseObject, CompleteJob, ExecutionFault,
                FailExecution, ExecutionDies
  <2> QED
    BY <1>8, <2>1, <2>2 DEF ExecutionStep
<1>9. CASE UNCHANGED vars
  BY <1>9 DEF vars
<1> QED
  BY <1>1, <1>2, <1>3, <1>4, <1>5, <1>6, <1>7, <1>8, <1>9 DEF Next

LEMMA AvailableStep ==
  TypeOK /\ DueInv /\ AttachInv /\ AvailableInv /\ [Next]_vars => AvailableInv'
<1> DEFINE Good(a) ==
      /\ at[a] \in {"recorded", "queued"} /\ a \notin due => a \in kept
      /\ a \in Mails /\ at[a] = "moved" /\ a \notin due => a \in kept
<1> SUFFICES ASSUME TypeOK, DueInv, AttachInv, AvailableInv, [Next]_vars,
                    NEW b \in Artifacts
             PROVE Good(b)'
  BY ArtifactShape DEF AvailableInv, AvailableUntilDue
<1>0. Good(b)
  BY DEF AvailableInv, AvailableUntilDue
<1> USE <1>0 DEF TypeOK, uploadVars, objectVars, workerVars, requestVars
<1>1. ASSUME NEW u \in Uploads, ClientStep(u) \/ UploadLapses(u) PROVE Good(b)'
  BY <1>1 DEF ClientStep, Register, SignUpload, SignFails, PutObject,
              CompleteUpload, UploadLapses
<1>2. ASSUME NEW u \in Uploads, CleanupStep(u) \/ CleanupFails(u) PROVE Good(b)'
  <2>1. CASE ClaimExpired(u) \/ MarkUploadDeleted(u) \/ CleanupFails(u)
    BY <2>1 DEF ClaimExpired, MarkUploadDeleted, CleanupFails
  <2>2. ASSUME NEW p \in Prefixes, SweepPrefix(u, p) PROVE Good(b)'
    <3>1. CASE b \in Mails
      <4>1. b \notin user[u] \X {u}
        BY <3>1, RetentionAssumption
      <4> QED
        BY <2>2, <4>1 DEF SweepPrefix
    <3>2. CASE b \notin Mails
      <4>1. PICK s \in Scans, v \in Uploads : b = <<s, v>>
        BY <3>2, ArtifactShape
      <4>2. AttachInvAt(s, v)
        BY DEF AttachInv
      <4> QED
        BY <2>2, <3>2, <4>1, <4>2 DEF SweepPrefix, AttachInvAt
    <3> QED
      BY <3>1, <3>2
  <2> QED
    BY <1>2, <2>1, <2>2 DEF CleanupStep
<1>3. ASSUME NEW s \in Scans, ScanStep(s) PROVE Good(b)'
  <2>1. ASSUME NEW u \in Uploads, ScanUploadStep(s, u) PROVE Good(b)'
    <3>0. /\ <<s, u>> \in Artifacts /\ <<s, u>> \notin Mails /\ RequestOf(<<s, u>>) = s
          /\ AttachInvAt(s, u)
      BY ArtifactShape DEF AttachInv
    <3>1. CASE PrepareAttachment(s, u)
      BY <3>0, <3>1 DEF PrepareAttachment
    <3>2. CASE MoveObject(s, u)
      BY <3>0, <3>2 DEF MoveObject
    <3>3. CASE AttachUpload(s, u)
      <4>1. <<s, u>> \notin due
        BY <3>0, <3>3 DEF AttachUpload, DueInv
      <4> QED
        BY <3>0, <3>3, <4>1 DEF AttachUpload, AttachInvAt
    <3>4. CASE StorageConflict(s, u)
      BY <3>4 DEF StorageConflict
    <3> QED
      BY <2>1, <3>1, <3>2, <3>3, <3>4 DEF ScanUploadStep
  <2>2. ASSUME NEW u \in Uploads, EnqueueRetention(<<s, u>>) PROVE Good(b)'
    BY <2>2 DEF EnqueueRetention
  <2>3. CASE CheckUploads(s) \/ CreateMediaArtifacts(s) \/ RequestDone(s)
    BY <2>3 DEF CheckUploads, CreateMediaArtifacts, RequestDone
  <2> QED
    BY <1>3, <2>1, <2>2, <2>3 DEF ScanStep
<1>4. ASSUME NEW m \in Mails, MailStep(m) PROVE Good(b)'
  BY <1>4 DEF MailStep, CreateMailArtifact, UploadRaw, RecordStorage,
              EnqueueRetention, RequestDone
<1>5. ASSUME NEW q \in Scans \cup Mails, RequestCutOff(q) PROVE Good(b)'
  BY <1>5 DEF RequestCutOff
<1>6. ASSUME NEW a \in Artifacts,
             DeadlinePasses(a) \/ QueueStep(a) \/ ReconcileRetention(a)
      PROVE Good(b)'
  BY <1>6, QueueFrame DEF DeadlinePasses
<1>7. ASSUME NEW e \in Executions, ExecutionStep(e) \/ ExecutionFault(e)
      PROVE Good(b)'
  <2>1. b \notin due /\ b \in kept => b \in kept'
    BY <1>7 DEF ExecutionStep, ExecutionFault, CheckDue, NotDue, EraseObject,
                RecordReceipt, CompleteJob, FailExecution, ExecutionDies, DueInv
  <2> QED
    BY <1>7, <2>1, ExecutionFrame
<1>8. CASE UNCHANGED vars
  BY <1>8 DEF vars
<1> QED
  BY <1>1, <1>2, <1>3, <1>4, <1>5, <1>6, <1>7, <1>8 DEF Next

-------------------------------------------------------------------------------
\* The inductive invariant.
IInv ==
  /\ TypeOK /\ DueInv /\ AttachInv /\ StagedInv /\ ErasedInv /\ RowInv
  /\ AvailableInv

LEMMA InvariantHolds == Spec => []IInv
<1>1. Init => IInv
  <2> SUFFICES ASSUME Init PROVE IInv
    OBVIOUS
  <2>1. TypeOK
    BY InitTyped
  <2>2. DueInv /\ ErasedInv
    BY ExecutionShape DEF Init, DueInv, ErasedInv, ReceiptTruthful
  <2>3. AttachInv /\ StagedInv
    BY ArtifactShape DEF Init, AttachInv, AttachInvAt, StagedInv
  <2>4. RowInv /\ AvailableInv
    <3>1. \A a \in Artifacts : at[a] = "todo" /\ a \notin kept
      BY DEF Init
    <3>2. \A q \in Scans \cup Mails : pc[q] = "new"
      BY DEF Init
    <3>3. \A a \in Attachments : a \in Artifacts /\ RequestOf(a) \in Scans
      BY RetentionAssumption DEF Artifacts, Attachments, RequestOf
    <3> QED
      BY <3>1, <3>2, <3>3, ArtifactShape DEF RowInv, AvailableInv, AvailableUntilDue
  <2> QED
    BY <2>1, <2>2, <2>3, <2>4 DEF IInv
<1>2. IInv /\ [Next]_vars => IInv'
  BY NextTyped, DueStep, AttachStep, StagedStep, ErasedStep, RowStep, AvailableStep
     DEF IInv
<1> QED
  BY <1>1, <1>2, PTL DEF Spec

\* What a submission stored stays readable until its deadline, whatever cleanups,
\* competing scans and early or repeated retention jobs do.
THEOREM StaysAvailable == Spec => []AvailableUntilDue
  BY InvariantHolds, PTL DEF IInv, AvailableInv

\* A retention receipt is never written for an object that exists.
THEOREM ReceiptsAreTrue == Spec => []ReceiptTruthful
  BY InvariantHolds, PTL DEF IInv, ErasedInv

\* Every stored object is known to a row from which a cleanup will find it.
THEOREM NothingIsForgotten == Spec => []NothingForgotten
<1>1. IInv => NothingForgotten
  <2> SUFFICES ASSUME IInv PROVE NothingForgotten
    OBVIOUS
  <2>1. \A u \in staged :
          upload[u] \in {"pending", "uploaded", "preparing", "claimed"}
    BY DEF IInv, TypeOK, StagedInv
  <2>2. ASSUME NEW a \in kept
        PROVE row[a] = "stored" \/ (a \in Mails /\ (pc[a] = "storing" \/ a \in Crashable))
    <3>1. a \in Attachments \/ a \in Mails
      BY DEF IInv, TypeOK, Artifacts
    <3> QED
      BY <3>1 DEF IInv, RowInv
  <2> QED
    BY <2>1, <2>2 DEF NothingForgotten
<1> QED
  BY <1>1, InvariantHolds, PTL
===============================================================================
