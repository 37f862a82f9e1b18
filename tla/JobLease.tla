------------------------------- MODULE JobLease -------------------------------
(***************************************************************************)
(* One row of the gateway_jobs table and the queue operations the worker    *)
(* calls on it (lib/gateway/worker-store.js).  The operations themselves    *)
(* are database RPCs that are not in the repository: what is modelled is    *)
(* what the callers rely on.  A job has a bounded number of attempts; every *)
(* claim hands out a fresh lease token (here: the attempt number), and      *)
(* completing, failing or extending a job needs the token of its current    *)
(* lease.                                                                   *)
(***************************************************************************)
EXTENDS Naturals

JobStatuses == {"absent", "queued", "leased", "retry", "succeeded", "dead"}

Job(max) == [status : JobStatuses, attempt : 0..max, expired : BOOLEAN]

NoJob == [status |-> "absent", attempt |-> 0, expired |-> FALSE]

\* gateway_enqueue_job: the dedupe key makes a second enqueue a no-op.
Enqueue(job) ==
  IF job.status = "absent" THEN [job EXCEPT !.status = "queued"] ELSE job

\* actionableMediaJobs: status=in.(queued,retry,leased).
Actionable(job) == job.status \in {"queued", "retry", "leased"}

\* Claims that do not count attempts.
ClaimableForever(job, max) ==
  \/ job.status \in {"queued", "retry"}
  \/ job.status = "leased" /\ job.expired

\* gateway_claim_jobs: a waiting job, or one whose lease ran out.
Claimable(job, max) ==
  /\ \/ job.status \in {"queued", "retry"}
     \/ job.status = "leased" /\ job.expired
  /\ job.attempt < max

Claim(job) ==
  [status |-> "leased", attempt |-> job.attempt + 1, expired |-> FALSE]

\* The lease that `token` names is the job's current one.
Holds(job, token) == job.status = "leased" /\ job.attempt = token

\* gateway_complete_job, with the token of the current lease.
Succeed(job) == [job EXCEPT !.status = "succeeded", !.expired = FALSE]

\* gateway_fail_job: another attempt while there is one, else dead-lettered.
Fail(job, max) ==
  [job EXCEPT !.status = IF job.attempt < max THEN "retry" ELSE "dead",
              !.expired = FALSE]

\* failJob(job, error).catch(() => 'lease_lost'): a stale token changes nothing.
FailHeld(job, token, max) ==
  IF Holds(job, token) THEN Fail(job, max) ELSE job

\* The visibility timeout passes without a heartbeat.
Expire(job) == [job EXCEPT !.expired = TRUE]

\* A lease that ran out on the last attempt cannot be claimed again.
Exhausted(job, max) ==
  job.status = "leased" /\ job.expired /\ job.attempt = max

Settled(job) == job.status \in {"succeeded", "dead"}
===============================================================================
