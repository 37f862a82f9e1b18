# A TLA+ model of VeriTrust Lab

VeriTrust Lab analyses suspicious content: text, URLs, e-mail and media are
submitted over HTTP or SMTP, models and deterministic checks turn them into
evidence, and a policy turns the evidence into a recommendation.  This directory
holds TLA+ modules for the parts of the system, and of its pages, where order,
failure and concurrency matter, TLC configurations that check them on small instances, and
proofs that TLAPS checks for every instance.

## 1. The system

Every process (HTTP functions, workers, the SMTP gateway) is stateless between
calls; what they share lives in the database (Supabase tables and RPCs, whose SQL
is mostly *not* in the repository) and in object storage.  Each `await` is a
point where another process may run and where this one may die.

| Component | State | Operations | Hard behaviour | What makes it correct |
|---|---|---|---|---|
| Scan orchestration, `lib/gateway/orchestrator.js`, `persistence.js` | scan, artifacts, evidence, decisions, idempotency record | submit, claim, attach uploads, run fast routes, enqueue media jobs, publish, store response, cancel, fail | retries under one Idempotency-Key, crash between calls, a decision from a worker before the request's own | one owner, 200 means final, settled stays settled, no final decision without the fast evidence |
| Media worker, `worker/index.js`, `worker/handlers/media.js`, `lib/gateway/worker-store.js` | jobs with leases and attempts | claim, heartbeat, handle, complete, fail, finalize, reconcile | expired leases, two executions of one job, lost answers, dead letters | scans are settled in the end; a reconciled decision has the evidence of every image that could be analysed |
| Correlation and policy, `lib/gateway/correlation.js`, `policy.js` | none; recomputed over the stored evidence | correlate, guard | evidence in any order, failed models, a policy with five interacting settings | no automatic block without both switches, the failure mode's floor, monotone in the evidence |
| SMTP inbound session, `mail-gateway/lib/smtp-server.js` | buffer, login, transaction | EHLO, AUTH, MAIL, RCPT, DATA, RSET, QUIT, timeout | pipelining while a message is processed, login lost in mid-session, size limit | only authorised messages, session and replies agree, a message whole or not at all |
| SMTP relay, `mail-gateway/server.js`, `lib/smtp-client.js`, `lib/veritrust-client.js` | one message in flight, upstream connection | analyse, decide, relay, answer | timeouts after the final dot, inbound timeout while relaying, restart | the promises of a mail hop; nothing delivered that was not cleared |
| Uploads and retention, `lib/gateway/uploads.js`, `storage.js`, `worker/handlers/retention.js` | upload rows, artifacts, objects | register, complete, attach, expire, erase | four calls to attach, crash between them, deletion racing attachment | temporary media is erased in the end, and not before it is due |
| Webhooks, `worker/handlers/webhook.js`, `lib/gateway/webhooks.js`, `management.js` | endpoints, secrets, delivery jobs, recorded attempts | create, disable, publish, resolve, post, record, complete, fail | posted but not recorded, an answer that is lost, two workers with one job | an event is taken twice only for a fault; a succeeded delivery is explained by its attempts |
| Casework, `lib/gateway/management.js`, `lib/routes/account/cases.js`, `lib/supabase-server.js`, `assets/js/pages/cases.js` | case rows, decisions, reviews, policies | edit a case, decide it, resolve a review, create and activate a policy | a page that is behind, two reviewers, a policy half made | an edit undoes no other edit; a review shows the override published for it |
| Email analysis, `lib/email/service.js`, `lineage.js`, `lib/routes/email/v2.js` | scan, link to a parent, details, evidence, decision, stored response | link, submit, claim, parse, analyse, publish, store, fail, cancel, read evidence | retries beside the analysis, swallowed failures, specialists that outlive their request, two parallel reads | one decision in every answer, failures show in it, evidence never outruns it, lineage goes forward |
| Campaign memory and passport, `lib/email/campaign-memory.js`, `evidence-passport.js` | entities of earlier scans; signed passports, trusted keys | search, remember; sign, store, export, verify | scans of one campaign at the same time; rotated keys, rebuilt reports, mixed files | related scans find each other; a passport is valid exactly when this deployment signed it for that evidence |
| Platform worker, `lib/platform-worker.js` | platform jobs, requests, stored objects, scan rows | async scan, export, erasure review, purge | a lease that expires while a job waits in its batch, repeated attempts, check-then-delete | what rows and digests say was done, was done |
| Metered calls, `lib/api-keys.js`, `lib/routes/v1`, `lib/routes/detection`, `lib/supabase-server.js` | reservations, rate limit counter | reserve, analyse, settle, replay | duplicates of one key, lost answers | each result charged once, no leak without a fault |
| Billing and keys, `lib/billing.js`, `api-keys.js`, `entitlements.js` | plan, payment events, keys; the provider's customer | handle an event, create and revoke a key; open a checkout or the portal | duplicated and overlapping deliveries, count then insert; a customer looked up, made and saved in three calls | an acknowledged event was processed; keys within the plan but for overlapping requests; what is opened is opened for the workspace's customer |
| Accounts and sessions, `lib/supabase-server.js`, `lib/routes/account/auth-session.js`, `lib/browser-session.js`, `assets/js/core/supabase-client.js` | profile, workspaces, memberships; cookies, refresh tokens | first request, repair, invite, suspend; sign in, refresh, sign out | overlapping first requests; two tabs that refresh at once | one workspace of one's own, worked in as a member; who is signed in stays so |
| E-mail lookups, `lib/email/infrastructure.js`, `geo-provider.js`, `threat-intelligence.js` | two caches of a process | locate the hops, look up domains and reputations, settle, expire | a promise that several investigations wait for; failed lookups; two ways to count what is complete | one request and one answer for all who ask; complete means answered; a rebuilt report says the same |
| List of recent scans, `lib/supabase-server.js`, `lib/gateway/dashboard-history.js` | none; four reads of scans, decisions, evidence | read, select a decision, merge, filter | rows change between the reads; two lists are cut before they are merged | completed is shown with its final decision and evidence, never an older one; only newer scans keep one off the list |
| Detection, `lib/detection-service.js`, `link-intelligence.js`, `risk-engine.js`, `veritrust-api.js`, `lib/models/*` | none; an availability cache | score, combine, summarise; call the model in chunks | thresholds and caps, retries under a deadline | a worse input never gets a milder verdict; no chunk outlives its budget |
| E-mail page, `assets/js/pages/email-investigation.js`, `core/analysis-progress.js` | last scan, key and body | submit, recover by polling, replay, or recent reports | an answer that is lost after the scan was made | the report shown is of the message submitted |
| API front door, parsers, other pages, scripts | – | – | – | not modelled, see section 6 |

How they meet: the HTTP handler runs the orchestrator inside a request; the
orchestrator leaves media jobs in the database; the worker picks them up, writes
evidence, and finalizes the scan; the SMTP gateway calls the e-mail analysis over
HTTP and acts on the recommendation; policies written by management decide what
correlation recommends; a published decision puts events into the webhook queue.
The parts of the lower half of the table meet the rest only through rows that one
of them writes for good before another reads them, and are modelled side by side.

## 2. Modules

| Module | Models | Extends / uses |
|---|---|---|
| `JobLease` | a row of `gateway_jobs`: attempts, lease token, dead letter | |
| `Recommendation` | what `correlate()` recommends, reduced to benign or not | |
| `ScanPromise` | abstract specification: what the gateway promises those who submit a scan | |
| `GatewayScan` | one scan: submissions, media jobs, finalizers | `JobLease`, `Recommendation`; `ScanPromise` by refinement |
| `Correlation` | `correlate()` and `policy.js` in full, and the scan that accumulates evidence | |
| `MailHop` | abstract specification: what a mail hop promises its sender | |
| `MailRelay` | one message through the SMTP gateway, over several attempts | `MailHop` by refinement |
| `SmtpSession` | one inbound SMTP connection | |
| `Retention` | uploaded media and raw e-mail from registration to erasure: clients, submissions, cleanup, retention jobs, reconciliation | `JobLease` |
| `OneVerdict` | abstract specification: what the e-mail analysis promises of an investigation | |
| `EmailAnalysis` | e-mail investigations: lineage, submissions and retries, specialists, decision, evidence endpoint | `Recommendation`; `OneVerdict` by refinement |
| `Metering` | metered calls of the API and the site: reserve, analyse, settle | |
| `Entitlements` | what a plan row allows | |
| `Accounts` | payment events, the plan, the API keys made under it | `Entitlements` |
| `Checkout` | the provider's customer of a workspace, and the sessions opened for it | |
| `PlatformJobs` | the platform queue and its four kinds of job that change state | `JobLease` |
| `Webhooks` | endpoints, and one delivery over its attempts | `JobLease` |
| `Casework` | cases, reviews and policies as people change them | |
| `Workspaces` | the workspace a person's first requests make and find | |
| `Sessions` | the tabs and cookies of one browser | |
| `EmailPage` | the investigation page and its recovery | |
| `Detection` | scores, verdicts and summaries of the four detectors | |
| `Inference` | the chunks of one classifier run under a deadline | |
| `Passport` | signing, storing, exporting and verifying evidence passports | |
| `Campaign` | the memory in which related e-mails find each other | |
| `Enrichment` | what investigations look up about servers and domains, and its caches | |
| `History` | the list of recent scans | |
| `MC*` | instances for TLC; `MCPlatform` holds the fifteen modules with state from `Metering` on | the module they are named after |
| `*Proofs` | theorems about the module they are named after | that module and TLAPS |
| `AccessProofs` | theorems about `Metering`, `Accounts`, `Checkout`, `Workspaces`, `Sessions`, `Inference`, `Detection`, `Enrichment` | |
| `RecordProofs` | theorems about `Passport`, `Casework`, `PlatformJobs`, `EmailPage`, `Campaign`, `Webhooks`, `History`, and about the composition in `MCPlatform` | `AccessProofs`, `MCPlatform` |

### GatewayScan and ScanPromise

The composition of three kinds of process over shared rows.

* *Requests.*  `pc[r]` follows `orchestrateSubmission`: `new` → `CheckUploads` →
  `checked` → `Submit` → `submitted` → `ClaimScan` → `claimed` (uploads, fast
  routes) → `Correlate` → `enqueue` (media jobs one by one, then
  `PublishDecision`) → `report` → `store` → `replied`.  `OrchestratorFails` is the
  catch clause at any point after the claim; `RequestDies` is a lost process.
* *Jobs and executions.*  A claim starts an execution `<<artifact, attempt>>`; the
  attempt number is the lease token.  An execution whose lease expired goes on: it
  may write evidence, but `Holds` refuses its completion.
* *Finalizers.*  An execution that completed its job, and every reconciler, run
  `FinalizeCheck`, `FinalizeRead`, `FinalizePublish` as separate steps; `snap` is
  the evidence read in between.

`ScanPromise` is what all of this looks like from outside: a phase that settles once, an
owner, a final decision, and one answer to each submission, which is 200 only for a
settled scan with its final decision.  `PromiseSpec` is the refinement: `Phase` maps the
three open statuses to one, `owner` is `claimedBy`, and `Told` shows what was answered and
hides what is being prepared.  `OkIsForGood` follows from it.

Models are abstracted to an outcome (`clean`, `risky`, `failed`), decisions to the
evidence they rest on, their author and whether they are benign.  That this agrees with
the full computation is a property of `Correlation` (`RecommendAgrees`: for evidence with
risks of 0, 0.5 and 1 and policies that allow a risk of 0 and not an unknown one).  The RPCs
that are not in the repository (`gateway_submit_scan`, `gateway_publish_decision`,
`gateway_claim_jobs`, ...) are modelled by what their callers rely on and marked
external in the map.  Assumed of them: submission is atomic per Idempotency-Key;
publishing settles a scan that is `processing` or `partially_completed` and
leaves any other status alone; a job has at most `max_attempts` claims, and a
lease that runs out on the last one is dead-lettered.

### Correlation

Scores are hundredths, reason codes are grouped into the classes the scoring
distinguishes, policies are the records `validatePolicy` accepts.  `Correlate`
follows `correlate()` step by step: highest score, deterministic e-mail risk, risk
assumed unknown, independent review, failure mode, enforcement guard.
Context categories and explanatory reason codes do not influence the result and
are left out.

### MailRelay and MailHop

`stage[a]` names what `onMessage` of attempt `a` waits for: the analysis or one
reply of the upstream dialogue.  Attempts overlap: the sender may submit again
after its connection timed out while the old attempt still runs.  `up[a]` is what
the upstream server did with the message it was given, which the gateway learns
only from the reply.  The three exchanges of AUTH LOGIN count as one, RCPT
commands as a set.  `MailHop` says what the sender may conclude from an answer;
`HopSpec` is the refinement, with `took` the attempts whose copy was taken.

### SmtpSession

The client sends arbitrary lines into a bounded buffer; `processBuffer` takes the
first one unless a message is being processed.  `view` records the transaction as
the replies tell it, so that `TransactionAsAgreed` compares session and dialogue.
A content line counts as one byte, the 500 for an over-long line changes no
session state, and a client whose address is refused gets 554 before any handler
exists; none of these is an action.

### Retention

Rows (`upload`, `row`, `jobs`) and objects (`staged`, `kept`) are changed by separate
steps, one per call.  `upload[u]` is the status of a `gateway_uploads` row, with
`unsigned` for a pending row whose signed URL was never given out; `user[u]` is the
scan (and so the final path) it was prepared for.  A media submission goes through
`CheckUploads`, `CreateMediaArtifacts` and, for one upload after the other,
`PrepareAttachment`, `MoveObject`, `AttachUpload`, `EnqueueRetention`; `at` says how
far it got, `RequestCutOff` ends it anywhere.  An e-mail submission does
`CreateMailArtifact`, `UploadRaw`, `RecordStorage`, `EnqueueRetention`.  The worker
does `ClaimExpired`, `SweepPrefix` (staging and final path, in any order, since the
storage service deletes them one by one), `MarkUploadDeleted`; a retention job's
execution does `CheckDue`, `EraseObject`, `RecordReceipt`, `CompleteJob`.

Assumed of what is not in the repository: the client stores its file before the
`expires_at` it was given; preparing and attaching are compare-and-set on status and
scan; expired claims take rows that are not attached, also those whose last cleanup
failed; `gateway_enqueue_job` deduplicates, so a dead-lettered job stays dead.  A
request is over before a deadline passes: requests last 60 seconds at most
(`maxDuration` in `vercel.json`), retention at least one hour.  The clocks of worker
and database may differ, so a job can be claimed early (`NotDue`).  The lists of 25
rows (`worker/index.js:18`, `:50`) are assumed not to be filled by rows that fail
for ever.

### EmailAnalysis and OneVerdict

`pc[r]` follows `analyzeEmail`: `new` → `ResolveParent` → `resolved` → `Submit` →
`submitted` → `ClaimScan` → `claimed` → `Parse` → `parsed` → `PersistDetails` →
`detailed` → `StartSpecialists` → `specialists` → `Correlate` → `decided` →
`PublishDecision` → `published` → `StoreResponse` → `over`; `failing` is its catch
clause.  The specialists of a request are processes of their own (`found[r][p]`),
since the `Promise.all` over them lets one run on when another has thrown: a late
`Record` may follow the answer.  `rows` are the evidence in the database, which may
hold less than `found` (a failed preparation has no row) or more (a row whose writer
got no answer).  `key[r]`, fixed in `Init`, is the investigation a request submits, so
that both retries and parents with their upgrades are among the behaviours.

A decision is the set of evidence it rests on and the recommendation for it; the stored
response carries both, and `ReportedEvidence` and `ReportedDecision` are what the
evidence endpoint would show if it read now.  `unnoted` is a history variable: the
investigations for which an error was swallowed.  Modelled elsewhere: the raw message's
storage (`Retention`), campaign memory (`Campaign`), the lookups (`Enrichment`) and the
signed passport (`Passport`), none of which decides anything here.  Left out: the three
detail writes beside `persistEmailDetails`.  A stored response is used by the evidence
endpoint only when it carries its schema version and passport (`service.js:752`); the
constant `Sealed` has the investigations of which it does.  Assumed of
`gateway_submit_scan`: inserting is atomic for an Idempotency-Key, and a replay returns
the stored response.  Cancellation of a scan that is processing may leave
`cancel_requested` or `cancelled`, and publishing does not change either.

`OneVerdict` is what those who ask see of an investigation: it reaches one verdict,
whatever is published or answered is that verdict, its status settles once, and as
completed only together with the publication.  `VerdictSpec` is the refinement: `Reached`
is what the claimant decided, `Published` the published decision and the stored response,
of which either may be missing, `Phase` the status with the two open ones made one.
`AnswersAgree`, which is about all the copies of a decision in one state, follows from
the same invariant.

### Metering

`callPc[c]` follows a route: `start` → `admitted` (API key, or the page's rate limit) →
`reserved` → `analysed` → `done`, with `failing` for the catch block; the three analyses of
the API and the three of the site take these steps in their own order (a deepfake call
reads its upload first, the page's phishing route loads its context), and `v1/usage`
only reads.  `row[i]` is the usage or scan row of a request id.  Calls with the same
Idempotency-Key share it, on the API also across endpoints.  Any of the two
database calls may take effect without its answer arriving; `callFaults` counts these
and killed processes, and `LeaksAreFaults` sets the rows nobody will settle against
them.  `ReservesBlindly` (the mutant) is a reservation that ignores who holds the row.

### Accounts, Entitlements and Checkout

A delivery of a payment event inserts or claims its row, applies it, and marks it; the
provider sends an event until a 2xx answer, also while an earlier delivery is still
handled.  `mishap` are the events whose deliveries overlapped or met a fault: the early
`duplicate` answer acknowledges an event that another delivery may yet fail, so
`AcknowledgedIsProcessed` excepts exactly these.  A key is created by a check and an
insert in separate calls: either the quota RPC decides (`EnforceEntitlement`; external,
assumed to allow what `localDecision` would), or the plan is read (`planRead`) and the
keys are counted after it (`CheckKeyLimit`); `peakLimit` is the largest limit the plan has had.
`NormalizePlan` includes the aliases of two columns and an explicit total.

`Checkout` is the one place where a customer of the provider is made: looked up, made and
saved in three calls, of which each may fail or take effect with its answer lost.  Two
first checkouts at once each make a customer, and the row keeps the last one: `crossed`
are the requests that looked while another was at it, and `OpenedForTheCustomer` says that
these are the only ones whose session is for somebody the workspace's row does not name.

### PlatformJobs

A worker claims a batch and handles its jobs in turn (`batch`, `prun`); only the current
one has a heartbeat.  An export marks its request, uploads the document, and records its
digest; an erasure waits for review; a purge checks the legal hold, deletes the object
and then its row; a scan reads its row, infers, and stores the result with a status
filter.  `overlapped` are the jobs two workers had at the same time: for an export this
is the one thing that can make digest and document differ.

### Webhooks

`hookRun[w].step` is the await `handleWebhook` is at.  `taken[v]` counts how often the
receiver took the event, `attempts[v]` is what was recorded about it, and
`hookFaults[v]` the lost answers, dead workers and lost leases in its attempts.  Which
hosts and addresses a delivery may go to (`DestinationAllowed`, `PublicDestination`) are
operators over labels, the four octets of IPv4 and the eight groups of IPv6; the resolver
answers differently from time to time.  The row of an event may go (`gone`): a worker that
then finds no event returns, and its job succeeds with no attempt recorded
(`webhook.js:8-11`).  `SucceededIsExplained` names this exception.

### Casework

Each request of a person reads in one step and writes in a later one, with no version
check in between, as the code does.  `stale` and `lostUpdate` say when a write rested on
something that had been overtaken: `EditsSurvive` states what holds for all the others,
and that merging the fields of an edit into the row is what makes it hold.  A page sends
what it had loaded, also whether there were analyst decisions then.  For a
review, `raced` says that two requests resolved it at the same time.

### Workspaces and Sessions

`visit[v]` follows `getProfileContext` and `ensureDefaultWorkspace` through repair,
search, adoption, creation and joining, beside other visits of the same person and the
administrators of other workspaces.  `call[t]` is the request of a tab; the answer sets
the cookies when it arrives and not when it is computed, which is why overlapping tabs
are a history variable (`disturbed`) and not excluded.  An exchange may succeed and the
lookup of the user after it fail: that answer is an error, or a refusal, and brings the
new cookies all the same (`Brings`, `auth-session.js:73-76`).

### EmailPage

`kept` is what the page remembers from the last request, `candidate` the scan it tries
to load.  The n-th submission is of message n, so `serverScan[s].message = submission`
says that a report is the right one.  `borrowed` marks the two exceptions in the code:
nothing was sent, or no scan is known and a recent one is taken.

### Detection and Inference

`Assess` computes score, verdict and summary of a subject, to the precision the code
rounds to; `DetectionNext` changes one input at a time, so that `RiskRises` compares
neighbours.  What a text or URL contains is a set of traits; extracting them is left
out.  The score of a list of indicators is the sum over the four severities of how many
there are of each (`CountOf`, `TotalScore`), which is what adding them one by one gives.
`Inference` counts ticks: chunks share a deadline, and the availability check with the
other runs of the process, whose earlier result may still be fresh (`Fresh`) and whose
pending check this run joins (`OtherRunChecks`); each chunk retries within its budget.

### Passport and Campaign

A passport is the record of its signed payload, key and signature; digests are taken to
be injective.  Files are mixed from several exports, made by other deployments, and kept
while keys rotate.  In `Campaign` every scan searches the memory and then writes its own
entities; `searchedTogether` are the pairs that searched before either was remembered. A
search reads so many rows, looks at the thirty best of the scans they are of, before it
asks which of those have enough in common, and names twenty
(`campaign-memory.js:100,118`): the bounds are `MaxRows`, `MaxCandidates` and
`MaxNamed`.  A scan that met one of the last two is `crowded`, one whose rows were cut
short is among the `failedScans`; `LaterFindsEarlier` excepts both, because the code
promises nothing there.  Entities are built by `ThreatEntities` from what messages hold,
with trusted and observed relays told apart.

### Enrichment

The investigations of one process (`enrichPc`) look up the addresses of their public hops,
then the registration of the domains and the reputation of the addresses.  `geoCache` holds
promises, so that who asks during a request waits for it; `requesting` are the requests;
`intelFresh` is the cache of the rest, with its answers and their expiry.  Addresses are
octets or groups, classified as `classifyIp` does.  `providers`, chosen in `Init`, are those
configured.  `LookupsShared` is about the caches, `StateRebuilt` about the two ways
to count (`StoredState` by hops, `LiveState` by addresses), `IntelComplete` about what
`mapLimited` cuts off.  A provider that knows an address and nothing about it answers `empty`,
the named exception of `StateRebuilt`: an answer with coordinates alone is among these.
Left out: coordinates and the map, the values that were found, and restarts, which empty the
caches together with everything that waits for them; redirects are part of their request.

### History

`load` says how far a request for the list is: the site's scans, the gateway's rows,
then their decisions and evidence in either order.  Meanwhile scans are made, evidence
arrives and decisions are published; a final decision completes its scan and moves the
pointer in one transaction, an override may move the pointer or not, and a scan has one
preliminary decision, of the request that owns it.  `SelectDecision` picks what is shown
among those read later than the row.  `known` and `latest` are history variables: the
scans there were when the load began, and the newest decision of each that was shown so
far.  Left out: older pages (`offset`), which the gateway's scans are not part of; texts
that name a disabled module; rows of the very same time.

## 3. Runs

| Run | Instance | What it shows |
|---|---|---|
| `gateway_scan` | two requests (one may die anywhere), text + image + video, one attempt per job, one reconciler | refinement `PromiseSpec` (an answer of 200 means a final decision, and settled stays settled); `FinalCovers` (a final decision rests on all fast evidence, a reconciled one on every image) |
| `gateway_scan_live` | one request, text + image, two attempts, all outcomes | `EventuallySettled` |
| `gateway_scan_missing` | two images | counterexample to `MissingEvidenceNotBenign` |
| `correlation` | eight evidence rows, five policies, every order | `RecommendAgrees`, `RiskDropsOnlyFromUnknown`, `EvidenceNeverRelaxes` |
| `mail_relay` | two attempts, two recipients, four configurations, four decisions | `DeliveredWasCleared`, `RelayedAsAgreed` (the whole envelope, and nothing in cleartext), `RelayedIsReported`, refinement `HopSpec`, `EventuallyAnswered` |
| `smtp_session` | two addresses (one allowed), AUTH required, size limit 1, two pipelined lines | `RelayAuthorised`, `TransactionAsAgreed`, `MessageAsSent` |
| `retention` | one upload, two submissions that want it and may be cut off, one e-mail, one attempt per job | `AvailableUntilDue`, `NothingForgotten` |
| `retention_live` | one upload, one submission that may be cut off, two attempts | `ReceiptTruthful`, `EventuallyErased` |
| `email_analysis` | two requests, one of which may die, for a plain text with a link and the raw e-mail that upgrades it, in every assignment | refinement `VerdictSpec`, `FailureShows`, `LineageForward`, `ReadsAgree`, `EventuallySettled` |
| `platform` | the fifteen modules with state from `Metering` on, one of them moving in each behaviour; see below | `TypesOK`, `QuotaExact`, `AcknowledgedIsProcessed`, `KeysOverLimitOnlyTogether`, `RowsTellTruth`, `DeliveriesAccounted`, `NothingHalfDone`, `InOnesPlace`, `StaysSignedIn`, `ShowsOwnReport`, `InferenceInTime`, `VerdictIsExact`, `LaterFindsEarlier`, `OpenedForTheCustomer`, `EnrichmentHonest`, `HistoryHonest`, `RiskRises` |
| `detection_summary` | the detectors on scores at both sides of every threshold | counterexample to `SummaryTellsVerdict` |
| `retention_mail` | one e-mail that may be cut off | counterexample to `RawMailRetentionRequested` |

Three properties are left to their proofs and are in no run: `OneOwner` (largely contained
in the refinement), `DecisionWithinPolicy` (local to one computation) and `EditsSurvive`
(stated for edits that rest on nothing stale).  They are `OneOwnerAlways`,
`AlwaysWithinPolicy` and `EditsAlwaysSurvive` in section 4.

Bounds.  Two requests are enough for every race over the claim and the stored response
(a third only repeats one of the two roles).  One artifact of each class covers each
route; the order between two images matters only for the finding, which has its own
run.  Two attempts give a retry, an execution with a stale lease beside a fresh one, and
a dead letter: these are in `gateway_scan_live`, and of retention in `retention_live`;
in `gateway_scan` and `retention` a job has one attempt, so that no two executions of a
job are side by side there.  The evidence rows lie on both sides of every threshold, in
both kinds of model, with reason codes that only count together.  Two attempts of a
message give an old one in the background beside a new one.  A size limit of one line
and two pipelined lines reach both sides of the limit and a line that waits while a
message is processed.  Uploads do not interact except through the submissions that use
them, so one upload with two submissions has every race over an upload; a second attempt
of a retention job (an execution that lost its lease beside a fresh one) is in
`retention_live`.  An e-mail investigation has one claimant, so two requests have both
the retry beside the analysis and the upgrade beside its parent; the content and one
link are two specialists side by side. `MaxAttempts` and `MaxBuffer` are the named
bounds of counters that TLC needs; the proofs hold for all their values.

In `platform` the variable `part` picks the module that moves, because the modules share
no state: their product would only multiply states that say nothing about each other.
Every actor comes in twos: two calls with one API key and request id and two of the site
beside one that reads the usage, and a quota of two rows for three request ids; two
deliveries among four kinds of event and two key creations; two platform workers with
the jobs in pairs (export and scan, erasure and purge) and two attempts; two webhook
workers and three attempts of one event, so that a fault on one attempt leaves a retry
and a last one; three people of different roles; two first requests; two tabs; two
submissions beside a colleague's report; three chunks, the most the code makes, in ticks
of half a second, beside other runs that share the check; two signing keys, a foreign
one and two exported files; four e-mails, of which some pairs share a strong entity,
some only weak ones, with a search bound (six rows) that cuts some searches short, two
candidates and one named scan, so that each of the three limits is met; three checkouts
beside the portal; two investigations with addresses of both families in common, of
which one has more addresses and domains than the limits (three lookups, two at once,
one item of intelligence); two scans of the site, one of them of a module that is off,
and one of the gateway, on a list of one, with two decisions and one row of evidence.
Faults are bounded by one for each part (two for webhooks and checkouts);
`MaxGeneration`, `MaxDecisions`, `MaxSubmissions`, `MaxPublished` and `MaxEvidence`
bound what could go on for ever.  The run has about 1.2 million states.

Deadlock is not checked where the system comes to rest (a settled scan, a message
answered for good, a destroyed connection with an empty buffer).

Fairness.  `GatewayScan`: a request that is not cut off runs on (weak fairness of
its steps); the worker's loop polls for ever (`main` in `worker/index.js`), so a
claimable job is claimed and an execution ends one way or the other; leases expire
by the database's clock; the reconciliation returns every 15 seconds and its calls
do not fail every time (strong fairness of the finalizer's steps, since a failure
may interrupt them again and again).  Cancellation, faults and crashes are never
fair.  `MailRelay`: only the timers (`AbortController` of the analysis, `readLine`'s
timeout, the five seconds for QUIT) are fair.  `connectSocket` has no timer until
it is connected; that a connection attempt ends is assumed of the network.
`Retention`: time passes, submissions that have begun go on or are cut off, the worker
polls its queue and returns to its cleanups every minute; deleting and marking are
strongly fair, since a failed cleanup starts them again.  Clients owe nothing.
`EmailAnalysis`: a request that has begun runs on unless its process dies, and a
specialist ends, because every model call has a timeout (`modelTimeoutMs`) and every
database call returns or throws.  The modules of `platform` state safety only and no
fairness.

### Findings

`gateway_scan_missing` refutes a sentence of `README.md` (line 156, "Missing,
failed, unavailable, or uncertain evidence must not be converted into a benign
result").  Media jobs are enqueued one by one before the decision is published
(`orchestrator.js:311-323`) and `finalizeMediaScan` looks only at the jobs and the
evidence that exist (`worker/handlers/media.js:44-63`): the job of the first image
can finish and finalize the scan with `allow` before the second one is enqueued,
and a scan whose image jobs were all dead-lettered is finalized with risk 0.  Audio
and video always end in `hold`, and media is only accepted when the `deepfake`
module is enabled.

`retention_mail` refutes a sentence of `phishing.html` (line 100, repeated in
`privacy.html:385`: the application requests retention of raw `.eml` of no more than 24
hours).  `analyzeEmail` stores the raw message before it records the storage path and
before it enqueues the retention job (`email/service.js:457-473`); the catch clause
deletes nothing, and both `handleRetention` and the reconciliation need the path.  A
request that stops in between leaves an object that nothing will remove.  Media
submissions do not have this gap: their rows name the path before anything is moved,
and `NothingForgotten` holds for them wherever they are cut off.

`detection_summary` refutes the same sentence of `README.md` (line 156) for the
classifier.  `buildSafeSummary` compares the label with `phishing`
(`risk-engine.js:309`), but `finalizePhishingPayload` passes `Likely phishing`
(`detection-service.js:517-527`), so that a likely phishing message of any risk level but
medium is summed up as "No strong phishing indicators were found".

More places are no contradiction of a documented promise but exceptions that the
properties have to name: `RiskRises` (the floor of a link's score is lost when the
model's score passes 0.35, `link-intelligence.js:441-465`), `AcknowledgedIsProcessed`
(the early `duplicate` answer, `billing.js:362`), `OpenedForTheCustomer` (two first
checkouts at once, `billing.js:164-190`), `DeliveriesAccounted` (an event whose row went,
`webhook.js:8-11`), `LaterFindsEarlier` (the limits of a search,
`campaign-memory.js:100,118`) and, in its proof, `EditsSurvive` (a page that is
behind sends its own status, `cases.js:204`).

## 4. Proofs

The theorems hold for every value of the constants that satisfies the modules'
assumptions (`ScanAssumption`, `FinalizerAssumption`, `FailModeAssumption`,
`CorrelationAssumption`, `MailRelayAssumption`, `SessionAssumption`,
`RetentionAssumption`, `EmailAssumption`; `MeteringAssumption`, `AccountsAssumption`,
`CheckoutAssumption`, `WorkspacesAssumption`, `SessionsAssumption`,
`PassportAssumption`, `CaseworkAssumption`, `PlatformAssumption`, `EmailPageAssumption`,
`CampaignAssumption`, `WebhooksAssumption`, `InferenceAssumption`,
`DetectionAssumption`, `EnrichmentAssumption`, `HistoryAssumption`); TLC evaluates these
on every run.  They say what sets may not overlap, which numbers are positive, and what
the code itself fixes: a text has at most three chunks, a successful check is believed
for at least a second, a model's score is a probability.

* `GatewayScanProofs`: `TypeCorrect`, `SettledStaysSettled`, `OneOwnerAlways`,
  `OkAlwaysFinal`, `FinalAlwaysCoversFast`, `ReconciledAlwaysCovers`; the runs check their
  conjunction, proved as `FinalAlwaysCovers`.  None of the
  properties is inductive.  `OwnerInv` adds that an owner exists only once the scan
  has left `accepted`; `FinalInv` that a completed scan has a final decision and that
  a stored or prepared response of 200 is final; `FastInv` that media jobs exist only
  once all fast evidence is recorded, that evidence is never lost, and that finalizers
  read it after that; `ReconcileInv` that every media job which is neither absent nor
  actionable is either dead or has left the evidence of its image (`Handled`,
  `Accounted`), and that a reconciler's snapshot inherits this.
  `ImplementsPromise`: every step of a request, the queue, an execution or a finalizer is
  a step of `ScanPromise` or none.  It needs `OwnerInv`, `FinalInv` and `PromiseInv`:
  nothing happens behind a scan before a request has claimed it (`Quiet`), a scan without
  media is settled before its report is built, and what is stored or about to be answered
  is backed by what the database holds and stays so (`Backed`, `NothingTakenBack`).
* `CorrelationProofs`: `ScoreMonotone`, `NoAutomaticBlock`, `FailuresKeepFloor` and,
  of the last two, `AlwaysWithinPolicy`, from
  `DecisionInv` (the decision is what `Correlate` gives for the recorded evidence).
  `RiskNeverDrops` and `NeverRelaxes` say what one more row of evidence can do, and
  `RecommendationsAgree` that `Recommendation` is what `Correlate` computes.  They rest on
  one fact about maxima: a maximum over more is no smaller, which the library's operator
  gives by its definition, once a finite set of numbers is known to have one.
* `MailRelayProofs`: `TypeCorrect`, `DeliveryWasCleared` (`ForwardInv`: whatever is in
  the dialogue was cleared), `EnvelopeIsWhole` (`EnvelopeInv`: from DATA on, every
  recipient was accepted), `ImplementsHop`: initial states map to initial states and
  each step to a step of `MailHop` or a stutter, under `HopInv` (an attempt that is
  told `accepted` was taken; one that is told `refused` can no longer be).
  `NeverInCleartext` is from the stages before TLS; `AlwaysAsAgreed` joins it with
  `EnvelopeIsWhole`.  `RelayIsReported`: the only step that ends an attempt waiting for the
  answer to QUIT tells the sender of the success.
* `SmtpSessionProofs`: `TypeCorrect`, `OnlyAuthorised`, `AlwaysAgreed`, `AlwaysWhole`,
  from one `SessionInv` of five parts.
* `RetentionProofs`: `TypeCorrect`, `StaysAvailable`, `ReceiptsAreTrue`,
  `NothingIsForgotten`, from `IInv`: a deadline has passed only for submissions that
  are over (`DueInv`), what a submission has moved belongs to an upload that is
  prepared for it, attached to it or claimed (`AttachInv`), a staged object has a live
  upload row (`StagedInv`), an execution that has erased leaves nothing that could
  come back (`ErasedInv`), an object's row names it (`RowInv`), and what was recorded
  is there (`AvailableInv`).

* `EmailAnalysisProofs`: `TypeCorrect`, `AnswersAlwaysAgree`, `FailuresAlwaysShow`,
  `ReadsAlwaysAgree`, `LineageAlwaysForward`.  Agreement and failures rest on one
  `IInv`: whoever has touched an investigation is its only claimant (`ClaimedOnce`); a
  specialist that runs has no row yet and nobody has decided over it (`FoundWhen`); each
  row is what some request found or never heard of (`RowsFound`); a decision is what
  `CorrelationInputs` gives now (`DecidedFrom`), which says that nothing arrives after
  it; and every decision given out is a claimant's (`ToldDecided`).  `ReadsAlwaysAgree`
  adds that a stored response is written once and rows are never removed.
  `LineageInv` adds that a parent that was found fit stays so until the link is made,
  since a completed scan never changes again.  `ImplementsOneVerdict` needs of `IInv` that
  nobody but the claimant decides, so that `Reached` grows once (`ReachedIs`,
  `StoredReached`), and beside it that whoever can go on has not been answered
  (`UnansweredInv`); then each action is one of `OneVerdict` or none.

* `AccessProofs`.  `MeteringTypeCorrect`, `AlwaysChargedOnce` and `QuotaAlwaysExact` rest
  on `MeteringInv`: a call that holds a row is the only one that does (`HolderAt`), and a
  result that was sent has a settled row nobody can unsettle (`SentAt`); for the second
  half of `QuotaExact` the abandoned rows are counted against the faults step by step.
  `AcknowledgedAlwaysProcessed` needs that without a mishap only one delivery of an event
  is under way, whose row is being processed just while it has claimed it (`EventInv`);
  `KeysOverLimitOnlyByOverlap` counts the requests that were allowed (`KeysInv`: keys plus
  allowed requests stay below the peak limit plus the requests there are, less one).
  `AlwaysOpenedForTheCustomer`: who crossed nobody is the only one that makes a customer, and
  what it holds is what the row names from then on.
  `AlwaysInOnesPlace` follows from `PlaceInv`: a visit's history holds every active
  membership, what it settles on is in that history, and it joins only a workspace that
  was made. `AlwaysStaysSignedIn` follows from `SessionInv`: without a disturbance one
  request is in flight, and it carries or brings the provider's token.
  `AlwaysInTime` rests on `InferenceInv`: chunks start in order and no more than two are in
  hand (`OrderInv`), so that time stands still while one could start (`AllTaken`); each
  budget is what was left of the run (`BudgetInv`); a check ends soon enough for all who
  wait for it (`CheckInv`), and a chunk's deadline leaves at most the grace beyond its
  budget (`DeadlineInv`).  `RiskAlwaysRises` compares two neighbouring subjects: one
  more trait or a higher model score only makes the list of indicators grow (`Grows`), and
  with it the score (`ScoreGrows`), since sums, caps, weights and rounding keep the order.
  `EnrichmentAlwaysHonest`: a pending promise has exactly one request, who waits waits for
  it, and hops have context just when their addresses were found, so that both ways to
  count agree.
* `RecordProofs`.  `VerdictAlwaysExact` rests on `PassportInv` (whatever is consistent
  and signed with a key of this deployment was issued by it); `EditsAlwaysSurvive` on
  what a page knows that is not behind (`FreshPage`); `NothingEverHalfDone` on
  `ReviewInv` and on a count of half-made policies against faults; `RowsAlwaysTellTruth`
  on `PlatformInv`, of which `LeaseInv` says that workers with the same job are
  overlapping, `RunInv` what an execution has done at each step, `RowInv` what rows may
  say meanwhile. `AlwaysShowsOwnReport` rests on `PageInv` (unless it borrowed, all the
  page goes by is of the present submission, whose scan no earlier one can have),
  `LaterAlwaysFindsEarlier` on `CampaignInv` (a remembered scan is remembered whole, and
  of two that have searched one has found the other, unless a limit was met).
  `DeliveriesAlwaysAccounted` rests on `HookInv` (of a succeeded job an outcome was
  recorded, or its event went) and a potential: what was taken, the workers that may yet
  repeat the event, and the job's waiting to be claimed together never exceed one plus
  the faults (`SentInv`).  `HistoryAlwaysHonest` rests on `ScansInv`: pointers and
  decisions fit (`RowsInv`), what a load read earlier is no newer than what it read
  later (`ReadInv`), and so what it selects is no older than what was shown
  (`LatestInv`, `ShownInv`); `ListInv` counts the newer scans that keep one off.
  `PartsRun`: a behaviour of the composition is a behaviour of each of its modules,
  since a step moves one of them and leaves the others alone; so what is proved of a
  module holds in the composition, and `TypesAlwaysOK` is the conjunction of their type
  theorems.

Only model-checked: liveness (`EventuallySettled` of a scan and of an investigation,
`EventuallyAnswered`, `EventuallyErased`), since fairness and ENABLED are out of the
prover's reach, and the three counterexamples.  Every invariant and every action property
of the passing runs, and the three refinements, are theorems.

## 5. Plan

Done: the gateway's core (scans, media, correlation, SMTP, retention), e-mail analysis
with campaign memory and passport, and the platform around it: metering, billing, keys,
the platform queue, webhooks, casework, workspaces, sessions, the e-mail page, the
detectors, checkouts, the lookups of investigations, the list of recent scans.  Every
module with state has theorems, and every safety property of a run is one.

What could follow, in this order: liveness of the platform queue and of webhook
deliveries under the worker's polling; a composition of `PlatformJobs` with
`Metering` (an asynchronous scan charges its reservation).

## 6. Not modelled

* API front door (`api/*.js`, routing, validation): one check after the other on a
  request, without state of its own.  What the checks let through is the input of the
  modules above.
* E-mail forensics parsers, feature extraction from text and images, PDF reports and
  other rendering: functions of strings and pixels without state or concurrency, which
  tests reach better than a model checker.
* Billing outbox, operational events, integrations of the SMTP gateway: one insert or
  one call to a provider each, with nothing that reads them back.
* Other lists, notifications, profile settings: reads, or a single update of a row.
* The catalogue of detection modules and model qualification scripts: configuration.
* Other pages, build scripts and migrations: no state that outlives a request, or run
  once by hand.  The SQL functions are modelled where their callers rely on them, and
  marked external in the map.
