----------------------------- MODULE EmailAnalysis -----------------------------
(***************************************************************************)
(* The life of an e-mail investigation: analyzeEmail (lib/email/service.js) *)
(* with its specialists running side by side, the link to an earlier        *)
(* investigation (lib/email/lineage.js), retries under one Idempotency-Key, *)
(* and the evidence endpoint, which rebuilds the report from two reads      *)
(* (lib/routes/email/v2.js).  The storage of the raw message is in          *)
(* Retention; campaign memory and the passport do not touch the decision.   *)
(***************************************************************************)
EXTENDS Integers, Recommendation

CONSTANTS
  Scans,     \* investigations, one for each Idempotency-Key
  Requests,  \* submissions, retries included
  StageOf,   \* its input mode: plain text, raw .eml, trusted receiver
  ParentOf,  \* the investigation it names as its parent, if any
  LinksOf,   \* the URLs extracted from its message
  Sealed,    \* its response, once stored, carries a schema version and a passport
  Crashable  \* the requests whose process may die

ASSUME EmailAssumption ==
  /\ StageOf \in [Scans -> 0..2]
  /\ ParentOf \in [Scans -> SUBSET Scans]
  /\ DOMAIN LinksOf = Scans
  /\ \A s \in Scans : {"content", "parser", "forensics"} \cap LinksOf[s] = {}

Parts == {"content"} \cup UNION {LinksOf[s] : s \in Scans}
PartsOf(s) == {"content"} \cup LinksOf[s]  \* what the specialists look at

Outcomes == {"clean", "risky", "failed"}
Inputs == [part : Parts \cup {"parser", "forensics"}, outcome : Outcomes]
Decisions == [inputs : SUBSET Inputs, rec : {"none", "allow", "escalate"}]
NoDecision == [inputs |-> {}, rec |-> "none"]

Answers == [code : {0, 200, 202, 409, 500}, decision : Decisions]
NoAnswer == [code |-> 0, decision |-> NoDecision]

Statuses == {"none", "accepted", "processing", "completed", "failed",
             "cancel_requested", "cancelled"}

VARIABLES
  scan,      \* gateway_scans.status
  linked,    \* metadata.parent_scan_id
  details,   \* the investigations with a row in email_artifact_details
  rows,      \* gateway_evidence: the recorded outcome of each part
  decision,  \* gateway_decisions: the latest one
  stored,    \* the decision in the stored idempotent response
  unnoted,   \* history: investigations whose claim or outcome got lost
  key,       \* each request: the investigation it submits
  pc,        \* each request: where it is
  parsed,    \* each request: whether the message could be parsed
  found,     \* each request: what its specialists found in each part
  decided,   \* each request: the decision it computed
  answer     \* each request: the status code and decision of its answer

dbVars == <<scan, linked, details, rows, decision, stored, unnoted>>
requestVars == <<key, pc, parsed, found, decided, answer>>
vars == <<dbVars, requestVars>>

Answer(r, code, d) ==
  /\ answer' = [answer EXCEPT ![r] = [code |-> code, decision |-> d]]
  /\ pc' = [pc EXCEPT ![r] = "over"]

Goto(r, place) == pc' = [pc EXCEPT ![r] = place]

-------------------------------------------------------------------------------
(* Submitting and claiming *)

\* A parent that has been submitted, whatever became of it.
MayLinkUnfinished(s, p) == scan[p] # "none" /\ StageOf[s] > StageOf[p]

\* validateLineageParentReport: the parent is completed and of a weaker stage.
MayLink(s, p) == scan[p] = "completed" /\ StageOf[s] > StageOf[p]

\* resolveLineageParent, also for a retry.
ResolveParent(r) ==
  /\ pc[r] = "new"
  /\ IF \A p \in ParentOf[key[r]] : MayLink(key[r], p)
       THEN Goto(r, "resolved") /\ UNCHANGED answer
       ELSE Answer(r, 409, NoDecision)
  /\ UNCHANGED <<dbVars, key, parsed, found, decided>>

\* gateway_submit_scan: the first call inserts the scan and its link to the parent.
InsertScan(s) ==
  IF scan[s] = "none"
    THEN /\ scan' = [scan EXCEPT ![s] = "accepted"]
         /\ linked' = [linked EXCEPT ![s] = ParentOf[s]]
    ELSE UNCHANGED <<scan, linked>>

\* submitScan: a later call replays the stored response if there is one.
Submit(r) ==
  LET s == key[r] IN
  /\ pc[r] = "resolved"
  /\ InsertScan(s)
  /\ IF stored[s] # NoDecision
       THEN Answer(r, 200, stored[s])
       ELSE Goto(r, "submitted") /\ UNCHANGED answer
  /\ UNCHANGED <<details, rows, decision, stored, unnoted, key, parsed, found,
                 decided>>

\* claimScan without its status=eq.accepted filter.
ClaimsAnyOpen(s) == scan[s] \in {"accepted", "processing"}

\* claimScan: a compare-and-set on status=eq.accepted.
Claims(s) == scan[s] = "accepted"

\* Without the claim the answer is 202 'processing', whatever the scan's status.
ClaimScan(r) ==
  LET s == key[r] IN
  /\ pc[r] = "submitted"
  /\ IF Claims(s)
       THEN /\ scan' = [scan EXCEPT ![s] = "processing"]
            /\ Goto(r, "claimed")
            /\ UNCHANGED answer
       ELSE Answer(r, 202, NoDecision) /\ UNCHANGED scan
  /\ UNCHANGED <<linked, details, rows, decision, stored, unnoted, key, parsed,
                 found, decided>>

-------------------------------------------------------------------------------
(* The analysis *)

\* parseEml: a failure becomes part of the report.  Plain text is not parsed.
Parse(r, ok) ==
  /\ pc[r] = "claimed"
  /\ StageOf[key[r]] = 0 => ok
  /\ parsed' = [parsed EXCEPT ![r] = ok]
  /\ Goto(r, "parsed")
  /\ UNCHANGED <<dbVars, key, found, decided, answer>>

\* persistEmailDetails, the first of four writes; the endpoint now finds the report.
PersistDetails(r) ==
  /\ pc[r] = "parsed"
  /\ details' = details \cup {key[r]}
  /\ Goto(r, "detailed")
  /\ UNCHANGED <<scan, linked, rows, decision, stored, unnoted, key, parsed,
                 found, decided, answer>>

\* Promise.all over the content specialist and the link batch.  Without a parsed
\* message the content counts as failed, and there are no links.
StartSpecialists(r) ==
  /\ pc[r] = "detailed"
  /\ found' = [found EXCEPT ![r] =
                 [p \in Parts |->
                    IF parsed[r] /\ p \in PartsOf(key[r]) THEN "running"
                    ELSE IF p = "content" THEN "failed" ELSE "none"]]
  /\ Goto(r, "specialists")
  /\ UNCHANGED <<dbVars, key, parsed, decided, answer>>

\* A branch goes on after another one has failed the request, unless the process died.
Running(r, p) == found[r][p] = "running" /\ pc[r] # "dead"

\* prepareModelRun fails: the failure has no row, it is only in memory.
PrepareFails(r, p) ==
  /\ Running(r, p)
  /\ found' = [found EXCEPT ![r][p] = "failed"]
  /\ UNCHANGED <<dbVars, key, pc, parsed, decided, answer>>

\* The model answers (or its provider fails), and recordEvidence writes the row.
Record(r, p, o) ==
  /\ Running(r, p)
  /\ rows' = [rows EXCEPT ![key[r]][p] = o]
  /\ found' = [found EXCEPT ![r][p] = o]
  /\ UNCHANGED <<scan, linked, details, decision, stored, unnoted, key, pc,
                 parsed, decided, answer>>

\* recordEvidence throws, with or without having written the row.
RecordFails(r, p, o) ==
  /\ Running(r, p)
  /\ rows' \in {rows, [rows EXCEPT ![key[r]][p] = o]}
  /\ found' = [found EXCEPT ![r][p] = "lost"]
  /\ pc' = [pc EXCEPT ![r] = IF @ = "specialists" THEN "failing" ELSE @]
  /\ UNCHANGED <<scan, linked, details, decision, stored, unnoted, key, parsed,
                 decided, answer>>

-------------------------------------------------------------------------------
(* The decision *)

\* The evidence rows of an investigation.
Recorded(s) ==
  {[part |-> p, outcome |-> rows[s][p]] : p \in {q \in Parts : rows[s][q] # "none"}}

\* Only what could be recorded, as the gateway correlates its stored rows.
RecordedInputs(r) == Recorded(key[r])

\* correlationInputs: what the specialists found, recorded or not, and the parser's
\* failure.
CorrelationInputs(r) ==
  {[part |-> p, outcome |-> found[r][p]] :
     p \in {q \in Parts : found[r][q] \in Outcomes}}
  \cup (IF parsed[r] THEN {} ELSE {[part |-> "parser", outcome |-> "failed"]})

\* A decision over what is there, without the await on the specialists.
CorrelateEarly(r, forensics) ==
  /\ pc[r] = "specialists"
  /\ LET inputs == CorrelationInputs(r) \cup forensics
     IN decided' = [decided EXCEPT ![r] =
                      [inputs |-> inputs, rec |-> Recommend(inputs)]]
  /\ Goto(r, "decided")
  /\ UNCHANGED <<dbVars, key, parsed, found, answer>>

\* All specialists have returned; gatewayObservationEvidence may hold reason codes
\* that score, but has no score of its own.
Correlate(r, forensics) ==
  /\ pc[r] = "specialists"
  /\ \A p \in Parts : found[r][p] # "running"
  /\ LET inputs == CorrelationInputs(r) \cup forensics
     IN decided' = [decided EXCEPT ![r] =
                      [inputs |-> inputs, rec |-> Recommend(inputs)]]
  /\ Goto(r, "decided")
  /\ UNCHANGED <<dbVars, key, parsed, found, answer>>

\* publishDecision; completeArtifacts beside it does not matter here.
PublishDecision(r) ==
  LET s == key[r] IN
  /\ pc[r] = "decided"
  /\ decision' = [decision EXCEPT ![s] = decided[r]]
  /\ scan' = [scan EXCEPT ![s] = IF @ = "processing" THEN "completed" ELSE @]
  /\ Goto(r, "published")
  /\ UNCHANGED <<linked, details, rows, stored, unnoted, key, parsed, found,
                 decided, answer>>

\* Its failure is logged, and the request goes on as if it had worked.
PublishFails(r) ==
  /\ pc[r] = "decided"
  /\ unnoted' = unnoted \cup {key[r]}
  /\ Goto(r, "published")
  /\ UNCHANGED <<scan, linked, details, rows, decision, stored, key, parsed,
                 found, decided, answer>>

\* storeIdempotentResponse, or its logged failure, and the answer.
StoreResponse(r) ==
  LET s == key[r] IN
  /\ pc[r] = "published"
  /\ stored' \in {stored, [stored EXCEPT ![s] = decided[r]]}
  /\ Answer(r, 200, decided[r])
  /\ UNCHANGED <<scan, linked, details, rows, decision, unnoted, key, parsed,
                 found, decided>>

-------------------------------------------------------------------------------
(* Failures *)

\* submitScan throws, with or without having inserted the scan.
SubmitFails(r) ==
  /\ pc[r] = "resolved"
  /\ InsertScan(key[r]) \/ UNCHANGED <<scan, linked>>
  /\ Answer(r, 500, NoDecision)
  /\ UNCHANGED <<details, rows, decision, stored, unnoted, key, parsed, found,
                 decided>>

\* claimScan throws; it is called before the try block, so that a claim that took
\* effect has no owner.
ClaimFails(r) ==
  LET s == key[r] IN
  /\ pc[r] = "submitted"
  /\ \/ UNCHANGED <<scan, unnoted>>
     \/ /\ Claims(s)
        /\ scan' = [scan EXCEPT ![s] = "processing"]
        /\ unnoted' = unnoted \cup {s}
  /\ Answer(r, 500, NoDecision)
  /\ UNCHANGED <<linked, details, rows, decision, stored, key, parsed, found,
                 decided>>

\* A call that is not caught on the spot throws: policy, artifact, storage,
\* authentication, child artifacts, one of the other writes, the passport.
RequestFails(r) ==
  /\ pc[r] \in {"claimed", "parsed", "detailed", "published"}
  /\ Goto(r, "failing")
  /\ UNCHANGED <<dbVars, key, parsed, found, decided, answer>>

\* A catch clause that forgets the scan.
FailQuietly(r) ==
  /\ pc[r] = "failing"
  /\ Answer(r, 500, NoDecision)
  /\ UNCHANGED <<dbVars, key, parsed, found, decided>>

\* failScan: status=in.(accepted,queued,processing,partially_completed); its own
\* failure is swallowed.
FailScan(r) ==
  LET s == key[r] IN
  /\ pc[r] = "failing"
  /\ \/ /\ scan' = [scan EXCEPT ![s] =
                      IF @ \in {"accepted", "processing"} THEN "failed" ELSE @]
        /\ UNCHANGED unnoted
     \/ unnoted' = unnoted \cup {s} /\ UNCHANGED scan
  /\ Answer(r, 500, NoDecision)
  /\ UNCHANGED <<linked, details, rows, decision, stored, key, parsed, found,
                 decided>>

RequestDies(r) ==
  /\ r \in Crashable
  /\ pc[r] \notin {"new", "dead"}
  /\ Goto(r, "dead")
  /\ UNCHANGED <<dbVars, key, parsed, found, decided, answer>>

\* cancelScan (gateway_request_cancel)
CancelScan(s) ==
  /\ \/ scan[s] = "accepted" /\ scan' = [scan EXCEPT ![s] = "cancelled"]
     \/ /\ scan[s] = "processing"
        /\ \E c \in {"cancel_requested", "cancelled"} :
             scan' = [scan EXCEPT ![s] = c]
  /\ UNCHANGED <<linked, details, rows, decision, stored, unnoted, requestVars>>

-------------------------------------------------------------------------------
(* The evidence endpoint: emailEvidenceReport and scanReport, in parallel *)

\* emailEvidenceReport: nothing without details, the stored response's evidence if it
\* carries a schema version and a passport (the analysis stores none without, others
\* may have), or a report rebuilt from the rows.
ReportedEvidence(s) ==
  IF s \notin details THEN {}
  ELSE IF stored[s] # NoDecision /\ s \in Sealed THEN stored[s].inputs
  ELSE Recorded(s)

\* The decision of the stored response, or else the latest decision.
ReportedDecision(s) == IF stored[s] # NoDecision THEN stored[s] ELSE decision[s]

-------------------------------------------------------------------------------
Init ==
  /\ scan = [s \in Scans |-> "none"]
  /\ linked = [s \in Scans |-> {}]
  /\ details = {}
  /\ rows = [s \in Scans |-> [p \in Parts |-> "none"]]
  /\ decision = [s \in Scans |-> NoDecision]
  /\ stored = [s \in Scans |-> NoDecision]
  /\ unnoted = {}
  /\ key \in [Requests -> Scans]
  /\ pc = [r \in Requests |-> "new"]
  /\ parsed = [r \in Requests |-> TRUE]
  /\ found = [r \in Requests |-> [p \in Parts |-> "none"]]
  /\ decided = [r \in Requests |-> NoDecision]
  /\ answer = [r \in Requests |-> NoAnswer]

Forensics == {{}, {[part |-> "forensics", outcome |-> "risky"]}}

SpecialistStep(r, p) ==
  \/ PrepareFails(r, p)
  \/ \E o \in Outcomes : Record(r, p, o) \/ RecordFails(r, p, o)

RequestStep(r) ==
  \/ ResolveParent(r) \/ Submit(r) \/ ClaimScan(r)
  \/ \E ok \in BOOLEAN : Parse(r, ok)
  \/ PersistDetails(r) \/ StartSpecialists(r)
  \/ \E forensics \in Forensics : Correlate(r, forensics)
  \/ PublishDecision(r) \/ PublishFails(r) \/ StoreResponse(r) \/ FailScan(r)

Next ==
  \/ \E r \in Requests :
       \/ RequestStep(r)
       \/ SubmitFails(r) \/ ClaimFails(r) \/ RequestFails(r) \/ RequestDies(r)
       \/ \E p \in Parts : SpecialistStep(r, p)
  \/ \E s \in Scans : CancelScan(s)

Spec == Init /\ [][Next]_vars

\* A request that has begun runs on unless its process dies; a model call ends by
\* modelTimeoutMs.
Fairness ==
  \A r \in Requests :
    /\ WF_vars(pc[r] # "new" /\ RequestStep(r))
    /\ \A p \in Parts : WF_vars(SpecialistStep(r, p))

FairSpec == Spec /\ Fairness

-------------------------------------------------------------------------------
(* Properties *)

Places == {"new", "resolved", "submitted", "claimed", "parsed", "detailed",
           "specialists", "decided", "published", "failing", "over", "dead"}

TypeOK ==
  /\ scan \in [Scans -> Statuses]
  /\ linked \in [Scans -> SUBSET Scans]
  /\ details \subseteq Scans
  /\ rows \in [Scans -> [Parts -> Outcomes \cup {"none"}]]
  /\ decision \in [Scans -> Decisions]
  /\ stored \in [Scans -> Decisions]
  /\ unnoted \subseteq Scans
  /\ key \in [Requests -> Scans]
  /\ pc \in [Requests -> Places]
  /\ parsed \in [Requests -> BOOLEAN]
  /\ found \in [Requests -> [Parts -> Outcomes \cup {"none", "running", "lost"}]]
  /\ decided \in [Requests -> Decisions]
  /\ answer \in [Requests -> Answers]

\* Every decision the system gives out for s, in whatever way.
Told(s) ==
  ({decision[s], stored[s]}
   \cup {answer[r].decision : r \in {q \in Requests : key[q] = s}}) \ {NoDecision}

\* The answer of the request that did the analysis, a retry's answer, the stored
\* response, the published decision and the evidence endpoint all give the same
\* decision, with the same evidence behind it: although publication and storage may
\* fail separately, no retry analyses the message again (claimScan, service.js:432).
AnswersAgree == \A s \in Scans : \A d, e \in Told(s) : d = e

\* How the rows look from outside: whether an investigation is there and open or in which
\* status it settled, what its claimant decided, and what is on record of it.
Phase ==
  [s \in Scans |-> IF scan[s] = "none" THEN "absent"
                   ELSE IF scan[s] \in {"accepted", "processing"} THEN "open" ELSE scan[s]]
Reached ==
  [s \in Scans |-> {decided[r] : r \in {q \in Requests : key[q] = s}} \ {NoDecision}]
Published == [s \in Scans |-> {decision[s], stored[s]} \ {NoDecision}]

Verdict == INSTANCE OneVerdict WITH
  NoVerdict <- NoDecision, phase <- Phase, reached <- Reached, published <- Published

\* Seen from outside, all requests of all investigations, their specialists and their
\* failures keep what OneVerdict says: one verdict, in whatever is answered or on record,
\* and a status that settles once (service.js: claimScan 432, publishDecision 663,
\* storeIdempotentResponse 736, failScan 743).
VerdictSpec == Verdict!Spec

\* What could not be analysed shows in every decision given out: a message that
\* could not be parsed, a model without a version, a provider that failed, recorded
\* or not, is a failed input, and under an escalating policy no such decision allows.
FailureShows ==
  \A s \in Scans : \A d \in Told(s) : \A r \in Requests :
    key[r] = s /\ (~parsed[r] \/ \E p \in Parts : found[r][p] = "failed")
    => /\ HasOutcome(d.inputs, "failed")
       /\ FailMode = "escalate" => d.rec # "allow"

\* An evidence upgrade is linked to a completed investigation of an earlier stage,
\* although the parent is read before the scan is inserted and keeps running beside
\* it (lineage.js:24).
LineageForward ==
  \A s \in Scans : \A p \in linked[s] :
    scan[p] = "completed" /\ StageOf[p] < StageOf[s]

\* The evidence endpoint reads the evidence and the decision apart, and its caller
\* polls (v2.js:154): whichever is read first, the decision shown accounts for every
\* outcome shown, because evidence is only added, never after a decision that does
\* not have it, and a decision once shown stays.
ReadsAgree ==
  [][\A s \in Scans :
       /\ ReportedEvidence(s) \subseteq ReportedEvidence(s)'
       /\ ReportedDecision(s) # NoDecision
            => ReportedDecision(s)' = ReportedDecision(s)
       /\ ReportedDecision(s)' # NoDecision
            => ReportedEvidence(s)' \subseteq ReportedDecision(s)'.inputs]_vars

\* An investigation is not left in processing, unless its outcome could not be
\* written (the errors of publishDecision and failScan are swallowed), the answer of
\* claimScan got lost or a process died: nothing takes up such e-mail scans.
EventuallySettled ==
  \A s \in Scans :
    scan[s] = "processing" ~>
      \/ scan[s] # "processing"
      \/ s \in unnoted
      \/ \E r \in Crashable : key[r] = s
===============================================================================
