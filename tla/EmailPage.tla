------------------------------- MODULE EmailPage -------------------------------
(***************************************************************************)
(* The e-mail investigation page (assets/js/pages/email-investigation.js)   *)
(* and what it recovers when a request fails: one page, which remembers the *)
(* last scan, key and request body from one submission to the next, against *)
(* the server, whose scans have the Idempotency-Key they were submitted     *)
(* under.  The n-th submission is of message n.  analysis-progress.js reads *)
(* the stream of the answer.                                                *)
(***************************************************************************)
EXTENDS Naturals

CONSTANT MaxSubmissions  \* bound: times the form is submitted

ASSUME EmailPageAssumption == MaxSubmissions \in Nat \ {0}

\* A recent investigation of somebody else in the workspace.
Colleague == MaxSubmissions + 1
ScanIds == 1..Colleague

VARIABLES
  serverScan,    \* each scan's status, and the message it is about
  pageStep,      \* what the page is doing; "form" when it is not busy
  pageView,      \* what it shows: the form, a report, or a failure
  kept,          \* state.lastScanId, lastIdempotencyKey and lastRequestBody, 0 for null
  progressScan,  \* lastScanId of the progress display
  candidate,     \* the scan the page tries to load
  pageTries,     \* attempts of the present strategy
  submission,    \* the submissions so far
  borrowed       \* history: the report asked for is not of this submission, because
                 \* nothing was sent, or no scan was known and a recent one was taken

pageVars == <<serverScan, pageStep, pageView, kept, progressScan, candidate, pageTries,
              submission, borrowed>>

EmailPageInit ==
  /\ serverScan = [s \in ScanIds |-> IF s = Colleague THEN [status |-> "completed", message |-> s]
                                     ELSE [status |-> "none", message |-> 0]]
  /\ pageStep = "form" /\ pageView = "form"
  /\ kept = [scan |-> 0, key |-> 0, body |-> 0]
  /\ progressScan = 0 /\ candidate = 0 /\ pageTries = 0 /\ submission = 0
  /\ borrowed = FALSE

Serves(s) == serverScan[s].status = "completed"

\* A new submission that keeps the scan of the last progress event.
KeepsProgress == UNCHANGED progressScan

\* analysisProgress.begin.
BeginProgress == progressScan' = 0

\* The submit handler: not while busy, and a report hides the form.
SubmitForm ==
  /\ pageStep = "form" /\ pageView # "report" /\ submission < MaxSubmissions
  /\ submission' = submission + 1 /\ pageStep' = "context"
  /\ BeginProgress
  /\ borrowed' = FALSE
  /\ UNCHANGED <<serverScan, pageView, kept, candidate, pageTries>>

\* "New investigation": the key and the body of the last request stay.
NewInvestigation ==
  /\ pageStep = "form" /\ pageView # "form"
  /\ pageView' = "form" /\ kept' = [kept EXCEPT !.scan = 0]
  /\ UNCHANGED <<serverScan, pageStep, progressScan, candidate, pageTries, submission, borrowed>>

\* renderPrimarySummary.
ShowReport(s) ==
  /\ pageStep' = "form" /\ pageView' = "report"
  /\ candidate' = s
  /\ kept' = [kept EXCEPT !.scan = s]
  /\ UNCHANGED <<progressScan, pageTries, submission, borrowed>>

\* recoverInterruptedInvestigation, for every error without a status and every 5xx:
\* the scan known from the last page state or the last progress event is polled,
\* then the last request is replayed under its key, then the recent scans are read.
AfterPolling(key, body) == IF key # 0 /\ body # 0 THEN "replay" ELSE "recent"
StartRecovery(last) ==
  LET known == IF last.scan # 0 THEN last.scan ELSE progressScan IN
  /\ candidate' = known /\ pageTries' = 0
  /\ pageStep' = IF known # 0 THEN "polling" ELSE AfterPolling(last.key, last.body)

\* requestInvestigation: the session lookup fails, an error without a status.
SessionFails ==
  /\ pageStep = "context"
  /\ StartRecovery(kept) /\ borrowed' = TRUE
  /\ UNCHANGED <<serverScan, pageView, kept, progressScan, submission>>

\* The key is renewed and the last scan forgotten; then the message is validated, and
\* an invalid one (an error without a status too) leaves the body of the last request.
PrepareRequest(valid) ==
  LET renewed == [kept EXCEPT !.scan = 0, !.key = submission, !.body = IF valid THEN submission ELSE @] IN
  /\ pageStep = "context"
  /\ kept' = renewed
  /\ IF valid THEN pageStep' = "sent" /\ UNCHANGED <<candidate, pageTries, borrowed>>
     ELSE StartRecovery(renewed) /\ borrowed' = TRUE
  /\ UNCHANGED <<serverScan, pageView, progressScan, submission>>

\* The server takes the request.
ReceiveRequest ==
  /\ pageStep = "sent" /\ serverScan[kept.key].status = "none"
  /\ serverScan' = [serverScan EXCEPT ![kept.key] = [status |-> "processing", message |-> kept.body]]
  /\ UNCHANGED <<pageStep, pageView, kept, progressScan, candidate, pageTries, submission, borrowed>>

\* The analysis goes on, whether or not the page still listens.
ServerFinishes(s) ==
  /\ serverScan[s].status = "processing"
  /\ \E status \in {"completed", "failed"} : serverScan' = [serverScan EXCEPT ![s].status = status]
  /\ UNCHANGED <<pageStep, pageView, kept, progressScan, candidate, pageTries, submission, borrowed>>

\* A progress event with the scan's id.
ReadProgress ==
  /\ pageStep = "sent" /\ serverScan[kept.key].status # "none" /\ progressScan # kept.key
  /\ progressScan' = kept.key
  /\ UNCHANGED <<serverScan, pageStep, pageView, kept, candidate, pageTries, submission, borrowed>>

\* The final event; an error with a status below 500, or an answer that the scan is still
\* being processed; or an end without a result: a time-out, a broken stream, an event out
\* of sequence, or an answer above 499.
ReadAnswer ==
  /\ pageStep = "sent"
  /\ \/ Serves(kept.key) /\ ShowReport(kept.key)
     \/ /\ pageStep' = "form" /\ pageView' = "failure"
        /\ UNCHANGED <<kept, progressScan, candidate, pageTries, submission, borrowed>>
     \/ StartRecovery(kept) /\ UNCHANGED <<pageView, kept, progressScan, submission, borrowed>>
  /\ UNCHANGED serverScan

\* Strategy 1: the evidence of the known scan, six times.
PollEvidence ==
  /\ pageStep = "polling"
  /\ \/ Serves(candidate) /\ ShowReport(candidate)
     \/ /\ pageTries < 5 /\ pageTries' = pageTries + 1
        /\ UNCHANGED <<pageStep, pageView, kept, progressScan, candidate, submission, borrowed>>
     \/ /\ pageTries = 5 /\ pageTries' = 0 /\ pageStep' = AfterPolling(kept.key, kept.body)
        /\ UNCHANGED <<pageView, kept, progressScan, candidate, submission, borrowed>>
  /\ UNCHANGED serverScan

\* Strategy 2: the same key and body, four times.  The server creates the scan if the
\* key is new to it; a scan that is not finished, or failed, answers "processing".
ReplayRequest ==
  LET s == kept.key IN
  /\ pageStep = "replay"
  /\ \/ /\ serverScan[s].status = "none"
        /\ \E status \in {"processing", "completed"} :
             /\ serverScan' = [serverScan EXCEPT ![s] = [status |-> status, message |-> kept.body]]
             /\ IF status = "completed" THEN ShowReport(s)
                ELSE /\ pageTries < 3 /\ pageTries' = pageTries + 1
                     /\ UNCHANGED <<pageStep, pageView, kept, progressScan, candidate, submission, borrowed>>
     \/ Serves(s) /\ ShowReport(s) /\ UNCHANGED serverScan
     \/ /\ serverScan[s].status \in {"processing", "failed"}
        /\ kept' = [kept EXCEPT !.scan = s] /\ candidate' = s
        /\ pageTries' = 0 /\ pageStep' = "loading"
        /\ UNCHANGED <<serverScan, pageView, progressScan, submission, borrowed>>
     \/ /\ IF pageTries < 3 THEN pageTries' = pageTries + 1 /\ UNCHANGED pageStep
           ELSE pageTries' = 0 /\ pageStep' = "recent"
        /\ UNCHANGED <<serverScan, pageView, kept, progressScan, candidate, submission, borrowed>>

\* Strategy 3: one of the last three scans, the known one if there is one; or nothing,
\* and the error is shown.
ReadRecent ==
  /\ pageStep = "recent"
  /\ \/ \E s \in ScanIds :
          /\ Serves(s) /\ candidate \in {0, s}
          /\ borrowed' = (borrowed \/ candidate = 0)
          /\ candidate' = s /\ pageTries' = 0 /\ pageStep' = "loading"
          /\ UNCHANGED pageView
     \/ /\ pageStep' = "form" /\ pageView' = "failure"
        /\ UNCHANGED <<candidate, pageTries, borrowed>>
  /\ UNCHANGED <<serverScan, kept, progressScan, submission>>

\* loadSavedInvestigation: again, up to four times, only while the evidence is not
\* found; evidence without a decision is a failure at once.
LoadSaved ==
  /\ pageStep = "loading"
  /\ \/ Serves(candidate) /\ ShowReport(candidate)
     \/ /\ pageTries < 3 /\ ~Serves(candidate) /\ pageTries' = pageTries + 1
        /\ UNCHANGED <<pageStep, pageView, kept, progressScan, candidate, submission, borrowed>>
     \/ /\ pageStep' = "form" /\ pageView' = "failure"
        /\ UNCHANGED <<kept, progressScan, candidate, pageTries, submission, borrowed>>
  /\ UNCHANGED serverScan

EmailPageNext ==
  \/ SubmitForm \/ NewInvestigation \/ SessionFails \/ ReceiveRequest \/ ReadProgress
  \/ ReadAnswer \/ PollEvidence \/ ReplayRequest \/ ReadRecent \/ LoadSaved
  \/ \E valid \in BOOLEAN : PrepareRequest(valid)
  \/ \E s \in ScanIds : ServerFinishes(s)

EmailPageSpec == EmailPageInit /\ [][EmailPageNext]_pageVars

-------------------------------------------------------------------------------
(* Properties *)

PageTypeOK ==
  /\ serverScan \in [ScanIds -> [status : {"none", "processing", "completed", "failed"},
                                 message : 0..Colleague]]
  /\ pageStep \in {"form", "context", "sent", "polling", "replay", "recent", "loading"}
  /\ pageView \in {"form", "report", "failure"}
  /\ kept \in [scan : 0..Colleague, key : 0..MaxSubmissions, body : 0..MaxSubmissions]
  /\ progressScan \in 0..MaxSubmissions /\ candidate \in 0..Colleague
  /\ pageTries \in 0..5 /\ submission \in 0..MaxSubmissions
  /\ borrowed \in BOOLEAN

\* The report the page shows is of the message just submitted, however the request
\* failed and by whichever strategy it was recovered (email-investigation.js:932-1012).
\* The exceptions are in the code: when nothing was sent (the session lookup failed, or
\* the message was invalid) the page recovers an earlier submission, and when no scan
\* is known it takes a recent one of the workspace.
ShowsOwnReport ==
  pageView = "report" /\ pageStep = "form" /\ ~borrowed
    => serverScan[candidate].message = submission
===============================================================================
