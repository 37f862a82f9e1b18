------------------------------- MODULE Metering -------------------------------
(***************************************************************************)
(* Metered analyses: the routes of /api/v1 (lib/routes/v1, lib/api-keys.js) *)
(* and the analysis routes of the web pages (lib/routes/detection, with     *)
(* runScanLifecycle of lib/supabase-server.js).  Each call reserves a row   *)
(* under its request id, runs the analysis, and settles the row: usage for  *)
(* the API, a scan record for the web.  The reservation and the settlement  *)
(* are database RPCs that are not in the repository: what is modelled is    *)
(* what the callers rely on, and any of them may take effect without its    *)
(* answer arriving (supabaseFetch times out or throws).                     *)
(***************************************************************************)
EXTENDS Integers, FiniteSets

CONSTANTS
  Calls,          \* requests
  CallIds,        \* request ids: a hash of the Idempotency-Key, or a random one
  IdOf,           \* the request id a call carries
  RouteOf,        \* the route it asks for
  UsageQuota,     \* rows the plan and the key's daily limit have room for
  HitLimit,       \* calls per day and endpoint of consume_api_rate_limit
  MaxCallFaults   \* bound: lost database answers and killed processes

ApiRoutes == {"v1/phishing", "v1/link-check", "v1/deepfake"}
PageRoutes == {"phishing", "link", "deepfake"}
Routes == ApiRoutes \cup PageRoutes \cup {"v1/usage"}

ASSUME MeteringAssumption ==
  /\ IsFiniteSet(CallIds)
  /\ IdOf \in [Calls -> CallIds]
  /\ RouteOf \in [Calls -> Routes]
  /\ UsageQuota \in Nat /\ HitLimit \in Nat /\ MaxCallFaults \in Nat
  \* 'api:' ids are shared by the v1 analyses, 'web:' ids name their scope, and the
  \* event of a usage read is a row of its own
  /\ \A c, d \in Calls :
       IdOf[c] = IdOf[d] => RouteOf[c] = RouteOf[d] \/ {RouteOf[c], RouteOf[d]} \subseteq ApiRoutes

VARIABLES
  keyActive,    \* the API key's row is active and within its dates
  hits,         \* the counters of the rate limit
  row,          \* the usage or scan row of a request id
  callPc,       \* where a call is
  callAnswer,   \* what its client was told
  callFaults    \* history: faults so far

meteringVars == <<keyActive, hits, row, callPc, callAnswer, callFaults>>

RowStates == {"none", "open", "success", "error"}
CallSteps ==
  {"unsent", "start", "read", "admitted", "limited", "reserved", "ready", "cropped", "analysed",
   "failing", "done"}
CallAnswers == {"none", "ok", "error", "duplicate", "refused"}

\* A call that reserved its row and has not settled it.
Holding(c) == callPc[c] \in {"reserved", "ready", "cropped", "analysed", "failing"}

Used == Cardinality({i \in CallIds : row[i] \in {"open", "success"}})

MeteringInit ==
  /\ keyActive = TRUE
  /\ hits = [r \in PageRoutes |-> 0]
  /\ row = [i \in CallIds |-> "none"]
  /\ callPc \in [Calls -> {"unsent", "start"}]
  /\ callAnswer = [c \in Calls |-> "none"]
  /\ callFaults = 0

-------------------------------------------------------------------------------
(* Steps of a request *)

To(c, step) == callPc' = [callPc EXCEPT ![c] = step]
End(c, answer) ==
  /\ To(c, "done")
  /\ callAnswer' = [callAnswer EXCEPT ![c] = answer]
Go(c, step) == To(c, step) /\ UNCHANGED callAnswer

\* A database call ends with its answer (no fault), or throws: then it took
\* effect or did not.
Faulty == callFaults < MaxCallFaults /\ callFaults' = callFaults + 1
NoFault == UNCHANGED callFaults

\* revokeApiKey: the row is looked up, then patched; a revoked key stays revoked.
\* not_before and expires_at change what verifyApiKey sees in the same way.
RevokeApiKey ==
  /\ keyActive
  /\ keyActive' = FALSE
  /\ UNCHANGED <<hits, row, callPc, callAnswer, callFaults>>

-------------------------------------------------------------------------------
(* The row of a request *)

\* The row can be reserved: never used, or of a call that failed (whether the id
\* of a failed call may be used again is decided inside the RPC).
Free(i) == row[i] \in {"none", "error"}

\* A reservation that is not looked up under its request id.
ReservesBlindly(i) == Used < UsageQuota

\* reserve_api_usage_atomic and create_scan_record_atomic.
Reserves(i) == Free(i) /\ Used < UsageQuota

\* Quota, duplicate (or the same id for another input or endpoint), or a new row.
\* When the answer is lost the row may be there, but the caller does not hold it.
Reservation(c, step) ==
  LET i == IdOf[c] IN
  \/ Reserves(i) /\ NoFault /\ Go(c, step) /\ row' = [row EXCEPT ![i] = "open"]
  \/ Reserves(i) /\ Faulty /\ End(c, "error") /\ row' = [row EXCEPT ![i] = "open"]
  \/ row[i] # "none" /\ NoFault /\ End(c, "duplicate") /\ UNCHANGED row
  \/ Free(i) /\ Used >= UsageQuota /\ NoFault /\ End(c, "refused") /\ UNCHANGED row
  \/ Faulty /\ End(c, "error") /\ UNCHANGED row

\* The row becomes a success; only when that is answered the result is sent.
SettlesSuccess(c) ==
  \/ NoFault /\ End(c, "ok") /\ row' = [row EXCEPT ![IdOf[c]] = "success"]
  \/ Faulty /\ Go(c, "failing") /\ row' = [row EXCEPT ![IdOf[c]] = "success"]
  \/ Faulty /\ Go(c, "failing") /\ UNCHANGED row

\* The row becomes an error.  It may already be settled as a success whose answer
\* was lost; whether it is then changed is decided inside the RPC.
SettlesError(c) ==
  \/ row' = [row EXCEPT ![IdOf[c]] = "error"]
  \/ /\ row[IdOf[c]] = "success" \/ callFaults' # callFaults
     /\ UNCHANGED row

\* The detection runs, or throws.
Analyse(c, step) ==
  /\ callPc[c] = step
  /\ Go(c, "analysed") \/ Go(c, "failing")
  /\ UNCHANGED <<keyActive, hits, row, callFaults>>

-------------------------------------------------------------------------------
(* Steps of the v1 routes *)

\* verifyApiKey and the scope check: 401 or 403, with auth still null.
VerifyApiKey(c) ==
  /\ callPc[c] = "start"
  /\ \/ keyActive /\ Go(c, "admitted") /\ NoFault
     \/ End(c, "error") /\ IF keyActive THEN Faulty ELSE NoFault
  /\ UNCHANGED <<keyActive, hits, row>>

\* The rest of requireApiKey; when it throws, auth is null and nobody settles.
ReserveUsage(c) ==
  /\ callPc[c] = "admitted" /\ Reservation(c, "reserved")
  /\ UNCHANGED <<keyActive, hits>>

\* Only now the body is read and validated.
ReadBody(c) ==
  /\ callPc[c] = "reserved"
  /\ Go(c, "ready") \/ Go(c, "failing")
  /\ UNCHANGED <<keyActive, hits, row, callFaults>>

\* Whatever the crop service answers, or if it does not: the crop it returned or
\* else the original image is analysed.
PrepareCroppedUpload(c) ==
  /\ callPc[c] = "ready" /\ Go(c, "cropped")
  /\ UNCHANGED <<keyActive, hits, row, callFaults>>

\* recordApiUsage 'success' under the reservation.
RecordApiUsage(c) ==
  /\ callPc[c] = "analysed" /\ SettlesSuccess(c)
  /\ UNCHANGED <<keyActive, hits>>

\* recordApiUsage 'error' in a catch block: when it throws itself, the handler
\* rejects without a body of its own.
RecordApiError(c) ==
  /\ callPc[c] = "failing"
  /\ \/ NoFault /\ End(c, "error")
     \/ Faulty /\ End(c, "none")
  /\ SettlesError(c)
  /\ UNCHANGED <<keyActive, hits>>

\* /api/v1/usage: enforceEntitlement, then recordApiUsage without a reservation:
\* an event of its own, whose loss is only logged.
ReadUsage(c) ==
  /\ callPc[c] = "admitted"
  /\ \/ NoFault /\ End(c, "error") /\ UNCHANGED row
     \/ NoFault /\ End(c, "ok") /\ row' = [row EXCEPT ![IdOf[c]] = "success"]
     \/ /\ Faulty /\ (End(c, "ok") \/ End(c, "error"))
        /\ \/ row' = [row EXCEPT ![IdOf[c]] = "success"]
           \/ UNCHANGED row
  /\ UNCHANGED <<keyActive, hits>>

-------------------------------------------------------------------------------
(* Steps of the page routes *)

\* The body is read and validated before anything is counted.
ReadInput(c) ==
  /\ callPc[c] = "start"
  /\ Go(c, "read") \/ End(c, "error")
  /\ UNCHANGED <<keyActive, hits, row, callFaults>>

\* getProfileContext (see Workspaces): signed in, with a workspace to work in.
LoadContext(c) ==
  /\ callPc[c] = "read"
  /\ Go(c, "admitted") \/ End(c, "error")
  /\ UNCHANGED <<keyActive, hits, row, callFaults>>

\* consumeRateLimit counts the call under its endpoint, refused or not yet.
EnforceRateLimit(c) ==
  /\ callPc[c] = "admitted"
  /\ LET counted == [hits EXCEPT ![RouteOf[c]] = @ + 1] IN
     \/ hits[RouteOf[c]] < HitLimit /\ Go(c, "limited") /\ NoFault /\ hits' = counted
     \/ hits[RouteOf[c]] >= HitLimit /\ End(c, "refused") /\ NoFault /\ UNCHANGED hits
     \/ End(c, "error") /\ Faulty /\ hits' \in {hits, counted}
  /\ UNCHANGED <<keyActive, row>>

\* createScanRecord, before the try block of runScanLifecycle; an Idempotency-Key
\* that is no key ends the call first.
CreateScanRecord(c) ==
  /\ callPc[c] = "limited"
  /\ \/ Reservation(c, "ready")
     \/ End(c, "error") /\ NoFault /\ UNCHANGED row
  /\ UNCHANGED <<keyActive, hits>>

CompleteScanRecord(c) ==
  /\ callPc[c] = "analysed" /\ SettlesSuccess(c)
  /\ UNCHANGED <<keyActive, hits>>

\* The client is told of the first error, whether the record could be failed or not.
FailScanRecord(c) ==
  /\ callPc[c] = "failing"
  /\ End(c, "error") /\ (NoFault \/ Faulty)
  /\ SettlesError(c)
  /\ UNCHANGED <<keyActive, hits>>

RunScanLifecycle(c) ==
  CreateScanRecord(c) \/ Analyse(c, "ready") \/ CompleteScanRecord(c) \/ FailScanRecord(c)

-------------------------------------------------------------------------------
(* The handlers *)

V1Phishing(c) ==
  /\ RouteOf[c] = "v1/phishing"
  /\ \/ VerifyApiKey(c) \/ ReserveUsage(c) \/ ReadBody(c) \/ Analyse(c, "ready")
     \/ RecordApiUsage(c) \/ RecordApiError(c)

V1LinkCheck(c) ==
  /\ RouteOf[c] = "v1/link-check"
  /\ \/ VerifyApiKey(c) \/ ReserveUsage(c) \/ ReadBody(c) \/ Analyse(c, "ready")
     \/ RecordApiUsage(c) \/ RecordApiError(c)

V1Deepfake(c) ==
  /\ RouteOf[c] = "v1/deepfake"
  /\ \/ VerifyApiKey(c) \/ ReserveUsage(c) \/ ReadBody(c) \/ PrepareCroppedUpload(c)
     \/ Analyse(c, "cropped") \/ RecordApiUsage(c) \/ RecordApiError(c)

V1Usage(c) == RouteOf[c] = "v1/usage" /\ (VerifyApiKey(c) \/ ReadUsage(c))

PagePhishing(c) ==
  /\ RouteOf[c] = "phishing"
  /\ \/ ReadInput(c) \/ LoadContext(c) \/ EnforceRateLimit(c)
     \/ RunScanLifecycle(c)

PageLinkCheck(c) ==
  /\ RouteOf[c] = "link"
  /\ \/ ReadInput(c) \/ LoadContext(c) \/ EnforceRateLimit(c)
     \/ RunScanLifecycle(c)

PageDeepfake(c) ==
  /\ RouteOf[c] = "deepfake"
  /\ \/ ReadInput(c) \/ LoadContext(c) \/ EnforceRateLimit(c)
     \/ RunScanLifecycle(c)

\* The function is killed (maximum duration, deployment): nobody is told.
CallDies(c) ==
  /\ callPc[c] \notin {"unsent", "done"} /\ Faulty
  /\ To(c, "done")
  /\ UNCHANGED <<keyActive, hits, row, callAnswer>>

CallStep(c) ==
  \/ V1Phishing(c) \/ V1LinkCheck(c) \/ V1Deepfake(c) \/ V1Usage(c)
  \/ PagePhishing(c) \/ PageLinkCheck(c) \/ PageDeepfake(c)

MeteringNext == RevokeApiKey \/ \E c \in Calls : CallStep(c) \/ CallDies(c)

MeteringSpec == MeteringInit /\ [][MeteringNext]_meteringVars

-------------------------------------------------------------------------------
(* Properties *)

MeteringTypeOK ==
  /\ keyActive \in BOOLEAN
  /\ hits \in [PageRoutes -> Nat]
  /\ row \in [CallIds -> RowStates]
  /\ callPc \in [Calls -> CallSteps]
  /\ callAnswer \in [Calls -> CallAnswers]
  /\ callFaults \in 0..MaxCallFaults

\* A result that was sent out is charged, and charged to one call: the row of the
\* call says success for good, whatever other calls with the same Idempotency-Key
\* do in the meantime, and no second call with that key got a result
\* (api-keys.js:293, supabase-server.js:462, the catch blocks of the routes).
ChargedOnce ==
  \A c \in Calls : callAnswer[c] = "ok" /\ RouteOf[c] # "v1/usage" =>
    /\ row[IdOf[c]] = "success"
    /\ \A d \in Calls \ {c} : IdOf[d] = IdOf[c] => callAnswer[d] # "ok"

\* Rows that count against the quota although no call will settle them.
Abandoned ==
  {i \in CallIds : row[i] = "open" /\ \A c \in Calls : IdOf[c] = i => ~Holding(c)}

\* Quota leaks only by faults: every reservation nobody will settle was paid for
\* by a database answer that was lost or a process that was killed.  An analysis
\* that fails, a duplicate or a refused call never leaves one behind.
LeaksAreFaults == Cardinality(Abandoned) <= callFaults

\* The quota is exact both ways: one charge for each result, and none without one
\* that a fault does not explain.
QuotaExact == ChargedOnce /\ LeaksAreFaults
===============================================================================
