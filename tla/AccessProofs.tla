----------------------------- MODULE AccessProofs -----------------------------
(***************************************************************************)
(* Proofs about what callers may use: Metering (a result is charged to one *)
(* call for good, only faults leave reservations behind), Accounts (an     *)
(* acknowledged payment event was processed, keys stay near the limit),    *)
(* Checkout (a checkout is opened for the workspace's own customer),       *)
(* Workspaces (one workspace of one's own, worked in as a member) and      *)
(* Sessions (who is signed in stays so), for any number of calls, request  *)
(* ids, events, deliveries, visits, tabs and faults; and about what they   *)
(* are told: Inference (no chunk outlives its budget), Detection (a worse  *)
(* input never gets a lower risk) and Enrichment (what is said of servers  *)
(* and domains is what was found out).                                     *)
(***************************************************************************)
EXTENDS Metering, Accounts, Checkout, Workspaces, Sessions, Inference, Detection, Enrichment,
        FiniteSetTheorems, TLAPS

\* What a call that holds a row knows about it: nobody else holds it, and it is
\* neither free nor of a call that only reads the usage.
HolderAt(c) ==
  Holding(c) =>
    /\ RouteOf[c] # "v1/usage"
    /\ row[IdOf[c]] \in {"open", "success"}
    /\ \A d \in Calls \ {c} : IdOf[d] = IdOf[c] => ~Holding(d)

\* What a result that was sent rests on: ChargedOnce, and nobody who could unsettle
\* its row.
SentAt(c) ==
  callAnswer[c] = "ok" =>
    /\ callPc[c] = "done"
    /\ RouteOf[c] # "v1/usage" =>
         /\ row[IdOf[c]] = "success"
         /\ \A d \in Calls \ {c} : IdOf[d] = IdOf[c] => ~Holding(d) /\ callAnswer[d] # "ok"

MeteringInv == MeteringTypeOK /\ \A c \in Calls : HolderAt(c) /\ SentAt(c)

-------------------------------------------------------------------------------
(* Steps *)

\* The steps of which the handlers are made.
StepOf(c) ==
  \/ VerifyApiKey(c) \/ (RouteOf[c] # "v1/usage" /\ ReserveUsage(c)) \/ ReadBody(c)
  \/ PrepareCroppedUpload(c) \/ Analyse(c, "ready") \/ Analyse(c, "cropped") \/ RecordApiUsage(c)
  \/ RecordApiError(c) \/ (RouteOf[c] = "v1/usage" /\ ReadUsage(c)) \/ ReadInput(c) \/ LoadContext(c)
  \/ (RouteOf[c] \in PageRoutes /\ EnforceRateLimit(c))
  \/ (RouteOf[c] # "v1/usage" /\ CreateScanRecord(c)) \/ CompleteScanRecord(c) \/ FailScanRecord(c)

LEMMA StepsOfHandlers ==
  ASSUME NEW c \in Calls, CallStep(c)
  PROVE  StepOf(c)
<1>1. CASE V1Phishing(c) \/ V1LinkCheck(c)
  BY <1>1 DEF V1Phishing, V1LinkCheck, StepOf
<1>2. CASE V1Deepfake(c) \/ V1Usage(c)
  BY <1>2 DEF V1Deepfake, V1Usage, StepOf
<1>3. CASE PagePhishing(c)
  BY <1>3 DEF PagePhishing, RunScanLifecycle, StepOf, PageRoutes
<1>4. CASE PageLinkCheck(c)
  BY <1>4 DEF PageLinkCheck, RunScanLifecycle, StepOf, PageRoutes
<1>5. CASE PageDeepfake(c)
  BY <1>5 DEF PageDeepfake, RunScanLifecycle, StepOf, PageRoutes
<1> QED
  BY <1>1, <1>2, <1>3, <1>4, <1>5 DEF CallStep

\* Every variable keeps its type.
LEMMA MeteringNextTyped == MeteringTypeOK /\ [MeteringNext]_meteringVars => MeteringTypeOK'
<1> SUFFICES ASSUME MeteringTypeOK, [MeteringNext]_meteringVars PROVE MeteringTypeOK'
  OBVIOUS
<1> USE MeteringAssumption
    DEF MeteringTypeOK, RowStates, CallSteps, CallAnswers, To, Go, End, Faulty, NoFault
<1>1. CASE RevokeApiKey
  BY <1>1 DEF RevokeApiKey
<1>2. ASSUME NEW c \in Calls, CallStep(c) PROVE MeteringTypeOK'
  <2>1. CASE VerifyApiKey(c)
    BY <2>1 DEF VerifyApiKey
  <2>2. CASE RouteOf[c] \in PageRoutes /\ EnforceRateLimit(c)
    <3>1. DEFINE counted == [hits EXCEPT ![RouteOf[c]] = @ + 1]
    <3>2. counted \in [PageRoutes -> Nat]
      BY <2>2
    <3> QED
      BY <2>2, <3>2 DEF EnforceRateLimit
  <2>3. CASE ReserveUsage(c) \/ CreateScanRecord(c)
    BY <2>3 DEF ReserveUsage, CreateScanRecord, Reservation
  <2>4. CASE Analyse(c, "ready") \/ Analyse(c, "cropped") \/ ReadBody(c) \/ PrepareCroppedUpload(c)
    BY <2>4 DEF Analyse, ReadBody, PrepareCroppedUpload
  <2>5. CASE RecordApiUsage(c) \/ CompleteScanRecord(c)
    BY <2>5 DEF RecordApiUsage, CompleteScanRecord, SettlesSuccess
  <2>6. CASE RecordApiError(c) \/ FailScanRecord(c)
    BY <2>6 DEF RecordApiError, FailScanRecord, SettlesError
  <2>7. CASE ReadUsage(c)
    BY <2>7 DEF ReadUsage
  <2>8. CASE ReadInput(c) \/ LoadContext(c)
    BY <2>8 DEF ReadInput, LoadContext
  <2> QED
    BY <1>2, StepsOfHandlers, <2>1, <2>2, <2>3, <2>4, <2>5, <2>6, <2>7, <2>8 DEF StepOf
<1>3. ASSUME NEW c \in Calls, CallDies(c) PROVE MeteringTypeOK'
  BY <1>3 DEF CallDies
<1>4. CASE UNCHANGED meteringVars
  BY <1>4 DEF meteringVars
<1> QED
  BY <1>1, <1>2, <1>3, <1>4 DEF MeteringNext

\* A step of one call moves that call only.
LEMMA OthersStay ==
  ASSUME MeteringTypeOK, NEW c \in Calls, CallStep(c) \/ CallDies(c), NEW d \in Calls, d # c
  PROVE  callPc'[d] = callPc[d] /\ callAnswer'[d] = callAnswer[d]
BY StepsOfHandlers
   DEF MeteringTypeOK, StepOf, CallDies, VerifyApiKey, ReserveUsage, ReadBody, PrepareCroppedUpload,
       Analyse, RecordApiUsage, RecordApiError, ReadUsage, ReadInput, LoadContext, EnforceRateLimit,
       CreateScanRecord, CompleteScanRecord, FailScanRecord, Reservation, SettlesSuccess, To, Go, End

\* A step of one call changes no row but its own.
LEMMA OtherRowsStay ==
  ASSUME MeteringTypeOK, NEW c \in Calls, CallStep(c) \/ CallDies(c), NEW i \in CallIds, i # IdOf[c]
  PROVE  row'[i] = row[i]
BY MeteringAssumption, StepsOfHandlers
   DEF MeteringTypeOK, StepOf, CallDies, VerifyApiKey, ReserveUsage, ReadBody, PrepareCroppedUpload,
       Analyse, RecordApiUsage, RecordApiError, ReadUsage, ReadInput, LoadContext, EnforceRateLimit,
       CreateScanRecord, CompleteScanRecord, FailScanRecord, Reservation, SettlesSuccess, SettlesError

\* What a call's own step makes of its row, its place and its answer.
OwnStep(c) ==
  LET i == IdOf[c] IN
  \* nothing is held before and after
  \/ ~Holding(c) /\ ~Holding(c)' /\ row'[i] = row[i] /\ callAnswer'[c] # "ok"
  \* the row is reserved, with or without the answer
  \/ /\ RouteOf[c] # "v1/usage" /\ Free(i) /\ row'[i] = "open" /\ callAnswer'[c] # "ok"
     /\ Holding(c)' \/ callFaults' = callFaults + 1
  \* the row is held on
  \/ Holding(c) /\ Holding(c)' /\ row'[i] \in {row[i], "success"} /\ callAnswer'[c] = callAnswer[c]
  \* the row is settled
  \/ Holding(c) /\ row'[i] = "success" /\ callAnswer'[c] = "ok" /\ callPc'[c] = "done"
  \/ Holding(c) /\ ~Holding(c)' /\ row'[i] \in {"error", "success"} /\ callAnswer'[c] # "ok"
  \* or left behind
  \/ /\ Holding(c) /\ ~Holding(c)' /\ row'[i] = row[i] /\ callFaults' = callFaults + 1
     /\ callAnswer'[c] # "ok"
  \* the usage is read
  \/ /\ RouteOf[c] = "v1/usage" /\ ~Holding(c) /\ callPc'[c] = "done"
     /\ row'[i] \in {row[i], "success"}

LEMMA OwnSteps ==
  ASSUME MeteringInv, NEW c \in Calls, CallStep(c) \/ CallDies(c)
  PROVE  OwnStep(c)
<1> USE MeteringAssumption DEF MeteringInv, MeteringTypeOK, CallSteps, CallAnswers, RowStates
<1>0. IdOf[c] \in CallIds /\ (callPc[c] # "done" => callAnswer[c] # "ok")
  BY DEF SentAt
<1> USE <1>0 DEF Holding, OwnStep, To, Go, End, Faulty, NoFault
<1>1. CASE VerifyApiKey(c) \/ ReadInput(c) \/ LoadContext(c)
  BY <1>1 DEF VerifyApiKey, ReadInput, LoadContext
<1>2. CASE EnforceRateLimit(c)
  BY <1>2 DEF EnforceRateLimit
<1>3. CASE RouteOf[c] # "v1/usage" /\ (ReserveUsage(c) \/ CreateScanRecord(c))
  BY <1>3 DEF ReserveUsage, CreateScanRecord, Reservation, Reserves
<1>4. CASE Analyse(c, "ready") \/ Analyse(c, "cropped") \/ ReadBody(c) \/ PrepareCroppedUpload(c)
  BY <1>4 DEF Analyse, ReadBody, PrepareCroppedUpload
<1>5. CASE RecordApiUsage(c) \/ CompleteScanRecord(c)
  BY <1>5 DEF RecordApiUsage, CompleteScanRecord, SettlesSuccess
<1>6. CASE RecordApiError(c) \/ FailScanRecord(c)
  BY <1>6 DEF RecordApiError, FailScanRecord, SettlesError
<1>7. CASE RouteOf[c] = "v1/usage" /\ ReadUsage(c)
  BY <1>7 DEF ReadUsage
<1>8. CASE CallDies(c)
  BY <1>8 DEF CallDies
<1> QED
  BY <1>1, <1>2, <1>3, <1>4, <1>5, <1>6, <1>7, <1>8, StepsOfHandlers DEF StepOf
-------------------------------------------------------------------------------
(* Charged once *)

\* A step of a call keeps what every holder and every sent result rests on.
LEMMA CallStepKeepsRows ==
  ASSUME MeteringInv, NEW c \in Calls, CallStep(c) \/ CallDies(c), NEW d \in Calls
  PROVE  HolderAt(d)' /\ SentAt(d)'
<1> USE MeteringAssumption DEF MeteringInv
<1>own. OwnStep(c)
  BY OwnSteps
<1>others. \A e \in Calls \ {c} : callPc'[e] = callPc[e] /\ callAnswer'[e] = callAnswer[e]
  BY OthersStay
<1>rows. \A i \in CallIds : i # IdOf[c] => row'[i] = row[i]
  BY OtherRowsStay
<1>ids. \A e \in Calls : IdOf[e] \in CallIds /\ (IdOf[e] = IdOf[d] => (RouteOf[e] = "v1/usage" <=> RouteOf[d] = "v1/usage"))
  BY DEF ApiRoutes
<1>at. HolderAt(c) /\ SentAt(c) /\ HolderAt(d) /\ SentAt(d)
  OBVIOUS
<1>1. CASE IdOf[d] # IdOf[c]
  <2>1. row'[IdOf[d]] = row[IdOf[d]]
    BY <1>1, <1>rows, <1>ids
  <2>2. \A e \in Calls : IdOf[e] = IdOf[d] => callPc'[e] = callPc[e] /\ callAnswer'[e] = callAnswer[e]
    BY <1>1, <1>others
  <2> QED
    BY <2>1, <2>2, <1>at DEF HolderAt, SentAt, Holding
<1>2. CASE d # c /\ IdOf[d] = IdOf[c]
  <2>1. HolderAt(d)'
    BY <1>2, <1>own, <1>others, <1>ids, <1>at DEF HolderAt, Holding, OwnStep, Free
  <2>2. SentAt(d)'
    BY <1>2, <1>own, <1>others, <1>ids, <1>at DEF HolderAt, SentAt, Holding, OwnStep, Free
  <2> QED
    BY <2>1, <2>2
<1>3. CASE d = c
  <2>1. HolderAt(c)'
    <3>1. ASSUME Free(IdOf[c]), NEW e \in Calls \ {c}, IdOf[e] = IdOf[c] PROVE ~Holding(e)
      BY <3>1 DEF HolderAt, Free
    <3> QED
      BY <3>1, <1>own, <1>others, <1>at DEF HolderAt, Holding, OwnStep
  <2>2. SentAt(c)'
    <3>1. ASSUME Holding(c), NEW e \in Calls \ {c}, IdOf[e] = IdOf[c]
          PROVE  ~Holding(e) /\ callAnswer[e] # "ok"
      BY <3>1, <1>3, <1>ids, <1>at DEF HolderAt, SentAt
    <3>2. Holding(c) => callAnswer[c] # "ok"
      BY <1>at DEF SentAt, Holding
    <3>3. CASE Holding(c) /\ row'[IdOf[c]] = "success" /\ callAnswer'[c] = "ok" /\ callPc'[c] = "done"
      BY <3>3, <3>1, <1>others DEF SentAt, Holding
    <3>4. CASE RouteOf[c] = "v1/usage" /\ callPc'[c] = "done"
      BY <3>4 DEF SentAt
    <3>5. CASE callAnswer'[c] # "ok"
      BY <3>5 DEF SentAt
    <3> QED
      BY <3>2, <3>3, <3>4, <3>5, <1>own DEF OwnStep
  <2> QED
    BY <2>1, <2>2, <1>3
<1> QED
  BY <1>1, <1>2, <1>3

LEMMA MeteringInvInit == MeteringInit => MeteringInv
BY MeteringAssumption
   DEF MeteringInit, MeteringInv, MeteringTypeOK, RowStates, CallSteps, CallAnswers, HolderAt, SentAt, Holding

LEMMA MeteringInvNext == MeteringInv /\ [MeteringNext]_meteringVars => MeteringInv'
<1> SUFFICES ASSUME MeteringInv, [MeteringNext]_meteringVars PROVE MeteringInv'
  OBVIOUS
<1>1. MeteringTypeOK'
  BY MeteringNextTyped DEF MeteringInv
<1>2. ASSUME NEW d \in Calls PROVE HolderAt(d)' /\ SentAt(d)'
  <2>1. CASE RevokeApiKey \/ UNCHANGED meteringVars
    BY <2>1 DEF MeteringInv, RevokeApiKey, meteringVars, HolderAt, SentAt, Holding
  <2>2. ASSUME NEW c \in Calls, CallStep(c) \/ CallDies(c) PROVE HolderAt(d)' /\ SentAt(d)'
    BY <2>2, CallStepKeepsRows
  <2> QED
    BY <2>1, <2>2 DEF MeteringNext
<1> QED
  BY <1>1, <1>2 DEF MeteringInv

LEMMA MeteringAlwaysInv == MeteringSpec => []MeteringInv
BY MeteringInvInit, MeteringInvNext, PTL DEF MeteringSpec

\* The rows, the calls and the answers keep their types.
THEOREM MeteringTypeCorrect == MeteringSpec => []MeteringTypeOK
<1>1. MeteringInv => MeteringTypeOK
  BY DEF MeteringInv
<1> QED
  BY <1>1, MeteringAlwaysInv, PTL

\* A result that was sent out is charged for good, and to one call only.
THEOREM AlwaysChargedOnce == MeteringSpec => []ChargedOnce
<1>1. MeteringInv => ChargedOnce
  BY DEF MeteringInv, SentAt, ChargedOnce
<1> QED
  BY <1>1, MeteringAlwaysInv, PTL

-------------------------------------------------------------------------------
(* Leaks *)

\* Nobody leaves a row behind but at the price of a fault.
LEMMA LeavesOneByFault ==
  ASSUME MeteringInv, NEW c \in Calls, CallStep(c) \/ CallDies(c)
  PROVE  \/ Abandoned' \subseteq Abandoned
         \/ callFaults' = callFaults + 1 /\ Abandoned' \subseteq Abandoned \cup {IdOf[c]}
<1> USE MeteringAssumption DEF MeteringInv
<1>own. OwnStep(c)
  BY OwnSteps
<1>others. \A e \in Calls \ {c} : callPc'[e] = callPc[e]
  BY OthersStay
<1>rows. \A i \in CallIds : i # IdOf[c] => row'[i] = row[i]
  BY OtherRowsStay
<1>1. ASSUME NEW i \in Abandoned', i # IdOf[c] PROVE i \in Abandoned
  BY <1>1, <1>others, <1>rows DEF Abandoned, Holding
<1>2. ASSUME IdOf[c] \in Abandoned', IdOf[c] \notin Abandoned PROVE callFaults' = callFaults + 1
  <2>1. row'[IdOf[c]] = "open" /\ ~Holding(c)'
    BY <1>2 DEF Abandoned
  <2>2. \A e \in Calls \ {c} : IdOf[e] = IdOf[c] => ~Holding(e)
    BY <1>2, <1>others DEF Abandoned, Holding
  <2>3. row[IdOf[c]] = "open" => Holding(c)
    BY <1>2, <2>2 DEF Abandoned
  <2> QED
    BY <1>own, <2>1, <2>3 DEF OwnStep
<1> QED
  BY <1>1, <1>2

LEMMA FaultsCount ==
  ASSUME MeteringTypeOK, [MeteringNext]_meteringVars
  PROVE  callFaults' \in Nat /\ callFaults' >= callFaults
<1> USE MeteringAssumption DEF MeteringTypeOK, Faulty, NoFault
<1>1. CASE RevokeApiKey \/ UNCHANGED meteringVars
  BY <1>1 DEF RevokeApiKey, meteringVars
<1>2. ASSUME NEW c \in Calls, CallStep(c) \/ CallDies(c) PROVE callFaults' \in Nat /\ callFaults' >= callFaults
  BY <1>2, StepsOfHandlers
     DEF StepOf, CallDies, VerifyApiKey, ReserveUsage, ReadBody, PrepareCroppedUpload, Analyse,
         RecordApiUsage, RecordApiError, ReadUsage, ReadInput, LoadContext, EnforceRateLimit,
         CreateScanRecord, CompleteScanRecord, FailScanRecord, Reservation, SettlesSuccess
<1> QED
  BY <1>1, <1>2 DEF MeteringNext

LEMMA AbandonedFinite == IsFiniteSet(Abandoned) /\ IsFiniteSet(Abandoned)'
BY MeteringAssumption, FS_Subset DEF Abandoned

LEMMA LeaksNext ==
  MeteringInv /\ LeaksAreFaults /\ [MeteringNext]_meteringVars => LeaksAreFaults'
<1> SUFFICES ASSUME MeteringInv, LeaksAreFaults, [MeteringNext]_meteringVars PROVE LeaksAreFaults'
  OBVIOUS
<1>0. /\ callFaults \in Nat /\ callFaults' \in Nat /\ callFaults' >= callFaults
      /\ IsFiniteSet(Abandoned) /\ IsFiniteSet(Abandoned')
      /\ Cardinality(Abandoned) \in Nat /\ Cardinality(Abandoned') \in Nat
      /\ Cardinality(Abandoned) <= callFaults
  BY FaultsCount, AbandonedFinite, FS_CardinalityType, MeteringAssumption
     DEF MeteringInv, MeteringTypeOK, LeaksAreFaults
<1>1. CASE Abandoned' \subseteq Abandoned
  <2>1. Cardinality(Abandoned') <= Cardinality(Abandoned)
    BY <1>0, <1>1, FS_Subset
  <2> QED
    BY <1>0, <2>1 DEF LeaksAreFaults
<1>2. ASSUME NEW i, callFaults' = callFaults + 1, Abandoned' \subseteq Abandoned \cup {i}
      PROVE  LeaksAreFaults'
  <2>1. /\ IsFiniteSet(Abandoned \cup {i})
        /\ Cardinality(Abandoned \cup {i}) \in {Cardinality(Abandoned), Cardinality(Abandoned) + 1}
    BY <1>0, FS_AddElement
  <2>2. Cardinality(Abandoned') <= Cardinality(Abandoned \cup {i})
    BY <1>2, <2>1, FS_Subset
  <2> QED
    BY <1>0, <1>2, <2>1, <2>2 DEF LeaksAreFaults
<1>3. CASE RevokeApiKey \/ UNCHANGED meteringVars
  <2>1. Abandoned' = Abandoned
    BY <1>3 DEF RevokeApiKey, meteringVars, Abandoned, Holding
  <2> QED
    BY <1>1, <2>1
<1>4. ASSUME NEW c \in Calls, CallStep(c) \/ CallDies(c) PROVE LeaksAreFaults'
  BY <1>1, <1>2, <1>4, LeavesOneByFault
<1> QED
  BY <1>3, <1>4 DEF MeteringNext

LEMMA LeaksInit == MeteringInit => LeaksAreFaults
<1> SUFFICES ASSUME MeteringInit PROVE LeaksAreFaults
  OBVIOUS
<1>1. Abandoned = {}
  BY DEF MeteringInit, Abandoned
<1> QED
  BY <1>1, FS_EmptySet DEF MeteringInit, LeaksAreFaults

\* The quota is exact: each result is charged once, for good, and a reservation
\* nobody settles was paid for by a fault.
THEOREM QuotaAlwaysExact == MeteringSpec => []QuotaExact
<1>1. ChargedOnce /\ LeaksAreFaults => QuotaExact
  BY DEF QuotaExact
<1>2. MeteringSpec => []LeaksAreFaults
  BY LeaksInit, LeaksNext, MeteringAlwaysInv, PTL DEF MeteringSpec
<1> QED
  BY <1>1, <1>2, AlwaysChargedOnce, PTL
-------------------------------------------------------------------------------
(* Payment events *)

BillingTypes ==
  /\ eventRow \in [Events -> {"none", "processing", "processed", "failed"}]
  /\ sent \in [Deliveries -> Events \cup {"none"}]
  /\ deliveryPc \in [Deliveries -> {"idle", "received", "claimed", "failing", "ended"}]
  /\ acked \subseteq Events
  /\ \A d \in Deliveries : Running(d) => sent[d] \in Events

\* d has claimed the event it delivers.
Claims(d) == deliveryPc[d] \in {"claimed", "failing"}

\* An event without a mishap has one delivery at most; its row is being processed
\* just while that delivery has claimed it, unless nobody will ever settle it; and what
\* was acknowledged is processed.
EventInv(e) ==
  e \notin mishap =>
    /\ \A d, o \in Deliveries : sent[d] = e /\ sent[o] = e /\ Running(d) /\ Running(o) => d = o
    /\ \A d \in Deliveries : sent[d] = e /\ Claims(d) => eventRow[e] = "processing"
    /\ \/ EventKind[e] = "orphan"
       \/ eventRow[e] # "processing"
       \/ \E d \in Deliveries : sent[d] = e /\ Claims(d)
    /\ e \in acked => EventKind[e] = "orphan" \/ eventRow[e] = "processed"

BillingInv == BillingTypes /\ \A e \in Events : EventInv(e)

\* The steps of a delivery.
DeliveryStep(d) ==
  \/ \E e \in Events : Send(d, e)
  \/ Reject(d) \/ ClaimEvent(d) \/ ApplySubscription(d) \/ PassOver(d)
  \/ BillingThrows(d) \/ FailEvent(d) \/ BillingDies(d)

LEMMA DeliveryTyped ==
  ASSUME BillingTypes, NEW d \in Deliveries, DeliveryStep(d)
  PROVE  BillingTypes'
BY DEF BillingTypes, DeliveryStep, Running, Send, Reject, ClaimEvent, ApplySubscription, PassOver,
       BillingThrows, FailEvent, BillingDies, BillingStep, Settle, NoBillingFault, Acknowledge

\* A delivery's step is about the event it delivers, and forgets no mishap.
LEMMA DeliveryOwn ==
  ASSUME BillingTypes, NEW d \in Deliveries, DeliveryStep(d), ~(\E e \in Events : Send(d, e))
  PROVE  /\ sent' = sent /\ mishap \subseteq mishap'
         /\ \A o \in Deliveries \ {d} : deliveryPc'[o] = deliveryPc[o]
         /\ \A e \in Events \ {sent[d]} :
              eventRow'[e] = eventRow[e] /\ (e \in acked' <=> e \in acked)
BY DEF BillingTypes, DeliveryStep, Running, Reject, ClaimEvent, ApplySubscription, PassOver,
       BillingThrows, FailEvent, BillingDies, BillingStep, Settle, BillingFault, NoBillingFault, Acknowledge

\* What a delivery's step makes of its own event, when it is no mishap.
LEMMA DeliveryRow ==
  ASSUME BillingTypes, NEW d \in Deliveries, DeliveryStep(d), ~(\E e \in Events : Send(d, e)),
         sent[d] \notin mishap'
  PROVE  LET e == sent[d] IN
         /\ e \in Events /\ Running(d)
         /\ \/ \* it ends before the claim
               deliveryPc[d] = "received" /\ deliveryPc'[d] = "ended" /\ eventRow' = eventRow /\ acked' = acked
            \/ \* the claim, or the answer that it is a duplicate
               /\ deliveryPc[d] = "received" /\ deliveryPc'[d] = "claimed"
               /\ eventRow[e] \in {"none", "failed"} /\ eventRow'[e] = "processing" /\ acked' = acked
            \/ /\ deliveryPc[d] = "received" /\ deliveryPc'[d] = "ended"
               /\ eventRow[e] \in {"processing", "processed"} /\ eventRow' = eventRow
            \/ \* the end of a claimed event
               /\ Claims(d) /\ deliveryPc'[d] = "ended"
               /\ \/ eventRow'[e] = "processed"
                  \/ EventKind[e] = "orphan" /\ eventRow' = eventRow
                  \/ eventRow'[e] = "failed" /\ eventRow[e] = "processing" /\ acked' = acked
                  \/ eventRow[e] # "processing" /\ eventRow' = eventRow /\ acked' = acked
            \/ Claims(d) /\ deliveryPc'[d] = "failing" /\ eventRow' = eventRow /\ acked' = acked
<1> USE DEF BillingTypes, Running, Claims, BillingStep, Settle, BillingFault, NoBillingFault, Acknowledge
<1>1. CASE Reject(d)
  BY <1>1 DEF Reject
<1>2. CASE ClaimEvent(d)
  BY <1>2 DEF ClaimEvent, MayClaim
<1>3. CASE ApplySubscription(d)
  BY <1>3 DEF ApplySubscription
<1>4. CASE PassOver(d)
  BY <1>4 DEF PassOver
<1>5. CASE BillingThrows(d)
  BY <1>5 DEF BillingThrows
<1>6. CASE FailEvent(d)
  BY <1>6 DEF FailEvent
<1>7. CASE BillingDies(d)
  BY <1>7 DEF BillingDies
<1> QED
  BY <1>1, <1>2, <1>3, <1>4, <1>5, <1>6, <1>7 DEF DeliveryStep

LEMMA DeliveryKeeps ==
  ASSUME BillingInv, NEW d \in Deliveries, DeliveryStep(d), NEW e \in Events
  PROVE  EventInv(e)'
<1> SUFFICES ASSUME e \notin mishap' PROVE EventInv(e)'
  BY DEF EventInv
<1>0. BillingTypes /\ EventInv(e)
  BY DEF BillingInv
<1>1. ASSUME NEW f \in Events, Send(d, f) PROVE EventInv(e)'
  <2>1. /\ deliveryPc[d] = "idle" /\ deliveryPc'[d] = "received" /\ sent'[d] = f
        /\ \A o \in Deliveries \ {d} : deliveryPc'[o] = deliveryPc[o] /\ sent'[o] = sent[o]
        /\ eventRow' = eventRow /\ acked' = acked /\ mishap \subseteq mishap'
        /\ e = f => ~\E o \in Deliveries : sent[o] = e /\ Running(o)
    BY <1>0, <1>1 DEF Send, BillingStep, BillingTypes
  <2> QED
    BY <1>0, <2>1 DEF EventInv, Running, Claims
<1>2. CASE ~(\E f \in Events : Send(d, f)) /\ e # sent[d]
  <2>1. /\ sent' = sent /\ e \notin mishap
        /\ \A o \in Deliveries \ {d} : deliveryPc'[o] = deliveryPc[o]
        /\ eventRow'[e] = eventRow[e] /\ (e \in acked' <=> e \in acked)
    BY <1>0, <1>2, DeliveryOwn
  <2> QED
    BY <1>0, <1>2, <2>1 DEF EventInv, Running, Claims
<1>3. CASE ~(\E f \in Events : Send(d, f)) /\ e = sent[d]
  <2>1. /\ sent' = sent /\ e \notin mishap
        /\ \A o \in Deliveries \ {d} : deliveryPc'[o] = deliveryPc[o]
    BY <1>0, <1>3, DeliveryOwn
  <2>2. Running(d) /\ \A o \in Deliveries \ {d} : sent[o] = e => ~Running(o)
    BY <1>0, <1>3, <2>1, DeliveryRow DEF EventInv
  <2>3. \A o \in Deliveries \ {d} : sent'[o] = e => ~Running(o)' /\ ~Claims(o)'
    BY <2>1, <2>2 DEF Running, Claims
  <2>4. EventKind[e] = "orphan" \/ eventRow[e] # "processing" \/ Claims(d)
    BY <1>0, <2>1, <2>2 DEF EventInv, Running, Claims
  <2>5. Claims(d) => eventRow[e] = "processing"
    BY <1>0, <1>3, <2>1 DEF EventInv
  <2>6. e \in acked => EventKind[e] = "orphan" \/ eventRow[e] = "processed"
    BY <1>0, <2>1 DEF EventInv
  <2>8. \/ Claims(d)' /\ eventRow'[e] = "processing" /\ (e \in acked' => EventKind[e] = "orphan")
        \/ ~Claims(d)' /\ eventRow'[e] # "processing" /\ (e \in acked' => eventRow'[e] = "processed")
        \/ ~Claims(d)' /\ EventKind[e] = "orphan"
    <3>1. e \in Events /\ Running(d)
      BY <1>0, <1>3, DeliveryRow
    <3>2. CASE deliveryPc[d] = "received" /\ deliveryPc'[d] = "ended" /\ eventRow' = eventRow /\ acked' = acked
      BY <3>2, <2>4, <2>6 DEF Claims
    <3>3. CASE deliveryPc[d] = "received" /\ deliveryPc'[d] = "claimed"
               /\ eventRow[e] \in {"none", "failed"} /\ eventRow'[e] = "processing" /\ acked' = acked
      BY <3>3, <2>6 DEF Claims
    <3>4. CASE deliveryPc[d] = "received" /\ deliveryPc'[d] = "ended"
               /\ eventRow[e] \in {"processing", "processed"} /\ eventRow' = eventRow
      BY <3>4, <2>4 DEF Claims
    <3>5. CASE Claims(d) /\ deliveryPc'[d] = "ended"
               /\ \/ eventRow'[e] = "processed"
                  \/ EventKind[e] = "orphan" /\ eventRow' = eventRow
                  \/ eventRow'[e] = "failed" /\ eventRow[e] = "processing" /\ acked' = acked
                  \/ eventRow[e] # "processing" /\ eventRow' = eventRow /\ acked' = acked
      BY <3>5, <2>5, <2>6 DEF Claims
    <3>6. CASE Claims(d) /\ deliveryPc'[d] = "failing" /\ eventRow' = eventRow /\ acked' = acked
      BY <3>6, <2>5, <2>6 DEF Claims
    <3> QED
      BY <1>0, <1>3, <3>2, <3>3, <3>4, <3>5, <3>6, DeliveryRow
  <2>7. /\ Claims(d)' => eventRow'[e] = "processing"
        /\ EventKind[e] = "orphan" \/ eventRow'[e] # "processing" \/ Claims(d)'
        /\ e \in acked' => EventKind[e] = "orphan" \/ eventRow'[e] = "processed"
    BY <2>8
  <2> QED
    BY <1>3, <2>1, <2>3, <2>7 DEF EventInv
<1> QED
  BY <1>1, <1>2, <1>3

LEMMA BillingInvNext == BillingInv /\ [AccountsNext]_accountsVars => BillingInv'
<1> SUFFICES ASSUME BillingInv, [AccountsNext]_accountsVars PROVE BillingInv'
  OBVIOUS
<1>1. ASSUME NEW d \in Deliveries, DeliveryStep(d) PROVE BillingInv'
  BY <1>1, DeliveryTyped, DeliveryKeeps DEF BillingInv
<1>2. CASE UNCHANGED eventVars
  BY <1>2 DEF eventVars, BillingInv, BillingTypes, EventInv, Running, Claims
<1>3. (\E d \in Deliveries : DeliveryStep(d)) \/ UNCHANGED eventVars
  BY DEF AccountsNext, DeliveryStep, accountsVars, EnforceEntitlement, CheckKeyLimit, InsertKey, RevokeKey
<1> QED
  BY <1>1, <1>2, <1>3

LEMMA AlwaysBillingInv == AccountsSpec => []BillingInv
<1>1. AccountsInit => BillingInv
  BY DEF AccountsInit, BillingInv, BillingTypes, EventInv, Running, Claims
<1> QED
  BY <1>1, BillingInvNext, PTL DEF AccountsSpec

\* What the provider was told is done was done, unless deliveries overlapped, a fault
\* hit the event, or it names no workspace.
THEOREM AcknowledgedAlwaysProcessed == AccountsSpec => []AcknowledgedIsProcessed
<1>1. BillingInv => AcknowledgedIsProcessed
  BY DEF BillingInv, BillingTypes, EventInv, AcknowledgedIsProcessed
<1> QED
  BY <1>1, AlwaysBillingInv, PTL

-------------------------------------------------------------------------------
(* API keys *)

Allowed == {k \in Creators : creatorPc[k] = "allowed"}

\* The plan never allows more than its peak, and keys are within the peak even if
\* every creation that passed the check inserts one.
KeysInv ==
  /\ plan \in PlanCodes
  /\ activeKeys \in Nat /\ peakLimit \in Nat \ {0}
  /\ KeyLimit(plan) <= peakLimit
  /\ creatorPc \in [Creators -> {"idle", "counting", "allowed", "ended"}]
  /\ planRead \in [Creators -> PlanCodes]
  /\ \A k \in Creators : KeyLimit(planRead[k]) <= peakLimit
  /\ activeKeys + Cardinality(Allowed) <= peakLimit + Cardinality(Creators) - 1

\* Every plan allows one key at least.
LEMMA KeyLimitPositive == \A code \in PlanCodes : KeyLimit(code) \in Nat \ {0}
<1> SUFFICES ASSUME NEW code \in PlanCodes PROVE KeyLimit(code) \in Nat \ {0}
  OBVIOUS
<1> DEFINE at == CHOOSE n \in 1..Len(LimitFields) : LimitFields[n] = "max_api_keys"
<1>1. at = 4
  <2>1. \A n \in 1..Len(LimitFields) : LimitFields[n] = "max_api_keys" <=> n = 4
    BY DEF LimitFields
  <2>2. 4 \in 1..Len(LimitFields)
    BY DEF LimitFields
  <2> QED
    BY <2>1, <2>2
<1>2. "max_api_keys" \in Limits
  BY <1>1 DEF Limits, LimitFields
<1>3. KeyLimit(code) = DefaultNumbers[code][at]
  BY <1>2 DEF KeyLimit, NormalizePlan, PlanDefaults, AliasOf
<1>4. code \in {"free", "developer", "pro", "business", "enterprise"}
  BY DEF PlanCodes, PlanOrder
<1> HIDE DEF at
<1> QED
  BY <1>1, <1>3, <1>4 DEF DefaultNumbers

\* localDecision allows a key only below the plan's limit.
LEMMA AllowedByLimit ==
  ASSUME NEW code, NEW n, NEW status,
         LocalDecision(NormalizePlan(code, <<>>), status, [keys |-> n, api |-> 0, web |-> 0],
                       "api_key_create", "api") = "ALLOWED"
  PROVE  ~(n >= KeyLimit(code))
BY DEF LocalDecision, SubscriptionAllowsUse, GoodStanding, KeyLimit

LEMMA AllowedFinite ==
  /\ IsFiniteSet(Allowed) /\ IsFiniteSet(Allowed')
  /\ Cardinality(Allowed) \in Nat /\ Cardinality(Allowed') \in Nat
  /\ Cardinality(Creators) \in Nat
  /\ Cardinality(Allowed) <= Cardinality(Creators) /\ Cardinality(Allowed') <= Cardinality(Creators)
BY AccountsAssumption, FS_Subset, FS_CardinalityType DEF Allowed

LEMMA KeysInvNext == BillingTypes /\ KeysInv /\ [AccountsNext]_accountsVars => KeysInv'
<1> SUFFICES ASSUME BillingTypes, KeysInv, [AccountsNext]_accountsVars PROVE KeysInv'
  OBVIOUS
<1>limits. \A code \in PlanCodes : KeyLimit(code) \in Nat
  BY KeyLimitPositive
<1>allow. ASSUME NEW k \in Creators, creatorPc[k] # "allowed", creatorPc' = [creatorPc EXCEPT ![k] = "allowed"],
                 activeKeys < peakLimit, UNCHANGED <<plan, activeKeys, planRead, peakLimit>>
          PROVE  KeysInv'
  BY <1>allow, AllowedFinite DEF KeysInv, Allowed
<1>stop. ASSUME NEW k \in Creators, creatorPc[k] # "allowed", NEW pc \in {"counting", "ended"},
                creatorPc' = [creatorPc EXCEPT ![k] = pc],
                planRead' \in {planRead, [planRead EXCEPT ![k] = plan]},
                UNCHANGED <<plan, activeKeys, peakLimit>>
         PROVE  KeysInv'
  <2>1. Allowed' = Allowed
    BY <1>stop DEF KeysInv, Allowed
  <2>2. planRead' \in [Creators -> PlanCodes] /\ \A c \in Creators : KeyLimit(planRead'[c]) <= peakLimit
    BY <1>stop DEF KeysInv
  <2> QED
    BY <1>stop, <2>1, <2>2 DEF KeysInv
<1>0. ASSUME NEW k \in Creators, EnforceEntitlement(k) PROVE KeysInv'
  <2>1. creatorPc[k] # "allowed" /\ UNCHANGED <<plan, activeKeys, peakLimit>>
    BY <1>0 DEF EnforceEntitlement
  <2>2. CASE /\ activeKeys < KeyLimit(plan) /\ creatorPc' = [creatorPc EXCEPT ![k] = "allowed"]
             /\ UNCHANGED planRead
    <3>1. activeKeys < peakLimit
      BY <1>limits, <2>2 DEF KeysInv
    <3> QED
      BY <1>allow, <2>1, <2>2, <3>1
  <2> QED
    BY <1>0, <1>stop, <2>1, <2>2 DEF EnforceEntitlement
<1>1. ASSUME NEW k \in Creators, CheckKeyLimit(k) PROVE KeysInv'
  <2>1. creatorPc[k] # "allowed" /\ UNCHANGED <<plan, activeKeys, planRead, peakLimit>>
    BY <1>1 DEF CheckKeyLimit
  <2>2. PICK status : LET answer == LocalDecision(NormalizePlan(planRead[k], <<>>), status,
                                    [keys |-> activeKeys, api |-> 0, web |-> 0], "api_key_create", "api")
                      IN creatorPc' = [creatorPc EXCEPT ![k] = IF answer = "ALLOWED" THEN "allowed" ELSE "ended"]
    BY <1>1 DEF CheckKeyLimit
  <2> DEFINE answer == LocalDecision(NormalizePlan(planRead[k], <<>>), status,
                                     [keys |-> activeKeys, api |-> 0, web |-> 0], "api_key_create", "api")
  <2>3. answer = "ALLOWED" => ~(activeKeys >= KeyLimit(planRead[k]))
    BY AllowedByLimit
  <2>4. KeyLimit(planRead[k]) \in Nat /\ activeKeys \in Nat /\ KeyLimit(planRead[k]) <= peakLimit /\ peakLimit \in Nat
    BY <1>limits DEF KeysInv
  <2>5. answer = "ALLOWED" => activeKeys < peakLimit
    BY <2>3, <2>4
  <2>6. creatorPc' = [creatorPc EXCEPT ![k] = IF answer = "ALLOWED" THEN "allowed" ELSE "ended"]
    BY <2>2
  <2> HIDE DEF answer
  <2>7. CASE answer = "ALLOWED"
    BY <1>allow, <2>1, <2>5, <2>6, <2>7
  <2>8. CASE answer # "ALLOWED"
    BY <1>stop, <2>1, <2>6, <2>8
  <2> QED
    BY <2>7, <2>8
<1>2. ASSUME NEW k \in Creators, InsertKey(k) PROVE KeysInv'
  <2>1. k \in Allowed /\ Allowed' = Allowed \ {k}
    BY <1>2 DEF InsertKey, KeysInv, Allowed
  <2>2. Cardinality(Allowed') = Cardinality(Allowed) - 1
    BY <2>1, AllowedFinite, FS_RemoveElement
  <2> QED
    BY <1>2, <2>2, AllowedFinite DEF InsertKey, KeysInv
<1>3. CASE RevokeKey
  <2>1. Allowed' = Allowed
    BY <1>3 DEF RevokeKey, Allowed
  <2>2. activeKeys \in Nat /\ activeKeys > 0 /\ activeKeys' = activeKeys - 1
    BY <1>3 DEF RevokeKey, KeysInv
  <2>3. UNCHANGED <<plan, peakLimit, creatorPc, planRead>>
    BY <1>3 DEF RevokeKey, eventVars
  <2>4. activeKeys' + Cardinality(Allowed) <= peakLimit + Cardinality(Creators) - 1 /\ activeKeys' \in Nat
    BY <2>2, AllowedFinite DEF KeysInv
  <2> QED
    BY <2>1, <2>3, <2>4 DEF KeysInv
<1>4. ASSUME NEW d \in Deliveries, ApplySubscription(d) PROVE KeysInv'
  <2>1. PICK seen \in Events :
          /\ plan' \in {plan, EventPlan[seen]}
          /\ peakLimit' = IF KeyLimit(plan') > peakLimit THEN KeyLimit(plan') ELSE peakLimit
    BY <1>4 DEF ApplySubscription, BillingTypes, Running
  <2>2. plan' \in PlanCodes
    BY <2>1, AccountsAssumption DEF KeysInv
  <2>3. KeyLimit(plan') \in Nat \ {0}
    BY <2>2, KeyLimitPositive
  <2>4. UNCHANGED keyVars /\ Allowed' = Allowed
    BY <1>4 DEF ApplySubscription, keyVars, Allowed
  <2>5. peakLimit' \in Nat \ {0} /\ KeyLimit(plan') <= peakLimit' /\ peakLimit <= peakLimit'
    BY <2>1, <2>3 DEF KeysInv
  <2>6. \A k \in Creators : KeyLimit(planRead[k]) <= peakLimit'
    BY <1>limits, <2>5 DEF KeysInv
  <2>7. activeKeys' + Cardinality(Allowed') <= peakLimit' + Cardinality(Creators) - 1
    BY <2>4, <2>5, AllowedFinite DEF KeysInv, keyVars
  <2> QED
    BY <2>2, <2>4, <2>5, <2>6, <2>7 DEF KeysInv, keyVars
<1>5. CASE UNCHANGED <<plan, keyVars, peakLimit>>
  <2>1. Allowed' = Allowed
    BY <1>5 DEF keyVars, Allowed
  <2> QED
    BY <1>5, <2>1 DEF KeysInv, keyVars
<1>6. ASSUME NEW d \in Deliveries, DeliveryStep(d), ~ApplySubscription(d)
      PROVE  UNCHANGED <<plan, keyVars, peakLimit>>
  BY <1>6 DEF DeliveryStep, Send, Reject, ClaimEvent, PassOver, BillingThrows, FailEvent, BillingDies
<1> QED
  BY <1>0, <1>1, <1>2, <1>3, <1>4, <1>5, <1>6 DEF AccountsNext, DeliveryStep, accountsVars

LEMMA AlwaysKeysInv == AccountsSpec => []KeysInv
<1>1. AccountsInit => KeysInv
  <2> SUFFICES ASSUME AccountsInit PROVE KeysInv
    OBVIOUS
  <2>1. Allowed = {} /\ plan \in PlanCodes
    BY DEF AccountsInit, Allowed, PlanCodes, PlanOrder
  <2>2. KeyLimit(plan) \in Nat \ {0}
    BY <2>1, KeyLimitPositive
  <2> QED
    BY <2>1, <2>2, AllowedFinite, FS_EmptySet DEF AccountsInit, KeysInv
<1>2. BillingInv => BillingTypes
  BY DEF BillingInv
<1> QED
  BY <1>1, <1>2, KeysInvNext, AlwaysBillingInv, PTL DEF AccountsSpec

\* A workspace has more keys than its plans allowed only by creations that overlapped.
THEOREM KeysOverLimitOnlyByOverlap == AccountsSpec => []KeysOverLimitOnlyTogether
<1>1. KeysInv => KeysOverLimitOnlyTogether
  BY AllowedFinite DEF KeysInv, KeysOverLimitOnlyTogether
<1> QED
  BY <1>1, AlwaysKeysInv, PTL

\* What deliveries leave of the faults.
BillingRest == mishap \subseteq Events /\ billingFaults \in 0..MaxBillingFaults

LEMMA BillingRestNext ==
  BillingTypes /\ BillingRest /\ [AccountsNext]_accountsVars => BillingRest'
<1> SUFFICES ASSUME BillingTypes, BillingRest, [AccountsNext]_accountsVars PROVE BillingRest'
  OBVIOUS
<1>1. CASE UNCHANGED <<billingFaults, mishap>>
  BY <1>1 DEF BillingRest
<1>2. ASSUME NEW d \in Deliveries, Running(d), BillingFault(d) PROVE BillingRest'
  BY <1>2, AccountsAssumption DEF BillingTypes, BillingRest, BillingFault
<1>3. ASSUME NEW d \in Deliveries, NEW e \in Events, Send(d, e) PROVE BillingRest'
  BY <1>3 DEF Send, BillingRest
<1>4. ASSUME NEW d \in Deliveries, DeliveryStep(d), \A e \in Events : ~Send(d, e)
      PROVE  UNCHANGED <<billingFaults, mishap>> \/ (Running(d) /\ BillingFault(d))
  BY <1>4 DEF DeliveryStep, Reject, ClaimEvent, ApplySubscription, PassOver, BillingThrows, FailEvent,
     BillingDies, NoBillingFault, Running
<1> QED
  BY <1>1, <1>2, <1>3, <1>4
     DEF AccountsNext, DeliveryStep, accountsVars, eventVars, EnforceEntitlement,
         CheckKeyLimit, InsertKey, RevokeKey

\* Events, deliveries, keys and plan keep their types.
THEOREM AccountsTypeCorrect == AccountsSpec => []AccountsTypeOK
<1>1. AccountsInit => BillingRest
  BY AccountsAssumption DEF AccountsInit, BillingRest
<1>2. BillingTypes /\ KeysInv /\ BillingRest => AccountsTypeOK
  BY DEF BillingTypes, KeysInv, BillingRest, AccountsTypeOK
<1>3. BillingInv => BillingTypes
  BY DEF BillingInv
<1> QED
  BY <1>1, <1>2, <1>3, BillingRestNext, AlwaysKeysInv, AlwaysBillingInv, PTL DEF AccountsSpec

-------------------------------------------------------------------------------
(* Workspaces *)

VisitSteps ==
  {"idle", "verified", "member", "repair", "search", "adopt", "create", "join", "ok", "refused", "failed"}
Places == Orgs \cup {"none"}
VisitRecord == [step : VisitSteps, wants : Places, org : Places]

WorkspaceTypes ==
  /\ defaultOrg \in Places
  /\ membership \in [Orgs -> {"none", "active", "suspended"}]
  /\ orgRows \in {0, 1}
  /\ visit \in [Visits -> VisitRecord]
  /\ memberSince \in [Visits -> SUBSET Orgs]

\* What a request knows of the person's memberships, and the workspace it has settled on.
VisitInv(v) ==
  /\ visit[v].step # "idle" => ActiveIn \subseteq memberSince[v]
  /\ visit[v].step \in {"adopt", "ok"} => visit[v].org \in memberSince[v]
  /\ visit[v].step = "member" => visit[v].org # "none"
  /\ visit[v].step = "join" => orgRows = 1
  /\ "own" \in memberSince[v] => orgRows = 1

PlaceInv ==
  /\ WorkspaceTypes
  /\ \A v \in Visits : VisitInv(v)
  /\ "own" = defaultOrg \/ membership["own"] # "none" => orgRows = 1

\* A call moves its request one step on, or fails it.
LEMMA AskedVisit ==
  ASSUME WorkspaceTypes, NEW v \in Visits, NEW from \in VisitSteps, NEW to \in VisitSteps, NEW org \in Places,
         Asks(v, from, to, org)
  PROVE  /\ visit[v].step = from
         /\ visit' \in [Visits -> VisitRecord]
         /\ \A o \in Visits \ {v} : visit'[o] = visit[o]
         /\ \/ visit'[v].step = to /\ visit'[v].org = org
            \/ visit'[v].step = "failed"
<1>1. ASSUME NEW t \in VisitSteps, NEW g \in Places, VisitStep(v, from, t, g)
      PROVE  /\ visit[v].step = from
             /\ visit' \in [Visits -> VisitRecord]
             /\ \A o \in Visits \ {v} : visit'[o] = visit[o]
             /\ visit'[v].step = t /\ visit'[v].org = g
  BY <1>1 DEF VisitStep, VisitAt, WorkspaceTypes, VisitRecord
<1>2. "failed" \in VisitSteps /\ "none" \in Places
  BY DEF VisitSteps, Places
<1> QED
  BY <1>1, <1>2 DEF Asks

\* Only the request that moves learns anything, when the rows stay as they are.
LEMMA PlaceInvNext == PlaceInv /\ [WorkspacesNext]_workspacesVars => PlaceInv'
<1> SUFFICES ASSUME PlaceInv, [WorkspacesNext]_workspacesVars PROVE PlaceInv'
  OBVIOUS
<1> USE WorkspacesAssumption
<1>0. /\ WorkspaceTypes /\ "own" \in Orgs /\ "none" \in Places /\ Orgs \subseteq Places
      /\ \A v \in Visits : visit[v].step \in VisitSteps /\ visit[v].org \in Places
      /\ \A v \in Visits : VisitInv(v)
  BY DEF PlaceInv, WorkspaceTypes, VisitRecord, Orgs, Places
<1>1. ASSUME NEW v \in Visits, NEW wants \in OtherOrgs \cup {"none"}, Authenticate(v, wants) PROVE PlaceInv'
  <2>1. visit' \in [Visits -> VisitRecord] /\ memberSince' \in [Visits -> SUBSET Orgs]
    BY <1>0, <1>1 DEF Authenticate, VisitAt, WorkspaceTypes, VisitRecord, VisitSteps, Places, Orgs, ActiveIn
  <2>2. UNCHANGED rows /\ ActiveIn' = ActiveIn
    BY <1>1 DEF Authenticate, rows, ActiveIn
  <2>3. \A o \in Visits : VisitInv(o)'
    <3>1. visit'[v].step = "verified" /\ memberSince'[v] = ActiveIn
      BY <1>0, <1>1 DEF Authenticate, VisitAt, WorkspaceTypes
    <3>2. VisitInv(v)'
      BY <2>2, <3>1 DEF VisitInv, rows, ActiveIn, PlaceInv
    <3>3. \A o \in Visits \ {v} : visit'[o] = visit[o] /\ memberSince'[o] = memberSince[o]
      BY <1>0, <1>1 DEF Authenticate, WorkspaceTypes
    <3>4. ASSUME NEW o \in Visits \ {v} PROVE VisitInv(o)'
      BY <1>0, <2>2, <3>3 DEF VisitInv, rows
    <3> QED
      BY <3>2, <3>4
  <2> QED
    BY <2>1, <2>2, <2>3 DEF PlaceInv, WorkspaceTypes, rows
<1>2. ASSUME NEW v \in Visits, NEW from \in VisitSteps, NEW to \in VisitSteps, NEW org \in Places,
             Asks(v, from, to, org), from # "idle",
             WorkspaceTypes' \/ visit' \notin [Visits -> VisitRecord],
             ActiveIn' \subseteq ActiveIn \/ \A o \in Visits : memberSince'[o] = memberSince[o] \cup {"own"},
             ActiveIn' \subseteq ActiveIn \cup {"own"},
             \A o \in Visits : memberSince[o] \subseteq memberSince'[o],
             "own" \in UNION {memberSince'[o] : o \in Visits} => orgRows' = 1,
             orgRows = 1 => orgRows' = 1,
             to \in {"adopt", "ok"} => org \in memberSince'[v],
             to = "member" => org # "none",
             to = "join" => orgRows' = 1,
             "own" = defaultOrg' \/ membership'["own"] # "none" => orgRows' = 1
      PROVE  PlaceInv'
  <2>1. /\ visit[v].step = from
        /\ visit' \in [Visits -> VisitRecord]
        /\ \A o \in Visits \ {v} : visit'[o] = visit[o]
        /\ \/ visit'[v].step = to /\ visit'[v].org = org
           \/ visit'[v].step = "failed"
    BY <1>0, <1>2, AskedVisit
  <2>2. \A o \in Visits : visit[o].step # "idle" => ActiveIn' \subseteq memberSince'[o]
    BY <1>0, <1>2 DEF VisitInv
  <2>3. VisitInv(v)'
    BY <1>2, <2>1, <2>2 DEF VisitInv
  <2>4. ASSUME NEW o \in Visits \ {v} PROVE VisitInv(o)'
    BY <1>0, <1>2, <2>1, <2>2 DEF VisitInv
  <2> QED
    BY <1>2, <2>1, <2>3, <2>4 DEF PlaceInv
<1>3. ASSUME NEW v \in Visits, ReadProfile(v) PROVE PlaceInv'
  <2> DEFINE org == IF visit[v].wants # "none" THEN visit[v].wants ELSE defaultOrg
             to == IF org = "none" THEN "repair" ELSE "member"
  <2>1. Asks(v, "verified", to, org) /\ UNCHANGED <<defaultOrg, membership, orgRows, memberSince>>
    BY <1>3 DEF ReadProfile
  <2>2. org \in Places /\ to \in VisitSteps /\ "verified" \in VisitSteps
    BY <1>0 DEF WorkspaceTypes, VisitRecord, VisitSteps
  <2>3. ActiveIn' = ActiveIn
    BY <2>1 DEF ActiveIn
  <2>4. visit' \in [Visits -> VisitRecord] => WorkspaceTypes'
    BY <1>0, <2>1 DEF WorkspaceTypes
  <2> QED
    BY <1>0, <1>2, <2>1, <2>2, <2>3, <2>4 DEF PlaceInv, VisitInv
<1>4. ASSUME NEW v \in Visits, ReadMembership(v) PROVE PlaceInv'
  <2> DEFINE org == visit[v].org
             to == IF ActiveMember(org) THEN "ok"
                   ELSE IF visit[v].wants = "none" THEN "repair" ELSE "refused"
  <2>1. Asks(v, "member", to, org) /\ UNCHANGED <<rows, memberSince>>
    BY <1>4 DEF ReadMembership
  <2>2. org \in Places /\ to \in VisitSteps /\ "member" \in VisitSteps
    BY <1>0 DEF VisitSteps
  <2>3. visit[v].step = "member"
    BY <1>0, <2>1, <2>2, AskedVisit
  <2>4. to = "ok" => org \in memberSince'[v]
    BY <1>0, <2>1, <2>3 DEF VisitInv, ActiveMember, ActiveIn, Places
  <2>5. ActiveIn' = ActiveIn
    BY <2>1 DEF ActiveIn, rows
  <2>6. visit' \in [Visits -> VisitRecord] => WorkspaceTypes'
    BY <1>0, <2>1 DEF WorkspaceTypes, rows
  <2>7. to \notin {"adopt", "member", "join"}
    OBVIOUS
  <2> HIDE DEF org, to
  <2> QED
    BY <1>0, <1>2, <2>1, <2>2, <2>4, <2>5, <2>6, <2>7 DEF PlaceInv, VisitInv, rows
<1>5. ASSUME NEW v \in Visits, RepairPreferred(v) PROVE PlaceInv'
  <2> DEFINE org == visit[v].org
             to == IF org # "none" /\ ActiveMember(org) THEN "ok" ELSE "search"
  <2>1. Asks(v, "repair", to, org) /\ UNCHANGED <<rows, memberSince>>
    BY <1>5 DEF RepairPreferred
  <2>2. org \in Places /\ to \in VisitSteps /\ "repair" \in VisitSteps
    BY <1>0 DEF VisitSteps
  <2>3. visit[v].step = "repair"
    BY <1>0, <2>1, <2>2, AskedVisit
  <2>4. to = "ok" => org \in memberSince'[v]
    BY <1>0, <2>1, <2>3 DEF VisitInv, ActiveMember, ActiveIn, Places
  <2>5. ActiveIn' = ActiveIn
    BY <2>1 DEF ActiveIn, rows
  <2>6. visit' \in [Visits -> VisitRecord] => WorkspaceTypes'
    BY <1>0, <2>1 DEF WorkspaceTypes, rows
  <2>7. to \notin {"adopt", "member", "join"}
    OBVIOUS
  <2> HIDE DEF org, to
  <2> QED
    BY <1>0, <1>2, <2>1, <2>2, <2>4, <2>5, <2>6, <2>7 DEF PlaceInv, VisitInv, rows
<1>6. ASSUME NEW v \in Visits, RepairExisting(v) PROVE PlaceInv'
  <2>1. UNCHANGED <<rows, memberSince>> /\ ActiveIn' = ActiveIn
    BY <1>6 DEF RepairExisting, rows, ActiveIn
  <2>2. {"search", "adopt", "create"} \subseteq VisitSteps /\ ActiveIn \subseteq Places
    BY <1>0 DEF VisitSteps, ActiveIn
  <2>3. visit' \in [Visits -> VisitRecord] => WorkspaceTypes'
    BY <1>0, <2>1 DEF WorkspaceTypes, rows
  <2>4. ASSUME NEW org \in ActiveIn, Asks(v, "search", "adopt", org) PROVE PlaceInv'
    <3>1. visit[v].step = "search"
      BY <1>0, <2>2, <2>4, AskedVisit
    <3>2. org \in memberSince'[v]
      BY <1>0, <2>1, <3>1 DEF VisitInv
    <3> QED
      BY <1>0, <1>2, <2>1, <2>2, <2>3, <2>4, <3>2 DEF PlaceInv, VisitInv, rows
  <2>5. CASE Asks(v, "search", "create", "none")
    BY <1>0, <1>2, <2>1, <2>2, <2>3, <2>5 DEF PlaceInv, VisitInv, rows
  <2> QED
    BY <1>6, <2>4, <2>5 DEF RepairExisting
<1>7. ASSUME NEW v \in Visits, CreateOwn(v) PROVE PlaceInv'
  <2>1. /\ Asks(v, "create", "join", "own") /\ orgRows' = 1
        /\ UNCHANGED <<defaultOrg, membership, memberSince>> /\ ActiveIn' = ActiveIn
    BY <1>7 DEF CreateOwn, UpsertsOwn, ActiveIn
  <2>2. {"create", "join"} \subseteq VisitSteps
    BY DEF VisitSteps
  <2>3. visit' \in [Visits -> VisitRecord] => WorkspaceTypes'
    BY <1>0, <2>1 DEF WorkspaceTypes
  <2> QED
    BY <1>0, <1>2, <2>1, <2>2, <2>3
<1>8. ASSUME NEW v \in Visits, JoinOwn(v) PROVE PlaceInv'
  <2>1. /\ Asks(v, "join", "adopt", "own") /\ UNCHANGED <<defaultOrg, orgRows>>
        /\ membership' = [membership EXCEPT !["own"] = "active"]
        /\ memberSince' = [r \in Visits |-> memberSince[r] \cup {"own"}]
    BY <1>8 DEF JoinOwn
  <2>2. {"join", "adopt"} \subseteq VisitSteps
    BY DEF VisitSteps
  <2>3. visit[v].step = "join"
    BY <1>0, <2>1, <2>2, AskedVisit
  <2>4. orgRows = 1
    BY <1>0, <2>3 DEF VisitInv
  <2>5. visit' \in [Visits -> VisitRecord] => WorkspaceTypes'
    BY <1>0, <2>1 DEF WorkspaceTypes
  <2>6. ActiveIn' \subseteq ActiveIn \cup {"own"}
    BY <1>0, <2>1 DEF ActiveIn, WorkspaceTypes
  <2> QED
    BY <1>0, <1>2, <2>1, <2>2, <2>4, <2>5, <2>6
<1>9. ASSUME NEW v \in Visits, AdoptDefault(v) PROVE PlaceInv'
  <2> DEFINE org == visit[v].org
  <2>1. /\ defaultOrg' = org /\ Asks(v, "adopt", "ok", org)
        /\ UNCHANGED <<membership, orgRows, memberSince>> /\ ActiveIn' = ActiveIn
    BY <1>9 DEF AdoptDefault, ActiveIn
  <2>2. {"adopt", "ok"} \subseteq VisitSteps /\ org \in Places
    BY <1>0 DEF VisitSteps
  <2>3. visit[v].step = "adopt"
    BY <1>0, <2>1, <2>2, AskedVisit
  <2>4. org \in memberSince[v]
    BY <1>0, <2>3 DEF VisitInv
  <2>5. visit' \in [Visits -> VisitRecord] => WorkspaceTypes'
    BY <1>0, <2>1, <2>2 DEF WorkspaceTypes
  <2>6. org = "own" => orgRows = 1
    BY <1>0, <2>4 DEF VisitInv
  <2> HIDE DEF org
  <2> QED
    BY <1>0, <1>2, <2>1, <2>2, <2>4, <2>5, <2>6 DEF PlaceInv, VisitInv
<1>10. ASSUME NEW v \in Visits, VisitDies(v) PROVE PlaceInv'
  <2>1. /\ visit' = [visit EXCEPT ![v] = VisitAt("failed", @.wants, "none")]
        /\ UNCHANGED <<rows, memberSince>> /\ ActiveIn' = ActiveIn
    BY <1>10 DEF VisitDies, rows, ActiveIn
  <2>2. visit' \in [Visits -> VisitRecord] /\ visit'[v].step = "failed" /\ visit[v].step # "idle"
    BY <1>0, <1>10, <2>1 DEF WorkspaceTypes, VisitRecord, VisitAt, VisitSteps, VisitDies
  <2>3. \A o \in Visits \ {v} : visit'[o] = visit[o]
    BY <1>0, <2>1 DEF WorkspaceTypes
  <2>4. \A o \in Visits : VisitInv(o)'
    BY <1>0, <2>1, <2>2, <2>3 DEF VisitInv, rows
  <2> QED
    BY <2>1, <2>2, <2>4 DEF PlaceInv, WorkspaceTypes, rows
<1>11. ASSUME NEW o \in Orgs, Invite(o) PROVE PlaceInv'
  <2>1. /\ membership' = [membership EXCEPT ![o] = "active"]
        /\ memberSince' = [r \in Visits |-> memberSince[r] \cup {o}]
        /\ UNCHANGED <<defaultOrg, orgRows, visit>>
        /\ o = "own" => membership["own"] # "none"
    BY <1>11 DEF Invite
  <2>2. ActiveIn' \subseteq ActiveIn \cup {o} /\ WorkspaceTypes'
    BY <1>0, <2>1 DEF ActiveIn, WorkspaceTypes
  <2>3. o = "own" => orgRows = 1
    BY <2>1 DEF PlaceInv
  <2>4. \A v \in Visits : VisitInv(v)'
    BY <1>0, <2>1, <2>2, <2>3 DEF VisitInv
  <2> QED
    BY <1>0, <2>1, <2>2, <2>3, <2>4 DEF PlaceInv, WorkspaceTypes
<1>12. ASSUME NEW o \in Orgs, Suspend(o) PROVE PlaceInv'
  <2>1. /\ membership' = [membership EXCEPT ![o] = "suspended"] /\ membership[o] = "active"
        /\ UNCHANGED <<defaultOrg, orgRows, visit, memberSince>>
    BY <1>12 DEF Suspend
  <2>2. ActiveIn' \subseteq ActiveIn /\ WorkspaceTypes'
    BY <1>0, <2>1 DEF ActiveIn, WorkspaceTypes
  <2>3. \A v \in Visits : VisitInv(v)'
    BY <1>0, <2>1, <2>2 DEF VisitInv
  <2> QED
    BY <1>0, <2>1, <2>2, <2>3 DEF PlaceInv, WorkspaceTypes
<1>13. CASE Upgrade \/ UNCHANGED workspacesVars
  <2>1. UNCHANGED <<defaultOrg, membership, orgRows, visit, memberSince>> /\ ActiveIn' = ActiveIn
    BY <1>13 DEF Upgrade, workspacesVars, rows, ActiveIn
  <2> QED
    BY <2>1 DEF PlaceInv, WorkspaceTypes, VisitInv
<1> QED
  BY <1>1, <1>3, <1>4, <1>5, <1>6, <1>7, <1>8, <1>9, <1>10, <1>11, <1>12, <1>13 DEF WorkspacesNext

LEMMA AlwaysPlaced == WorkspacesSpec => []PlaceInv
<1>1. WorkspacesInit => PlaceInv
  BY WorkspacesAssumption DEF WorkspacesInit, PlaceInv, WorkspaceTypes, VisitInv, VisitRecord, VisitAt,
     VisitSteps, Places, Orgs, ActiveIn
<1> QED
  BY <1>1, PlaceInvNext, PTL DEF WorkspacesSpec

\* However first requests overlap or stop half way, a person works where they are a
\* member and has one workspace of their own (ensureDefaultWorkspace of
\* lib/supabase-server.js).
THEOREM AlwaysInOnesPlace == WorkspacesSpec => []InOnesPlace
<1>1. PlaceInv => InOnesPlace
  BY DEF PlaceInv, WorkspaceTypes, VisitInv, InOnesPlace, WorksWhereMember, OneOwnWorkspace
<1> QED
  BY <1>1, AlwaysPlaced, PTL

\* The person's profile, their own workspace's plan, and the faults.
OwnRowTypes == profile \in BOOLEAN /\ ownPlan \in {"free", "paid"} /\ workspaceFaults \in 0..MaxWorkspaceFaults

LEMMA OwnRowNext == OwnRowTypes /\ [WorkspacesNext]_workspacesVars => OwnRowTypes'
<1> SUFFICES ASSUME OwnRowTypes, [WorkspacesNext]_workspacesVars PROVE OwnRowTypes'
  OBVIOUS
<1>1. workspaceFaults' \in 0..MaxWorkspaceFaults
  <2>1. UNCHANGED workspaceFaults \/ WorkspaceFault
    BY DEF WorkspacesNext, workspacesVars, Authenticate, ReadProfile, ReadMembership, RepairPreferred,
       RepairExisting, CreateOwn, JoinOwn, AdoptDefault, VisitDies, Invite, Suspend, Upgrade, Asks,
       NoWorkspaceFault
  <2> QED
    BY <2>1, WorkspacesAssumption DEF OwnRowTypes, WorkspaceFault
<1>2. profile' \in BOOLEAN /\ ownPlan' \in {"free", "paid"}
  BY DEF OwnRowTypes, WorkspacesNext, workspacesVars, rows, Authenticate, ReadProfile, ReadMembership,
     RepairPreferred, RepairExisting, CreateOwn, JoinOwn, AdoptDefault, VisitDies, Invite, Suspend, Upgrade
<1> QED
  BY <1>1, <1>2 DEF OwnRowTypes

\* The person's rows and the requests keep their types.
THEOREM WorkspacesTypeCorrect == WorkspacesSpec => []WorkspacesTypeOK
<1>1. WorkspacesInit => OwnRowTypes
  <2> SUFFICES ASSUME WorkspacesInit PROVE OwnRowTypes
    OBVIOUS
  <2>1. profile \in BOOLEAN
    BY DEF WorkspacesInit
  <2>2. workspaceFaults \in 0..MaxWorkspaceFaults
    BY WorkspacesAssumption DEF WorkspacesInit
  <2> QED
    BY <2>1, <2>2 DEF WorkspacesInit, OwnRowTypes
<1>2. PlaceInv /\ OwnRowTypes => WorkspacesTypeOK
  BY DEF PlaceInv, WorkspaceTypes, OwnRowTypes, WorkspacesTypeOK, Places
<1> QED
  BY <1>1, <1>2, OwnRowNext, AlwaysPlaced, PTL DEF WorkspacesSpec

-------------------------------------------------------------------------------
(* Checkout *)

\* A request that has a customer to open a session for, or opened one.
Rests(o) == openingPc[o] = "ready" \/ opened[o] # 0

\* Who makes a customer while another one does, or while another one rests on the row,
\* was crossed; who was not rests on the row.
CheckoutInv ==
  /\ CheckoutTypeOK
  /\ \A o \in Openings :
       /\ o \in Makers => opened[o] = 0
       /\ openingPc[o] \in {"saving", "ready"} => customerOf[o] # 0
       /\ Rests(o) /\ o \notin crossed =>
            /\ customerRow # 0
            /\ openingPc[o] = "ready" => customerOf[o] = customerRow
            /\ opened[o] # 0 => opened[o] = customerRow
       /\ openingPc[o] \in {"idle", "checked"} => opened[o] = 0
       /\ \A p \in Makers \ {o} : o \in Makers \/ Rests(o) => o \in crossed

LEMMA CheckoutTypeNext == CheckoutTypeOK /\ [CheckoutNext]_checkoutVars => CheckoutTypeOK'
<1> SUFFICES ASSUME CheckoutTypeOK, [CheckoutNext]_checkoutVars PROVE CheckoutTypeOK'
  OBVIOUS
<1> USE CheckoutAssumption DEF CheckoutTypeOK, Opening, At, CheckoutFault, NoCheckoutFault
<1>1. ASSUME NEW o \in Openings, CheckRequest(o) PROVE CheckoutTypeOK'
  BY <1>1 DEF CheckRequest
<1>2. ASSUME NEW o \in Openings, LookUpCustomer(o) PROVE CheckoutTypeOK'
  BY <1>2 DEF LookUpCustomer, ExistingCustomer, Makers
<1>3. ASSUME NEW o \in Openings, MakeCustomer(o) PROVE CheckoutTypeOK'
  BY <1>3 DEF MakeCustomer
<1>4. ASSUME NEW o \in Openings, SaveCustomer(o) PROVE CheckoutTypeOK'
  BY <1>4 DEF SaveCustomer
<1>5. ASSUME NEW o \in Openings, OpenSession(o) PROVE CheckoutTypeOK'
  BY <1>5 DEF OpenSession
<1>6. ASSUME NEW o \in Openings, OpeningDies(o) PROVE CheckoutTypeOK'
  BY <1>6 DEF OpeningDies
<1>7. CASE UNCHANGED checkoutVars
  BY <1>7 DEF checkoutVars
<1> QED
  BY <1>1, <1>2, <1>3, <1>4, <1>5, <1>6, <1>7 DEF CheckoutNext

\* The customer's row, the requests and their faults keep their types.
THEOREM CheckoutTypeCorrect == CheckoutSpec => []CheckoutTypeOK
<1>1. CheckoutInit => CheckoutTypeOK
  BY CheckoutAssumption DEF CheckoutInit, CheckoutTypeOK
<1> QED
  BY <1>1, CheckoutTypeNext, PTL DEF CheckoutSpec

LEMMA CheckoutInvNext == CheckoutInv /\ [CheckoutNext]_checkoutVars => CheckoutInv'
<1> SUFFICES ASSUME CheckoutInv, [CheckoutNext]_checkoutVars PROVE CheckoutInv'
  OBVIOUS
<1>0. CheckoutTypeOK /\ CheckoutTypeOK'
  BY CheckoutTypeNext DEF CheckoutInv
<1> USE DEF CheckoutInv, CheckoutTypeOK, Makers, Rests, Opening, At, CheckoutFault, NoCheckoutFault
<1>1. ASSUME NEW o \in Openings, CheckRequest(o) PROVE CheckoutInv'
  BY <1>0, <1>1 DEF CheckRequest
<1>2. ASSUME NEW o \in Openings, LookUpCustomer(o) PROVE CheckoutInv'
  BY <1>0, <1>2 DEF LookUpCustomer, ExistingCustomer
<1>3. ASSUME NEW o \in Openings, MakeCustomer(o) PROVE CheckoutInv'
  BY <1>0, <1>3 DEF MakeCustomer
<1>4. ASSUME NEW o \in Openings, SaveCustomer(o) PROVE CheckoutInv'
  BY <1>0, <1>4 DEF SaveCustomer
<1>5. ASSUME NEW o \in Openings, OpenSession(o) PROVE CheckoutInv'
  BY <1>0, <1>5 DEF OpenSession
<1>6. ASSUME NEW o \in Openings, OpeningDies(o) PROVE CheckoutInv'
  BY <1>0, <1>6 DEF OpeningDies
<1>7. CASE UNCHANGED checkoutVars
  BY <1>7 DEF checkoutVars
<1> QED
  BY <1>1, <1>2, <1>3, <1>4, <1>5, <1>6, <1>7 DEF CheckoutNext

\* However many members check out, and whatever fails: a session of a request that
\* crossed no other is opened for the customer that the workspace's row names (lib/billing.js).
THEOREM AlwaysOpenedForTheCustomer == CheckoutSpec => []OpenedForTheCustomer
<1>1. CheckoutInit => CheckoutInv
  BY CheckoutAssumption DEF CheckoutInit, CheckoutInv, CheckoutTypeOK, Makers, Rests
<1>2. CheckoutInv => OpenedForTheCustomer
  BY DEF CheckoutInv, Rests, OpenedForTheCustomer
<1> QED
  BY <1>1, <1>2, CheckoutInvNext, PTL DEF CheckoutSpec

-------------------------------------------------------------------------------
(* Enrichment *)

\* Where the lookups of an investigation stand.
LookupsAt(s) ==
  /\ enrichPc[s] # "locating" => With(s, "asked") = {}
  /\ enrichPc[s] \in {"start", "locating"} => infraState[s] = "none"
  /\ enrichPc[s] = "start" => With(s, "found") = {}
  /\ enrichPc[s] = "locating" => PublicIps[s] # {}

\* What has been asked about the domains and the addresses.
IntelAt(s) ==
  /\ intelState[s] # "none" => enrichPc[s] = "enriched"
  /\ enrichPc[s] \notin {"registered", "rated"} => IntelAsked(s) = {}
  /\ \A x \in Domains \cup IpAddresses :
       /\ enrichPc[s] \in {"registered", "rated", "enriched"} /\ "rdap" \in providers
            /\ x \in RegisteredDomains[s] => intelAnswer[s][x] # "waiting"
       /\ enrichPc[s] \in {"rated", "enriched"} /\ x \in RatedIps[s] => intelAnswer[s][x] # "waiting"
       /\ intelState[s] = "COMPLETED" => intelAnswer[s][x] \in {"known", "waiting"}

LocationsInv ==
  /\ EnrichmentTypeOK /\ LookupsShared /\ StateRebuilt
  /\ \A s \in Traced : LookupsAt(s)
  /\ \A ip \in IpAddresses : geoCache[ip] = "pending" <=> \E s \in Traced : <<s, ip>> \in requesting

IntelInv == EnrichmentTypeOK /\ \A s \in Traced : IntelAt(s)

LEMMA EnrichmentTypeNext == EnrichmentTypeOK /\ [EnrichmentNext]_enrichmentVars => EnrichmentTypeOK'
<1> SUFFICES ASSUME EnrichmentTypeOK, [EnrichmentNext]_enrichmentVars PROVE EnrichmentTypeOK'
  OBVIOUS
<1> DEFINE told == {"waiting", "asked", "found", "empty", "failed"}
           known == {"waiting", "asked", "known", "failed"}
           items == Domains \cup IpAddresses
<1> USE DEF EnrichmentTypeOK, States, Step, GeoRests, IntelRests
<1>1. ASSUME NEW s \in Traced, StartLookups(s) \/ FinishLookups(s) PROVE EnrichmentTypeOK'
  BY <1>1 DEF StartLookups, FinishLookups, LiveState
<1>2. ASSUME NEW s \in Traced, NEW chosen, Ask(s, chosen) PROVE intelAnswer' \in [Traced -> [items -> known]]
  <2>1. [x \in items |-> IF x \notin chosen THEN intelAnswer[s][x]
                         ELSE IF x \in intelFresh THEN "known" ELSE "asked"] \in [items -> known]
    OBVIOUS
  <2> QED
    BY <1>2, <2>1 DEF Ask
<1>3. ASSUME NEW s \in Traced, AskDomains(s) PROVE EnrichmentTypeOK'
  <2>1. intelAnswer' \in [Traced -> [items -> known]]
    BY <1>2, <1>3 DEF AskDomains
  <2> QED
    BY <1>3, <2>1 DEF AskDomains
<1>4. ASSUME NEW s \in Traced, AskReputations(s) PROVE EnrichmentTypeOK'
  <2>1. [x \in items |-> IF x \in RatedIps[s] THEN "failed" ELSE intelAnswer[s][x]] \in [items -> known]
    OBVIOUS
  <2>2. intelAnswer' \in [Traced -> [items -> known]]
    BY <1>2, <1>4, <2>1 DEF AskReputations
  <2> QED
    BY <1>4, <2>2 DEF AskReputations
<1>5. ASSUME NEW s \in Traced, FinishIntel(s) PROVE EnrichmentTypeOK'
  BY <1>5 DEF FinishIntel
<1>6. ASSUME NEW s \in Traced, NEW ip \in IpAddresses, LookUp(s, ip) PROVE EnrichmentTypeOK'
  <2>1. PICK a \in told : geoAnswer' = [geoAnswer EXCEPT ![s][ip] = a]
    BY <1>6 DEF LookUp
  <2>2. [geoAnswer[s] EXCEPT ![ip] = a] \in [IpAddresses -> told]
    OBVIOUS
  <2>3. geoAnswer' \in [Traced -> [IpAddresses -> told]]
    BY <2>1, <2>2
  <2>4. geoCache' \in [IpAddresses -> {"none", "pending", "found", "empty"}]
    BY <1>6 DEF LookUp, CachedAtOnce
  <2>5. requesting' \subseteq Traced \X IpAddresses
    <3>1. <<s, ip>> \in Traced \X IpAddresses
      OBVIOUS
    <3> QED
      BY <1>6, <3>1 DEF LookUp
  <2> QED
    BY <1>6, <2>3, <2>4, <2>5 DEF LookUp
<1>7. ASSUME NEW s \in Traced, NEW ip \in IpAddresses, Located(s, ip) PROVE EnrichmentTypeOK'
  <2>1. PICK a \in {"found", "empty", "failed"} :
          /\ geoCache' = [geoCache EXCEPT ![ip] = IF a = "failed" THEN "none" ELSE a]
          /\ geoAnswer' = [t \in Traced |->
                             [geoAnswer[t] EXCEPT ![ip] = IF @ = "asked" THEN a ELSE @]]
    BY <1>7 DEF Located
  <2>2. ASSUME NEW t \in Traced
        PROVE  [geoAnswer[t] EXCEPT ![ip] = IF @ = "asked" THEN a ELSE @] \in [IpAddresses -> told]
    OBVIOUS
  <2>3. geoAnswer' \in [Traced -> [IpAddresses -> told]]
    BY <2>1, <2>2
  <2> QED
    BY <1>7, <2>1, <2>3 DEF Located
<1>8. ASSUME NEW s \in Traced, NEW x \in Domains \cup IpAddresses, IntelReturns(s, x) PROVE EnrichmentTypeOK'
  <2>1. PICK a \in known : intelAnswer' = [intelAnswer EXCEPT ![s][x] = a]
    BY <1>8 DEF IntelReturns
  <2>2. [intelAnswer[s] EXCEPT ![x] = a] \in [items -> known]
    OBVIOUS
  <2>3. intelAnswer' \in [Traced -> [items -> known]]
    BY <2>1, <2>2
  <2> QED
    BY <1>8, <2>3 DEF IntelReturns
<1>9. ASSUME NEW x \in Domains \cup IpAddresses, IntelExpires(x) PROVE EnrichmentTypeOK'
  BY <1>9 DEF IntelExpires
<1>10. CASE UNCHANGED enrichmentVars
  BY <1>10 DEF enrichmentVars
<1> QED
  BY <1>1, <1>3, <1>4, <1>5, <1>6, <1>7, <1>8, <1>9, <1>10 DEF EnrichmentNext

\* The caches, the requests and the answers keep their types.
THEOREM EnrichmentTypeCorrect == EnrichmentSpec => []EnrichmentTypeOK
<1>1. EnrichmentInit => EnrichmentTypeOK
  BY DEF EnrichmentInit, EnrichmentTypeOK, States
<1> QED
  BY <1>1, EnrichmentTypeNext, PTL DEF EnrichmentSpec

LEMMA AskedFinite ==
  ASSUME NEW s \in Traced, NEW a
  PROVE  IsFiniteSet(With(s, a)) /\ Cardinality(With(s, a)) \in Nat
BY EnrichmentAssumption, FS_Subset, FS_CardinalityType DEF With

\* The state from the answers and the one from the hops are the same where no answer was
\* empty.
LEMMA StatesAgree ==
  ASSUME NEW s \in Traced, PublicIps[s] \cap With(s, "empty") = {}, PublicIps[s] # {}
  PROVE  LiveState(s) = StoredState(s)
<1> DEFINE context == {h \in PublicHops(s) : HopAddress[s][h] \in With(s, "found")}
           succeeded == PublicIps[s] \cap (With(s, "found") \cup With(s, "empty"))
<1>1. PublicIps[s] = {HopAddress[s][h] : h \in PublicHops(s)}
  BY DEF PublicIps
<1>2. succeeded = {HopAddress[s][h] : h \in context}
  BY <1>1
<1>3. succeeded = PublicIps[s] <=> context = PublicHops(s)
  BY <1>1
<1>4. succeeded = {} <=> context = {}
  BY <1>1
<1> QED
  BY <1>1, <1>3, <1>4 DEF LiveState, StoredState

\* What the lookups of locations leave alone.
LocationsRest ==
  /\ GeoRests /\ UNCHANGED infraState
  /\ \A s \in Traced : enrichPc'[s] # enrichPc[s] => {enrichPc[s], enrichPc'[s]} \cap {"start", "locating"} = {}

LEMMA RestingLocations ==
  ASSUME LocationsInv, EnrichmentTypeOK', LocationsRest
  PROVE  LocationsInv'
<1>1. \A s \in Traced : \A a : With(s, a)' = With(s, a)
  BY DEF LocationsRest, GeoRests, With
<1>2. \A s \in Traced : StoredState(s)' = StoredState(s)
  BY <1>1 DEF StoredState
<1>3. LookupsShared'
  BY <1>1 DEF LocationsInv, LookupsShared, LocationsRest, GeoRests
<1>4. StateRebuilt'
  BY <1>1, <1>2 DEF LocationsInv, StateRebuilt, LocationsRest
<1>5. \A s \in Traced : LookupsAt(s)'
  BY <1>1 DEF LocationsInv, LookupsAt, LocationsRest
<1> QED
  BY <1>3, <1>4, <1>5 DEF LocationsInv, LocationsRest, GeoRests

LEMMA LookUpKeepsLocations ==
  ASSUME LocationsInv, EnrichmentTypeOK', NEW s \in Traced, NEW ip \in IpAddresses, LookUp(s, ip)
  PROVE  LocationsInv'
<1> USE DEF LocationsInv
<1>1. PICK a \in {"asked", "found", "empty"} :
        /\ geoAnswer' = [geoAnswer EXCEPT ![s][ip] = a]
        /\ a # "asked" => geoCache[ip] = a
        /\ a = "asked" => geoCache[ip] \in {"none", "pending"}
  BY DEF LookUp, EnrichmentTypeOK
<1>2. /\ \A t \in Traced \ {s} : geoAnswer'[t] = geoAnswer[t]
      /\ \A o \in IpAddresses \ {ip} : geoAnswer'[s][o] = geoAnswer[s][o]
      /\ geoAnswer'[s][ip] = a /\ geoAnswer[s][ip] = "waiting"
  BY <1>1 DEF EnrichmentTypeOK, LookUp
<1>3. \A o \in IpAddresses \ {ip} : geoCache'[o] = geoCache[o]
  BY DEF LookUp, CachedAtOnce, EnrichmentTypeOK
<1>4. \A o \in IpAddresses, t \in Traced :
        /\ <<t, o>> \in requesting' => \A u \in Traced : <<u, o>> \in requesting' => u = t
        /\ geoAnswer'[t][o] = "asked" => \E u \in Traced : <<u, o>> \in requesting'
        /\ geoAnswer'[t][o] \in {"found", "empty"} => geoCache'[o] = geoAnswer'[t][o]
        /\ geoCache'[o] = "pending" <=> \E u \in Traced : <<u, o>> \in requesting'
  <2> SUFFICES ASSUME NEW o \in IpAddresses, NEW t \in Traced
               PROVE  /\ <<t, o>> \in requesting' => \A u \in Traced : <<u, o>> \in requesting' => u = t
                      /\ geoAnswer'[t][o] = "asked" => \E u \in Traced : <<u, o>> \in requesting'
                      /\ geoAnswer'[t][o] \in {"found", "empty"} => geoCache'[o] = geoAnswer'[t][o]
                      /\ geoCache'[o] = "pending" <=> \E u \in Traced : <<u, o>> \in requesting'
    OBVIOUS
  <2>1. CASE o # ip
    <3>1. geoAnswer'[t][o] = geoAnswer[t][o] /\ geoCache'[o] = geoCache[o]
      BY <1>2, <1>3, <2>1
    <3>2. \A u \in Traced : <<u, o>> \in requesting' <=> <<u, o>> \in requesting
      BY <2>1 DEF LookUp
    <3> QED
      BY <3>1, <3>2 DEF LookupsShared
  <2>2. CASE o = ip /\ geoCache[ip] = "none"
    <3>1. geoCache'[ip] = "pending" /\ requesting' = requesting \cup {<<s, ip>>}
      BY <2>2 DEF LookUp, CachedAtOnce, EnrichmentTypeOK
    <3>2. \A u \in Traced : <<u, ip>> \notin requesting
      BY <2>2
    <3>3. geoAnswer'[t][ip] \notin {"found", "empty"}
      <4>1. CASE t = s
        BY <1>1, <1>2, <2>2, <4>1
      <4>2. CASE t # s
        BY <1>2, <2>2, <4>2 DEF LookupsShared
      <4> QED
        BY <4>1, <4>2
    <3> QED
      BY <2>2, <3>1, <3>2, <3>3
  <2>3. CASE o = ip /\ geoCache[ip] # "none"
    <3>1. geoCache' = geoCache /\ requesting' = requesting
      BY <2>3 DEF LookUp
    <3>2. CASE t = s
      BY <1>1, <1>2, <2>3, <3>1, <3>2 DEF LookupsShared, EnrichmentTypeOK
    <3>3. CASE t # s
      BY <1>2, <2>3, <3>1, <3>3 DEF LookupsShared
    <3> QED
      BY <3>2, <3>3
  <2> QED
    BY <2>1, <2>2, <2>3
<1>5. \A o \in IpAddresses, t \in Traced : geoAnswer'[t][o] # "waiting" => o \in LookupIps[t]
  <2> SUFFICES ASSUME NEW o \in IpAddresses, NEW t \in Traced, geoAnswer'[t][o] # "waiting"
               PROVE  o \in LookupIps[t]
    OBVIOUS
  <2>1. CASE t = s /\ o = ip
    BY <2>1 DEF LookUp
  <2>2. CASE ~(t = s /\ o = ip)
    BY <1>2, <2>2 DEF LookupsShared
  <2> QED
    BY <2>1, <2>2
<1>6. \A t \in Traced \ {s} : \A b : With(t, b)' = With(t, b)
  BY <1>2 DEF With
<1>7. \A t \in Traced : Cardinality(With(t, "asked"))' <= MaxConcurrent
  <2> SUFFICES ASSUME NEW t \in Traced PROVE Cardinality(With(t, "asked")') <= MaxConcurrent
    OBVIOUS
  <2>1. CASE t # s
    <3>1. With(t, "asked")' = With(t, "asked")
      BY <1>6, <2>1
    <3> QED
      BY <3>1 DEF LookupsShared
  <2>2. CASE t = s
    <3>1. With(s, "asked")' = With(s, "asked") \/ With(s, "asked")' = With(s, "asked") \cup {ip}
      BY <1>2, <1>1 DEF With
    <3>2. Cardinality(With(s, "asked")) < MaxConcurrent
      BY DEF LookUp
    <3> DEFINE before == With(s, "asked")
    <3>3. IsFiniteSet(before) /\ Cardinality(before) \in Nat
      BY AskedFinite
    <3> HIDE DEF before
    <3>4. Cardinality(before \cup {ip}) = IF ip \in before THEN Cardinality(before) ELSE Cardinality(before) + 1
      BY <3>3, FS_AddElement
    <3>5. With(s, "asked")' = before \/ With(s, "asked")' = before \cup {ip}
      BY <3>1 DEF before
    <3>6. Cardinality(before) < MaxConcurrent
      BY <3>2 DEF before
    <3>7. Cardinality(before \cup {ip}) <= MaxConcurrent /\ Cardinality(before) <= MaxConcurrent
      BY <3>3, <3>4, <3>6, EnrichmentAssumption
    <3>8. Cardinality(With(s, "asked")') <= MaxConcurrent
      BY <3>5, <3>7
    <3> QED
      BY <2>2, <3>8
  <2> QED
    BY <2>1, <2>2
<1>8. LookupsShared'
  BY <1>4, <1>5, <1>7 DEF LookupsShared
<1>9. StateRebuilt' /\ \A t \in Traced : LookupsAt(t)'
  <2>1. enrichPc[s] = "locating" /\ enrichPc' = enrichPc /\ infraState' = infraState /\ infraState[s] = "none"
    BY DEF LookUp, LookupsAt
  <2>2. \A t \in Traced \ {s} : StoredState(t)' = StoredState(t)
    BY <1>6 DEF StoredState
  <2>3. StateRebuilt'
    BY <1>6, <2>1, <2>2 DEF StateRebuilt
  <2>4. ASSUME NEW t \in Traced PROVE LookupsAt(t)'
    <3>1. CASE t = s
      BY <2>1, <3>1 DEF LookupsAt
    <3>2. CASE t # s
      BY <1>6, <2>1, <3>2 DEF LookupsAt
    <3> QED
      BY <3>1, <3>2
  <2> QED
    BY <2>3, <2>4
<1> QED
  BY <1>4, <1>8, <1>9

LEMMA LocatedKeepsLocations ==
  ASSUME LocationsInv, EnrichmentTypeOK', NEW s \in Traced, NEW ip \in IpAddresses, Located(s, ip)
  PROVE  LocationsInv'
<1> USE DEF LocationsInv
<1>1. PICK a \in {"found", "empty", "failed"} :
        /\ geoCache' = [geoCache EXCEPT ![ip] = IF a = "failed" THEN "none" ELSE a]
        /\ geoAnswer' = [t \in Traced |-> [geoAnswer[t] EXCEPT ![ip] = IF @ = "asked" THEN a ELSE @]]
  BY DEF Located
<1>2. /\ \A t \in Traced, o \in IpAddresses \ {ip} : geoAnswer'[t][o] = geoAnswer[t][o]
      /\ \A t \in Traced : geoAnswer'[t][ip] = IF geoAnswer[t][ip] = "asked" THEN a ELSE geoAnswer[t][ip]
      /\ \A o \in IpAddresses \ {ip} : geoCache'[o] = geoCache[o]
      /\ geoCache'[ip] = IF a = "failed" THEN "none" ELSE a
  BY <1>1 DEF EnrichmentTypeOK
<1>3. \A t \in Traced : <<t, ip>> \in requesting => t = s
  BY DEF Located, LookupsShared
<1>4. \A t \in Traced : geoAnswer[t][ip] \notin {"found", "empty"}
  <2>1. geoCache[ip] = "pending"
    BY DEF Located
  <2> QED
    BY <2>1 DEF LookupsShared
<1>5. requesting' = requesting \ {<<s, ip>>}
  BY DEF Located
<1>6. \A o \in IpAddresses, t \in Traced :
        /\ <<t, o>> \in requesting' => \A u \in Traced : <<u, o>> \in requesting' => u = t
        /\ geoAnswer'[t][o] = "asked" => \E u \in Traced : <<u, o>> \in requesting'
        /\ geoAnswer'[t][o] \in {"found", "empty"} => geoCache'[o] = geoAnswer'[t][o]
        /\ geoCache'[o] = "pending" <=> \E u \in Traced : <<u, o>> \in requesting'
        /\ geoAnswer'[t][o] # "waiting" => o \in LookupIps[t]
  <2> SUFFICES ASSUME NEW o \in IpAddresses, NEW t \in Traced
               PROVE  /\ <<t, o>> \in requesting' => \A u \in Traced : <<u, o>> \in requesting' => u = t
                      /\ geoAnswer'[t][o] = "asked" => \E u \in Traced : <<u, o>> \in requesting'
                      /\ geoAnswer'[t][o] \in {"found", "empty"} => geoCache'[o] = geoAnswer'[t][o]
                      /\ geoCache'[o] = "pending" <=> \E u \in Traced : <<u, o>> \in requesting'
                      /\ geoAnswer'[t][o] # "waiting" => o \in LookupIps[t]
    OBVIOUS
  <2>1. CASE o # ip
    <3>1. \A u \in Traced : <<u, o>> \in requesting' <=> <<u, o>> \in requesting
      BY <1>5, <2>1
    <3>2. geoAnswer'[t][o] = geoAnswer[t][o] /\ geoCache'[o] = geoCache[o]
      BY <1>2, <2>1
    <3> QED
      BY <3>1, <3>2 DEF LookupsShared
  <2>2. CASE o = ip
    <3>1. \A u \in Traced : <<u, ip>> \notin requesting'
      BY <1>3, <1>5
    <3> QED
      BY <1>2, <1>4, <2>2, <3>1 DEF LookupsShared
  <2> QED
    BY <2>1, <2>2
<1>7. \A t \in Traced : Cardinality(With(t, "asked"))' <= MaxConcurrent
  <2> SUFFICES ASSUME NEW t \in Traced PROVE Cardinality(With(t, "asked")') <= MaxConcurrent
    OBVIOUS
  <2>1. With(t, "asked")' \subseteq With(t, "asked")
    BY <1>2 DEF With
  <2>2. Cardinality(With(t, "asked")') <= Cardinality(With(t, "asked"))
    BY <2>1, AskedFinite, FS_Subset
  <2>3. Cardinality(With(t, "asked")') \in Nat
    BY <2>1, AskedFinite, FS_Subset, FS_CardinalityType
  <2>4. Cardinality(With(t, "asked")) <= MaxConcurrent
    BY DEF LookupsShared
  <2> QED
    BY <2>2, <2>3, <2>4, AskedFinite, EnrichmentAssumption
<1>8. LookupsShared'
  BY <1>6, <1>7 DEF LookupsShared
<1>9. ASSUME NEW t \in Traced, enrichPc[t] # "locating", NEW b PROVE With(t, b)' = With(t, b)
  <2>1. \A o \in IpAddresses : geoAnswer[t][o] # "asked"
    BY <1>9 DEF LookupsAt, With
  <2> QED
    BY <1>2, <2>1 DEF With
<1>10. enrichPc' = enrichPc /\ infraState' = infraState
  BY DEF Located
<1>11. StateRebuilt'
  <2> SUFFICES ASSUME NEW t \in Traced, infraState[t] # "none", PublicIps[t] \cap With(t, "empty")' = {}
               PROVE  infraState[t] = StoredState(t)'
    BY <1>10 DEF StateRebuilt
  <2>1. enrichPc[t] # "locating"
    BY DEF LookupsAt
  <2>2. With(t, "empty")' = With(t, "empty") /\ StoredState(t)' = StoredState(t)
    BY <1>9, <2>1 DEF StoredState
  <2> QED
    BY <2>2 DEF StateRebuilt
<1>12. ASSUME NEW t \in Traced PROVE LookupsAt(t)'
  BY <1>9, <1>10 DEF LookupsAt
<1> QED
  BY <1>6, <1>8, <1>11, <1>12

LEMMA LocationsNext == LocationsInv /\ [EnrichmentNext]_enrichmentVars => LocationsInv'
<1> SUFFICES ASSUME LocationsInv, [EnrichmentNext]_enrichmentVars PROVE LocationsInv'
  OBVIOUS
<1>0. EnrichmentTypeOK /\ EnrichmentTypeOK'
  BY EnrichmentTypeNext DEF LocationsInv
<1>1. ASSUME NEW s \in Traced, StartLookups(s) PROVE LocationsInv'
  <2>1. \A t \in Traced : \A a : With(t, a)' = With(t, a)
    BY <1>1 DEF StartLookups, GeoRests, With
  <2>2. \A t \in Traced : StoredState(t)' = StoredState(t)
    BY <2>1 DEF StoredState
  <2>3. LookupsShared'
    BY <1>1, <2>1 DEF LocationsInv, LookupsShared, StartLookups, GeoRests
  <2>4. infraState'[s] # "none" => infraState'[s] = StoredState(s)
    BY <1>0, <1>1 DEF LocationsInv, EnrichmentTypeOK, LookupsAt, StartLookups, Step, StoredState
  <2>5. StateRebuilt'
    BY <1>0, <1>1, <2>1, <2>2, <2>4 DEF LocationsInv, EnrichmentTypeOK, StateRebuilt, StartLookups
  <2>6. \A t \in Traced : LookupsAt(t)'
    BY <1>0, <1>1, <2>1 DEF LocationsInv, EnrichmentTypeOK, LookupsAt, StartLookups, Step
  <2> QED
    BY <1>0, <1>1, <2>3, <2>5, <2>6 DEF LocationsInv, StartLookups, GeoRests
<1>2. ASSUME NEW s \in Traced, FinishLookups(s) PROVE LocationsInv'
  <2>1. \A t \in Traced : \A a : With(t, a)' = With(t, a)
    BY <1>2 DEF FinishLookups, GeoRests, With
  <2>2. \A t \in Traced : StoredState(t)' = StoredState(t)
    BY <2>1 DEF StoredState
  <2>3. LookupsShared'
    BY <1>2, <2>1 DEF LocationsInv, LookupsShared, FinishLookups, GeoRests
  <2>4. With(s, "asked") = {}
    BY <1>2 DEF FinishLookups, LocationsInv, LookupsShared, With
  <2>5. infraState'[s] = LiveState(s) /\ PublicIps[s] # {}
    BY <1>0, <1>2 DEF FinishLookups, EnrichmentTypeOK, Step, LocationsInv, LookupsAt
  <2>6. StateRebuilt'
    <3> SUFFICES ASSUME NEW t \in Traced, infraState'[t] # "none", PublicIps[t] \cap With(t, "empty") = {}
                 PROVE  infraState'[t] = StoredState(t)
      BY <2>1, <2>2 DEF StateRebuilt
    <3>1. CASE t = s
      BY <2>5, <3>1, StatesAgree
    <3>2. CASE t # s
      BY <1>0, <1>2, <3>2 DEF LocationsInv, EnrichmentTypeOK, StateRebuilt, FinishLookups
    <3> QED
      BY <3>1, <3>2
  <2>7. \A t \in Traced : LookupsAt(t)'
    <3> SUFFICES ASSUME NEW t \in Traced PROVE LookupsAt(t)'
      OBVIOUS
    <3>1. CASE t = s
      BY <1>0, <1>2, <2>1, <2>4, <3>1 DEF EnrichmentTypeOK, LookupsAt, FinishLookups, Step
    <3>2. CASE t # s
      BY <1>0, <1>2, <2>1, <3>2 DEF LocationsInv, EnrichmentTypeOK, LookupsAt, FinishLookups, Step
    <3> QED
      BY <3>1, <3>2
  <2> QED
    BY <1>0, <1>2, <2>3, <2>6, <2>7 DEF LocationsInv, FinishLookups, GeoRests
<1>3. ASSUME NEW s \in Traced, NEW ip \in IpAddresses, LookUp(s, ip) PROVE LocationsInv'
  BY <1>0, <1>3, LookUpKeepsLocations
<1>4. ASSUME NEW s \in Traced, NEW ip \in IpAddresses, Located(s, ip) PROVE LocationsInv'
  BY <1>0, <1>4, LocatedKeepsLocations
<1>5. ASSUME NEW s \in Traced, AskDomains(s) \/ AskReputations(s) \/ FinishIntel(s) PROVE LocationsInv'
  <2>1. LocationsRest
    BY <1>0, <1>5 DEF LocationsRest, AskDomains, AskReputations, FinishIntel, Step, EnrichmentTypeOK
  <2> QED
    BY <1>0, <2>1, RestingLocations
<1>6. ASSUME NEW x \in Domains \cup IpAddresses,
             IntelExpires(x) \/ \E s \in Traced : IntelReturns(s, x) PROVE LocationsInv'
  <2>1. LocationsRest
    BY <1>6 DEF LocationsRest, IntelExpires, IntelReturns
  <2> QED
    BY <1>0, <2>1, RestingLocations
<1>7. CASE UNCHANGED enrichmentVars
  <2>1. LocationsRest
    BY <1>7 DEF LocationsRest, enrichmentVars, GeoRests
  <2> QED
    BY <1>0, <2>1, RestingLocations
<1> QED
  BY <1>1, <1>2, <1>3, <1>4, <1>5, <1>6, <1>7 DEF EnrichmentNext

\* An investigation that a step leaves where it is, as far as the threat intelligence
\* goes.
IntelRestsAt(s) ==
  /\ providers' = providers /\ intelAnswer'[s] = intelAnswer[s] /\ intelState'[s] = intelState[s]
  /\ enrichPc'[s] # enrichPc[s] => {enrichPc[s], enrichPc'[s]} \subseteq {"start", "locating", "located"}

LEMMA RestingIntel ==
  ASSUME NEW s \in Traced, IntelAt(s), IntelRestsAt(s)
  PROVE  IntelAt(s)'
<1>1. IntelAsked(s)' = IntelAsked(s)
  BY DEF IntelAsked, IntelRestsAt
<1> QED
  BY <1>1 DEF IntelAt, IntelRestsAt

\* What is looked up waits no more, and who did not wait does not begin to.
LEMMA AskAnswers ==
  ASSUME EnrichmentTypeOK, NEW s \in Traced, NEW chosen, Ask(s, chosen)
  PROVE  \A x \in Domains \cup IpAddresses :
           x \in chosen \/ intelAnswer[s][x] # "waiting" => intelAnswer'[s][x] # "waiting"
<1>1. intelAnswer'[s] = [x \in Domains \cup IpAddresses |->
                           IF x \notin chosen THEN intelAnswer[s][x]
                           ELSE IF x \in intelFresh THEN "known" ELSE "asked"]
  BY DEF Ask, EnrichmentTypeOK
<1> QED
  BY <1>1

LEMMA IntelNext == IntelInv /\ [EnrichmentNext]_enrichmentVars => IntelInv'
<1> SUFFICES ASSUME IntelInv, [EnrichmentNext]_enrichmentVars PROVE IntelInv'
  OBVIOUS
<1>0. EnrichmentTypeOK /\ EnrichmentTypeOK'
  BY EnrichmentTypeNext DEF IntelInv
<1> DEFINE items == Domains \cup IpAddresses
<1>1. ASSUME NEW s \in Traced, StartLookups(s) \/ FinishLookups(s) PROVE IntelInv'
  <2>1. \A t \in Traced : IntelRestsAt(t)
    BY <1>0, <1>1 DEF IntelRestsAt, IntelRests, StartLookups, FinishLookups, Step, EnrichmentTypeOK
  <2> QED
    BY <1>0, <2>1, RestingIntel DEF IntelInv
<1>2. ASSUME NEW s \in Traced, NEW ip \in IpAddresses, LookUp(s, ip) \/ Located(s, ip) PROVE IntelInv'
  <2>1. \A t \in Traced : IntelRestsAt(t)
    BY <1>2 DEF IntelRestsAt, IntelRests, LookUp, Located
  <2> QED
    BY <1>0, <2>1, RestingIntel DEF IntelInv
<1>3. ASSUME NEW s \in Traced, AskDomains(s) PROVE IntelInv'
  <2>1. \A t \in Traced \ {s} : IntelRestsAt(t)
    BY <1>0, <1>3 DEF IntelRestsAt, AskDomains, Ask, Step, EnrichmentTypeOK
  <2>2. enrichPc'[s] = "registered" /\ intelState'[s] = "none" /\ providers' = providers
    BY <1>0, <1>3 DEF AskDomains, Step, EnrichmentTypeOK, IntelInv, IntelAt
  <2>3. \A x \in items : "rdap" \in providers /\ x \in RegisteredDomains[s] => intelAnswer'[s][x] # "waiting"
    BY <1>0, <1>3, AskAnswers DEF AskDomains
  <2>4. IntelAt(s)'
    BY <2>2, <2>3 DEF IntelAt
  <2> QED
    BY <1>0, <2>1, <2>4, RestingIntel DEF IntelInv
<1>4. ASSUME NEW s \in Traced, AskReputations(s) PROVE IntelInv'
  <2>1. \A t \in Traced \ {s} : IntelRestsAt(t)
    BY <1>0, <1>4 DEF IntelRestsAt, AskReputations, Ask, Step, EnrichmentTypeOK
  <2>2. /\ enrichPc[s] = "registered" /\ enrichPc'[s] = "rated"
        /\ intelState'[s] = "none" /\ providers' = providers
    BY <1>0, <1>4 DEF AskReputations, Step, EnrichmentTypeOK, IntelInv, IntelAt
  <2>3. \A x \in items : x \in RatedIps[s] \/ intelAnswer[s][x] # "waiting" => intelAnswer'[s][x] # "waiting"
    <3>1. CASE "abuse" \in providers
      BY <1>0, <1>4, <3>1, AskAnswers DEF AskReputations
    <3>2. CASE "abuse" \notin providers
      <4>1. intelAnswer'[s] = [x \in items |-> IF x \in RatedIps[s] THEN "failed" ELSE intelAnswer[s][x]]
        BY <1>0, <1>4, <3>2 DEF AskReputations, EnrichmentTypeOK
      <4> QED
        BY <4>1
    <3> QED
      BY <3>1, <3>2
  <2>5. IntelAt(s)'
    BY <2>2, <2>3 DEF IntelAt, IntelInv
  <2> QED
    BY <1>0, <2>1, <2>5, RestingIntel DEF IntelInv
<1>5. ASSUME NEW s \in Traced, NEW x \in items, IntelReturns(s, x) PROVE IntelInv'
  <2>1. \A t \in Traced \ {s} : IntelRestsAt(t)
    BY <1>0, <1>5 DEF IntelRestsAt, IntelReturns, EnrichmentTypeOK
  <2>2. PICK a \in {"known", "failed"} : intelAnswer' = [intelAnswer EXCEPT ![s][x] = a]
    BY <1>5 DEF IntelReturns
  <2>3. /\ \A y \in items \ {x} : intelAnswer'[s][y] = intelAnswer[s][y]
        /\ intelAnswer'[s][x] = a /\ intelAnswer[s][x] = "asked"
    BY <1>0, <1>5, <2>2 DEF EnrichmentTypeOK, IntelReturns
  <2>4. enrichPc[s] \in {"registered", "rated"} /\ intelState[s] = "none"
    BY <1>0, <2>3 DEF IntelInv, IntelAt, IntelAsked, EnrichmentTypeOK
  <2>5. enrichPc' = enrichPc /\ intelState' = intelState /\ providers' = providers
    BY <1>5 DEF IntelReturns
  <2>6. IntelAt(s)'
    BY <2>3, <2>4, <2>5 DEF IntelAt, IntelInv
  <2> QED
    BY <1>0, <2>1, <2>6, RestingIntel DEF IntelInv
<1>6. ASSUME NEW x \in items, IntelExpires(x) PROVE IntelInv'
  <2>1. \A t \in Traced : IntelRestsAt(t)
    BY <1>6 DEF IntelRestsAt, IntelExpires
  <2> QED
    BY <1>0, <2>1, RestingIntel DEF IntelInv
<1>7. ASSUME NEW s \in Traced, FinishIntel(s) PROVE IntelInv'
  <2>1. \A t \in Traced \ {s} : IntelRestsAt(t)
    BY <1>0, <1>7 DEF IntelRestsAt, FinishIntel, Step, EnrichmentTypeOK
  <2>2. /\ enrichPc[s] = "rated" /\ enrichPc'[s] = "enriched" /\ IntelAsked(s) = {}
        /\ intelAnswer' = intelAnswer /\ providers' = providers
    BY <1>0, <1>7 DEF FinishIntel, Step, EnrichmentTypeOK
  <2>3. intelState'[s] = "COMPLETED" => \A x \in items : intelAnswer[s][x] \in {"known", "waiting"}
    BY <1>0, <1>7 DEF FinishIntel, EnrichmentTypeOK
  <2>4. IntelAsked(s)' = {}
    BY <2>2 DEF IntelAsked
  <2>5. IntelAt(s)'
    BY <2>2, <2>3, <2>4 DEF IntelAt, IntelInv
  <2> QED
    BY <1>0, <2>1, <2>5, RestingIntel DEF IntelInv
<1>8. CASE UNCHANGED enrichmentVars
  <2>1. \A t \in Traced : IntelRestsAt(t)
    BY <1>8 DEF IntelRestsAt, enrichmentVars
  <2> QED
    BY <1>0, <2>1, RestingIntel DEF IntelInv
<1> QED
  BY <1>1, <1>2, <1>3, <1>4, <1>5, <1>6, <1>7, <1>8 DEF EnrichmentNext

\* For any number of investigations in a process, addresses, domains and bounds: lookups
\* are shared and bounded, the rebuilt state is the one that was answered, and complete
\* threat intelligence is complete (lib/email/geo-provider.js, infrastructure.js,
\* threat-intelligence.js).
THEOREM EnrichmentAlwaysHonest == EnrichmentSpec => []EnrichmentHonest
<1>1. EnrichmentInit => LocationsInv /\ IntelInv
  <2> SUFFICES ASSUME EnrichmentInit PROVE LocationsInv /\ IntelInv
    OBVIOUS
  <2>1. EnrichmentTypeOK
    BY DEF EnrichmentInit, EnrichmentTypeOK, States
  <2>2. \A s \in Traced : With(s, "asked") = {} /\ With(s, "found") = {} /\ IntelAsked(s) = {}
    BY DEF EnrichmentInit, With, IntelAsked
  <2>3. \A s \in Traced : Cardinality(With(s, "asked")) <= MaxConcurrent
    <3>1. Cardinality({}) = 0
      BY FS_EmptySet
    <3> SUFFICES ASSUME NEW s \in Traced PROVE Cardinality(With(s, "asked")) <= MaxConcurrent
      OBVIOUS
    <3>2. With(s, "asked") = {}
      BY <2>2
    <3>3. Cardinality(With(s, "asked")) = 0
      BY <3>1, <3>2
    <3>4. 0 <= MaxConcurrent
      BY EnrichmentAssumption
    <3> QED
      BY <3>3, <3>4
  <2>4. LookupsShared /\ StateRebuilt
    BY <2>3 DEF EnrichmentInit, LookupsShared, StateRebuilt
  <2> QED
    BY <2>1, <2>2, <2>4 DEF EnrichmentInit, LocationsInv, LookupsAt, IntelInv, IntelAt
<1>2. LocationsInv /\ IntelInv => EnrichmentHonest
  <2>1. IntelInv => IntelComplete
    BY DEF IntelInv, IntelAt, IntelComplete, EnrichmentTypeOK
  <2> QED
    BY <2>1 DEF LocationsInv, EnrichmentHonest
<1> QED
  BY <1>1, <1>2, LocationsNext, IntelNext, PTL DEF EnrichmentSpec

-------------------------------------------------------------------------------
(* Sessions *)

Generations == 0..MaxGeneration
CallRecord ==
  [step : {"idle", "verifying", "refreshing", "answered"}, token : Generations, retried : BOOLEAN,
   answer : {"none", "verified", "refused", "error"} \cup Brings]

SessionTypes ==
  /\ provider \in [current : Generations, last : Generations]
  /\ accessValid \in BOOLEAN /\ jar \in Generations
  /\ shown \in [Tabs -> BOOLEAN]
  /\ call \in [Tabs -> CallRecord]
  /\ disturbed \in BOOLEAN /\ sessionFaults \in 0..MaxSessionFaults

\* Undisturbed, a request of one tab is alone: it carries the cookies' token until its
\* exchange brings the provider's, and is refused only when there is no session.
CallInv(t) ==
  /\ call[t].answer # "none" => call[t].step = "answered"
  /\ ~disturbed /\ InFlight(t) =>
       /\ \A o \in Tabs \ {t} : ~InFlight(o)
       /\ call[t].answer \notin Brings => call[t].token = jar
       /\ call[t].answer \in Brings => call[t].token = provider.current
       /\ call[t].answer = "refused" => ~SignedIn

SessionInv == SessionTypes /\ (\A t \in Tabs : CallInv(t)) /\ StaysSignedIn

LEMMA SessionTypesNext == SessionTypes /\ [SessionsNext]_sessionsVars => SessionTypes'
<1> SUFFICES ASSUME SessionTypes, [SessionsNext]_sessionsVars PROVE SessionTypes'
  OBVIOUS
<1> USE SessionsAssumption DEF SessionTypes, Generations, CallRecord, Brings
<1>1. CASE AccessExpires
  BY <1>1 DEF AccessExpires
<1>2. ASSUME NEW t \in Tabs, SignIn(t) PROVE SessionTypes'
  BY <1>2 DEF SignIn
<1>3. ASSUME NEW t \in Tabs, AskSession(t) PROVE SessionTypes'
  BY <1>3 DEF AskSession, NoCall, cookies
<1>4. ASSUME NEW t \in Tabs, VerifyAccess(t) PROVE SessionTypes'
  BY <1>4 DEF VerifyAccess, Answer, cookies
<1>5. ASSUME NEW t \in Tabs, ExchangeToken(t) PROVE SessionTypes'
  <2> DEFINE good == call[t].token = provider.current /\ provider.last < MaxGeneration
             next == [current |-> provider.last + 1, last |-> provider.last + 1]
  <2>1. UNCHANGED <<accessValid, jar, shown>> /\ disturbed' \in BOOLEAN
    BY <1>5 DEF ExchangeToken
  <2>6. sessionFaults' \in 0..MaxSessionFaults
    BY <1>5 DEF ExchangeToken
  <2>2. good => next \in [current : Generations, last : Generations] /\ next.current \in Generations
    OBVIOUS
  <2>3. ASSUME NEW s \in {"refused", "error"}, Answer(t, s) PROVE call' \in [Tabs -> CallRecord]
    <3> DEFINE answered == [call[t] EXCEPT !.step = "answered", !.answer = s]
    <3>1. answered \in CallRecord
      OBVIOUS
    <3>2. call' = [call EXCEPT ![t] = answered] /\ call \in [Tabs -> CallRecord]
      BY <2>3 DEF Answer
    <3> HIDE DEF answered, CallRecord
    <3> QED
      BY <3>1, <3>2
  <2>4. ASSUME NEW answer \in Brings, good, provider' = next,
               call' = [call EXCEPT ![t] = [@ EXCEPT !.step = "answered", !.answer = answer,
                                                     !.token = next.current]]
        PROVE  SessionTypes'
    <3>1. call[t] \in CallRecord /\ next.current \in Generations
      BY <2>2, <2>4
    <3> HIDE DEF next, good
    <3>2. [call[t] EXCEPT !.step = "answered", !.answer = answer, !.token = next.current] \in CallRecord
      BY <3>1
    <3> QED
      BY <2>1, <2>2, <2>4, <2>6, <3>2
  <2>5. CASE provider' \in {provider, next} /\ (provider' = next => good) /\ \E s \in {"refused", "error"} : Answer(t, s)
    BY <2>1, <2>2, <2>3, <2>5, <2>6
  <2> QED
    BY <1>5, <2>4, <2>5 DEF ExchangeToken
<1>6. ASSUME NEW t \in Tabs, ReceiveSession(t) PROVE SessionTypes'
  <2>1. /\ UNCHANGED <<provider, disturbed, sessionFaults>>
        /\ jar' \in {jar, call[t].token, 0} /\ accessValid' \in {accessValid, TRUE, FALSE}
    BY <1>6 DEF ReceiveSession
  <2>2. shown' \in [Tabs -> BOOLEAN]
    BY <1>6 DEF ReceiveSession
  <2>3. call' \in [Tabs -> CallRecord]
    BY <1>6 DEF ReceiveSession, NoCall
  <2>4. /\ provider' \in [current : Generations, last : Generations]
        /\ accessValid' \in BOOLEAN /\ jar' \in Generations
    <3>1. call[t].token \in Generations /\ 0 \in Generations /\ jar \in Generations
      OBVIOUS
    <3>2. jar' \in Generations
      BY <2>1, <3>1
    <3>3. provider' = provider /\ accessValid' \in BOOLEAN
      BY <2>1
    <3> QED
      BY <3>2, <3>3
  <2> QED
    BY <2>1, <2>2, <2>3, <2>4
<1>7. ASSUME NEW t \in Tabs, SignOut(t) PROVE SessionTypes'
  <2>1. provider' \in {provider, [provider EXCEPT !.current = 0]} /\ jar' \in {jar, 0}
        /\ accessValid' \in {accessValid, FALSE} /\ disturbed' \in BOOLEAN /\ UNCHANGED <<call, sessionFaults>>
    BY <1>7 DEF SignOut, cookies
  <2>2. shown' \in [Tabs -> BOOLEAN]
    BY <1>7 DEF SignOut
  <2>3. [provider EXCEPT !.current = 0] \in [current : Generations, last : Generations] /\ 0 \in Generations
    OBVIOUS
  <2> QED
    BY <2>1, <2>2, <2>3
<1>8. CASE UNCHANGED sessionsVars
  BY <1>8 DEF sessionsVars, cookies
<1>9. ASSUME NEW t \in Tabs, SignUp(t) PROVE SessionTypes'
  BY <1>9 DEF SignUp, cookies
<1> QED
  BY <1>1, <1>2, <1>3, <1>4, <1>5, <1>6, <1>7, <1>8, <1>9 DEF SessionsNext

LEMMA SessionInvNext == SessionInv /\ [SessionsNext]_sessionsVars => SessionInv'
<1> SUFFICES ASSUME SessionInv, [SessionsNext]_sessionsVars PROVE SessionInv'
  OBVIOUS
<1>0. SessionTypes /\ SessionTypes' /\ (\A t \in Tabs : CallInv(t)) /\ StaysSignedIn
  BY SessionTypesNext DEF SessionInv
<1> SUFFICES (\A t \in Tabs : CallInv(t)') /\ StaysSignedIn'
  BY <1>0 DEF SessionInv
<1> USE SessionsAssumption DEF SessionTypes, Generations, CallRecord, Brings
<1>1. CASE AccessExpires \/ UNCHANGED sessionsVars
  BY <1>0, <1>1 DEF AccessExpires, sessionsVars, cookies, CallInv, InFlight, SignedIn, StaysSignedIn
<1>2. ASSUME NEW t \in Tabs, SignIn(t) PROVE (\A o \in Tabs : CallInv(o)') /\ StaysSignedIn'
  <2>1. /\ UNCHANGED call /\ jar' = provider'.current
        /\ disturbed' = \E o \in Tabs : InFlight(o)
    BY <1>0, <1>2 DEF SignIn
  <2> QED
    BY <1>0, <2>1 DEF CallInv, InFlight, SignedIn, StaysSignedIn
<1>3. ASSUME NEW t \in Tabs, AskSession(t) PROVE (\A o \in Tabs : CallInv(o)') /\ StaysSignedIn'
  <2>1. /\ ~InFlight(t) /\ UNCHANGED <<provider, jar>>
        /\ ~disturbed' => ~disturbed /\ \A o \in Tabs : ~InFlight(o)
        /\ call'[t].step = "verifying" /\ call'[t].token = jar /\ call'[t].answer = "none"
        /\ \A o \in Tabs \ {t} : call'[o] = call[o]
    BY <1>0, <1>3 DEF AskSession, NoCall, cookies
  <2>2. CallInv(t)'
    BY <1>0, <2>1 DEF CallInv, InFlight, cookies
  <2>3. ASSUME NEW o \in Tabs \ {t} PROVE CallInv(o)'
    BY <1>0, <2>1 DEF CallInv, InFlight, cookies, SignedIn
  <2>4. call[t].answer = "none"
    BY <1>0, <2>1 DEF CallInv, InFlight
  <2>5. StaysSignedIn'
    BY <1>0, <2>1, <2>4 DEF StaysSignedIn, cookies, SignedIn
  <2> QED
    BY <2>2, <2>3, <2>5
<1>4. ASSUME NEW t \in Tabs, VerifyAccess(t) PROVE (\A o \in Tabs : CallInv(o)') /\ StaysSignedIn'
  <2>1. /\ call[t].step = "verifying" /\ UNCHANGED <<cookies, disturbed>>
        /\ call'[t].token = call[t].token
        /\ \/ call'[t].step = "answered" /\ call'[t].answer \in {"verified", "none", "error"}
           \/ call'[t].step = "refreshing" /\ call'[t].answer = call[t].answer
        /\ \A o \in Tabs \ {t} : call'[o] = call[o]
    BY <1>0, <1>4 DEF VerifyAccess, Answer
  <2>2. call[t].answer = "none" /\ InFlight(t)
    BY <1>0, <2>1 DEF CallInv, InFlight
  <2>3. CallInv(t)'
    BY <1>0, <2>1, <2>2 DEF CallInv, InFlight, cookies
  <2>4. ASSUME NEW o \in Tabs \ {t} PROVE CallInv(o)'
    BY <1>0, <2>1, <2>2 DEF CallInv, InFlight, cookies, SignedIn
  <2>5. StaysSignedIn'
    BY <1>0, <2>1, <2>2 DEF StaysSignedIn, cookies, SignedIn
  <2> QED
    BY <2>3, <2>4, <2>5
<1>5. ASSUME NEW t \in Tabs, ExchangeToken(t) PROVE (\A o \in Tabs : CallInv(o)') /\ StaysSignedIn'
  <2>1. /\ call[t].step = "refreshing" /\ UNCHANGED jar
        /\ call'[t].step = "answered"
        /\ ~disturbed' => ~disturbed /\ sessionFaults' = sessionFaults
        /\ \A o \in Tabs \ {t} : call'[o] = call[o]
    <3>1. call[t].step = "refreshing" /\ UNCHANGED jar
          /\ disturbed' = (disturbed \/ sessionFaults' # sessionFaults)
      BY <1>5 DEF ExchangeToken
    <3>2. \E c : call' = [call EXCEPT ![t] = c] /\ c.step = "answered"
      <4>1. \A s : Answer(t, s) => \E c : call' = [call EXCEPT ![t] = c] /\ c.step = "answered"
        <5> SUFFICES ASSUME NEW s, Answer(t, s)
                     PROVE  \E c : call' = [call EXCEPT ![t] = c] /\ c.step = "answered"
          OBVIOUS
        <5>1. call' = [call EXCEPT ![t] = [call[t] EXCEPT !.step = "answered", !.answer = s]]
          BY <1>0 DEF Answer
        <5>2. [call[t] EXCEPT !.step = "answered", !.answer = s].step = "answered"
          BY <1>0
        <5> QED
          BY <5>1, <5>2
      <4> DEFINE next == [current |-> provider.last + 1, last |-> provider.last + 1]
                 brings(a) == [call[t] EXCEPT !.step = "answered", !.answer = a, !.token = next.current]
      <4>2. \A a : brings(a).step = "answered"
        BY <1>0
      <4>3. (\E a \in Brings : call' = [call EXCEPT ![t] = brings(a)]) \/ \E s : Answer(t, s)
        BY <1>0, <1>5 DEF ExchangeToken
      <4> HIDE DEF brings
      <4> QED
        BY <4>1, <4>2, <4>3
    <3>3. call'[t].step = "answered" /\ \A o \in Tabs \ {t} : call'[o] = call[o]
      BY <1>0, <3>2
    <3> QED
      BY <3>1, <3>3
  <2>2. call[t].answer = "none" /\ InFlight(t)
    BY <1>0, <2>1 DEF CallInv, InFlight
  <2>3. CASE call'[t].answer \in Brings /\ call'[t].token = provider'.current
    BY <1>0, <2>1, <2>2, <2>3 DEF CallInv, InFlight, StaysSignedIn
  <2>4. CASE /\ call'[t].answer \in {"refused", "error"} /\ call'[t].token = call[t].token
             /\ call'[t].answer = "refused" => call[t].token # provider.current
             /\ UNCHANGED provider
    <3>1. ~disturbed' /\ call'[t].answer = "refused" => ~SignedIn'
      BY <1>0, <2>1, <2>2, <2>4 DEF CallInv, InFlight, StaysSignedIn, SignedIn
    <3>2. CallInv(t)'
      BY <1>0, <2>1, <2>2, <2>4, <3>1 DEF CallInv, InFlight
    <3>3. ASSUME NEW o \in Tabs \ {t} PROVE CallInv(o)'
      BY <1>0, <2>1, <2>2, <2>4 DEF CallInv, InFlight, SignedIn
    <3>4. StaysSignedIn'
      BY <1>0, <2>1, <2>2, <2>4 DEF StaysSignedIn, SignedIn
    <3> QED
      BY <3>2, <3>3, <3>4
  <2>5. CASE disturbed' /\ call'[t].answer = "error"
    BY <1>0, <2>1, <2>2, <2>5 DEF CallInv, InFlight, StaysSignedIn
  <2>6. \A s : Answer(t, s) => call'[t].answer = s /\ call'[t].token = call[t].token
    BY <1>0 DEF Answer
  <2> DEFINE good == call[t].token = provider.current /\ provider.last < MaxGeneration
             next == [current |-> provider.last + 1, last |-> provider.last + 1]
  <2>7. ASSUME NEW answer \in Brings, good, provider' = next,
               call' = [call EXCEPT ![t] = [@ EXCEPT !.step = "answered", !.answer = answer,
                                                     !.token = next.current]]
        PROVE  (\A o \in Tabs : CallInv(o)') /\ StaysSignedIn'
    BY <1>0, <2>3, <2>7
  <2>8. CASE call[t].token # provider.current /\ Answer(t, "refused") /\ UNCHANGED provider
    BY <2>4, <2>6, <2>8
  <2>9. CASE Answer(t, "error") /\ UNCHANGED provider
    BY <2>4, <2>6, <2>9
  <2>10. CASE sessionFaults' = sessionFaults + 1 /\ sessionFaults \in 0..MaxSessionFaults /\ Answer(t, "error")
    BY <2>1, <2>5, <2>6, <2>10
  <2> QED
    BY <1>0, <1>5, <2>7, <2>8, <2>9, <2>10 DEF ExchangeToken
<1>6. ASSUME NEW t \in Tabs, ReceiveSession(t) PROVE (\A o \in Tabs : CallInv(o)') /\ StaysSignedIn'
  <2>1. /\ call[t].step = "answered" /\ UNCHANGED <<provider, disturbed>>
        /\ \A o \in Tabs \ {t} : call'[o] = call[o]
        /\ call'[t].answer = "none"
        /\ InFlight(t)' => call[t].answer # "refused" /\ call'[t].token = jar'
        /\ call[t].answer \in Brings => jar' = call[t].token
        /\ call[t].answer \notin Brings \cup {"refused"} => jar' = jar
    BY <1>0, <1>6 DEF ReceiveSession, NoCall, InFlight, ClearsCookies, Transient
  <2>2. InFlight(t)
    BY <2>1 DEF InFlight
  <2>3. CallInv(t)'
    BY <1>0, <2>1, <2>2 DEF CallInv, InFlight
  <2>4. ASSUME NEW o \in Tabs \ {t} PROVE CallInv(o)'
    BY <1>0, <2>1, <2>2 DEF CallInv, InFlight
  <2>5. StaysSignedIn'
    BY <1>0, <2>1, <2>2 DEF StaysSignedIn, SignedIn, CallInv, InFlight
  <2> QED
    BY <2>3, <2>4, <2>5
<1>7. ASSUME NEW t \in Tabs, SignOut(t) PROVE (\A o \in Tabs : CallInv(o)') /\ StaysSignedIn'
  <2>1. /\ UNCHANGED call
        /\ disturbed' = (disturbed \/ \E o \in Tabs : InFlight(o))
        /\ ~SignedIn' \/ UNCHANGED cookies
    BY <1>0, <1>7 DEF SignOut, SignedIn
  <2> QED
    BY <1>0, <2>1 DEF StaysSignedIn, SignedIn, CallInv, InFlight, cookies
<1>8. ASSUME NEW t \in Tabs, SignUp(t) PROVE (\A o \in Tabs : CallInv(o)') /\ StaysSignedIn'
  BY <1>0, <1>8 DEF SignUp, StaysSignedIn, SignedIn, CallInv, InFlight, cookies
<1> QED
  BY <1>1, <1>2, <1>3, <1>4, <1>5, <1>6, <1>7, <1>8 DEF SessionsNext

LEMMA AlwaysSessionInv == SessionsSpec => []SessionInv
<1>1. SessionsInit => SessionTypes
  <2> SUFFICES ASSUME SessionsInit PROVE SessionTypes
    OBVIOUS
  <2>1. 0 \in Generations /\ 0 \in 0..MaxSessionFaults
    BY SessionsAssumption DEF Generations
  <2>2. NoCall \in CallRecord
    BY <2>1 DEF NoCall, CallRecord, Brings
  <2> QED
    BY <2>1, <2>2 DEF SessionsInit, SessionTypes
<1>2. SessionsInit => SessionInv
  BY <1>1 DEF SessionsInit, SessionInv, CallInv, InFlight, NoCall, StaysSignedIn, SignedIn
<1> QED
  BY <1>2, SessionInvNext, PTL DEF SessionsSpec

\* A person who is signed in stays signed in: only overlapping requests of two tabs, or
\* an exchange whose answer is lost, end a session by themselves
\* (lib/routes/account/auth-session.js).
THEOREM AlwaysStaysSignedIn == SessionsSpec => []StaysSignedIn
<1>1. SessionInv => StaysSignedIn
  BY DEF SessionInv
<1> QED
  BY <1>1, AlwaysSessionInv, PTL

\* Provider, cookies, tabs and calls keep their types.
THEOREM SessionsTypeCorrect == SessionsSpec => []SessionsTypeOK
<1>1. SessionInv => SessionsTypeOK
  BY DEF SessionInv, SessionTypes, SessionsTypeOK, CallRecord, Generations
<1> QED
  BY <1>1, AlwaysSessionInv, PTL

-------------------------------------------------------------------------------
(* Inference: a run over a long text ends in time. *)

InHand == Active \cup ChunksIn({"failed"})
ToCome == ChunksIn({"waiting"})
Awaiting == ChunksIn({"request", "pause"})

\* Chunks are taken in order, the first two before any time has passed.
OrderInv ==
  /\ \A c, d \in Chunks : d < c /\ d \in ToCome => c \in ToCome
  /\ \A c \in Chunks \cap {1, 2} : chunk[c].began = 0 /\ (clock > 0 => c \notin ToCome)

\* A chunk that was taken has what the run has left, or a second.
BudgetInv ==
  \A c \in Chunks \ ToCome :
    chunk[c].began <= clock /\ chunk[c].budget = AtLeastSecond(RunDeadline - chunk[c].began)

\* What a check may still take, seen from a time of which it was under way.
CheckEnds(from) ==
  \/ availability.until <= from + Second
  \/ availability.until + Second <= RunDeadline
  \/ shared /\ availability.until <= from + 4 * Second

\* A check is short against what its run has left, and a chunk waits only for a check
\* that was or could have been begun within the run's time.
CheckInv ==
  /\ availability.state = "pending" => clock <= availability.until /\ CheckEnds(clock)
  /\ \A c \in ChunksIn({"checking"}) :
       /\ availability.state = "pending"
       /\ CheckEnds(chunk[c].began) /\ chunk[c].began < RunDeadline

\* The deadline of a chunk's requests keeps the bound, and its timers keep the deadline.
DeadlineInv ==
  \A c \in Awaiting :
    /\ clock <= chunk[c].timer /\ chunk[c].timer <= chunk[c].deadline
    /\ \/ chunk[c].deadline <= chunk[c].began + chunk[c].budget
       \/ chunk[c].deadline <= chunk[c].began + Grace
    /\ chunk[c].deadline <= RunDeadline + Grace
    /\ chunk[c].step = "pause" => chunk[c].attempt < 3

\* When one of the first two chunks may go on after the deadline of the run, the check
\* is still believed when it ends, so that a third chunk begun then makes none.
FreshInv ==
  /\ \A c \in Awaiting \cap {1, 2} :
       RunDeadline < chunk[c].deadline /\ clock < chunk[c].deadline
         => availability.state = "fresh" /\ chunk[c].deadline <= availability.until
  /\ \A c \in ChunksIn({"done"}) \cap {1, 2} :
       ToCome # {} /\ RunDeadline <= clock => Fresh /\ clock < Grace

InferenceInv ==
  InferenceTypeOK /\ OrderInv /\ BudgetInv /\ CheckInv /\ DeadlineInv /\ FreshInv

LEMMA MaxOfTwo ==
  ASSUME NEW a \in Int, NEW b \in Int
  PROVE  Max({a, b}) = IF a <= b THEN b ELSE a
<1> DEFINE larger == IF a <= b THEN b ELSE a
<1>1. larger \in {a, b} /\ \A y \in {a, b} : larger >= y
  OBVIOUS
<1>2. \A x \in {a, b} : (\A y \in {a, b} : x >= y) => x = larger
  OBVIOUS
<1> QED
  BY <1>1, <1>2 DEF Max

LEMMA MinOfTwo ==
  ASSUME NEW a \in Int, NEW b \in Int
  PROVE  Min({a, b}) = IF a <= b THEN a ELSE b
<1> DEFINE smaller == IF a <= b THEN a ELSE b
<1>1. smaller \in {a, b} /\ \A y \in {a, b} : smaller <= y
  OBVIOUS
<1>2. \A x \in {a, b} : (\A y \in {a, b} : x <= y) => x = smaller
  OBVIOUS
<1> QED
  BY <1>1, <1>2 DEF Min

LEMMA SecondAtLeast ==
  ASSUME NEW t \in Int
  PROVE  /\ AtLeastSecond(t) \in Nat
         /\ AtLeastSecond(t) = IF Second <= t THEN t ELSE Second
BY MaxOfTwo, InferenceAssumption DEF AtLeastSecond

LEMMA RunDeadlineType == RunDeadline \in Nat /\ Second \in Nat \ {0} /\ Second <= RunDeadline
BY SecondAtLeast, InferenceAssumption DEF RunDeadline

\* A check takes a second or leaves one of the time its chunk has.
LEMMA CheckTimeBounds ==
  ASSUME NEW budget \in Nat
  PROVE  /\ CheckTime(budget) \in Nat /\ Second <= CheckTime(budget)
         /\ CheckTime(budget) = Second \/ CheckTime(budget) + Second <= budget
<1>1. budget \div 4 \in Nat /\ 4 * (budget \div 4) <= budget
  OBVIOUS
<1>2. Min({4 * Second, budget \div 4}) \in Nat /\ Min({4 * Second, budget \div 4}) <= budget \div 4
  BY <1>1, MinOfTwo, InferenceAssumption
<1>3. PICK quarter \in Nat : quarter = Min({4 * Second, budget \div 4}) /\ 4 * quarter <= budget
  BY <1>1, <1>2
<1>4. CheckTime(budget) = AtLeastSecond(quarter)
  BY <1>3 DEF CheckTime
<1>5. Second \in Nat \ {0}
  BY InferenceAssumption
<1> QED
  BY <1>3, <1>4, <1>5, SecondAtLeast

ChunkRecords ==
  [step : {"waiting", "checking", "request", "pause", "done", "failed"},
   budget : Nat, began : Nat, deadline : Nat, attempt : 0..3, timer : Nat]

\* The deadline of a chunk's requests: what is left of its time, or a second.
LEMMA RequestingIs ==
  ASSUME clock \in Nat, NEW r \in ChunkRecords, r.began <= clock
  PROVE  /\ Requesting(r) \in ChunkRecords
         /\ Requesting(r).step = "request"
         /\ Requesting(r).began = r.began /\ Requesting(r).budget = r.budget
         /\ Requesting(r).timer = Requesting(r).deadline
         /\ clock + Second <= Requesting(r).deadline
         /\ r.began + r.budget <= Requesting(r).deadline
         /\ \/ Requesting(r).deadline = clock + Second
            \/ Requesting(r).deadline = r.began + r.budget
<1> DEFINE left == r.budget - (clock - r.began)
           deadline == clock + AtLeastSecond(left)
<1>1. r.budget \in Nat /\ r.began \in Nat /\ left \in Int /\ Second \in Nat
  BY InferenceAssumption DEF ChunkRecords
<1>2. AtLeastSecond(left) \in Nat /\ AtLeastSecond(left) = IF Second <= left THEN left ELSE Second
  BY <1>1, SecondAtLeast
<1>3. /\ deadline \in Nat /\ clock + Second <= deadline /\ r.began + r.budget <= deadline
      /\ deadline = clock + Second \/ deadline = r.began + r.budget
  <2> HIDE DEF deadline
  <2>1. deadline = clock + AtLeastSecond(left)
    BY DEF deadline
  <2> QED
    BY <1>1, <1>2, <2>1
<1>4. Requesting(r) = [r EXCEPT !.step = "request", !.deadline = deadline, !.attempt = 1, !.timer = deadline]
  BY DEF Requesting
<1> HIDE DEF deadline
<1>5. Requesting(r) = [step |-> "request", budget |-> r.budget, began |-> r.began,
                       deadline |-> deadline, attempt |-> 1, timer |-> deadline]
  BY <1>4 DEF ChunkRecords
<1>6. r.budget \in Nat /\ r.began \in Nat /\ 1 \in 0..3
  BY DEF ChunkRecords
<1>7. Requesting(r) \in ChunkRecords
  BY <1>3, <1>5, <1>6 DEF ChunkRecords
<1>8. /\ Requesting(r).step = "request" /\ Requesting(r).deadline = deadline
      /\ Requesting(r).timer = deadline
      /\ Requesting(r).began = r.began /\ Requesting(r).budget = r.budget
  BY <1>5
<1> QED
  BY <1>3, <1>7, <1>8

LEMMA InferenceTypes ==
  InferenceTypeOK <=>
    /\ clock \in Nat
    /\ availability \in [state : {"none", "pending", "fresh"}, until : Nat]
    /\ chunk \in [Chunks -> ChunkRecords]
    /\ shared \in BOOLEAN
BY DEF InferenceTypeOK, ChunkRecords

LEMMA GraceType == Grace \in Nat /\ 2 * Second <= Grace /\ (shared => Grace = 5 * Second)
BY InferenceAssumption DEF Grace

LEMMA AtMostThree == Chunks \subseteq {1, 2, 3} /\ \A c \in Chunks : 1..(c - 1) \subseteq Chunks
BY InferenceAssumption DEF Chunks

\* When no chunk may start although one waits, it is the third, and the first two are
\* under way or have failed.
LEMMA AllTaken ==
  ASSUME OrderInv, ToCome # {}, \A c \in Chunks : ~MayStart(c)
  PROVE  1 \in InHand /\ 2 \in InHand
<1>1. \E w \in ToCome : \A d \in ToCome : w <= d
  <2>1. ToCome \subseteq {1, 2, 3}
    BY AtMostThree DEF ToCome, ChunksIn
  <2>2. CASE 1 \in ToCome
    BY <2>1, <2>2
  <2>3. CASE 1 \notin ToCome /\ 2 \in ToCome
    BY <2>1, <2>3
  <2>4. CASE 1 \notin ToCome /\ 2 \notin ToCome
    <3>1. \A d \in ToCome : d = 3
      BY <2>1, <2>4
    <3>2. 3 \in ToCome
      BY <3>1
    <3> QED
      BY <3>1, <3>2
  <2> QED
    BY <2>2, <2>3, <2>4
<1>2. PICK w \in ToCome : \A d \in ToCome : w <= d
  BY <1>1
<1>3. w \in {1, 2, 3} /\ w \in Chunks /\ chunk[w].step = "waiting"
  BY AtMostThree DEF ToCome, ChunksIn
<1>4. \A d \in 1..(w - 1) : d \in Chunks /\ chunk[d].step # "waiting"
  BY <1>2, <1>3, AtMostThree DEF ToCome, ChunksIn
<1>5. ~(Cardinality(InHand) < 2)
  BY <1>3, <1>4 DEF MayStart, InHand
<1>6. InHand \subseteq 1..(w - 1)
  <2> SUFFICES ASSUME NEW d \in InHand PROVE d \in 1..(w - 1)
    OBVIOUS
  <2>1. d \in Chunks /\ d \in {1, 2, 3} /\ d \notin ToCome
    BY AtMostThree DEF InHand, Active, ChunksIn, ToCome
  <2>2. ~(w < d)
    BY <1>3, <2>1 DEF OrderInv
  <2>3. d # w
    BY <2>1
  <2> QED
    BY <1>3, <2>1, <2>2, <2>3
<1>7. IsFiniteSet(1..(w - 1)) /\ Cardinality(1..(w - 1)) = w - 1
  BY <1>3, FS_Interval
<1>8. /\ Cardinality(InHand) \in Nat /\ Cardinality(InHand) <= w - 1
      /\ Cardinality(InHand) = w - 1 => InHand = 1..(w - 1)
  BY <1>6, <1>7, FS_Subset, FS_CardinalityType
<1>9. w = 3 /\ InHand = 1..(w - 1)
  BY <1>3, <1>5, <1>8
<1> QED
  BY <1>9
LEMMA SomeIdle ==
  ASSUME NEW c \in Chunks, MayStart(c)
  PROVE  ~(1 \in InHand /\ 2 \in InHand)
<1> SUFFICES ASSUME 1 \in InHand, 2 \in InHand PROVE FALSE
  OBVIOUS
<1>1. InHand \subseteq 1..3
  <2>1. InHand \subseteq Chunks
    BY DEF InHand, Active, ChunksIn
  <2>2. {1, 2, 3} \subseteq 1..3
    OBVIOUS
  <2> QED
    BY <2>1, <2>2, AtMostThree
<1>2. IsFiniteSet(InHand)
  <2>1. IsFiniteSet(1..3)
    BY FS_Interval, 1 \in Int, 3 \in Int, Zenon
  <2> QED
    BY <1>1, <2>1, FS_Subset
<1>3. Cardinality(1..2) = 2 /\ 1..2 \subseteq InHand
  <2>1. Cardinality(1..2) = IF 1 > 2 THEN 0 ELSE 2 - 1 + 1
    BY FS_Interval, 1 \in Int, 2 \in Int, Zenon
  <2>2. \A d \in 1..2 : d = 1 \/ d = 2
    OBVIOUS
  <2> QED
    BY <2>1, <2>2
<1>4. Cardinality(InHand) \in Nat /\ 2 <= Cardinality(InHand)
  BY <1>2, <1>3, FS_Subset, FS_CardinalityType
<1> QED
  BY <1>4 DEF MayStart, InHand
LEMMA OneChunkMoves ==
  ASSUME chunk \in [Chunks -> ChunkRecords], NEW c \in Chunks, NEW r,
         chunk' = [chunk EXCEPT ![c] = r], NEW steps
  PROVE  /\ \A d \in Chunks : d # c => chunk'[d] = chunk[d]
         /\ chunk'[c] = r
         /\ \A d \in Chunks : d \in ChunksIn(steps)' <=> IF d = c THEN r.step \in steps ELSE d \in ChunksIn(steps)
BY DEF ChunksIn

LEMMA StartKeeps ==
  ASSUME InferenceInv, NEW c \in Chunks, StartChunk(c)
  PROVE  InferenceInv'
<1> DEFINE b == AtLeastSecond(RunDeadline - clock)
           started == [Waiting0 EXCEPT !.step = "checking", !.budget = b, !.began = clock]
           new == IF Fresh THEN Requesting(started) ELSE started
<1>1. /\ clock \in Nat /\ availability \in [state : {"none", "pending", "fresh"}, until : Nat]
      /\ chunk \in [Chunks -> ChunkRecords] /\ shared \in BOOLEAN
  BY InferenceTypes DEF InferenceInv
<1>2. /\ b \in Nat /\ Second <= b /\ RunDeadline <= clock + b
      /\ b = Second \/ clock + b = RunDeadline
  BY <1>1, SecondAtLeast, RunDeadlineType
<1>3. /\ MayStart(c) /\ chunk' = [chunk EXCEPT ![c] = new] /\ clock' = clock /\ shared' = shared
      /\ availability' = IF Fresh \/ availability.state = "pending" THEN availability
                         ELSE [state |-> "pending", until |-> clock + CheckTime(b)]
  BY DEF StartChunk
<1>4. c \in ToCome /\ \A d \in Chunks : d < c => d \notin ToCome
  <2>1. chunk[c].step = "waiting" /\ \A d \in 1..(c - 1) : chunk[d].step # "waiting"
    BY <1>3 DEF MayStart
  <2>2. \A d \in Chunks : d < c => d \in 1..(c - 1)
    BY AtMostThree DEF Chunks
  <2> QED
    BY <2>1, <2>2 DEF ToCome, ChunksIn
<1>5. Waiting0 \in ChunkRecords
  <2>1. 0 \in 0..3
    OBVIOUS
  <2> QED
    BY <2>1 DEF Waiting0, ChunkRecords
<1>6. started \in ChunkRecords /\ started.began = clock /\ started.budget = b /\ started.step = "checking"
  <2> HIDE DEF b
  <2> QED
    BY <1>1, <1>2, <1>5 DEF ChunkRecords
<1> HIDE DEF started, b
<1>7. /\ new \in ChunkRecords /\ new.began = clock /\ new.budget = b
      /\ new.step = IF Fresh THEN "request" ELSE "checking"
      /\ Fresh => new.timer = new.deadline /\ new.deadline = clock + b
  <2>1. CASE Fresh
    <3>1. /\ Requesting(started) \in ChunkRecords /\ Requesting(started).step = "request"
          /\ Requesting(started).began = clock /\ Requesting(started).budget = b
          /\ Requesting(started).timer = Requesting(started).deadline
          /\ clock + b <= Requesting(started).deadline
          /\ \/ Requesting(started).deadline = clock + Second
             \/ Requesting(started).deadline = clock + b
      BY <1>1, <1>6, RequestingIs
    <3>2. Requesting(started).deadline = clock + b
      BY <1>1, <1>2, <3>1, RunDeadlineType
    <3> QED
      BY <2>1, <3>1, <3>2
  <2>2. CASE ~Fresh
    BY <1>6, <2>2
  <2> QED
    BY <2>1, <2>2
<1>8. PICK n : n = new
  OBVIOUS
<1>9. /\ n \in ChunkRecords /\ n.began = clock /\ n.budget = b
      /\ n.step = IF Fresh THEN "request" ELSE "checking"
      /\ Fresh => n.timer = n.deadline /\ n.deadline = clock + b
      /\ chunk' = [chunk EXCEPT ![c] = n]
  BY <1>3, <1>7, <1>8
<1> HIDE DEF new
<1>10. /\ \A d \in Chunks : d # c => chunk'[d] = chunk[d]
       /\ chunk'[c] = n
       /\ \A d \in Chunks : d \in ToCome' <=> d # c /\ d \in ToCome
       /\ \A d \in Chunks : d \in Awaiting' <=> (d # c /\ d \in Awaiting) \/ (d = c /\ Fresh)
       /\ \A d \in Chunks : d \in ChunksIn({"checking"})' <=> (d # c /\ d \in ChunksIn({"checking"})) \/ (d = c /\ ~Fresh)
       /\ \A d \in Chunks : d \in ChunksIn({"done"})' <=> d # c /\ d \in ChunksIn({"done"})
  <2>1. \A steps : \A d \in Chunks :
          d \in ChunksIn(steps)' <=> IF d = c THEN n.step \in steps ELSE d \in ChunksIn(steps)
    BY <1>1, <1>9, OneChunkMoves
  <2>2. /\ (\A d \in Chunks : d # c => chunk'[d] = chunk[d]) /\ chunk'[c] = n
    BY <1>1, <1>9, OneChunkMoves
  <2>3. \A d \in Chunks : d \in ChunksIn({"waiting"})' <=> d # c /\ d \in ChunksIn({"waiting"})
    BY <1>9, <2>1
  <2>4. \A d \in Chunks : d \in ChunksIn({"request", "pause"})'
                          <=> (d # c /\ d \in ChunksIn({"request", "pause"})) \/ (d = c /\ Fresh)
    BY <1>9, <2>1
  <2>5. \A d \in Chunks : d \in ChunksIn({"checking"})'
                          <=> (d # c /\ d \in ChunksIn({"checking"})) \/ (d = c /\ ~Fresh)
    BY <1>9, <2>1
  <2>6. \A d \in Chunks : d \in ChunksIn({"done"})' <=> d # c /\ d \in ChunksIn({"done"})
    BY <1>9, <2>1
  <2> QED
    BY <2>2, <2>3, <2>4, <2>5, <2>6 DEF ToCome, Awaiting
<1>11. c < 3 => clock = 0
  BY <1>1, <1>4, AtMostThree DEF InferenceInv, OrderInv
<1>12. RunDeadline <= clock => Fresh /\ clock < Grace
  <2> SUFFICES ASSUME RunDeadline <= clock PROVE Fresh /\ clock < Grace
    OBVIOUS
  <2>1. c = 3 /\ 1 \in Chunks /\ 2 \in Chunks
    BY <1>1, <1>11, AtMostThree, RunDeadlineType DEF Chunks
  <2>2. PICK e \in {1, 2} : e \notin InHand
    BY <1>3, SomeIdle
  <2>3. e \in Chunks /\ e \notin ToCome
    BY <1>4, <2>1
  <2>4. e \in ChunksIn({"done"})
    BY <1>1, <2>2, <2>3 DEF InHand, Active, ChunksIn, ToCome, ChunkRecords
  <2> QED
    BY <1>4, <2>4 DEF InferenceInv, FreshInv
<1>13. InferenceTypeOK'
  <2>1. availability' \in [state : {"none", "pending", "fresh"}, until : Nat]
    BY <1>1, <1>2, <1>3, CheckTimeBounds
  <2>2. chunk' \in [Chunks -> ChunkRecords]
    BY <1>1, <1>9
  <2> QED
    BY <1>1, <1>3, <2>1, <2>2 DEF InferenceTypeOK, ChunkRecords
<1>14. OrderInv'
  <2>1. \A d, e \in Chunks : e < d /\ e \in ToCome' => d \in ToCome'
    BY <1>4, <1>10 DEF InferenceInv, OrderInv
  <2>2. \A d \in Chunks \cap {1, 2} : chunk'[d].began = 0 /\ (clock' > 0 => d \notin ToCome')
    BY <1>3, <1>9, <1>10, <1>11 DEF InferenceInv, OrderInv
  <2> QED
    BY <2>1, <2>2 DEF OrderInv
<1>15. BudgetInv'
  <2>1. n.began <= clock /\ n.budget = AtLeastSecond(RunDeadline - n.began)
    BY <1>1, <1>9 DEF b
  <2> QED
    BY <1>3, <1>10, <2>1 DEF InferenceInv, BudgetInv, RunDeadline
<1>16. CheckInv'
  <2>1. CASE Fresh
    <3>1. availability' = availability /\ availability.state # "pending"
      BY <1>3, <2>1 DEF Fresh
    <3>2. \A d \in Chunks : d \notin ChunksIn({"checking"})'
      BY <1>10, <2>1, <3>1 DEF InferenceInv, CheckInv
    <3> QED
      BY <3>1, <3>2 DEF CheckInv, ChunksIn
  <2>2. CASE ~Fresh
    <3>1. /\ availability'.state = "pending" /\ clock <= availability'.until
          /\ \/ availability'.until <= clock + Second
             \/ availability'.until + Second <= RunDeadline
             \/ shared /\ availability'.until <= clock + 4 * Second
      <4>1. CASE availability.state = "pending"
        BY <1>1, <1>3, <4>1 DEF InferenceInv, CheckInv, CheckEnds
      <4>2. CASE availability.state # "pending"
        <5>1. availability' = [state |-> "pending", until |-> clock + CheckTime(b)]
          BY <1>3, <2>2, <4>2
        <5>2. PICK t \in Nat : t = CheckTime(b) /\ Second <= t /\ (t = Second \/ t + Second <= b)
          BY <1>2, CheckTimeBounds
        <5>3. availability'.state = "pending" /\ availability'.until = clock + t
          BY <5>1, <5>2
        <5> QED
          BY <1>1, <1>2, <5>2, <5>3, RunDeadlineType
      <4> QED
        BY <4>1, <4>2
    <3>2. clock < RunDeadline
      BY <1>1, <1>12, <2>2, RunDeadlineType
    <3>3. ASSUME NEW d \in Chunks, d \in ChunksIn({"checking"})'
          PROVE  /\ CheckEnds(chunk[d].began)' /\ (chunk[d].began < RunDeadline)'
      <4>1. CASE d = c
        BY <1>3, <1>9, <1>10, <3>1, <3>2, <4>1 DEF CheckEnds, RunDeadline
      <4>2. CASE d # c
        <5>1. d \in ChunksIn({"checking"}) /\ chunk'[d] = chunk[d]
          BY <1>10, <3>3, <4>2
        <5>2. /\ availability.state = "pending" /\ CheckEnds(chunk[d].began)
              /\ chunk[d].began < RunDeadline
          BY <5>1 DEF InferenceInv, CheckInv
        <5>3. availability' = availability
          BY <1>3, <5>2
        <5> QED
          BY <1>3, <5>1, <5>2, <5>3 DEF CheckEnds, RunDeadline
      <4> QED
        BY <4>1, <4>2
    <3> QED
      BY <1>3, <3>1, <3>3 DEF CheckInv, CheckEnds, ChunksIn
  <2> QED
    BY <2>1, <2>2
<1>17. DeadlineInv'
  <2>1. Grace' = Grace /\ Grace \in Nat
    BY <1>1, <1>3, GraceType DEF Grace
  <2>2. ASSUME NEW d \in Chunks, d \in Awaiting'
        PROVE  /\ clock <= chunk'[d].timer /\ chunk'[d].timer <= chunk'[d].deadline
               /\ \/ chunk'[d].deadline <= chunk'[d].began + chunk'[d].budget
                  \/ chunk'[d].deadline <= chunk'[d].began + Grace
               /\ chunk'[d].deadline <= RunDeadline + Grace
               /\ chunk'[d].step = "pause" => chunk'[d].attempt < 3
    <3>1. CASE d = c
      <4>1. Fresh /\ chunk'[d] = n
        BY <1>10, <2>2, <3>1
      <4>2. n.step = "request" /\ n.timer = n.deadline /\ n.deadline = clock + b
        BY <1>9, <4>1
      <4>3. clock + b <= RunDeadline + Grace
        BY <1>1, <1>2, <1>12, <2>1, RunDeadlineType, GraceType
      <4> QED
        BY <1>1, <1>2, <1>9, <4>1, <4>2, <4>3
    <3>2. CASE d # c
      <4>1. d \in Awaiting /\ chunk'[d] = chunk[d]
        BY <1>10, <2>2, <3>2
      <4> QED
        BY <4>1 DEF InferenceInv, DeadlineInv
    <3> QED
      BY <3>1, <3>2
  <2> QED
    BY <1>3, <2>1, <2>2 DEF DeadlineInv, RunDeadline, Awaiting, ChunksIn
<1>18. FreshInv'
  <2>1. ASSUME NEW d \in Chunks \cap {1, 2}, d \in Awaiting',
               RunDeadline < chunk'[d].deadline, clock < chunk'[d].deadline
        PROVE  availability'.state = "fresh" /\ chunk'[d].deadline <= availability'.until
    <3>1. CASE d = c
      <4>1. Fresh /\ chunk'[d] = n /\ clock = 0
        BY <1>10, <1>11, <2>1, <3>1
      <4>2. n.deadline = clock + b
        BY <1>9, <4>1
      <4> QED
        BY <1>1, <1>2, <2>1, <4>1, <4>2, RunDeadlineType
    <3>2. CASE d # c
      <4>1. d \in Awaiting /\ chunk'[d] = chunk[d]
        BY <1>10, <2>1, <3>2
      <4>2. availability.state = "fresh" /\ chunk[d].deadline <= availability.until
        BY <2>1, <4>1 DEF InferenceInv, FreshInv
      <4>3. chunk[d].deadline \in Nat
        BY <1>1 DEF ChunkRecords
      <4>4. Fresh
        BY <1>1, <2>1, <4>1, <4>2, <4>3 DEF Fresh
      <4> QED
        BY <1>3, <4>1, <4>2, <4>4
    <3> QED
      BY <3>1, <3>2
  <2>2. ASSUME NEW d \in Chunks \cap {1, 2}, d \in ChunksIn({"done"})', RunDeadline <= clock
        PROVE  Fresh' /\ clock < Grace
    BY <1>3, <1>12, <2>2 DEF Fresh
  <2>3. Grace' = Grace
    BY <1>3 DEF Grace
  <2> QED
    BY <1>3, <2>1, <2>2, <2>3 DEF FreshInv, RunDeadline, Awaiting, ChunksIn
<1> QED
  BY <1>13, <1>14, <1>15, <1>16, <1>17, <1>18 DEF InferenceInv

LEMMA AnswerCheckKeeps ==
  ASSUME InferenceInv, NEW passed \in BOOLEAN, AnswerCheck(passed)
  PROVE  InferenceInv'
<1>1. /\ clock \in Nat /\ availability \in [state : {"none", "pending", "fresh"}, until : Nat]
      /\ chunk \in [Chunks -> ChunkRecords] /\ shared \in BOOLEAN
  BY InferenceTypes DEF InferenceInv
<1>2. /\ availability.state = "pending" /\ (passed => clock < availability.until)
      /\ availability' = IF passed THEN [state |-> "fresh", until |-> clock + CacheTtl] ELSE NoCheck
      /\ clock' = clock /\ shared' = shared
  BY DEF AnswerCheck
<1>3. \A d \in Chunks : chunk'[d] = IF chunk[d].step # "checking" THEN chunk[d]
                                    ELSE IF passed THEN Requesting(chunk[d])
                                    ELSE [chunk[d] EXCEPT !.step = "failed"]
  BY DEF AnswerCheck
<1>4. DOMAIN chunk' = Chunks /\ chunk' = [d \in Chunks |-> chunk'[d]]
  BY DEF AnswerCheck
<1>5. ASSUME NEW d \in Chunks, d \notin ChunksIn({"checking"}) PROVE chunk'[d] = chunk[d]
  BY <1>3, <1>5 DEF ChunksIn
<1>6. ASSUME NEW d \in Chunks, d \in ChunksIn({"checking"})
      PROVE  /\ chunk'[d] \in ChunkRecords
             /\ chunk'[d].began = chunk[d].began /\ chunk'[d].budget = chunk[d].budget
             /\ chunk'[d].step = IF passed THEN "request" ELSE "failed"
             /\ passed => /\ chunk'[d].timer = chunk'[d].deadline
                          /\ clock + Second <= chunk'[d].deadline
                          /\ chunk[d].began + chunk[d].budget <= chunk'[d].deadline
                          /\ \/ chunk'[d].deadline = clock + Second
                             \/ chunk'[d].deadline = chunk[d].began + chunk[d].budget
  <2>1. chunk[d] \in ChunkRecords /\ chunk[d].step = "checking"
    BY <1>1, <1>6 DEF ChunksIn
  <2>2. chunk[d].began <= clock
    BY <1>1, <2>1 DEF InferenceInv, BudgetInv, ToCome, ChunksIn
  <2>3. CASE passed
    <3>1. chunk'[d] = Requesting(chunk[d])
      BY <1>3, <2>1, <2>3
    <3> QED
      BY <1>1, <2>1, <2>2, <2>3, <3>1, RequestingIs
  <2>4. CASE ~passed
    <3>1. chunk'[d] = [chunk[d] EXCEPT !.step = "failed"]
      BY <1>3, <2>1, <2>4
    <3> QED
      BY <2>1, <2>4, <3>1 DEF ChunkRecords
  <2> QED
    BY <2>3, <2>4
<1>7. /\ \A d \in Chunks : d \in ToCome' <=> d \in ToCome
      /\ \A d \in Chunks : d \notin ChunksIn({"checking"})'
      /\ \A d \in Chunks : d \in Awaiting' <=> d \in Awaiting \/ (d \in ChunksIn({"checking"}) /\ passed)
      /\ \A d \in Chunks : d \in ChunksIn({"done"})' <=> d \in ChunksIn({"done"})
  <2>1. ASSUME NEW d \in Chunks, d \in ChunksIn({"checking"})
        PROVE /\ d \notin ToCome' /\ d \notin ToCome /\ d \notin ChunksIn({"done"})' /\ d \notin ChunksIn({"done"})
              /\ d \notin ChunksIn({"checking"})'
              /\ d \notin Awaiting /\ (d \in Awaiting' <=> passed)
    BY <1>6, <2>1 DEF ChunksIn, ToCome, Awaiting
  <2>2. ASSUME NEW d \in Chunks, d \notin ChunksIn({"checking"})
        PROVE /\ d \in ToCome' <=> d \in ToCome
              /\ d \notin ChunksIn({"checking"})'
              /\ d \in ChunksIn({"done"})' <=> d \in ChunksIn({"done"})
              /\ d \in Awaiting' <=> d \in Awaiting
    BY <1>5, <2>2 DEF ChunksIn, ToCome, Awaiting
  <2> QED
    BY <2>1, <2>2
<1>8. InferenceTypeOK'
  <2>1. availability' \in [state : {"none", "pending", "fresh"}, until : Nat]
    BY <1>1, <1>2, InferenceAssumption DEF NoCheck
  <2>2. chunk' \in [Chunks -> ChunkRecords]
    BY <1>1, <1>4, <1>5, <1>6
  <2> QED
    BY <1>1, <1>2, <2>1, <2>2 DEF InferenceTypeOK, ChunkRecords
<1>9. \A d \in Chunks : chunk'[d].began = chunk[d].began /\ chunk'[d].budget = chunk[d].budget
  BY <1>5, <1>6
<1>10. OrderInv'
  <2>1. /\ \A d, e \in Chunks : e < d /\ e \in ToCome' => d \in ToCome'
        /\ \A d \in Chunks \cap {1, 2} : chunk'[d].began = 0 /\ (clock' > 0 => d \notin ToCome')
    BY <1>2, <1>7, <1>9 DEF InferenceInv, OrderInv
  <2> QED
    BY <2>1 DEF OrderInv
<1>11. BudgetInv'
  BY <1>2, <1>7, <1>9 DEF InferenceInv, BudgetInv, RunDeadline
<1>12. CheckInv'
  <2>1. availability'.state # "pending"
    BY <1>2 DEF NoCheck
  <2> QED
    BY <1>7, <2>1 DEF CheckInv, ChunksIn
<1>13. Grace' = Grace /\ Grace \in Nat
  BY <1>2, GraceType DEF Grace
<1>14. DeadlineInv'
  <2>1. ASSUME NEW d \in Chunks, d \in Awaiting'
        PROVE  /\ clock <= chunk'[d].timer /\ chunk'[d].timer <= chunk'[d].deadline
               /\ \/ chunk'[d].deadline <= chunk'[d].began + chunk'[d].budget
                  \/ chunk'[d].deadline <= chunk'[d].began + Grace
               /\ chunk'[d].deadline <= RunDeadline + Grace
               /\ chunk'[d].step = "pause" => chunk'[d].attempt < 3
    <3>1. CASE d \in Awaiting
      <4>1. chunk'[d] = chunk[d]
        BY <1>5, <3>1 DEF Awaiting, ChunksIn
      <4> QED
        BY <3>1, <4>1 DEF InferenceInv, DeadlineInv
    <3>2. CASE d \in ChunksIn({"checking"}) /\ passed
      <4>1. PICK g \in Nat, m \in Nat : g = chunk[d].began /\ m = chunk[d].budget
        BY <1>1 DEF ChunkRecords
      <4>2. PICK e \in Nat : e = chunk'[d].deadline
        BY <1>6, <3>2 DEF ChunkRecords
      <4>3. /\ chunk'[d].began = g /\ chunk'[d].budget = m /\ chunk'[d].step = "request"
            /\ chunk'[d].timer = e /\ clock + Second <= e /\ g + m <= e
            /\ e = clock + Second \/ e = g + m
        BY <1>6, <3>2, <4>1, <4>2
      <4>4. /\ clock < availability.until /\ g < RunDeadline
            /\ \/ availability.until <= g + Second
               \/ availability.until + Second <= RunDeadline
               \/ shared /\ availability.until <= g + 4 * Second
        BY <1>2, <3>2, <4>1 DEF InferenceInv, CheckInv, CheckEnds
      <4>5. g <= clock /\ m = AtLeastSecond(RunDeadline - g)
        BY <3>2, <4>1 DEF InferenceInv, BudgetInv, ToCome, ChunksIn
      <4>6. RunDeadline - g <= m /\ (m = Second \/ m = RunDeadline - g)
        BY <4>5, SecondAtLeast, RunDeadlineType
      <4>7. PICK u \in Nat : u = availability.until
        BY <1>1
      <4>8. e <= g + m \/ e <= g + Grace
        BY <1>1, <1>13, <4>3, <4>4, <4>6, <4>7, RunDeadlineType, GraceType
      <4>9. e <= RunDeadline + Grace
        BY <1>1, <1>13, <4>3, <4>4, <4>6, <4>7, RunDeadlineType, GraceType
      <4> QED
        BY <1>1, <4>2, <4>3, <4>8, <4>9, RunDeadlineType
    <3> QED
      BY <1>7, <2>1, <3>1, <3>2
  <2> QED
    BY <1>2, <1>13, <2>1 DEF DeadlineInv, RunDeadline, Awaiting, ChunksIn
<1>15. FreshInv'
  <2>1. ASSUME NEW d \in Chunks \cap {1, 2}, d \in Awaiting',
               RunDeadline < chunk'[d].deadline, clock < chunk'[d].deadline
        PROVE  availability'.state = "fresh" /\ chunk'[d].deadline <= availability'.until
    <3>1. CASE d \in Awaiting
      <4>1. chunk'[d] = chunk[d]
        BY <1>5, <3>1 DEF Awaiting, ChunksIn
      <4> QED
        BY <1>2, <2>1, <3>1, <4>1 DEF InferenceInv, FreshInv
    <3>2. CASE d \in ChunksIn({"checking"}) /\ passed
      <4>1. chunk[d].began = 0 /\ chunk[d].budget = AtLeastSecond(RunDeadline - 0)
        BY <2>1, <3>2 DEF InferenceInv, OrderInv, BudgetInv, ToCome, ChunksIn
      <4>2. chunk[d].budget = RunDeadline
        BY <4>1, SecondAtLeast, RunDeadlineType
      <4>3. chunk'[d].deadline = clock + Second
        BY <1>6, <2>1, <3>2, <4>1, <4>2, RunDeadlineType
      <4> QED
        BY <1>1, <1>2, <3>2, <4>3, InferenceAssumption
    <3> QED
      BY <1>7, <2>1, <3>1, <3>2
  <2>2. ASSUME NEW d \in Chunks \cap {1, 2}, d \in ChunksIn({"done"})', ToCome' # {}, RunDeadline <= clock
        PROVE  FALSE
    <3>1. d \in ChunksIn({"done"}) /\ ToCome # {}
      BY <1>7, <2>2 DEF ToCome, ChunksIn
    <3> QED
      BY <1>2, <2>2, <3>1 DEF InferenceInv, FreshInv, Fresh
  <2> QED
    BY <1>2, <1>13, <2>1, <2>2 DEF FreshInv, RunDeadline, Awaiting, ChunksIn
<1> QED
  BY <1>8, <1>10, <1>11, <1>12, <1>14, <1>15 DEF InferenceInv

\* Steps of one chunk that awaits an answer or a retry: the rest stays, and so do its
\* deadline and what it was given.
LEMMA ChunkKeeps ==
  ASSUME InferenceInv, NEW c \in Awaiting, NEW r \in ChunkRecords,
         chunk' = [chunk EXCEPT ![c] = r], UNCHANGED <<clock, availability, shared>>,
         r.began = chunk[c].began, r.budget = chunk[c].budget, r.deadline = chunk[c].deadline,
         \/ r.step = "failed"
         \/ r.step = "done" /\ clock < r.deadline
         \/ r.step = "request" /\ clock <= r.timer /\ r.timer <= r.deadline
         \/ r.step = "pause" /\ clock <= r.timer /\ r.timer <= r.deadline /\ r.attempt < 3
  PROVE  InferenceInv'
<1>1. /\ clock \in Nat /\ availability \in [state : {"none", "pending", "fresh"}, until : Nat]
      /\ chunk \in [Chunks -> ChunkRecords] /\ shared \in BOOLEAN
  BY InferenceTypes DEF InferenceInv
<1>2. c \in Chunks /\ chunk[c].step \in {"request", "pause"} /\ c \notin ToCome
  BY DEF Awaiting, ChunksIn, ToCome
<1>3. \A steps : \A d \in Chunks :
        d \in ChunksIn(steps)' <=> IF d = c THEN r.step \in steps ELSE d \in ChunksIn(steps)
  BY <1>1, <1>2, OneChunkMoves
<1>4. (\A d \in Chunks : d # c => chunk'[d] = chunk[d]) /\ chunk'[c] = r
  BY <1>1, <1>2, OneChunkMoves
<1>5. \A d \in Chunks : d \in ToCome' <=> d \in ToCome
  BY <1>2, <1>3 DEF ToCome
<1>6. \A d \in Chunks : d \in ChunksIn({"checking"})' <=> d # c /\ d \in ChunksIn({"checking"})
  BY <1>3
<1>7. \A d \in Chunks : d \in Awaiting' <=> IF d = c THEN r.step \in {"request", "pause"} ELSE d \in Awaiting
  BY <1>3 DEF Awaiting
<1>8. \A d \in Chunks : d \in ChunksIn({"done"})' <=> IF d = c THEN r.step = "done" ELSE d \in ChunksIn({"done"})
  BY <1>3
<1>9. InferenceTypeOK'
  <2>1. chunk' \in [Chunks -> ChunkRecords]
    BY <1>1
  <2> QED
    BY <1>1, <2>1 DEF InferenceTypeOK, ChunkRecords
<1>10. \A d \in Chunks : chunk'[d].began = chunk[d].began /\ chunk'[d].budget = chunk[d].budget
  BY <1>4
<1>11. OrderInv'
  <2>1. /\ \A d, e \in Chunks : e < d /\ e \in ToCome' => d \in ToCome'
        /\ \A d \in Chunks \cap {1, 2} : chunk'[d].began = 0 /\ (clock' > 0 => d \notin ToCome')
    BY <1>5, <1>10 DEF InferenceInv, OrderInv
  <2> QED
    BY <2>1 DEF OrderInv
<1>12. BudgetInv'
  BY <1>5, <1>10 DEF InferenceInv, BudgetInv, RunDeadline
<1>13. CheckInv'
  BY <1>6, <1>10 DEF InferenceInv, CheckInv, CheckEnds, ChunksIn, RunDeadline
<1>14. Grace' = Grace
  BY DEF Grace
<1>15. DeadlineInv'
  <2>1. ASSUME NEW d \in Chunks, d \in Awaiting'
        PROVE  /\ clock <= chunk'[d].timer /\ chunk'[d].timer <= chunk'[d].deadline
               /\ \/ chunk'[d].deadline <= chunk'[d].began + chunk'[d].budget
                  \/ chunk'[d].deadline <= chunk'[d].began + Grace
               /\ chunk'[d].deadline <= RunDeadline + Grace
               /\ chunk'[d].step = "pause" => chunk'[d].attempt < 3
    <3>1. CASE d = c
      BY <1>4, <1>7, <2>1, <3>1 DEF InferenceInv, DeadlineInv
    <3>2. CASE d # c
      BY <1>4, <1>7, <2>1, <3>2 DEF InferenceInv, DeadlineInv
    <3> QED
      BY <3>1, <3>2
  <2> QED
    BY <1>14, <2>1 DEF DeadlineInv, RunDeadline, Awaiting, ChunksIn
<1>16. FreshInv'
  <2>1. ASSUME NEW d \in Chunks \cap {1, 2}, d \in Awaiting',
               RunDeadline < chunk'[d].deadline, clock < chunk'[d].deadline
        PROVE  availability.state = "fresh" /\ chunk'[d].deadline <= availability.until
    <3>1. d \in Awaiting /\ chunk'[d].deadline = chunk[d].deadline
      BY <1>4, <1>7, <2>1
    <3> QED
      BY <2>1, <3>1 DEF InferenceInv, FreshInv
  <2>2. ASSUME NEW d \in Chunks \cap {1, 2}, d \in ChunksIn({"done"})', ToCome' # {}, RunDeadline <= clock
        PROVE  Fresh /\ clock < Grace
    <3>1. ToCome # {}
      BY <1>5, <2>2 DEF ToCome, ChunksIn
    <3>2. CASE d # c
      BY <1>8, <2>2, <3>1, <3>2 DEF InferenceInv, FreshInv
    <3>3. CASE d = c
      <4>1. clock < chunk[c].deadline /\ chunk[c].deadline \in Nat
        BY <1>1, <1>2, <1>8, <2>2, <3>3 DEF ChunkRecords
      <4>2. availability.state = "fresh" /\ chunk[c].deadline <= availability.until
        BY <1>1, <2>2, <3>3, <4>1, RunDeadlineType DEF InferenceInv, FreshInv
      <4>3. chunk[c].began = 0 /\ chunk[c].budget = AtLeastSecond(RunDeadline - 0)
        BY <1>2, <2>2, <3>3 DEF InferenceInv, OrderInv, BudgetInv
      <4>4. chunk[c].budget = RunDeadline
        BY <4>3, SecondAtLeast, RunDeadlineType
      <4>5. chunk[c].deadline <= 0 + RunDeadline \/ chunk[c].deadline <= 0 + Grace
        BY <4>3, <4>4 DEF InferenceInv, DeadlineInv
      <4>6. clock < Grace
        BY <1>1, <2>2, <4>1, <4>5, RunDeadlineType, GraceType
      <4> QED
        BY <1>1, <4>1, <4>2, <4>6 DEF Fresh
    <3> QED
      BY <3>2, <3>3
  <2> QED
    BY <1>14, <2>1, <2>2 DEF FreshInv, Fresh, RunDeadline, Awaiting, ChunksIn
<1> QED
  BY <1>9, <1>11, <1>12, <1>13, <1>15, <1>16 DEF InferenceInv

LEMMA AnswerRequestKeeps ==
  ASSUME InferenceInv, NEW c \in Chunks, AnswerRequest(c)
  PROVE  InferenceInv'
<1>1. /\ clock \in Nat /\ chunk \in [Chunks -> ChunkRecords]
  BY InferenceTypes DEF InferenceInv
<1>2. /\ chunk[c] \in ChunkRecords /\ chunk[c].step = "request" /\ c \in Awaiting
      /\ UNCHANGED <<clock, availability, shared>>
  BY <1>1 DEF AnswerRequest, Awaiting, ChunksIn
<1>3. clock <= chunk[c].timer /\ chunk[c].timer <= chunk[c].deadline
  BY <1>2 DEF InferenceInv, DeadlineInv
<1>4. CASE clock < chunk[c].timer /\ chunk' = [chunk EXCEPT ![c].step = "done"]
  <2> DEFINE r == [chunk[c] EXCEPT !.step = "done"]
  <2>1. /\ r \in ChunkRecords /\ r.step = "done" /\ r.deadline = chunk[c].deadline
        /\ r.began = chunk[c].began /\ r.budget = chunk[c].budget
    BY <1>2 DEF ChunkRecords
  <2>2. clock < r.deadline
    BY <1>1, <1>2, <1>3, <1>4 DEF ChunkRecords
  <2>3. chunk' = [chunk EXCEPT ![c] = r]
    BY <1>4
  <2> HIDE DEF r
  <2> QED
    BY <1>2, <2>1, <2>2, <2>3, ChunkKeeps
<1>5. CASE chunk' = [chunk EXCEPT ![c].step = "failed"]
  <2> DEFINE r == [chunk[c] EXCEPT !.step = "failed"]
  <2>1. /\ r \in ChunkRecords /\ r.step = "failed" /\ r.deadline = chunk[c].deadline
        /\ r.began = chunk[c].began /\ r.budget = chunk[c].budget
    BY <1>2 DEF ChunkRecords
  <2>2. chunk' = [chunk EXCEPT ![c] = r]
    BY <1>5
  <2> HIDE DEF r
  <2> QED
    BY <1>2, <2>1, <2>2, ChunkKeeps
<1>6. ASSUME NEW delay \in 1..((3 * Second) \div 2),
             chunk[c].attempt < 3, chunk[c].deadline - clock > delay + Second,
             chunk' = [chunk EXCEPT ![c].step = "pause", ![c].timer = clock + delay]
      PROVE  InferenceInv'
  <2> DEFINE r == [chunk[c] EXCEPT !.step = "pause", !.timer = clock + delay]
  <2>1. delay \in Nat /\ Second \in Nat
    BY InferenceAssumption
  <2>2. clock + delay \in Nat
    BY <1>1, <2>1
  <2>3. /\ r \in ChunkRecords /\ r.step = "pause" /\ r.deadline = chunk[c].deadline
        /\ r.began = chunk[c].began /\ r.budget = chunk[c].budget /\ r.timer = clock + delay
        /\ r.attempt < 3
    BY <1>2, <1>6, <2>2 DEF ChunkRecords
  <2>4. clock <= r.timer /\ r.timer <= r.deadline
    <3>1. chunk[c].deadline \in Nat
      BY <1>2 DEF ChunkRecords
    <3> HIDE DEF r
    <3> QED
      BY <1>1, <1>6, <2>1, <2>3, <3>1
  <2>5. chunk' = [chunk EXCEPT ![c] = r]
    BY <1>6
  <2> HIDE DEF r
  <2> QED
    BY <1>2, <2>3, <2>4, <2>5, ChunkKeeps
<1> QED
  BY <1>4, <1>5, <1>6 DEF AnswerRequest

LEMMA RetryKeeps ==
  ASSUME InferenceInv, NEW c \in Chunks, Retry(c)
  PROVE  InferenceInv'
<1> DEFINE r == [chunk[c] EXCEPT !.step = "request", !.attempt = @ + 1, !.timer = chunk[c].deadline]
<1>1. /\ clock \in Nat /\ chunk \in [Chunks -> ChunkRecords]
  BY InferenceTypes DEF InferenceInv
<1>2. /\ chunk[c] \in ChunkRecords /\ chunk[c].step = "pause" /\ c \in Awaiting
      /\ UNCHANGED <<clock, availability, shared>>
      /\ chunk' = [chunk EXCEPT ![c] = r]
  BY <1>1 DEF Retry, Awaiting, ChunksIn
<1>3. clock <= chunk[c].timer /\ chunk[c].timer <= chunk[c].deadline /\ chunk[c].attempt < 3
  BY <1>2 DEF InferenceInv, DeadlineInv
<1>4. chunk[c].attempt + 1 \in 0..3 /\ clock <= chunk[c].deadline
  BY <1>1, <1>2, <1>3 DEF ChunkRecords
<1>5. /\ r \in ChunkRecords /\ r.step = "request" /\ r.deadline = chunk[c].deadline
      /\ r.began = chunk[c].began /\ r.budget = chunk[c].budget /\ r.timer = chunk[c].deadline
  BY <1>2, <1>4 DEF ChunkRecords
<1>6. clock <= r.timer /\ r.timer <= r.deadline
  BY <1>2, <1>4, <1>5 DEF ChunkRecords
<1> HIDE DEF r
<1> QED
  BY <1>2, <1>5, <1>6, ChunkKeeps

LEMMA OtherRunKeeps ==
  ASSUME InferenceInv, OtherRunChecks
  PROVE  InferenceInv'
<1>1. /\ clock \in Nat /\ availability \in [state : {"none", "pending", "fresh"}, until : Nat]
      /\ chunk \in [Chunks -> ChunkRecords] /\ shared \in BOOLEAN
  BY InferenceTypes DEF InferenceInv
<1>2. PICK time \in Second..(4 * Second) :
        availability' = [state |-> "pending", until |-> clock + time]
  BY DEF OtherRunChecks
<1>3. /\ ~Fresh /\ availability.state # "pending"
      /\ shared' = TRUE /\ clock' = clock /\ chunk' = chunk
  BY DEF OtherRunChecks
<1>4. time \in Nat /\ Second <= time /\ time <= 4 * Second /\ Second \in Nat
  BY InferenceAssumption
<1>5. availability'.state = "pending" /\ availability'.until = clock + time
  BY <1>2
<1>6. /\ ToCome' = ToCome /\ Awaiting' = Awaiting
      /\ \A steps : ChunksIn(steps)' = ChunksIn(steps)
  BY <1>3 DEF ToCome, Awaiting, ChunksIn
<1>7. InferenceTypeOK'
  <2>1. availability' \in [state : {"none", "pending", "fresh"}, until : Nat]
    BY <1>1, <1>2, <1>4
  <2> QED
    BY <1>1, <1>3, <2>1 DEF InferenceTypeOK, ChunkRecords
<1>8. OrderInv' /\ BudgetInv'
  BY <1>3, <1>6 DEF InferenceInv, OrderInv, BudgetInv, RunDeadline
<1>9. CheckInv'
  <2>1. ChunksIn({"checking"})' = {}
    BY <1>3, <1>6 DEF InferenceInv, CheckInv
  <2> QED
    BY <1>1, <1>3, <1>4, <1>5, <2>1 DEF CheckInv, CheckEnds
<1>10. Grace \in Nat /\ Grace' \in Nat /\ Grace <= Grace'
  BY <1>1, <1>3, <1>4 DEF Grace
<1>11. DeadlineInv'
  <2>1. ASSUME NEW d \in Awaiting
        PROVE  /\ clock <= chunk[d].timer /\ chunk[d].timer <= chunk[d].deadline
               /\ \/ chunk[d].deadline <= chunk[d].began + chunk[d].budget
                  \/ chunk[d].deadline <= chunk[d].began + Grace'
               /\ chunk[d].deadline <= RunDeadline + Grace'
               /\ chunk[d].step = "pause" => chunk[d].attempt < 3
    <3>1. chunk[d].deadline \in Nat /\ chunk[d].began \in Nat
      BY <1>1 DEF Awaiting, ChunksIn, ChunkRecords
    <3> QED
      BY <1>10, <2>1, <3>1, RunDeadlineType DEF InferenceInv, DeadlineInv
  <2> QED
    BY <1>3, <1>6, <2>1 DEF DeadlineInv, RunDeadline
<1>12. FreshInv'
  <2>1. ASSUME NEW d \in Awaiting \cap {1, 2},
               RunDeadline < chunk[d].deadline, clock < chunk[d].deadline
        PROVE  FALSE
    <3>1. chunk[d].deadline \in Nat
      BY <1>1 DEF Awaiting, ChunksIn, ChunkRecords
    <3> QED
      BY <1>1, <1>3, <2>1, <3>1 DEF InferenceInv, FreshInv, Fresh
  <2>2. ASSUME NEW d \in ChunksIn({"done"}) \cap {1, 2}, ToCome # {}, RunDeadline <= clock
        PROVE  FALSE
    BY <1>3, <2>2 DEF InferenceInv, FreshInv
  <2> QED
    BY <1>3, <1>6, <2>1, <2>2 DEF FreshInv, RunDeadline
<1> QED
  BY <1>7, <1>8, <1>9, <1>11, <1>12 DEF InferenceInv

LEMMA TickKeeps ==
  ASSUME InferenceInv, Tick
  PROVE  InferenceInv'
<1>1. /\ clock \in Nat /\ availability \in [state : {"none", "pending", "fresh"}, until : Nat]
      /\ chunk \in [Chunks -> ChunkRecords] /\ shared \in BOOLEAN
  BY InferenceTypes DEF InferenceInv
<1>2. /\ clock' = clock + 1 /\ availability' = availability /\ chunk' = chunk /\ shared' = shared
      /\ availability.state = "pending" => clock < availability.until
      /\ \A c \in Awaiting : clock < chunk[c].timer
      /\ \A c \in Chunks : ~MayStart(c)
  BY DEF Tick, Awaiting
<1>3. /\ ToCome' = ToCome /\ Awaiting' = Awaiting
      /\ \A steps : ChunksIn(steps)' = ChunksIn(steps)
      /\ Grace' = Grace /\ RunDeadline' = RunDeadline
  BY <1>2 DEF ToCome, Awaiting, ChunksIn, Grace, RunDeadline
<1>4. ToCome # {} => 1 \in InHand /\ 2 \in InHand
  BY <1>2, AllTaken DEF InferenceInv
<1>5. InferenceTypeOK'
  BY <1>1, <1>2 DEF InferenceTypeOK, ChunkRecords
<1>6. OrderInv'
  <2>1. \A c \in Chunks \cap {1, 2} : c \notin ToCome
    BY <1>4 DEF InHand, Active, ChunksIn, ToCome
  <2> QED
    BY <1>2, <1>3, <2>1 DEF InferenceInv, OrderInv
<1>7. BudgetInv'
  <2>1. ASSUME NEW c \in Chunks \ ToCome
        PROVE  chunk[c].began <= clock + 1 /\ chunk[c].budget = AtLeastSecond(RunDeadline - chunk[c].began)
    <3>1. chunk[c].began \in Nat /\ chunk[c].began <= clock
      BY <1>1 DEF InferenceInv, BudgetInv, ChunkRecords
    <3> QED
      BY <1>1, <3>1 DEF InferenceInv, BudgetInv
  <2> QED
    BY <1>2, <1>3, <2>1 DEF BudgetInv
<1>8. CheckInv'
  <2>1. availability.state = "pending" => clock + 1 <= availability.until /\ CheckEnds(clock + 1)
    BY <1>1, <1>2, RunDeadlineType DEF InferenceInv, CheckInv, CheckEnds
  <2> QED
    BY <1>2, <1>3, <2>1 DEF InferenceInv, CheckInv, CheckEnds
<1>9. DeadlineInv'
  <2>1. \A c \in Awaiting : clock + 1 <= chunk[c].timer
    BY <1>1, <1>2 DEF Awaiting, ChunksIn, ChunkRecords
  <2> QED
    BY <1>2, <1>3, <2>1 DEF InferenceInv, DeadlineInv
<1>10. FreshInv'
  <2>1. ASSUME NEW c \in Awaiting \cap {1, 2}, RunDeadline < chunk[c].deadline, clock + 1 < chunk[c].deadline
        PROVE  availability.state = "fresh" /\ chunk[c].deadline <= availability.until
    <3>1. chunk[c].deadline \in Nat
      BY <1>1 DEF Awaiting, ChunksIn, ChunkRecords
    <3>2. clock < chunk[c].deadline
      BY <1>1, <2>1, <3>1
    <3> QED
      BY <2>1, <3>2 DEF InferenceInv, FreshInv
  <2>2. ASSUME NEW c \in ChunksIn({"done"}) \cap {1, 2}, ToCome # {}
        PROVE  FALSE
    BY <1>4, <2>2 DEF InHand, Active, ChunksIn
  <2> QED
    BY <1>2, <1>3, <2>1, <2>2 DEF FreshInv
<1> QED
  BY <1>5, <1>6, <1>7, <1>8, <1>9, <1>10 DEF InferenceInv

LEMMA InferenceInvariant == InferenceSpec => []InferenceInv
<1>1. InferenceInit => InferenceInv
  <2> SUFFICES ASSUME InferenceInit PROVE InferenceInv
    OBVIOUS
  <2>1. Waiting0 \in ChunkRecords /\ Waiting0.step = "waiting" /\ Waiting0.began = 0
    <3>1. 0 \in 0..3
      OBVIOUS
    <3> QED
      BY <3>1 DEF Waiting0, ChunkRecords
  <2>2. \A c \in Chunks : chunk[c] = Waiting0
    BY DEF InferenceInit
  <2>3. clock = 0 /\ availability.state # "pending"
    BY DEF InferenceInit, NoCheck
  <2>4. InferenceTypeOK
    <3>1. availability \in [state : {"none", "pending", "fresh"}, until : Nat]
      BY InferenceAssumption DEF InferenceInit, NoCheck
    <3> QED
      BY <2>1, <3>1 DEF InferenceInit, InferenceTypeOK, ChunkRecords
  <2>5. ToCome = Chunks /\ Awaiting = {} /\ ChunksIn({"checking"}) = {} /\ ChunksIn({"done"}) = {}
    BY <2>1, <2>2 DEF ToCome, Awaiting, ChunksIn
  <2>6. OrderInv
    BY <2>1, <2>2, <2>3, <2>5 DEF OrderInv
  <2> QED
    BY <2>3, <2>4, <2>5, <2>6 DEF InferenceInv, BudgetInv, CheckInv, DeadlineInv, FreshInv
<1>2. InferenceInv /\ [InferenceNext]_inferenceVars => InferenceInv'
  <2> SUFFICES ASSUME InferenceInv, [InferenceNext]_inferenceVars PROVE InferenceInv'
    OBVIOUS
  <2>1. CASE UNCHANGED inferenceVars
    <3>1. /\ ToCome' = ToCome /\ Awaiting' = Awaiting /\ Fresh' = Fresh
          /\ \A steps : ChunksIn(steps)' = ChunksIn(steps)
          /\ Grace' = Grace /\ RunDeadline' = RunDeadline
      BY <2>1 DEF inferenceVars, ToCome, Awaiting, Fresh, ChunksIn, Grace, RunDeadline
    <3>2. InferenceTypeOK' /\ OrderInv' /\ BudgetInv'
      BY <2>1, <3>1 DEF inferenceVars, InferenceInv, InferenceTypeOK, OrderInv, BudgetInv
    <3>3. CheckInv' /\ DeadlineInv' /\ FreshInv'
      BY <2>1, <3>1 DEF inferenceVars, InferenceInv, CheckInv, CheckEnds, DeadlineInv, FreshInv
    <3> QED
      BY <3>2, <3>3 DEF InferenceInv
  <2> QED
    BY <2>1, StartKeeps, AnswerCheckKeeps, AnswerRequestKeeps, RetryKeeps, OtherRunKeeps, TickKeeps
       DEF InferenceNext
<1> QED
  BY <1>1, <1>2, PTL DEF InferenceSpec

\* Every variable of a classifier run keeps its type.
THEOREM InferenceTypeCorrect == InferenceSpec => []InferenceTypeOK
<1>1. InferenceInv => InferenceTypeOK
  BY DEF InferenceInv
<1> QED
  BY <1>1, InferenceInvariant, PTL

\* Whatever is answered, retried or shared: chunks and run keep their deadlines but for
\* the minimum waits.
THEOREM AlwaysInTime == InferenceSpec => []InferenceInTime
<1>1. InferenceInv => InferenceInTime
  <2> SUFFICES ASSUME InferenceInv, NEW c \in Active
               PROVE  /\ clock - chunk[c].began <= Max({chunk[c].budget, Grace})
                      /\ clock <= RunDeadline + Grace
    BY DEF InferenceInTime
  <2>1. /\ clock \in Nat /\ availability \in [state : {"none", "pending", "fresh"}, until : Nat]
        /\ chunk \in [Chunks -> ChunkRecords] /\ shared \in BOOLEAN
    BY InferenceTypes DEF InferenceInv
  <2>2. PICK g \in Nat, m \in Nat, e \in Nat : g = chunk[c].began /\ m = chunk[c].budget /\ e = chunk[c].deadline
    BY <2>1 DEF Active, ChunksIn, ChunkRecords
  <2>3. RunDeadline - g <= m
    <3>1. m = AtLeastSecond(RunDeadline - g)
      BY <2>2 DEF InferenceInv, BudgetInv, Active, ToCome, ChunksIn
    <3> QED
      BY <2>2, <3>1, SecondAtLeast, RunDeadlineType
  <2>4. /\ clock <= g + m \/ clock <= g + Grace
        /\ clock <= RunDeadline + Grace
    <3>1. CASE c \in ChunksIn({"checking"})
      <4>1. PICK u \in Nat : u = availability.until
        BY <2>1
      <4>2. /\ clock <= u /\ g < RunDeadline
            /\ u <= g + Second \/ u + Second <= RunDeadline \/ (shared /\ u <= g + 4 * Second)
        BY <2>2, <3>1, <4>1 DEF InferenceInv, CheckInv, CheckEnds
      <4> QED
        BY <2>1, <2>2, <2>3, <4>2, RunDeadlineType, GraceType
    <3>2. CASE c \in Awaiting
      <4>1. /\ clock <= chunk[c].timer /\ chunk[c].timer <= e
            /\ e <= g + m \/ e <= g + Grace
            /\ e <= RunDeadline + Grace
        BY <2>2, <3>2 DEF InferenceInv, DeadlineInv
      <4>2. chunk[c].timer \in Nat
        BY <2>1 DEF Active, ChunksIn, ChunkRecords
      <4> QED
        BY <2>1, <2>2, <4>1, <4>2, RunDeadlineType, GraceType
    <3> QED
      BY <3>1, <3>2 DEF Active, Awaiting, ChunksIn
  <2>5. Max({m, Grace}) = IF m <= Grace THEN Grace ELSE m
    BY <2>2, MaxOfTwo, GraceType
  <2> QED
    BY <2>1, <2>2, <2>4, <2>5, GraceType
<1> QED
  BY <1>1, InferenceInvariant, PTL

-------------------------------------------------------------------------------
(* Detection: how the score of a list of indicators grows. *)

Levels == {"Critical", "High", "Medium", "Low"}
MailWeights == [worst |-> 55, sum |-> 12, sumCap |-> 40000, bonus |-> 3000, bonusCap |-> 18000]
LinkWeights == [worst |-> 52, sum |-> 10, sumCap |-> 42000, bonus |-> 3500, bonusCap |-> 20000]

\* A list of indicators, each with its severity.
IndicatorList(f) ==
  /\ IsFiniteSet(DOMAIN f)
  /\ \A i \in DOMAIN f : f[i] \in Levels

\* What is listed is finite.
LEMMA ListedIsFinite ==
  ASSUME NEW S, NEW n \in Nat, NEW f \in Surjection(1..n, S)
  PROVE IsFiniteSet(S)
BY FS_Interval, FS_Surjection

LEMMA MailNames == IsFiniteSet(DOMAIN MailSeverity)
<1> DEFINE names == <<"urgency", "credentials", "otp", "payment", "blocking", "attachment",
                      "link", "links", "flagged", "sender", "contact">>
<1>1. names \in Surjection(1..11, DOMAIN MailSeverity)
  BY DEF Surjection, MailSeverity
<1> QED
  BY <1>1, ListedIsFinite

LEMMA FeatureNames == IsFiniteSet(DOMAIN FeatureSeverity)
<1> DEFINE names == <<"url_shortener", "ip_address_url", "punycode_idn", "long_domain",
                      "too_many_hyphens", "too_many_subdomains", "suspicious_tld", "missing_https",
                      "login_verify_terms", "payment_lure_terms", "india_scam_terms",
                      "credential_terms", "redirect_query", "encoded_url_query",
                      "random_characters">>
<1>1. names \in Surjection(1..15, DOMAIN FeatureSeverity)
  BY DEF Surjection, FeatureSeverity
<1> QED
  BY <1>1, ListedIsFinite

LEMMA CountType ==
  ASSUME NEW f, IndicatorList(f), NEW level
  PROVE  CountOf(f, level) \in Nat /\ IsFiniteSet({i \in DOMAIN f : f[i] = level})
<1>1. {i \in DOMAIN f : f[i] = level} \in SUBSET DOMAIN f
  OBVIOUS
<1> QED
  BY <1>1, FS_Subset, FS_CardinalityType DEF IndicatorList, CountOf

LEMMA TotalType ==
  ASSUME NEW f, IndicatorList(f)
  PROVE  /\ TotalScore(f) \in Nat
         /\ TotalScore(f) = 95000 * CountOf(f, "Critical") + 78000 * CountOf(f, "High")
                            + 52000 * CountOf(f, "Medium") + 25000 * CountOf(f, "Low")
<1>1. PICK c \in Nat, h \in Nat, m \in Nat, l \in Nat :
        /\ c = CountOf(f, "Critical") /\ h = CountOf(f, "High")
        /\ m = CountOf(f, "Medium") /\ l = CountOf(f, "Low")
  BY CountType
<1>2. TotalScore(f) = 95000 * c + 78000 * h + 52000 * m + 25000 * l
  BY <1>1 DEF TotalScore, SeverityScore
<1> QED
  BY <1>1, <1>2

\* The worst score is one of the scores, and no other is greater.
LEMMA WorstIs ==
  ASSUME NEW f, IndicatorList(f), DOMAIN f # {}
  PROVE  /\ WorstScore(f) \in {25000, 52000, 78000, 95000}
         /\ \E i \in DOMAIN f : WorstScore(f) = SeverityScore[f[i]]
         /\ \A i \in DOMAIN f : SeverityScore[f[i]] <= WorstScore(f)
<1> DEFINE scores == {SeverityScore[level] : level \in Range(f)}
<1>1. Range(f) = {f[i] : i \in DOMAIN f}
  BY DEF Range
<1>2. /\ scores = {SeverityScore[f[i]] : i \in DOMAIN f}
      /\ scores # {} /\ scores \subseteq {25000, 52000, 78000, 95000}
  BY <1>1 DEF IndicatorList, Levels, SeverityScore
<1>3. WorstScore(f) = Max(scores)
  BY DEF WorstScore
<1>4. Max(scores) \in scores /\ \A y \in scores : y <= Max(scores)
  <2> HIDE DEF scores
  <2>1. \E x \in scores : \A y \in scores : y <= x
    <3>1. CASE 95000 \in scores
      BY <1>2, <3>1
    <3>2. CASE 95000 \notin scores /\ 78000 \in scores
      BY <1>2, <3>2
    <3>3. CASE 95000 \notin scores /\ 78000 \notin scores /\ 52000 \in scores
      BY <1>2, <3>3
    <3>4. CASE scores = {25000}
      BY <1>2, <3>4
    <3> QED
      BY <1>2, <3>1, <3>2, <3>3, <3>4
  <2>2. Max(scores) = CHOOSE x \in scores : \A y \in scores : y <= x
    BY DEF Max
  <2> QED
    BY <2>1, <2>2
<1> HIDE DEF scores
<1>5. WorstScore(f) \in scores /\ \A y \in scores : y <= WorstScore(f)
  BY <1>3, <1>4
<1>6. \A i \in DOMAIN f : SeverityScore[f[i]] \in scores
  BY <1>2
<1>7. \E i \in DOMAIN f : WorstScore(f) = SeverityScore[f[i]]
  BY <1>2, <1>5
<1>8. WorstScore(f) \in {25000, 52000, 78000, 95000}
  BY <1>2, <1>5
<1>9. \A i \in DOMAIN f : SeverityScore[f[i]] <= WorstScore(f)
  BY <1>5, <1>6
<1> QED
  BY <1>7, <1>8, <1>9

\* What decides the score of a list grows from one list to the other.
Grows(f, g) ==
  /\ DOMAIN f # {} => DOMAIN g # {} /\ WorstScore(f) <= WorstScore(g)
  /\ TotalScore(f) <= TotalScore(g)
  /\ Cardinality(DOMAIN f) <= Cardinality(DOMAIN g)

\* A share, rounded down, and a bonus grow with what they are taken of.
LEMMA ShareGrows ==
  ASSUME NEW x \in Nat, NEW y \in Nat, x <= y, NEW percent \in {10, 12, 52, 55}
  PROVE  /\ (x * percent) \div 100 \in Nat /\ (y * percent) \div 100 \in Nat
         /\ (x * percent) \div 100 <= (y * percent) \div 100
<1>1. CASE percent = 10
  BY <1>1
<1>2. CASE percent = 12
  BY <1>2
<1>3. CASE percent = 52
  BY <1>3
<1>4. CASE percent = 55
  BY <1>4
<1> QED
  BY <1>1, <1>2, <1>3, <1>4

LEMMA BonusGrows ==
  ASSUME NEW c \in Nat, NEW d \in Nat, c <= d, NEW bonus \in {3000, 3500}
  PROVE  /\ MaxOf(0, c - 2) * bonus \in Nat /\ MaxOf(0, d - 2) * bonus \in Nat
         /\ MaxOf(0, c - 2) * bonus <= MaxOf(0, d - 2) * bonus
BY DEF MaxOf

\* Then so does the score, with the weights for messages and those for links.
LEMMA ScoreGrows ==
  ASSUME NEW f, NEW g, IndicatorList(f), IndicatorList(g), Grows(f, g),
         NEW w \in {MailWeights, LinkWeights}
  PROVE  /\ ScoreIndicators(f, w) \in Nat
         /\ ScoreIndicators(g, w) \in Nat
         /\ ScoreIndicators(f, w) <= ScoreIndicators(g, w)
<1>1. PICK tf \in Nat, tg \in Nat, cf \in Nat, cg \in Nat :
        /\ tf = TotalScore(f) /\ tg = TotalScore(g)
        /\ cf = Cardinality(DOMAIN f) /\ cg = Cardinality(DOMAIN g)
  BY TotalType, FS_CardinalityType DEF IndicatorList
<1>2. tf <= tg /\ cf <= cg
  BY <1>1 DEF Grows
<1>3. (cf = 0 <=> DOMAIN f = {}) /\ (cg = 0 <=> DOMAIN g = {})
  BY <1>1, FS_EmptySet DEF IndicatorList
<1> DEFINE Formula(x, t, c, worst, sum, sumCap, bonus, bonusCap) ==
             MinOf(98000, (x * worst) \div 100 + MinOf(sumCap, (t * sum) \div 100)
                          + MinOf(bonusCap, MaxOf(0, c - 2) * bonus))
           Value(x, t, c) == Formula(x, t, c, w.worst, w.sum, w.sumCap, w.bonus, w.bonusCap)
<1>4. ASSUME NEW x \in Nat, NEW y \in Nat, x <= y
      PROVE  /\ Value(x, tf, cf) \in Nat /\ Value(y, tg, cg) \in Nat
             /\ Value(x, tf, cf) <= Value(y, tg, cg)
  <2>1. /\ w.worst \in {10, 12, 52, 55} /\ w.sum \in {10, 12, 52, 55}
        /\ w.sumCap \in Nat /\ w.bonusCap \in Nat /\ w.bonus \in {3000, 3500}
    <3>1. CASE w = MailWeights
      BY <3>1 DEF MailWeights
    <3>2. CASE w = LinkWeights
      BY <3>2 DEF LinkWeights
    <3> QED
      BY <3>1, <3>2
  <2>2. PICK worst \in {10, 12, 52, 55}, sum \in {10, 12, 52, 55}, sumCap \in Nat,
             bonus \in {3000, 3500}, bonusCap \in Nat :
          /\ worst = w.worst /\ sum = w.sum /\ sumCap = w.sumCap
          /\ bonus = w.bonus /\ bonusCap = w.bonusCap
    BY <2>1
  <2>3. /\ Formula(x, tf, cf, worst, sum, sumCap, bonus, bonusCap) \in Nat
        /\ Formula(y, tg, cg, worst, sum, sumCap, bonus, bonusCap) \in Nat
        /\ Formula(x, tf, cf, worst, sum, sumCap, bonus, bonusCap)
             <= Formula(y, tg, cg, worst, sum, sumCap, bonus, bonusCap)
    <3>1. PICK px \in Nat, py \in Nat :
            px = (x * worst) \div 100 /\ py = (y * worst) \div 100 /\ px <= py
      BY <1>4, ShareGrows
    <3>2. PICK sx \in Nat, sy \in Nat :
            sx = (tf * sum) \div 100 /\ sy = (tg * sum) \div 100 /\ sx <= sy
      BY <1>2, ShareGrows
    <3>3. PICK mx \in Nat, my \in Nat :
            mx = MinOf(sumCap, sx) /\ my = MinOf(sumCap, sy) /\ mx <= my
      BY <3>2 DEF MinOf
    <3>4. PICK bx \in Nat, by \in Nat :
            bx = MaxOf(0, cf - 2) * bonus /\ by = MaxOf(0, cg - 2) * bonus /\ bx <= by
      BY <1>2, BonusGrows
    <3>5. PICK cx \in Nat, cy \in Nat :
            cx = MinOf(bonusCap, bx) /\ cy = MinOf(bonusCap, by) /\ cx <= cy
      BY <3>4 DEF MinOf
    <3>6. /\ Formula(x, tf, cf, worst, sum, sumCap, bonus, bonusCap) = MinOf(98000, px + mx + cx)
          /\ Formula(y, tg, cg, worst, sum, sumCap, bonus, bonusCap) = MinOf(98000, py + my + cy)
      BY <3>1, <3>2, <3>3, <3>4, <3>5
    <3>7. px + mx + cx \in Nat /\ py + my + cy \in Nat /\ px + mx + cx <= py + my + cy
      BY <3>1, <3>3, <3>5
    <3>8. /\ MinOf(98000, px + mx + cx) \in Nat /\ MinOf(98000, py + my + cy) \in Nat
          /\ MinOf(98000, px + mx + cx) <= MinOf(98000, py + my + cy)
      BY <3>7 DEF MinOf
    <3> HIDE DEF Formula
    <3> QED
      BY <3>6, <3>8
  <2> HIDE DEF Formula
  <2> QED
    BY <2>2, <2>3
<1>5. /\ ScoreIndicators(f, w) = IF cf = 0 THEN 0 ELSE Value(WorstScore(f), tf, cf)
      /\ ScoreIndicators(g, w) = IF cg = 0 THEN 0 ELSE Value(WorstScore(g), tg, cg)
  BY <1>1 DEF ScoreIndicators
<1> HIDE DEF Value, Formula
<1>6. /\ cf # 0 => WorstScore(f) \in Nat /\ cg # 0 /\ WorstScore(f) <= WorstScore(g)
      /\ cg # 0 => WorstScore(g) \in Nat
  <2>1. {25000, 52000, 78000, 95000} \subseteq Nat
    OBVIOUS
  <2>2. DOMAIN f # {} => WorstScore(f) \in Nat /\ DOMAIN g # {} /\ WorstScore(f) <= WorstScore(g)
    BY <2>1, WorstIs DEF Grows
  <2>3. DOMAIN g # {} => WorstScore(g) \in Nat
    BY <2>1, WorstIs
  <2> QED
    BY <1>3, <2>2, <2>3
<1>7. CASE cg = 0
  <2>1. cf = 0
    BY <1>2, <1>7
  <2> QED
    BY <1>5, <1>7, <2>1
<1>8. CASE cg # 0 /\ cf # 0
  <2>1. ScoreIndicators(f, w) = Value(WorstScore(f), tf, cf)
        /\ ScoreIndicators(g, w) = Value(WorstScore(g), tg, cg)
    BY <1>5, <1>8, Zenon
  <2> QED
    BY <1>4, <1>6, <1>8, <2>1, Zenon
<1>9. CASE cg # 0 /\ cf = 0
  <2>1. ScoreIndicators(f, w) = 0 /\ ScoreIndicators(g, w) = Value(WorstScore(g), tg, cg)
    BY <1>5, <1>9, Zenon
  <2>2. WorstScore(g) \in Nat /\ WorstScore(g) <= WorstScore(g)
    <3>1. PICK v \in Nat : v = WorstScore(g)
      BY <1>6, <1>9
    <3> QED
      BY <3>1
  <2>3. Value(WorstScore(g), tg, cg) \in Nat
    BY <1>4, <2>2, Zenon
  <2>4. PICK v \in Nat : v = Value(WorstScore(g), tg, cg)
    BY <2>3, Zenon
  <2>5. 0 \in Nat /\ 0 <= v
    OBVIOUS
  <2> QED
    BY <2>1, <2>4, <2>5, Zenon
<1> QED
  BY <1>7, <1>8, <1>9

\* Another indicator makes a list grow.
LEMMA LongerGrows ==
  ASSUME NEW f, NEW g, IndicatorList(f), IndicatorList(g), DOMAIN f \subseteq DOMAIN g,
         \A i \in DOMAIN f : g[i] = f[i]
  PROVE  Grows(f, g)
<1>1. ASSUME NEW level PROVE CountOf(f, level) <= CountOf(g, level)
  <2>1. {i \in DOMAIN f : f[i] = level} \in SUBSET {i \in DOMAIN g : g[i] = level}
    OBVIOUS
  <2>2. IsFiniteSet({i \in DOMAIN g : g[i] = level})
    BY CountType
  <2> HIDE DEF IndicatorList
  <2> QED
    BY <2>1, <2>2, FS_Subset DEF CountOf
<1>2. TotalScore(f) <= TotalScore(g)
  <2>1. PICK cf \in Nat, hf \in Nat, mf \in Nat, lf \in Nat :
          /\ cf = CountOf(f, "Critical") /\ hf = CountOf(f, "High")
          /\ mf = CountOf(f, "Medium") /\ lf = CountOf(f, "Low")
    BY CountType
  <2>2. PICK cg \in Nat, hg \in Nat, mg \in Nat, lg \in Nat :
          /\ cg = CountOf(g, "Critical") /\ hg = CountOf(g, "High")
          /\ mg = CountOf(g, "Medium") /\ lg = CountOf(g, "Low")
    BY CountType
  <2>3. cf <= cg /\ hf <= hg /\ mf <= mg /\ lf <= lg
    BY <1>1, <2>1, <2>2
  <2>4. /\ TotalScore(f) = 95000 * cf + 78000 * hf + 52000 * mf + 25000 * lf
        /\ TotalScore(g) = 95000 * cg + 78000 * hg + 52000 * mg + 25000 * lg
    BY <2>1, <2>2, TotalType
  <2> QED
    BY <2>3, <2>4
<1>3. Cardinality(DOMAIN f) <= Cardinality(DOMAIN g)
  BY FS_Subset DEF IndicatorList
<1>4. ASSUME DOMAIN f # {} PROVE DOMAIN g # {} /\ WorstScore(f) <= WorstScore(g)
  <2>1. PICK i \in DOMAIN f : WorstScore(f) = SeverityScore[f[i]]
    BY <1>4, WorstIs
  <2> QED
    BY <2>1, WorstIs
<1> QED
  BY <1>2, <1>3, <1>4 DEF Grows

-------------------------------------------------------------------------------
(* Messages *)

LEMMA MailList ==
  ASSUME NEW t \in SUBSET DOMAIN MailSeverity
  PROVE  /\ IndicatorList(Restrict(MailSeverity, t))
         /\ DOMAIN Restrict(MailSeverity, t) = t
         /\ \A x \in t : Restrict(MailSeverity, t)[x] = MailSeverity[x]
<1>1. Restrict(MailSeverity, t) = [x \in t |-> MailSeverity[x]]
  BY DEF Restrict
<1>2. \A x \in DOMAIN MailSeverity : MailSeverity[x] \in Levels
  BY DEF MailSeverity, Levels
<1>3. IsFiniteSet(t)
  BY MailNames, FS_Subset
<1> QED
  BY <1>1, <1>2, <1>3 DEF IndicatorList

\* A second link in place of the first makes the indicators of a message grow.
LEMMA SecondLinkGrows ==
  ASSUME NEW t \in SUBSET DOMAIN MailSeverity, "link" \in t, "links" \notin t
  PROVE  LET u == (t \ {"link"}) \cup {"links"}
         IN  /\ u \in SUBSET DOMAIN MailSeverity
             /\ Grows(Restrict(MailSeverity, t), Restrict(MailSeverity, u))
<1> DEFINE u == (t \ {"link"}) \cup {"links"}
           f == Restrict(MailSeverity, t)
           g == Restrict(MailSeverity, u)
<1>1. u \in SUBSET DOMAIN MailSeverity
  BY DEF MailSeverity
<1>2. /\ IndicatorList(f) /\ DOMAIN f = t /\ \A x \in t : f[x] = MailSeverity[x]
      /\ IndicatorList(g) /\ DOMAIN g = u /\ \A x \in u : g[x] = MailSeverity[x]
  BY <1>1, MailList
<1>3. MailSeverity["link"] = "Medium" /\ MailSeverity["links"] = "High"
  BY DEF MailSeverity
<1> HIDE DEF f, g
<1>4. ASSUME NEW level \in {"Critical", "Low"} PROVE CountOf(g, level) = CountOf(f, level)
  <2>1. {i \in DOMAIN g : g[i] = level} = {i \in DOMAIN f : f[i] = level}
    BY <1>2, <1>3
  <2> QED
    BY <2>1 DEF CountOf
<1>5. CountOf(g, "High") = CountOf(f, "High") + 1
  <2> DEFINE S == {i \in DOMAIN f : f[i] = "High"}
  <2>1. {i \in DOMAIN g : g[i] = "High"} = S \cup {"links"}
    BY <1>2, <1>3
  <2>2. "links" \notin S /\ IsFiniteSet(S)
    BY <1>2, CountType
  <2> HIDE DEF S
  <2>3. Cardinality(S \cup {"links"}) = Cardinality(S) + 1
    BY <2>2, FS_AddElement
  <2> QED
    BY <2>1, <2>3 DEF CountOf, S
<1>6. CountOf(g, "Medium") = CountOf(f, "Medium") - 1
  <2> DEFINE S == {i \in DOMAIN f : f[i] = "Medium"}
  <2>1. {i \in DOMAIN g : g[i] = "Medium"} = S \ {"link"}
    BY <1>2, <1>3
  <2>2. "link" \in S /\ IsFiniteSet(S)
    BY <1>2, <1>3, CountType
  <2> HIDE DEF S
  <2>3. Cardinality(S \ {"link"}) = Cardinality(S) - 1
    BY <2>2, FS_RemoveElement
  <2> QED
    BY <2>1, <2>3 DEF CountOf, S
<1>7. TotalScore(f) <= TotalScore(g)
  <2>1. PICK c \in Nat, h \in Nat, m \in Nat, l \in Nat :
          /\ c = CountOf(f, "Critical") /\ h = CountOf(f, "High")
          /\ m = CountOf(f, "Medium") /\ l = CountOf(f, "Low")
    BY <1>2, CountType
  <2>2. TotalScore(f) = 95000 * c + 78000 * h + 52000 * m + 25000 * l
    BY <1>2, <2>1, TotalType
  <2>3. TotalScore(g) = 95000 * c + 78000 * (h + 1) + 52000 * (m - 1) + 25000 * l
    BY <1>2, <1>4, <1>5, <1>6, <2>1, TotalType
  <2> QED
    BY <2>2, <2>3
<1>8. Cardinality(DOMAIN f) <= Cardinality(DOMAIN g)
  <2>1. IsFiniteSet(t)
    BY <1>2 DEF IndicatorList
  <2>2. Cardinality(t \ {"link"}) = Cardinality(t) - 1 /\ IsFiniteSet(t \ {"link"})
    BY <2>1, FS_RemoveElement
  <2>3. Cardinality(u) = Cardinality(t \ {"link"}) + 1
    BY <2>2, FS_AddElement
  <2>4. Cardinality(t) \in Nat
    BY <2>1, FS_CardinalityType
  <2> QED
    BY <1>2, <2>2, <2>3, <2>4
<1>9. ASSUME DOMAIN f # {} PROVE DOMAIN g # {} /\ WorstScore(f) <= WorstScore(g)
  <2>1. PICK i \in t : WorstScore(f) = SeverityScore[f[i]]
    BY <1>2, <1>9, WorstIs
  <2>2. DOMAIN g # {} /\ \A j \in u : SeverityScore[g[j]] <= WorstScore(g)
    BY <1>2, WorstIs
  <2>3. CASE i # "link"
    BY <1>2, <2>1, <2>2, <2>3
  <2>4. CASE i = "link"
    <3>1. WorstScore(f) = 52000 /\ 78000 <= WorstScore(g)
      BY <1>2, <1>3, <2>1, <2>2, <2>4 DEF SeverityScore
    <3>2. WorstScore(g) \in {25000, 52000, 78000, 95000}
      BY <1>2, <2>2, WorstIs
    <3> QED
      BY <2>2, <3>1, <3>2
  <2> QED
    BY <2>3, <2>4
<1>10. Grows(f, g)
  BY <1>7, <1>8, <1>9 DEF Grows
<1> QED
  BY <1>1, <1>10 DEF f, g

-------------------------------------------------------------------------------
(* Links *)

LEMMA LinkList ==
  ASSUME NEW t
  PROVE  /\ IndicatorList(LinkIndicators(t))
         /\ DOMAIN LinkIndicators(t)
              = (t \cap DOMAIN FeatureSeverity) \cup DOMAIN BrandSeverity(t)
         /\ \A i \in DOMAIN LinkIndicators(t) :
              LinkIndicators(t)[i] = IF i \in DOMAIN BrandSeverity(t) THEN "High" ELSE FeatureSeverity[i]
<1> DEFINE own == t \cap DOMAIN FeatureSeverity
           plain == Restrict(FeatureSeverity, own)
           brand == BrandSeverity(t)
<1>1. plain = [x \in own |-> FeatureSeverity[x]]
  BY DEF Restrict
<1>2. /\ DOMAIN brand \subseteq {"brand_impersonation", "official_brand_like_terms"}
      /\ \A i \in DOMAIN brand : brand[i] = "High"
  BY DEF BrandSeverity
<1>3. \A x \in DOMAIN FeatureSeverity : FeatureSeverity[x] \in Levels
  BY DEF FeatureSeverity, Levels
<1>4. IsFiniteSet(own)
  BY FeatureNames, FS_Subset
<1>5. IsFiniteSet(DOMAIN brand)
  <2>1. IsFiniteSet({"brand_impersonation", "official_brand_like_terms"})
    <3>1. IsFiniteSet({"brand_impersonation"})
      BY FS_Singleton
    <3>2. {"brand_impersonation", "official_brand_like_terms"}
            = {"brand_impersonation"} \cup {"official_brand_like_terms"}
      OBVIOUS
    <3> QED
      BY <3>1, <3>2, FS_AddElement
  <2> QED
    BY <1>2, <2>1, FS_Subset
<1>6. IsFiniteSet(own \cup DOMAIN brand)
  BY <1>4, <1>5, FS_Union
<1> HIDE DEF brand
<1>7. LinkIndicators(t) =
        [i \in own \cup DOMAIN brand |-> IF i \in DOMAIN brand THEN brand[i] ELSE plain[i]]
  BY <1>1 DEF LinkIndicators, brand
<1>8. /\ DOMAIN LinkIndicators(t) = own \cup DOMAIN brand
      /\ \A i \in own \cup DOMAIN brand :
           LinkIndicators(t)[i] = IF i \in DOMAIN brand THEN "High" ELSE FeatureSeverity[i]
  BY <1>1, <1>2, <1>7
<1>9. IndicatorList(LinkIndicators(t))
  BY <1>3, <1>6, <1>8 DEF IndicatorList, Levels
<1> QED
  BY <1>8, <1>9 DEF brand

\* One more feature never takes an indicator away, nor changes its severity.
LEMMA FeatureGrows ==
  ASSUME NEW t, NEW u, t \subseteq u
  PROVE  Grows(LinkIndicators(t), LinkIndicators(u))
<1>1. DOMAIN BrandSeverity(t) \subseteq DOMAIN BrandSeverity(u)
  BY DEF BrandSeverity
<1>2. \A i \in DOMAIN BrandSeverity(u) : i \notin DOMAIN FeatureSeverity
  BY DEF BrandSeverity, FeatureSeverity
<1>3. DOMAIN LinkIndicators(t) \subseteq DOMAIN LinkIndicators(u)
  BY <1>1, LinkList
<1>4. \A i \in DOMAIN LinkIndicators(t) : LinkIndicators(u)[i] = LinkIndicators(t)[i]
  BY <1>1, <1>2, <1>3, LinkList
<1> QED
  BY <1>3, <1>4, LinkList, LongerGrows

-------------------------------------------------------------------------------
(* Model and indicators combined *)

LEMMA CombineMailGrows ==
  ASSUME NEW m \in Nat, NEW n \in Nat, m <= n, NEW r \in Nat, NEW s \in Nat, r <= s
  PROVE  /\ CombineMail(m, r) \in Nat /\ CombineMail(n, s) \in Nat
         /\ CombineMail(m, r) <= CombineMail(n, s)
BY DEF CombineMail, RoundDiv, MaxOf, MinOf

LEMMA CombineLinkGrows ==
  ASSUME NEW m \in Nat, NEW n \in Nat, m <= n, NEW r \in Nat, NEW s \in Nat, r <= s,
         m >= 35000 \/ n < 35000 \/ r < 72000
  PROVE  /\ CombineLink(m, r) \in Nat /\ CombineLink(n, s) \in Nat
         /\ CombineLink(m, r) <= CombineLink(n, s)
BY DEF CombineLink, RoundDiv, MaxOf, MinOf

\* The more serious of two verdicts on a message.
MailSeverityOf(detector, model, rules, score) ==
  LET state == MailState(IF detector = "mailguard" THEN MailGuardState(model) ELSE "UNCERTAIN",
                         model, rules, score)
  IN CASE state = "LIKELY_PHISHING" -> 2 [] state = "LIKELY_BENIGN" -> 0 [] OTHER -> 1

LEMMA MailIs ==
  ASSUME NEW detector, NEW model, NEW t
  PROVE  LET rules == MailRules(t)
             score == IF model = NoScore THEN rules ELSE CombineMail(model, rules)
             result == FinalizeMail(detector, model, t)
         IN  /\ result.score = score /\ result.rules = rules
             /\ Severity(result.verdict) = MailSeverityOf(detector, model, rules, score)
<1> DEFINE rules == MailRules(t)
           score == IF model = NoScore THEN rules ELSE CombineMail(model, rules)
           state == MailState(IF detector = "mailguard" THEN MailGuardState(model) ELSE "UNCERTAIN",
                              model, rules, score)
           verdict == CASE state = "LIKELY_PHISHING" -> "malicious" [] state = "LIKELY_BENIGN" -> "safe"
                        [] OTHER -> "unknown"
<1>1. /\ FinalizeMail(detector, model, t).score = score
      /\ FinalizeMail(detector, model, t).rules = rules
      /\ FinalizeMail(detector, model, t).verdict = verdict
  BY DEF FinalizeMail
<1>2. Severity(verdict) = CASE state = "LIKELY_PHISHING" -> 2 [] state = "LIKELY_BENIGN" -> 0 [] OTHER -> 1
  <2> HIDE DEF state
  <2>1. CASE state = "LIKELY_PHISHING"
    BY <2>1 DEF Severity
  <2>2. CASE state = "LIKELY_BENIGN"
    BY <2>2 DEF Severity
  <2>3. CASE state \notin {"LIKELY_PHISHING", "LIKELY_BENIGN"}
    BY <2>3 DEF Severity
  <2> QED
    BY <2>1, <2>2, <2>3
<1> QED
  BY <1>1, <1>2 DEF MailSeverityOf

LEMMA StateHardens ==
  ASSUME NEW detector, NEW m \in Nat, NEW n \in Nat, m <= n, NEW r \in Nat, NEW s \in Nat, r <= s,
         NEW x \in Nat, NEW y \in Nat, x <= y
  PROVE  MailSeverityOf(detector, m, r, x) <= MailSeverityOf(detector, n, s, y)
BY DEF MailSeverityOf, MailState, MailGuardState, NoScore

LEMMA LinkIs ==
  ASSUME NEW model \in Nat, NEW t, LinkRules(t) \in Nat
  PROVE  LET score == CombineLink(model, LinkRules(t))
             result == FinalizeLink(model, t)
         IN  /\ result.score = score /\ result.rules = LinkRules(t)
             /\ Severity(result.verdict) = IF score >= 75000 THEN 2 ELSE IF score >= 45000 THEN 1 ELSE 0
<1> DEFINE score == CombineLink(model, LinkRules(t))
           label == LinkLabel(score, model, t)
<1>1. PICK v \in Nat : v = score
  BY CombineLinkGrows
<1>2. /\ FinalizeLink(model, t).score = v /\ FinalizeLink(model, t).rules = LinkRules(t)
      /\ FinalizeLink(model, t).verdict
           = IF label \in {"Malicious", "Phishing"} \/ v >= 75000 THEN "malicious"
             ELSE IF label = "Suspicious" \/ v >= 45000 THEN "suspicious" ELSE "safe"
  BY <1>1 DEF FinalizeLink
<1>3. /\ label \in {"Malicious", "Phishing"} => v >= 75000
      /\ label = "Suspicious" => v >= 45000
  BY <1>1 DEF LinkLabel
<1> HIDE DEF score, label
<1>4. Severity(FinalizeLink(model, t).verdict) = IF v >= 75000 THEN 2 ELSE IF v >= 45000 THEN 1 ELSE 0
  BY <1>2, <1>3 DEF Severity
<1> QED
  BY <1>1, <1>2, <1>4 DEF score

-------------------------------------------------------------------------------
(* Two neighbouring subjects *)

Rises(before, after) ==
  after.score >= before.score /\ Severity(after.verdict) >= Severity(before.verdict)

LEMMA MailRises ==
  ASSUME NEW detector, NEW m, NEW n, (m = NoScore /\ n = NoScore) \/ (m \in Nat /\ n \in Nat /\ m <= n),
         NEW t \in SUBSET DOMAIN MailSeverity, NEW u \in SUBSET DOMAIN MailSeverity,
         Grows(Restrict(MailSeverity, t), Restrict(MailSeverity, u))
  PROVE  Rises(FinalizeMail(detector, m, t), FinalizeMail(detector, n, u))
<1>1. MailRules(t) \in Nat /\ MailRules(u) \in Nat /\ MailRules(t) <= MailRules(u)
  <2>1. IndicatorList(Restrict(MailSeverity, t)) /\ IndicatorList(Restrict(MailSeverity, u))
    BY MailList
  <2> QED
    BY <2>1, ScoreGrows DEF MailRules, MailWeights
<1>2. PICK r \in Nat, s \in Nat : r = MailRules(t) /\ s = MailRules(u) /\ r <= s
  BY <1>1
<1>3. CASE m = NoScore /\ n = NoScore
  <2>1. /\ FinalizeMail(detector, m, t).score = r /\ FinalizeMail(detector, n, u).score = s
        /\ Severity(FinalizeMail(detector, m, t).verdict) = MailSeverityOf(detector, m, r, r)
        /\ Severity(FinalizeMail(detector, n, u).verdict) = MailSeverityOf(detector, n, s, s)
    BY <1>2, <1>3, MailIs
  <2>2. MailSeverityOf(detector, m, r, r) = 1 /\ MailSeverityOf(detector, n, s, s) = 1
    BY <1>3 DEF MailSeverityOf, MailState
  <2> QED
    BY <1>2, <2>1, <2>2 DEF Rises
<1>4. CASE m \in Nat /\ n \in Nat /\ m <= n
  <2>1. PICK x \in Nat, y \in Nat : x = CombineMail(m, r) /\ y = CombineMail(n, s) /\ x <= y
    <3>1. CombineMail(m, r) \in Nat /\ CombineMail(n, s) \in Nat /\ CombineMail(m, r) <= CombineMail(n, s)
      BY <1>2, <1>4, CombineMailGrows
    <3> QED
      BY <3>1
  <2>2. m # NoScore /\ n # NoScore
    BY <1>4 DEF NoScore
  <2>3. /\ FinalizeMail(detector, m, t).score = x /\ FinalizeMail(detector, n, u).score = y
        /\ Severity(FinalizeMail(detector, m, t).verdict) = MailSeverityOf(detector, m, r, x)
        /\ Severity(FinalizeMail(detector, n, u).verdict) = MailSeverityOf(detector, n, s, y)
    BY <1>2, <2>1, <2>2, MailIs
  <2>4. MailSeverityOf(detector, m, r, x) <= MailSeverityOf(detector, n, s, y)
    BY <1>2, <1>4, <2>1, StateHardens
  <2> QED
    BY <2>1, <2>3, <2>4 DEF Rises
<1> QED
  BY <1>3, <1>4

LEMMA LinkRises ==
  ASSUME NEW m \in Nat, NEW n \in Nat, m <= n, NEW t, NEW u, t \subseteq u
  PROVE  \/ Rises(FinalizeLink(m, t), FinalizeLink(n, u))
         \/ m < 35000 /\ n >= 35000 /\ FinalizeLink(m, t).rules >= 72000
<1>1. PICK r \in Nat, s \in Nat : r = LinkRules(t) /\ s = LinkRules(u) /\ r <= s
  <2>1. IndicatorList(LinkIndicators(t)) /\ IndicatorList(LinkIndicators(u))
    BY LinkList
  <2>2. LinkRules(t) \in Nat /\ LinkRules(u) \in Nat /\ LinkRules(t) <= LinkRules(u)
    BY <2>1, FeatureGrows, ScoreGrows DEF LinkRules, LinkWeights
  <2> QED
    BY <2>2
<1> SUFFICES ASSUME m >= 35000 \/ n < 35000 \/ r < 72000
             PROVE  Rises(FinalizeLink(m, t), FinalizeLink(n, u))
  BY <1>1, LinkIs
<1>2. PICK x \in Nat, y \in Nat : x = CombineLink(m, r) /\ y = CombineLink(n, s) /\ x <= y
  <2>1. CombineLink(m, r) \in Nat /\ CombineLink(n, s) \in Nat /\ CombineLink(m, r) <= CombineLink(n, s)
    BY <1>1 DEF CombineLink, RoundDiv, MaxOf, MinOf
  <2> QED
    BY <2>1
<1>3. /\ FinalizeLink(m, t).score = x /\ FinalizeLink(n, u).score = y
      /\ Severity(FinalizeLink(m, t).verdict) = IF x >= 75000 THEN 2 ELSE IF x >= 45000 THEN 1 ELSE 0
      /\ Severity(FinalizeLink(n, u).verdict) = IF y >= 75000 THEN 2 ELSE IF y >= 45000 THEN 1 ELSE 0
  BY <1>1, <1>2, LinkIs
<1> QED
  BY <1>2, <1>3 DEF Rises

LEMMA ImageRises ==
  ASSUME NEW m \in Nat, NEW n \in Nat, m <= n
  PROVE  Rises(FinalizeImage(m), FinalizeImage(n))
<1>1. /\ FinalizeImage(m).score = m /\ FinalizeImage(n).score = n
      /\ Severity(FinalizeImage(m).verdict) = IF m >= 75000 THEN 2 ELSE IF m >= 45000 THEN 1 ELSE 0
      /\ Severity(FinalizeImage(n).verdict) = IF n >= 75000 THEN 2 ELSE IF n >= 45000 THEN 1 ELSE 0
  BY DEF FinalizeImage, Severity
<1> QED
  BY <1>1 DEF Rises

-------------------------------------------------------------------------------
(* The subject *)

LEMMA SubjectIs ==
  ASSUME NEW s
  PROVE  s \in Subjects <=>
           \E d \in Detectors :
             \E m \in IF d = "cortex" THEN {NoScore} ELSE ModelScores :
               \E t \in TraitsFor(d) : s = [detector |-> d, traits |-> t, model |-> m]
BY DEF Subjects

LEMMA DetectionStep == DetectionTypeOK /\ [DetectionNext]_subject => DetectionTypeOK'
<1> SUFFICES ASSUME DetectionTypeOK, [DetectionNext]_subject PROVE DetectionTypeOK'
  OBVIOUS
<1>1. PICK d \in Detectors :
        \E m \in IF d = "cortex" THEN {NoScore} ELSE ModelScores :
          \E t \in TraitsFor(d) : subject = [detector |-> d, traits |-> t, model |-> m]
  BY SubjectIs DEF DetectionTypeOK
<1>2. PICK m \in IF d = "cortex" THEN {NoScore} ELSE ModelScores :
        \E t \in TraitsFor(d) : subject = [detector |-> d, traits |-> t, model |-> m]
  BY <1>1
<1>3. PICK t \in TraitsFor(d) : subject = [detector |-> d, traits |-> t, model |-> m]
  BY <1>2
<1>4. CASE RaiseScore
  <2>1. PICK n \in ModelScores :
          m # NoScore /\ subject' = [detector |-> d, traits |-> t, model |-> n]
    BY <1>3, <1>4 DEF RaiseScore
  <2>2. d # "cortex"
    BY <2>1
  <2> QED
    BY <2>1, <2>2, SubjectIs DEF DetectionTypeOK
<1>5. CASE AddTrait
  <2>1. ASSUME NEW x, t \cup {x} \in TraitsFor(d), subject' = [subject EXCEPT !.traits = @ \cup {x}]
        PROVE  DetectionTypeOK'
    <3>1. subject' = [detector |-> d, traits |-> t \cup {x}, model |-> m]
      BY <1>3, <2>1
    <3> QED
      BY <2>1, <3>1, SubjectIs DEF DetectionTypeOK
  <2>2. ASSUME "link" \in t, d # "swift",
               subject' = [subject EXCEPT !.traits = (@ \ {"link"}) \cup {"links"}]
        PROVE  DetectionTypeOK'
    <3>1. subject' = [detector |-> d, traits |-> (t \ {"link"}) \cup {"links"}, model |-> m]
      BY <1>3, <2>2
    <3>2. d \in {"mailguard", "cortex"} /\ t \in MailTraits
      BY <2>2 DEF TraitsFor
    <3>3. (t \ {"link"}) \cup {"links"} \in TraitsFor(d)
      <4>1. (t \ {"link"}) \cup {"links"} \in SUBSET DOMAIN MailSeverity
        BY <3>2 DEF MailTraits, MailSeverity
      <4> QED
        BY <3>2, <4>1 DEF TraitsFor, MailTraits, OneLinkCount
    <3> QED
      BY <3>1, <3>3, SubjectIs DEF DetectionTypeOK
  <2> QED
    BY <1>3, <1>5, <2>1, <2>2 DEF AddTrait
<1>6. CASE UNCHANGED subject
  BY <1>6 DEF DetectionTypeOK
<1> QED
  BY <1>4, <1>5, <1>6 DEF DetectionNext

LEMMA DetectionType == DetectionSpec => []DetectionTypeOK
<1>1. DetectionInit => DetectionTypeOK
  BY DEF DetectionInit, DetectionTypeOK
<1> QED
  BY <1>1, DetectionStep, PTL DEF DetectionSpec

\* One step from a subject to a neighbour raises the assessment, or is the known exception.
NeverSofter ==
  LET before == Assess(subject)
      after == Assess(subject')
  IN \/ after.score >= before.score /\ Severity(after.verdict) >= Severity(before.verdict)
     \/ /\ subject.detector = "swift" /\ subject.model < 35000 /\ subject'.model >= 35000
        /\ before.rules >= 72000

LEMMA RiseStep == DetectionTypeOK /\ DetectionNext => NeverSofter
<1> SUFFICES ASSUME DetectionTypeOK, DetectionNext PROVE NeverSofter
  OBVIOUS
<1>1. PICK d \in Detectors :
        \E m \in IF d = "cortex" THEN {NoScore} ELSE ModelScores :
          \E t \in TraitsFor(d) : subject = [detector |-> d, traits |-> t, model |-> m]
  BY SubjectIs DEF DetectionTypeOK
<1>2. PICK m \in IF d = "cortex" THEN {NoScore} ELSE ModelScores :
        \E t \in TraitsFor(d) : subject = [detector |-> d, traits |-> t, model |-> m]
  BY <1>1
<1>3. PICK t \in TraitsFor(d) : subject = [detector |-> d, traits |-> t, model |-> m]
  BY <1>2
<1>4. ModelScores \subseteq Nat
  BY DetectionAssumption
<1>5. PICK n, u : /\ subject' = [detector |-> d, traits |-> u, model |-> n]
                  /\ \/ m # NoScore /\ n \in ModelScores /\ n > m /\ u = t
                     \/ n = m /\ \E x : u = t \cup {x} /\ u \in TraitsFor(d)
                     \/ n = m /\ "link" \in t /\ d # "swift" /\ u = (t \ {"link"}) \cup {"links"}
  <2>1. ASSUME RaiseScore
        PROVE  \E n \in ModelScores : n > m /\ m # NoScore
                 /\ subject' = [detector |-> d, traits |-> t, model |-> n]
    BY <1>3, <2>1 DEF RaiseScore
  <2>2. ASSUME AddTrait
        PROVE  \E u : /\ subject' = [detector |-> d, traits |-> u, model |-> m]
                      /\ \/ \E x : u = t \cup {x} /\ u \in TraitsFor(d)
                         \/ "link" \in t /\ d # "swift" /\ u = (t \ {"link"}) \cup {"links"}
    BY <1>3, <2>2 DEF AddTrait
  <2> QED
    BY <2>1, <2>2 DEF DetectionNext
<1>6. (m = NoScore /\ n = NoScore) \/ (m \in Nat /\ n \in Nat /\ m <= n)
  <2>1. m = NoScore \/ m \in Nat
    BY <1>2, <1>4
  <2>2. CASE n = m
    BY <2>1, <2>2
  <2>3. CASE m # NoScore /\ n \in ModelScores /\ n > m
    BY <1>4, <2>1, <2>3
  <2> QED
    BY <1>5, <2>2, <2>3
<1>7. CASE d \in {"mailguard", "cortex"}
  <2>1. t \in SUBSET DOMAIN MailSeverity /\ ~({"link", "links"} \subseteq t)
    BY <1>7 DEF TraitsFor, MailTraits, OneLinkCount
  <2>2. u \in SUBSET DOMAIN MailSeverity /\ Grows(Restrict(MailSeverity, t), Restrict(MailSeverity, u))
    <3>1. ASSUME t \subseteq u, u \in SUBSET DOMAIN MailSeverity
          PROVE  Grows(Restrict(MailSeverity, t), Restrict(MailSeverity, u))
      BY <2>1, <3>1, MailList, LongerGrows
    <3>2. CASE u = t
      BY <2>1, <3>1, <3>2
    <3>3. ASSUME NEW x, u = t \cup {x}, u \in TraitsFor(d)
          PROVE  u \in SUBSET DOMAIN MailSeverity /\ t \subseteq u
      BY <1>7, <3>3 DEF TraitsFor, MailTraits
    <3>4. CASE "link" \in t /\ u = (t \ {"link"}) \cup {"links"}
      BY <2>1, <3>4, SecondLinkGrows
    <3> QED
      BY <1>5, <3>1, <3>2, <3>3, <3>4
  <2>3. Rises(FinalizeMail(d, m, t), FinalizeMail(d, n, u))
    BY <1>6, <2>1, <2>2, MailRises
  <2>4. Assess(subject) = FinalizeMail(d, m, t) /\ Assess(subject') = FinalizeMail(d, n, u)
    BY <1>3, <1>5, <1>7 DEF Assess
  <2> QED
    BY <2>3, <2>4 DEF NeverSofter, Rises
<1>8. CASE d = "swift"
  <2>1. m \in Nat /\ n \in Nat /\ m <= n
    <3>1. m \in ModelScores
      BY <1>2, <1>8
    <3>2. m # NoScore
      BY <1>4, <3>1 DEF NoScore
    <3> QED
      BY <1>6, <3>2
  <2>2. t \subseteq u
    BY <1>5, <1>8
  <2>3. Assess(subject) = FinalizeLink(m, t) /\ Assess(subject') = FinalizeLink(n, u)
    BY <1>3, <1>5, <1>8 DEF Assess
  <2> QED
    BY <1>3, <1>5, <1>8, <2>1, <2>2, <2>3, LinkRises DEF NeverSofter, Rises
<1>9. CASE d \notin {"mailguard", "cortex", "swift"}
  <2>1. m \in Nat /\ n \in Nat /\ m <= n
    <3>1. m \in ModelScores
      BY <1>2, <1>9
    <3>2. m # NoScore
      BY <1>4, <3>1 DEF NoScore
    <3> QED
      BY <1>6, <3>2
  <2>2. Assess(subject) = FinalizeImage(m) /\ Assess(subject') = FinalizeImage(n)
    BY <1>3, <1>5, <1>9 DEF Assess
  <2> QED
    BY <2>1, <2>2, ImageRises DEF NeverSofter, Rises
<1> QED
  BY <1>7, <1>8, <1>9

\* Whatever scores the models return and whatever features URLs have, a higher score or
\* one more indicator never softens a verdict, except where a link's floor ends.
THEOREM RiskAlwaysRises == DetectionSpec => RiskRises
<1>1. DetectionTypeOK /\ [DetectionNext]_subject => [NeverSofter]_subject
  BY RiseStep
<1> QED
  BY <1>1, DetectionType, PTL DEF DetectionSpec, RiskRises, NeverSofter
===============================================================================
