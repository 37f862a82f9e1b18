------------------------------- MODULE Accounts -------------------------------
(***************************************************************************)
(* A workspace's plan and what hangs on it: the events of the billing       *)
(* provider (handleStripeWebhook of lib/billing.js) and the API keys that   *)
(* members create under the plan (createApiKey of lib/api-keys.js).  The    *)
(* provider sends an event until it gets a 2xx answer; it may give up       *)
(* waiting and send it again while the first delivery is still handled.     *)
(***************************************************************************)
EXTENDS Entitlements, FiniteSets

CONSTANTS
  Events,           \* billing events
  EventKind,        \* "checkout", "subscription", "orphan" (names no workspace), "other"
  EventPlan,        \* the plan code an event's subscription has
  Deliveries,       \* deliveries of events; bounds how often the provider sends
  Creators,         \* requests that create an API key
  MaxBillingFaults  \* bound: lost answers and killed processes

ASSUME AccountsAssumption ==
  /\ EventKind \in [Events -> {"checkout", "subscription", "orphan", "other"}]
  /\ EventPlan \in [Events -> PlanCodes]
  /\ IsFiniteSet(Creators)
  /\ MaxBillingFaults \in Nat

VARIABLES
  plan,            \* the code of the workspace's plan
  eventRow,        \* billing_events: "none", "processing", "processed", "failed"
  sent,            \* the event of a delivery, once it was sent
  deliveryPc,      \* where the handler of a delivery is
  acked,           \* events the provider got a 2xx for
  mishap,          \* history: events with overlapping deliveries or a fault
  billingFaults,   \* history: faults so far
  activeKeys,      \* active rows of api_keys
  creatorPc,       \* "idle", "counting" and "allowed" in enforceEntitlement, or "ended"
  planRead,        \* the plan a creation's billingSnapshot read
  peakLimit        \* history: the largest max_api_keys the plan has had

eventVars == <<eventRow, sent, deliveryPc, acked, mishap, billingFaults>>
keyVars == <<activeKeys, creatorPc, planRead>>
accountsVars == <<plan, eventVars, keyVars, peakLimit>>

KeyLimit(code) == NormalizePlan(code, <<>>).limit["max_api_keys"]

AccountsInit ==
  /\ plan = "free"
  /\ eventRow = [e \in Events |-> "none"]
  /\ sent = [d \in Deliveries |-> "none"]
  /\ deliveryPc = [d \in Deliveries |-> "idle"]
  /\ acked = {} /\ mishap = {} /\ billingFaults = 0
  /\ activeKeys = 0
  /\ creatorPc = [k \in Creators |-> "idle"]
  /\ planRead = [k \in Creators |-> "free"]
  /\ peakLimit = KeyLimit("free")

-------------------------------------------------------------------------------
(* Billing events *)

Running(d) == deliveryPc[d] \in {"received", "claimed", "failing"}
BillingStep(d, step) == deliveryPc' = [deliveryPc EXCEPT ![d] = step]
BillingFault(d) ==
  /\ billingFaults < MaxBillingFaults
  /\ billingFaults' = billingFaults + 1
  /\ mishap' = mishap \cup {sent[d]}
NoBillingFault == UNCHANGED <<billingFaults, mishap>>
Acknowledge(d) == acked' = acked \cup {sent[d]}

\* The provider sends an event it has no 2xx for, whether or not it still waits.
Send(d, e) ==
  /\ deliveryPc[d] = "idle" /\ e \notin acked
  /\ sent' = [sent EXCEPT ![d] = e]
  /\ BillingStep(d, "received")
  /\ mishap' = IF \E o \in Deliveries : sent[o] = e /\ Running(o) THEN mishap \cup {e} ELSE mishap
  /\ UNCHANGED <<plan, eventRow, acked, billingFaults, keyVars, peakLimit>>

\* The signature or the payload is refused: 400, before the event is claimed.
Reject(d) ==
  /\ deliveryPc[d] = "received"
  /\ BillingStep(d, "ended")
  /\ UNCHANGED <<plan, eventRow, sent, acked, mishap, billingFaults, keyVars, peakLimit>>

\* claim_billing_event_atomic: a new event or one that failed.  An event that is
\* being processed, or is done, is answered with 200 and `duplicate`.
MayClaim(e) == eventRow[e] \in {"none", "failed"}
ClaimEvent(d) ==
  /\ deliveryPc[d] = "received"
  /\ LET e == sent[d] IN
     \/ /\ MayClaim(e)
        /\ eventRow' = [eventRow EXCEPT ![e] = "processing"]
        /\ \/ BillingStep(d, "claimed") /\ NoBillingFault
           \/ BillingStep(d, "ended") /\ BillingFault(d)
        /\ UNCHANGED acked
     \/ /\ ~MayClaim(e)
        /\ BillingStep(d, "ended") /\ Acknowledge(d) /\ NoBillingFault
        /\ UNCHANGED eventRow
  /\ UNCHANGED <<plan, sent, keyVars, peakLimit>>

Settle(d, status) == eventRow' = [eventRow EXCEPT ![sent[d]] = status]

\* syncSubscription with the event's own subscription, or, after a checkout, with
\* the one the provider shows now (stripeGet): any of its states so far.  The RPC
\* applies it and marks the event processed in one transaction.
ApplySubscription(d) ==
  LET e == sent[d] IN
  /\ deliveryPc[d] = "claimed" /\ EventKind[e] \in {"checkout", "subscription"}
  /\ \E shown \in IF EventKind[e] = "checkout" THEN Events ELSE {e} :
       /\ plan' \in {plan, EventPlan[shown]}
       /\ peakLimit' = IF KeyLimit(plan') > peakLimit THEN KeyLimit(plan') ELSE peakLimit
  /\ Settle(d, "processed")
  /\ \/ BillingStep(d, "ended") /\ Acknowledge(d) /\ NoBillingFault
     \/ BillingStep(d, "failing") /\ BillingFault(d) /\ UNCHANGED acked
  /\ UNCHANGED <<sent, keyVars>>

\* Any other type is only marked; a subscription without a workspace is not even
\* marked (syncSubscription returns null), and answered with 200 all the same.
PassOver(d) ==
  LET e == sent[d] IN
  /\ deliveryPc[d] = "claimed" /\ EventKind[e] \in {"other", "orphan"}
  /\ IF EventKind[e] = "other" THEN Settle(d, "processed") ELSE UNCHANGED eventRow
  /\ \/ BillingStep(d, "ended") /\ Acknowledge(d) /\ NoBillingFault
     \/ /\ EventKind[e] = "other"
        /\ BillingStep(d, "failing") /\ BillingFault(d) /\ UNCHANGED acked
  /\ UNCHANGED <<plan, sent, keyVars, peakLimit>>

\* The provider, the plan lookup or the RPC fails.
BillingThrows(d) ==
  /\ deliveryPc[d] = "claimed"
  /\ BillingStep(d, "failing")
  /\ UNCHANGED <<plan, eventRow, sent, acked, mishap, billingFaults, keyVars, peakLimit>>

\* A catch block that answers without giving the claim back.
LeaveClaimed(d) ==
  /\ deliveryPc[d] = "failing"
  /\ BillingStep(d, "ended")
  /\ UNCHANGED <<plan, eventRow, sent, acked, mishap, billingFaults, keyVars, peakLimit>>

\* The catch block: fail_billing_event_atomic with the claim's token, then the
\* error is the answer.  An event that was marked processed stays so.
FailEvent(d) ==
  /\ deliveryPc[d] = "failing"
  /\ BillingStep(d, "ended")
  /\ \/ /\ IF eventRow[sent[d]] = "processing" THEN Settle(d, "failed") ELSE UNCHANGED eventRow
        /\ NoBillingFault
     \/ UNCHANGED eventRow /\ BillingFault(d)
  /\ UNCHANGED <<plan, sent, acked, keyVars, peakLimit>>

\* The function is killed while it handles a delivery.
BillingDies(d) ==
  /\ Running(d) /\ BillingFault(d)
  /\ BillingStep(d, "ended")
  /\ UNCHANGED <<plan, eventRow, sent, acked, keyVars, peakLimit>>

-------------------------------------------------------------------------------
(* API keys *)

\* createApiKey asks check_entitlement_quota where it is installed (external; taken to
\* allow a key as localDecision would, and to refuse or fail at will), and else reads
\* the plan with billingSnapshot ...
EnforceEntitlement(k) ==
  /\ creatorPc[k] = "idle"
  /\ \/ /\ activeKeys < KeyLimit(plan) /\ creatorPc' = [creatorPc EXCEPT ![k] = "allowed"]
        /\ UNCHANGED planRead
     \/ /\ creatorPc' = [creatorPc EXCEPT ![k] = "ended"]
        /\ UNCHANGED planRead
     \/ /\ creatorPc' = [creatorPc EXCEPT ![k] = "counting"]
        /\ planRead' = [planRead EXCEPT ![k] = plan]
  /\ UNCHANGED <<plan, eventVars, activeKeys, peakLimit>>

\* A check that one key more than the plan allows passes.
CheckKeysLoosely(k) ==
  /\ creatorPc[k] = "counting"
  /\ creatorPc' = [creatorPc EXCEPT ![k] = IF activeKeys > KeyLimit(planRead[k]) THEN "ended" ELSE "allowed"]
  /\ UNCHANGED <<plan, eventVars, activeKeys, planRead, peakLimit>>

\* ... then the subscription and the active keys, which localDecision judges ...
CheckKeyLimit(k) ==
  /\ creatorPc[k] = "counting"
  /\ \E status \in {"active", "canceled"} :
       LET answer == LocalDecision(NormalizePlan(planRead[k], <<>>), status,
                                   [keys |-> activeKeys, api |-> 0, web |-> 0], "api_key_create", "api")
       IN creatorPc' = [creatorPc EXCEPT ![k] = IF answer = "ALLOWED" THEN "allowed" ELSE "ended"]
  /\ UNCHANGED <<plan, eventVars, activeKeys, planRead, peakLimit>>

\* ... and the insert is a call of its own.
InsertKey(k) ==
  /\ creatorPc[k] = "allowed"
  /\ creatorPc' = [creatorPc EXCEPT ![k] = "idle"]
  /\ activeKeys' \in {activeKeys, activeKeys + 1}
  /\ UNCHANGED <<plan, eventVars, planRead, peakLimit>>

RevokeKey ==
  /\ activeKeys > 0
  /\ activeKeys' = activeKeys - 1
  /\ UNCHANGED <<plan, eventVars, creatorPc, planRead, peakLimit>>

AccountsNext ==
  \/ \E d \in Deliveries :
       \/ \E e \in Events : Send(d, e)
       \/ Reject(d) \/ ClaimEvent(d) \/ ApplySubscription(d) \/ PassOver(d)
       \/ BillingThrows(d) \/ FailEvent(d) \/ BillingDies(d)
  \/ \E k \in Creators : EnforceEntitlement(k) \/ CheckKeyLimit(k) \/ InsertKey(k)
  \/ RevokeKey

AccountsSpec == AccountsInit /\ [][AccountsNext]_accountsVars

-------------------------------------------------------------------------------
(* Properties *)

AccountsTypeOK ==
  /\ plan \in PlanCodes
  /\ eventRow \in [Events -> {"none", "processing", "processed", "failed"}]
  /\ sent \in [Deliveries -> Events \cup {"none"}]
  /\ deliveryPc \in [Deliveries -> {"idle", "received", "claimed", "failing", "ended"}]
  /\ acked \subseteq Events /\ mishap \subseteq Events
  /\ billingFaults \in 0..MaxBillingFaults
  /\ activeKeys \in Nat /\ peakLimit \in Nat
  /\ creatorPc \in [Creators -> {"idle", "counting", "allowed", "ended"}]
  /\ planRead \in [Creators -> PlanCodes]

\* An event the provider will not send again has been processed, unless its
\* deliveries overlapped, the database failed, or it names no workspace.  The
\* early `duplicate` answer (billing.js:362) acknowledges an event that another
\* delivery is still processing and may yet fail; one delivery at a time and a
\* working database are enough for no event to be lost.
AcknowledgedIsProcessed ==
  \A e \in acked \ mishap : EventKind[e] # "orphan" => eventRow[e] = "processed"

\* The count and the insert are two calls (api-keys.js:155-187): a workspace gets
\* more keys than any of its plans allowed only by creations that overlapped, and
\* then by fewer than there were of them.
KeysOverLimitOnlyTogether == activeKeys <= peakLimit + Cardinality(Creators) - 1
===============================================================================
