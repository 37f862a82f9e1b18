------------------------------- MODULE Webhooks -------------------------------
(***************************************************************************)
(* Webhook endpoints and the delivery of events to them:                    *)
(* lib/gateway/management.js, lib/gateway/webhooks.js and                   *)
(* worker/handlers/webhook.js, run by processQueue of worker/index.js.  A   *)
(* delivery is one POST per attempt of its job; the attempt is recorded     *)
(* after it, in a call of its own.  The receiver is external: it takes an   *)
(* event, refuses it, is busy, or does not answer, having taken it or not.  *)
(* The row of an event may go (nothing under lib/ or worker/ deletes one,   *)
(* but their readers allow for it), and a delivery that does not find it    *)
(* ends its job without a record.  testWebhook posts an event of its own    *)
(* and changes nothing.                                                     *)
(***************************************************************************)
EXTENDS JobLease, Integers, Sequences, FiniteSets

CONSTANTS
  Endpoints,            \* ids of webhook endpoints
  UrlOf,                \* the destination of an endpoint, see DestinationAllowed
  HookEvents,           \* webhook events
  EndpointOf,           \* the endpoint of an event
  HookWorkers,          \* worker processes
  AllowedHosts,         \* GATEWAY_WEBHOOK_ALLOWED_HOSTS
  Resolutions,          \* answers of the resolver: sets of addresses, of four octets or eight groups
  MaxDeliveryAttempts,  \* max_attempts of the jobs
  MaxHookFaults         \* bound, per event: lost answers, dead workers, lost leases

ASSUME WebhooksAssumption ==
  /\ EndpointOf \in [HookEvents -> Endpoints]
  /\ IsFiniteSet(HookWorkers)
  /\ MaxDeliveryAttempts \in Nat \ {0} /\ MaxHookFaults \in Nat

VARIABLES
  endpoint,   \* gateway_webhook_endpoints: "none", "active" or "disabled"
  secret,     \* the endpoint's secret: "none", "usable" or "revoked"
  creator,    \* createWebhook and disableWebhook of an endpoint, where they are
  gone,       \* events whose row in gateway_webhook_events is no longer there
  hookJob,    \* the delivery job of an event
  hookRun,    \* the attempt a worker is in
  taken,      \* how often the receiver took the event
  attempts,   \* outcomes recorded for the event
  hookFaults  \* history: faults in the attempts of the event

adminVars == <<endpoint, secret, creator>>
hookVars == <<adminVars, gone, hookJob, hookRun, taken, attempts, hookFaults>>

-------------------------------------------------------------------------------
(* Destinations: a host is the sequence of its labels, "*" first in a pattern *)

HostMatchesPattern(host, pattern) ==
  IF pattern[1] = "*"
  THEN LET n == Len(pattern) - 1
       IN Len(host) > n /\ SubSeq(host, Len(host) - n + 1, Len(host)) = Tail(pattern)
  ELSE host = pattern

\* validateWebhookUrl and assertAllowedWebhookHost.
LocalHost(host) ==
  host = <<"localhost">> \/ (Len(host) > 1 /\ host[Len(host)] \in {"localhost", "local"})
DestinationAllowed(url) ==
  /\ url.scheme = "https" /\ ~url.credentials /\ url.port \in {0, 443}
  /\ ~url.ipLiteral /\ ~LocalHost(url.host)
  /\ IF AllowedHosts = {} THEN ~url.production
     ELSE \E pattern \in AllowedHosts : HostMatchesPattern(url.host, pattern)

IsPrivateIPv4(a) ==
  \/ a[1] \in {0, 10, 127} \/ a[1] >= 224
  \/ a[1] = 100 /\ a[2] \in 64..127
  \/ a[1] = 172 /\ a[2] \in 16..31
  \/ a[1] = 198 /\ a[2] \in {18, 19}
  \/ <<a[1], a[2]>> \in {<<169, 254>>, <<192, 0>>, <<192, 2>>, <<192, 168>>}
  \/ <<a[1], a[2], a[3]>> \in {<<198, 51, 100>>, <<203, 0, 113>>}

\* The code compares texts; hexadecimal digits that begin a group written without zeros.
BeginsWith(group, digits) == \E k \in {1, 16, 256, 4096} : group \div k = digits
Zeros(a, n) == \A i \in 1..n : a[i] = 0

\* ::1 and ::, fc, fd and ff, fe8 to feb, 2001:db8: and 100:.
IsPrivateIPv6(a) ==
  \/ Zeros(a, 7) /\ a[8] \in {0, 1}
  \/ \E digits \in {252, 253, 255} \cup 4072..4075 : BeginsWith(a[1], digits)
  \/ <<a[1], a[2]>> = <<8193, 3512>> \/ a[1] = 256

\* An IPv4 address may come mapped into an IPv6 one (::ffff:...).
IsPrivateAddress(a) ==
  IF Len(a) = 4 THEN IsPrivateIPv4(a)
  ELSE IF Zeros(a, 5) /\ a[6] = 65535
       THEN IsPrivateIPv4(<<a[7] \div 256, a[7] % 256, a[8] \div 256, a[8] % 256>>)
  ELSE IsPrivateIPv6(a)

\* assertPublicWebhookDestination, for one answer of the resolver.
PublicDestination(url, addresses) ==
  /\ DestinationAllowed(url)
  /\ addresses # {} /\ \A a \in addresses : ~IsPrivateAddress(a)

-------------------------------------------------------------------------------
(* Endpoints *)

NoRun == [event |-> "none", token |-> 0, step |-> "idle"]

WebhooksInit ==
  /\ endpoint = [e \in Endpoints |-> "none"]
  /\ secret = [e \in Endpoints |-> "none"]
  /\ creator = [e \in Endpoints |-> "idle"]
  /\ gone = {}
  /\ hookJob = [v \in HookEvents |-> NoJob]
  /\ hookRun = [w \in HookWorkers |-> NoRun]
  /\ taken = [v \in HookEvents |-> 0]
  /\ attempts = [v \in HookEvents |-> {}]
  /\ hookFaults = [v \in HookEvents |-> 0]

AdminOnly == UNCHANGED <<gone, hookJob, hookRun, taken, attempts, hookFaults>>
CreatorAt(e, from, to) == creator[e] = from /\ creator' = [creator EXCEPT ![e] = to]

\* createWebhook inserts the endpoint, already active ...
InsertEndpoint(e) ==
  /\ endpoint[e] = "none"
  /\ \E addresses \in Resolutions : PublicDestination(UrlOf[e], addresses)
  /\ CreatorAt(e, "idle", "inserted")
  /\ endpoint' = [endpoint EXCEPT ![e] = "active"]
  /\ UNCHANGED secret /\ AdminOnly

\* ... then its secret; without one it deletes the endpoint again, if it still can.
InsertSecret(e) ==
  /\ \/ secret' = [secret EXCEPT ![e] = "usable"] /\ CreatorAt(e, "inserted", "idle") /\ UNCHANGED endpoint
     \/ /\ CreatorAt(e, "inserted", "idle") /\ UNCHANGED secret
        /\ endpoint' \in {endpoint, [endpoint EXCEPT ![e] = "none"]}
  /\ AdminOnly

\* disableWebhook: the endpoint first, then its secrets; it may stop in between.
DisableEndpoint(e) ==
  /\ endpoint[e] # "none"
  /\ CreatorAt(e, "idle", "disabled")
  /\ endpoint' = [endpoint EXCEPT ![e] = "disabled"]
  /\ UNCHANGED secret /\ AdminOnly

RevokeSecrets(e) ==
  /\ CreatorAt(e, "disabled", "idle")
  /\ secret' \in {secret, [secret EXCEPT ![e] = IF secret[e] = "usable" THEN "revoked" ELSE @]}
  /\ UNCHANGED endpoint /\ AdminOnly

\* A scan's decision publishes an event, and its job, to an active endpoint.
PublishEvent(v) ==
  /\ endpoint[EndpointOf[v]] = "active" /\ hookJob[v] = NoJob
  /\ hookJob' = [hookJob EXCEPT ![v] = Enqueue(@)]
  /\ UNCHANGED <<adminVars, gone, hookRun, taken, attempts, hookFaults>>

-------------------------------------------------------------------------------
(* Delivery *)

HookFault(v) ==
  /\ hookFaults[v] < MaxHookFaults
  /\ hookFaults' = [hookFaults EXCEPT ![v] = @ + 1]
NoHookFault == UNCHANGED hookFaults
InStep(w, steps) == hookRun[w].step \in steps
Move(w, step) == hookRun' = [hookRun EXCEPT ![w].step = step]

\* processQueue claims a batch and takes its jobs in turn; a claim here is a job
\* whose turn it is, and a lease that ran out while it waited runs out at once.
ClaimHook(w, v) ==
  /\ hookRun[w] = NoRun /\ Claimable(hookJob[v], MaxDeliveryAttempts)
  /\ hookJob' = [hookJob EXCEPT ![v] = Claim(@)]
  /\ hookRun' = [hookRun EXCEPT ![w] =
                   [event |-> v, token |-> hookJob[v].attempt + 1, step |-> "claimed"]]
  /\ UNCHANGED <<adminVars, gone, taken, attempts, hookFaults>>

\* The row of a published event goes, with its endpoint's or its organisation's.
EventGoes(v) ==
  /\ hookJob[v] # NoJob /\ v \notin gone
  /\ gone' = gone \cup {v}
  /\ UNCHANGED <<adminVars, hookJob, hookRun, taken, attempts, hookFaults>>

\* webhookDelivery: the event, its endpoint, its unrevoked secret.  Without the event the
\* handler returns and records nothing.
LoadDelivery(w) ==
  LET v == hookRun[w].event
      e == EndpointOf[v]
      configured == endpoint[e] = "active" /\ secret[e] = "usable"
  IN /\ InStep(w, {"claimed"})
     /\ \/ v \in gone /\ Move(w, "handled") /\ NoHookFault
        \/ v \notin gone /\ configured /\ Move(w, "configured") /\ NoHookFault
        \/ v \notin gone /\ ~configured /\ Move(w, "unconfigured") /\ NoHookFault
        \/ Move(w, "throwing") /\ HookFault(v)
     /\ UNCHANGED <<adminVars, gone, hookJob, taken, attempts>>

\* A destination that does not resolve, or not to public addresses only, throws:
\* no attempt is recorded.
ResolveDestination(w) ==
  /\ InStep(w, {"configured"})
  /\ \E addresses \in Resolutions :
       Move(w, IF PublicDestination(UrlOf[EndpointOf[hookRun[w].event]], addresses)
               THEN "resolved" ELSE "throwing")
  /\ UNCHANGED <<adminVars, gone, hookJob, taken, attempts, hookFaults>>

\* The POST, and what its answer is.
Post(w) ==
  LET v == hookRun[w].event
      Takes == taken' = [taken EXCEPT ![v] = @ + 1]
  IN /\ InStep(w, {"resolved"})
     /\ \/ Move(w, "accepted") /\ Takes /\ NoHookFault
        \/ Move(w, "silent") /\ Takes /\ HookFault(v)
        \/ (\E step \in {"refused", "busy", "silent"} : Move(w, step)) /\ UNCHANGED taken /\ NoHookFault
     /\ UNCHANGED <<adminVars, gone, hookJob, attempts>>

\* The outcome of a step, and whether the handler then throws for a retry.
Outcome(step) ==
  CASE step = "accepted" -> "delivered"
    [] step \in {"refused", "unconfigured"} -> "failed"
    [] step \in {"busy", "silent"} -> "retry"

\* Every answer, and every silence, is tried again.
AlwaysRetries(step) == "throwing"

AfterRecord(step) == IF Outcome(step) = "retry" THEN "throwing" ELSE "handled"

\* There is nothing to record an attempt in when the row has gone meanwhile.
RecordWebhookAttempt(w) ==
  LET v == hookRun[w].event
      step == hookRun[w].step
      recorded == IF v \in gone THEN attempts ELSE [attempts EXCEPT ![v] = @ \cup {Outcome(step)}]
  IN /\ InStep(w, {"accepted", "refused", "busy", "silent", "unconfigured"})
     /\ \/ attempts' = recorded /\ Move(w, AfterRecord(step)) /\ NoHookFault
        \/ attempts' \in {attempts, recorded} /\ Move(w, "throwing") /\ HookFault(v)
     /\ UNCHANGED <<adminVars, gone, hookJob, taken>>

\* completeJob: a lease that is lost, or an answer, throws into the catch block.
CompleteHook(w) ==
  LET v == hookRun[w].event
      holds == Holds(hookJob[v], hookRun[w].token)
  IN /\ InStep(w, {"handled"})
     /\ \/ /\ holds /\ NoHookFault
           /\ hookJob' = [hookJob EXCEPT ![v] = Succeed(@)]
           /\ hookRun' = [hookRun EXCEPT ![w] = NoRun]
        \/ ~holds /\ Move(w, "throwing") /\ UNCHANGED hookJob /\ NoHookFault
        \/ /\ holds /\ Move(w, "throwing") /\ HookFault(v)
           /\ hookJob' \in {hookJob, [hookJob EXCEPT ![v] = Succeed(@)]}
     /\ UNCHANGED <<adminVars, gone, taken, attempts>>

FailHook(w) ==
  LET v == hookRun[w].event IN
  /\ InStep(w, {"throwing"})
  /\ \/ hookJob' = [hookJob EXCEPT ![v] = FailHeld(@, hookRun[w].token, MaxDeliveryAttempts)] /\ NoHookFault
     \/ UNCHANGED hookJob /\ HookFault(v)
  /\ hookRun' = [hookRun EXCEPT ![w] = NoRun]
  /\ UNCHANGED <<adminVars, gone, taken, attempts>>

HookWorkerDies(w) ==
  /\ hookRun[w] # NoRun /\ HookFault(hookRun[w].event)
  /\ hookRun' = [hookRun EXCEPT ![w] = NoRun]
  /\ UNCHANGED <<adminVars, gone, hookJob, taken, attempts>>

\* Nobody extends the lease, or no heartbeat of the one who has it arrives.
HookLeaseRunsOut(v) ==
  /\ hookJob[v].status = "leased" /\ ~hookJob[v].expired
  /\ hookJob' = [hookJob EXCEPT ![v] = Expire(@)]
  /\ IF \E w \in HookWorkers : hookRun[w].event = v /\ hookRun[w].token = hookJob[v].attempt
     THEN HookFault(v) ELSE NoHookFault
  /\ UNCHANGED <<adminVars, gone, hookRun, taken, attempts>>

WebhooksNext ==
  \/ \E e \in Endpoints :
       InsertEndpoint(e) \/ InsertSecret(e) \/ DisableEndpoint(e) \/ RevokeSecrets(e)
  \/ \E v \in HookEvents : PublishEvent(v) \/ HookLeaseRunsOut(v) \/ EventGoes(v)
  \/ \E w \in HookWorkers :
       \/ \E v \in HookEvents : ClaimHook(w, v)
       \/ LoadDelivery(w) \/ ResolveDestination(w) \/ Post(w) \/ RecordWebhookAttempt(w)
       \/ CompleteHook(w) \/ FailHook(w) \/ HookWorkerDies(w)

WebhooksSpec == WebhooksInit /\ [][WebhooksNext]_hookVars

-------------------------------------------------------------------------------
(* Properties *)

HookSteps ==
  {"claimed", "configured", "unconfigured", "resolved", "accepted", "refused", "busy", "silent",
   "handled", "throwing"}
WebhooksTypeOK ==
  /\ endpoint \in [Endpoints -> {"none", "active", "disabled"}]
  /\ secret \in [Endpoints -> {"none", "usable", "revoked"}]
  /\ creator \in [Endpoints -> {"idle", "inserted", "disabled"}]
  /\ gone \subseteq HookEvents
  /\ hookJob \in [HookEvents -> Job(MaxDeliveryAttempts)]
  /\ \A w \in HookWorkers :
       \/ hookRun[w] = NoRun
       \/ hookRun[w] \in [event : HookEvents, token : 1..MaxDeliveryAttempts, step : HookSteps]
  /\ taken \in [HookEvents -> Nat]
  /\ attempts \in [HookEvents -> SUBSET {"delivered", "failed", "retry"}]
  /\ hookFaults \in [HookEvents -> 0..MaxHookFaults]

\* A receiver takes an event a second time only for a fault: an answer that did not
\* arrive, a worker that died, a lease that was lost (webhook.js:20 posts, :42
\* records).  No refusal, no busy answer and no second worker repeats it otherwise.
RepeatsAreFaults == \A v \in HookEvents : taken[v] <= 1 + hookFaults[v]

\* A job that succeeded is explained: its event was delivered, and then the receiver
\* took it, or it failed for good.  The exception is an event whose row went, of which
\* webhook.js:8-11 says nothing.
SucceededIsExplained ==
  \A v \in HookEvents :
    /\ hookJob[v].status = "succeeded" => attempts[v] \cap {"delivered", "failed"} # {} \/ v \in gone
    /\ "delivered" \in attempts[v] => taken[v] > 0

\* What was sent and what is recorded about it agree, up to the faults.
DeliveriesAccounted == RepeatsAreFaults /\ SucceededIsExplained
===============================================================================
