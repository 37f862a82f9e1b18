------------------------------ MODULE MCPlatform ------------------------------
(***************************************************************************)
(* The components around the gateway, each a module of its own, checked in  *)
(* one run.  They share no state, so `part` says which one of them moves in *)
(* a behaviour; the others stay as they start.                              *)
(***************************************************************************)
EXTENDS Metering, Accounts, PlatformJobs, Webhooks, Casework, Workspaces, Sessions, EmailPage,
        MCDetection, Inference, Passport, Campaign, Checkout, Enrichment, History, TLC

CONSTANTS
  api1, api2, api3, web1, web2, web3, web4, usage1,  \* calls
  keyA, keyW, keyL, keyD, keyU,                      \* their request ids
  ev1, ev2, ev3, ev4,                                \* billing events
  jobX, jobR, jobP, jobS,                            \* platform jobs
  hook1, end1,                                       \* webhook events, endpoints
  ann, bob, cas,                                     \* people
  rep1,                                              \* reports
  co1, co2, co3, po1,                                \* checkouts, a portal
  tr1, tr2, dom1, dom2,                              \* investigations, domains
  site1, site2, gate1                                \* scans of the site, of the gateway

Parts == {"metering", "accounts", "jobs", "webhooks", "casework", "workspaces", "sessions", "page",
          "detection", "inference", "passport", "campaign", "checkout", "enrichment",
          "history"}

VARIABLE part

restVars == <<accountsVars, hookVars, caseworkVars, workspacesVars, sessionsVars, pageVars>>
allVars == <<part, meteringVars, platformVars, restVars, subject, inferenceVars, passportVars, campaignVars,
             checkoutVars, enrichmentVars, historyVars>>

-------------------------------------------------------------------------------
(* Instances *)

\* Calls with one Idempotency-Key to one endpoint or to two, of the API and of the
\* site, and one that reads the usage; MCSent are the calls made in one behaviour.
MCIdOf ==
  (api1 :> keyA) @@ (api2 :> keyA) @@ (api3 :> keyA) @@ (usage1 :> keyU) @@
  (web1 :> keyW) @@ (web2 :> keyW) @@ (web3 :> keyL) @@ (web4 :> keyD)
MCRouteOf ==
  (api1 :> "v1/phishing") @@ (api2 :> "v1/link-check") @@ (api3 :> "v1/deepfake") @@ (usage1 :> "v1/usage") @@
  (web1 :> "phishing") @@ (web2 :> "phishing") @@ (web3 :> "link") @@ (web4 :> "deepfake")
MCSent == {{api1, api2, web1, web2}, {api2, api3, web3, usage1}, {api1, api3, web4}}
Sent == {c \in Calls : callPc[c] # "unsent"}

MCEventKind == (ev1 :> "checkout") @@ (ev2 :> "subscription") @@ (ev3 :> "orphan") @@ (ev4 :> "other")
MCEventPlan == (ev1 :> "developer") @@ (ev2 :> "free") @@ (ev3 :> "free") @@ (ev4 :> "free")

MCKindOf == (jobX :> "export") @@ (jobR :> "erase") @@ (jobP :> "purge") @@ (jobS :> "scan")
Wanted == {j \in PlatformJobIds : pjob[j].status # "absent"}

MCUrlOf ==
  [e \in Endpoints |->
     [scheme |-> "https", credentials |-> FALSE, port |-> 443, ipLiteral |-> FALSE, production |-> TRUE,
      host |-> <<"hooks", "example", "com">>]]
MCAllowedHosts == {<<"*", "example", "com">>}
MCResolutions ==
  {{<<93, 184, 216, 34>>}, {<<93, 184, 216, 34>>, <<10, 0, 0, 1>>}, {},
   {<<9734, 18176, 0, 0, 0, 0, 0, 4369>>}, {<<0, 0, 0, 0, 0, 65535, 2560, 1>>}, {<<65152, 0, 0, 0, 0, 0, 0, 1>>}}
MCEndpointOf == hook1 :> end1

MCRoleOf == (ann :> "owner") @@ (bob :> "admin") @@ (cas :> "analyst")

\* Weak matches on two URLs outrank an attachment, an address is trusted in one e-mail
\* and observed in another, and the messages share more than a search keeps.
MCHop(trusted) == [trusted |-> trusted, public |-> TRUE, ip |-> 1, host |-> 0, asn |-> 1]
MCMessage(urls, froms, attachments, hops) ==
  [found |-> [url_domain |-> urls, from_domain |-> froms, attachment_sha256 |-> attachments], hops |-> hops]
MCMessageOf ==
  ("mail1" :> MCMessage({1, 2}, {}, {1}, {MCHop(TRUE)})) @@
  ("mail2" :> MCMessage({1, 2}, {1}, {}, {})) @@
  ("mail3" :> MCMessage({1, 2}, {1}, {}, {MCHop(FALSE)})) @@
  ("mail4" :> MCMessage({}, {1}, {1}, {}))
MCIdRank == ("mail1" :> 3) @@ ("mail2" :> 1) @@ ("mail3" :> 4) @@ ("mail4" :> 2)
MCEntities == UNION {EntitiesOf[s] : s \in EmailScans}

\* Three members check out, one opens the portal.
MCWants == (co1 :> "checkout") @@ (co2 :> "checkout") @@ (co3 :> "checkout") @@ (po1 :> "portal")

\* Two messages with two addresses in common, one of them with more than is looked up.
MCIp(n) == <<n, n, n, n>>
MCIpv6 == <<9734, 18176, 0, 0, 0, 0, 0, 4369>>
MCPrivateIps == {<<10, 0, 0, 1>>, <<65152, 0, 0, 0, 0, 0, 0, 1>>}
MCIpAddresses == {MCIp(1), MCIp(8), MCIp(9), MCIpv6} \cup MCPrivateIps
MCReceived ==
  (tr1 :> <<<<<<10, 0, 0, 1>>, MCIp(8)>>, <<MCIpv6>>, <<MCIp(8)>>, <<MCIp(1)>>, <<MCIp(9)>>>>) @@
  (tr2 :> <<<<<<65152, 0, 0, 0, 0, 0, 0, 1>>>>, <<MCIpv6, MCIp(8)>>, <<<<10, 0, 0, 1>>, MCIp(8)>>>>)
MCNamedDomains == (tr1 :> <<dom1, dom2>>) @@ (tr2 :> <<dom1>>)

-------------------------------------------------------------------------------

PartInit ==
  /\ part \in Parts
  /\ MeteringInit /\ IF part = "metering" THEN Sent \in MCSent ELSE Sent = {}
  /\ PlatformInit /\ IF part = "jobs" THEN Wanted \in {{jobX, jobS}, {jobR, jobP}} ELSE Wanted = {}
  /\ DetectionInit /\ (part # "detection" => subject.detector = "mailguard")
  /\ InferenceInit /\ (part # "inference" => availability = NoCheck)
  /\ PassportInit /\ signingKey = CHOOSE k \in SigningKeys : TRUE
  /\ AccountsInit /\ WebhooksInit /\ CaseworkInit /\ WorkspacesInit /\ SessionsInit /\ EmailPageInit
  /\ CampaignInit /\ CheckoutInit
  /\ EnrichmentInit /\ (part # "enrichment" => providers = {})
  /\ HistoryInit

OthersRest ==
  /\ IF part = "metering" THEN TRUE ELSE UNCHANGED meteringVars
  /\ IF part = "accounts" THEN TRUE ELSE UNCHANGED accountsVars
  /\ IF part = "jobs" THEN TRUE ELSE UNCHANGED platformVars
  /\ IF part = "webhooks" THEN TRUE ELSE UNCHANGED hookVars
  /\ IF part = "casework" THEN TRUE ELSE UNCHANGED caseworkVars
  /\ IF part = "workspaces" THEN TRUE ELSE UNCHANGED workspacesVars
  /\ IF part = "sessions" THEN TRUE ELSE UNCHANGED sessionsVars
  /\ IF part = "page" THEN TRUE ELSE UNCHANGED pageVars
  /\ IF part = "detection" THEN TRUE ELSE UNCHANGED subject
  /\ IF part = "inference" THEN TRUE ELSE UNCHANGED inferenceVars
  /\ IF part = "passport" THEN TRUE ELSE UNCHANGED passportVars
  /\ IF part = "campaign" THEN TRUE ELSE UNCHANGED campaignVars
  /\ IF part = "checkout" THEN TRUE ELSE UNCHANGED checkoutVars
  /\ IF part = "enrichment" THEN TRUE ELSE UNCHANGED enrichmentVars
  /\ IF part = "history" THEN TRUE ELSE UNCHANGED historyVars

PartNext ==
  /\ \/ part = "metering" /\ MeteringNext
     \/ part = "accounts" /\ AccountsNext
     \/ part = "jobs" /\ PlatformNext
     \/ part = "webhooks" /\ WebhooksNext
     \/ part = "casework" /\ CaseworkNext
     \/ part = "workspaces" /\ WorkspacesNext
     \/ part = "sessions" /\ SessionsNext
     \/ part = "page" /\ EmailPageNext
     \/ part = "detection" /\ DetectionNext
     \/ part = "inference" /\ InferenceNext
     \/ part = "passport" /\ PassportNext
     \/ part = "campaign" /\ CampaignNext
     \/ part = "checkout" /\ CheckoutNext
     \/ part = "enrichment" /\ EnrichmentNext
     \/ part = "history" /\ HistoryNext
  /\ OthersRest
  /\ UNCHANGED part

MCSpec == PartInit /\ [][PartNext]_allVars

\* Every variable of every part keeps its type.
TypesOK ==
  /\ MeteringTypeOK /\ AccountsTypeOK /\ PlatformTypeOK /\ WebhooksTypeOK /\ CaseworkTypeOK
  /\ WorkspacesTypeOK /\ SessionsTypeOK /\ PageTypeOK /\ DetectionTypeOK /\ InferenceTypeOK
  /\ PassportTypeOK /\ CampaignTypeOK /\ CheckoutTypeOK /\ EnrichmentTypeOK
  /\ HistoryTypeOK
===============================================================================
