-------------------------------- MODULE History --------------------------------
(***************************************************************************)
(* The list of recent scans that the dashboard and the scans endpoint give: *)
(* dashboardSnapshot, recentScans and recentGatewayScans of                 *)
(* lib/supabase-server.js and lib/gateway/dashboard-history.js, behind      *)
(* lib/routes/account.  It is put together from up to four reads, of the    *)
(* scans of the site, of the rows of the gateway's scans, and of their      *)
(* decisions and their evidence, while scans are made, evidence comes in    *)
(* and decisions are published.                                             *)
(***************************************************************************)
EXTENDS Naturals, Sequences, FiniteSets

CONSTANTS
  SiteScans,      \* rows of the scans table
  GatewayScans,   \* rows of gateway_scans
  SwitchedOff,    \* scans of a module that is not enabled any more
  ListLimit,      \* limit: 100 on the dashboard, 20 elsewhere
  MaxPublished,   \* bound: decisions of a scan
  MaxEvidence     \* bound: evidence rows of a scan

ASSUME HistoryAssumption ==
  /\ IsFiniteSet(SiteScans) /\ IsFiniteSet(GatewayScans)
  /\ SiteScans \cap GatewayScans = {} /\ SwitchedOff \subseteq SiteScans
  /\ ListLimit \in Nat /\ MaxPublished \in Nat /\ MaxEvidence \in Nat

AllScans == SiteScans \cup GatewayScans

VARIABLES
  made,        \* the scans there are, in the order of created_at
  gateway,     \* gateway_scans: status and the decisions it points to
  published,   \* gateway_decisions of a scan, in the order of sequence
  recorded,    \* how many rows gateway_evidence has of a scan
  load,        \* where a load of the list is
  early,       \* whether it filters before it merges, as the dashboard does
  known,       \* history: how many scans there were when it began
  siteRows,    \* what it read of the scans table
  gatewayRows, \* what it read of gateway_scans, "unread" elsewhere
  decisionRows, evidenceRows,   \* what it read of decisions and evidence
  listed,      \* the scans of the last list; which of them are where is their order
  whole,       \* whether the gateway's scans could be read for it
  told,       \* what it says of a gateway scan: status, decision, evidence
  latest       \* history: the newest decision of a scan that any list showed

databaseVars == <<made, gateway, published, recorded>>
loadVars == <<load, early, known, siteRows, gatewayRows, decisionRows, evidenceRows>>
viewVars == <<listed, whole, told, latest>>
historyVars == <<databaseVars, loadVars, viewVars>>

DecisionKinds == {"preliminary", "final", "override"}
Decision == [kind : DecisionKinds, basis : Nat]
Row == [status : {"open", "completed", "failed"}, preliminary : Nat, final : Nat]
NewRow == [status |-> "open", preliminary |-> 0, final |-> 0]
Shown == [status : {"none", "open", "completed", "failed"}, decision : Nat, evidence : Nat]
NotShown == [status |-> "none", decision |-> 0, evidence |-> 0]

Made == {made[i] : i \in DOMAIN made}
Newer(x, y) == \E i, j \in DOMAIN made : i > j /\ made[i] = x /\ made[j] = y

HistoryInit ==
  /\ made = <<>>
  /\ gateway = [s \in GatewayScans |-> NewRow]
  /\ published = [s \in GatewayScans |-> <<>>] /\ recorded = [s \in GatewayScans |-> 0]
  /\ load = "idle" /\ early = FALSE /\ known = 0
  /\ siteRows = {} /\ gatewayRows = [s \in {} |-> NewRow]
  /\ decisionRows = published /\ evidenceRows = recorded
  /\ listed = {} /\ whole = FALSE /\ told = [s \in GatewayScans |-> NotShown]
  /\ latest = [s \in GatewayScans |-> 0]

-------------------------------------------------------------------------------
(* What happens to the scans *)

MakeScan(x) ==
  /\ x \notin Made
  /\ made' = Append(made, x)
  /\ UNCHANGED <<gateway, published, recorded, loadVars, viewVars>>

RecordEvidence(s) ==
  /\ s \in Made /\ recorded[s] < MaxEvidence
  /\ recorded' = [recorded EXCEPT ![s] = @ + 1]
  /\ UNCHANGED <<made, gateway, published, loadVars, viewVars>>

\* publishDecision, from evidence read before: in one transaction the row points to the
\* decision, and a final one completes an open scan.  Only the request that owns a scan
\* publishes a preliminary one, perhaps after a worker's final one.  Whether an override
\* moves the pointer is up to the database.
Publish(s, kind) ==
  LET n == Len(published[s]) + 1
      row == gateway[s]
  IN /\ s \in Made /\ n <= MaxPublished
     /\ kind = "override" => published[s] # <<>>
     /\ kind = "preliminary" => \A i \in DOMAIN published[s] : published[s][i].kind # "preliminary"
     /\ \E basis \in 0..recorded[s] :
          published' = [published EXCEPT ![s] = Append(@, [kind |-> kind, basis |-> basis])]
     /\ \E final \in IF kind = "preliminary" THEN {row.final}
                     ELSE IF kind = "final" THEN {n} ELSE {row.final, n} :
          gateway' = [gateway EXCEPT ![s] =
            [status |-> IF kind = "final" /\ @.status = "open" THEN "completed" ELSE @.status,
             preliminary |-> IF kind = "preliminary" THEN n ELSE @.preliminary,
             final |-> final]]
     /\ UNCHANGED <<made, recorded, loadVars, viewVars>>

ScanFails(s) ==
  /\ s \in Made /\ gateway[s].status = "open"
  /\ gateway' = [gateway EXCEPT ![s].status = "failed"]
  /\ UNCHANGED <<made, published, recorded, loadVars, viewVars>>

-------------------------------------------------------------------------------
(* A load of the list *)

\* order=created_at.desc&limit
Newest(scans) == {x \in scans : Cardinality({y \in scans : Newer(y, x)}) < ListLimit}

FilterEnabled(scans) == scans \ SwitchedOff

\* mergeScanHistories that keeps the scans of the site and fills up.
MergeSiteFirst(site, ofGateway) ==
  site \cup IF Cardinality(site) < ListLimit THEN Newest(ofGateway) ELSE {}

\* mergeScanHistories: the newest of both.
MergeScanHistories(site, ofGateway) == Newest(site \cup ofGateway)

\* The decision of a row among those read later: the one it points to, or else the
\* newest of its kind; 0 when there is none.
SelectDecision(row, decisions) ==
  LET OfKind(kind) == {i \in DOMAIN decisions : decisions[i].kind = kind}
      choices == <<DOMAIN decisions \cap {row.final}, OfKind("final"),
                   DOMAIN decisions \cap {row.preliminary}, OfKind("preliminary"),
                   DOMAIN decisions>>
  IN IF decisions = <<>> THEN 0
     ELSE CHOOSE i \in DOMAIN decisions :
            \E k \in 1..5 : /\ i \in choices[k] /\ \A j \in choices[k] : j <= i
                            /\ \A earlier \in 1..(k - 1) : choices[earlier] = {}

\* normalizeGatewayScan
NormalizeGatewayScan(s) ==
  [status |-> gatewayRows[s].status,
   decision |-> SelectDecision(gatewayRows[s], decisionRows[s]),
   evidence |-> evidenceRows[s]]

DatabaseRests == UNCHANGED databaseVars

\* get_dashboard, or recentScans' own query.
ReadSiteScans ==
  /\ load = "idle"
  /\ load' = "site" /\ early' \in BOOLEAN /\ known' = Len(made)
  /\ siteRows' = LET rows == Newest(Made \cap SiteScans)
                 IN IF early' THEN FilterEnabled(rows) ELSE rows
  /\ listed' = {} /\ whole' = FALSE /\ told' = [s \in GatewayScans |-> NotShown]
  /\ UNCHANGED <<gatewayRows, decisionRows, evidenceRows, latest>> /\ DatabaseRests

\* recentGatewayScans: the rows ...
ReadGatewayRows ==
  /\ load = "site"
  /\ load' = "rows"
  /\ gatewayRows' = [s \in Newest(Made \cap GatewayScans) |-> gateway[s]]
  /\ UNCHANGED <<early, known, siteRows, decisionRows, evidenceRows, viewVars>> /\ DatabaseRests

\* ... then their decisions and their evidence, in either order.
ReadDecisions ==
  /\ load \in {"rows", "evidence"}
  /\ load' = IF load = "rows" THEN "decisions" ELSE "both"
  /\ decisionRows' = [s \in GatewayScans |-> IF s \in DOMAIN gatewayRows THEN published[s] ELSE <<>>]
  /\ UNCHANGED <<early, known, siteRows, gatewayRows, evidenceRows, viewVars>> /\ DatabaseRests

ReadEvidence ==
  /\ load \in {"rows", "decisions"}
  /\ load' = IF load = "rows" THEN "evidence" ELSE "both"
  /\ evidenceRows' = [s \in GatewayScans |-> IF s \in DOMAIN gatewayRows THEN recorded[s] ELSE 0]
  /\ UNCHANGED <<early, known, siteRows, gatewayRows, decisionRows, viewVars>> /\ DatabaseRests

\* A list is shown; nothing of the load is left.
Give(list, isWhole) ==
  /\ load' = "idle" /\ early' = FALSE
  /\ siteRows' = {} /\ gatewayRows' = [s \in {} |-> NewRow]
  /\ decisionRows' = [s \in GatewayScans |-> <<>>] /\ evidenceRows' = [s \in GatewayScans |-> 0]
  /\ listed' = FilterEnabled(list) /\ whole' = isWhole
  /\ told' = [s \in GatewayScans |-> IF s \in list THEN NormalizeGatewayScan(s) ELSE NotShown]
  /\ latest' = [s \in GatewayScans |->
                  IF s \in list /\ told'[s].decision > latest[s] THEN told'[s].decision ELSE latest[s]]
  /\ UNCHANGED known /\ DatabaseRests

ShowList ==
  /\ load = "both" \/ (load = "rows" /\ DOMAIN gatewayRows = {})
  /\ Give(MergeScanHistories(siteRows, DOMAIN gatewayRows), TRUE)

\* The gateway's module is off, no service role is configured, or one of its reads
\* failed: the scans of the site alone.
ShowSiteScans == load # "idle" /\ Give(siteRows, FALSE)

HistoryNext ==
  \/ \E x \in AllScans : MakeScan(x)
  \/ \E s \in GatewayScans :
       \/ RecordEvidence(s) \/ ScanFails(s)
       \/ \E kind \in DecisionKinds : Publish(s, kind)
  \/ ReadSiteScans \/ ReadGatewayRows \/ ReadDecisions \/ ReadEvidence
  \/ ShowList \/ ShowSiteScans

HistorySpec == HistoryInit /\ [][HistoryNext]_historyVars

-------------------------------------------------------------------------------
(* Properties *)

HistoryTypeOK ==
  /\ made \in Seq(AllScans)
  /\ gateway \in [GatewayScans -> Row]
  /\ published \in [GatewayScans -> Seq(Decision)] /\ recorded \in [GatewayScans -> Nat]
  /\ load \in {"idle", "site", "rows", "decisions", "evidence", "both"}
  /\ early \in BOOLEAN /\ known \in Nat
  /\ siteRows \subseteq SiteScans
  /\ DOMAIN gatewayRows \subseteq GatewayScans /\ gatewayRows \in [DOMAIN gatewayRows -> Row]
  /\ decisionRows \in [GatewayScans -> Seq(Decision)] /\ evidenceRows \in [GatewayScans -> Nat]
  /\ listed \subseteq AllScans /\ whole \in BOOLEAN
  /\ told \in [GatewayScans -> Shown] /\ latest \in [GatewayScans -> Nat]

\* A scan that is shown as completed is shown with a final decision or the override of
\* one, and with all the evidence that it rests on, although row, decision and evidence
\* are three reads (supabase-server.js:557-589).
CompletedIsFinal ==
  \A s \in GatewayScans :
    told[s].status = "completed" =>
      LET d == told[s].decision
      IN d # 0 /\ published[s][d].kind # "preliminary" /\ published[s][d].basis <= told[s].evidence

\* No list shows an older decision of a scan than one before it did, whatever was
\* published between its reads (dashboard-history.js:19-30).
NeverOlder ==
  \A s \in GatewayScans : told[s].status # "none" => told[s].decision = latest[s]

\* A scan that was there when the list was asked for is only left out for as many newer
\* ones, although two lists are cut before they are merged; those of a module that is
\* switched off take their places before they are filtered out, and without the
\* gateway's rows nothing is said of its scans (supabase-server.js:351-387,534-555).
NewestListed ==
  load = "idle" =>
    \A i \in 1..known :
      \/ made[i] \in listed \cup SwitchedOff
      \/ made[i] \in GatewayScans /\ ~whole
      \/ Cardinality({y \in Made : Newer(y, made[i])}) >= ListLimit

\* What the list of recent scans says of them is so.
HistoryHonest == CompletedIsFinal /\ NeverOlder /\ NewestListed
===============================================================================
