----------------------------- MODULE Entitlements -----------------------------
(***************************************************************************)
(* What a plan allows: lib/entitlements.js.  PLAN_DEFAULTS, normalizePlan   *)
(* over a row of the plans table, and localDecision, which answers when the *)
(* quota RPC is not installed.                                              *)
(***************************************************************************)
EXTENDS Naturals, Sequences

\* Number and flag columns of a plan row.
LimitFields == <<"monthly_web_scan_limit", "monthly_api_limit", "daily_api_limit",
  "max_api_keys", "max_members", "retention_days", "daily_gateway_scan_limit",
  "monthly_gateway_scan_limit", "max_gateway_artifacts", "max_gateway_parallel_models",
  "gateway_max_raw_retention_hours">>
FlagFields == {"allow_gateway_enforcement", "allow_api_access", "allow_pdf_export",
  "allow_batch_scans", "allow_webhooks", "allow_priority_models"}
Limits == {LimitFields[n] : n \in 1..Len(LimitFields)}

PlanOrder == <<"free", "developer", "pro", "business", "enterprise">>
PlanCodes == {PlanOrder[n] : n \in 1..Len(PlanOrder)}

\* The numbers of a plan, in the order of LimitFields.
DefaultNumbers == [
  free       |-> <<100, 100, 10, 1, 1, 0, 25, 250, 12, 1, 1>>,
  developer  |-> <<1000, 10000, 1000, 3, 2, 7, 100, 2500, 25, 2, 6>>,
  pro        |-> <<5000, 50000, 5000, 10, 10, 30, 500, 15000, 50, 4, 12>>,
  business   |-> <<25000, 250000, 25000, 25, 50, 90, 2500, 75000, 100, 6, 24>>,
  enterprise |-> <<1000000, 1000000, 100000, 100, 500, 365, 100000, 1000000, 250, 8, 24>>]

\* What each plan includes beyond the numbers.
DefaultFlags(code) ==
  IF code \in {"free", "developer"} THEN {"allow_api_access", "allow_pdf_export"} ELSE FlagFields

PlanDefaults(code) ==
  [limit |-> [f \in Limits |->
                DefaultNumbers[code][CHOOSE n \in 1..Len(LimitFields) : LimitFields[n] = f]],
   flags |-> DefaultFlags(code)]

\* Older names of two columns, read where the new one is missing.
AliasOf == [monthly_web_scan_limit |-> "monthly_scan_limit", retention_days |-> "file_retention_days"]

\* normalizePlan: a number or flag the row gives, else the default of its code; an
\* unknown code has the free plan's.  `row` maps the usable columns to their values.
NormalizePlan(code, row) ==
  LET default == PlanDefaults(IF code \in PlanCodes THEN code ELSE "free")
      Given(f, fallback) == IF f \in DOMAIN row THEN row[f] ELSE fallback
      Number(f) == Given(f, IF f \in DOMAIN AliasOf THEN Given(AliasOf[f], default.limit[f])
                            ELSE default.limit[f])
  IN [code |-> code,
      limit |-> [f \in Limits |-> Number(f)],
      total |-> Given("monthly_total_limit",
                      Number("monthly_web_scan_limit") + Number("monthly_api_limit")),
      flags |-> {f \in FlagFields : Given(f, f \in default.flags)}]

\* A free plan, or a subscription in a good state, or none on record ("").
GoodStanding == {"", "active", "trialing", "manual", "enterprise", "past_due_grace"}
SubscriptionAllowsUse(plan, status) == plan.code = "free" \/ status \in GoodStanding

\* localDecision: the first check that fails names the answer.
LocalDecision(plan, status, usage, action, source) ==
  IF ~SubscriptionAllowsUse(plan, status) THEN "SUBSCRIPTION_INACTIVE"
  ELSE IF action \in {"api_scan", "api_usage_read"} /\ "allow_api_access" \notin plan.flags
    THEN "API_NOT_INCLUDED"
  ELSE IF action = "api_key_create" /\ usage.keys >= plan.limit["max_api_keys"]
    THEN "API_KEY_LIMIT_REACHED"
  ELSE IF action = "api_scan" /\ usage.api >= plan.limit["monthly_api_limit"]
    THEN "MONTHLY_API_LIMIT_REACHED"
  ELSE IF source = "web" /\ usage.web >= plan.limit["monthly_web_scan_limit"]
    THEN "MONTHLY_SCAN_LIMIT_REACHED"
  ELSE "ALLOWED"
===============================================================================
