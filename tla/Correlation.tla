------------------------------ MODULE Correlation ------------------------------
(***************************************************************************)
(* How the gateway turns evidence into a recommendation: correlate() of     *)
(* lib/gateway/correlation.js under a compiled policy                       *)
(* (lib/gateway/policy.js), and the scan whose decision is recomputed as    *)
(* evidence comes in.  Scores are hundredths; reason codes are grouped into *)
(* the classes the scoring tells apart.                                     *)
(***************************************************************************)
EXTENDS Integers, FiniteSets, FiniteSetsExt

CONSTANTS
  Items,     \* the evidence rows a scan may collect
  Policies   \* compiled policies under consideration

Scores == 0..100
NoScore == -1

Codes == {"identity",      \* reply-to, return-path or link domain unrelated
          "sender",        \* sender or message-id domain differs
          "auth",          \* SPF, DKIM, DMARC or ARC failed
          "credential", "payment", "urgency",
          "visibleUrl", "obfuscated", "metaRefresh", "confusable",
          "ipHigh", "ipElevated", "domain30", "domain90"}

Rows == [kind : {"phishing", "link", "media"},
         status : {"completed", "pending", "failed"},
         score : Scores \cup {NoScore},
         codes : SUBSET Codes,
         required : BOOLEAN]

\* normalizeEvidence: only what was completed has a score.
Evidence == {row \in Rows : row.status # "completed" => row.score = NoScore}

Actions == {"allow", "warn", "manual_review", "hold", "quarantine", "block"}

\* ACTION_PRIORITY
Priority == [a \in Actions |->
  CASE a = "allow" -> 0 [] a = "warn" -> 1 [] a = "manual_review" -> 2
    [] a = "hold" -> 3 [] a = "quarantine" -> 4 [] a = "block" -> 5]

\* The weaker of two actions.
MinAction(left, right) == IF Priority[right] < Priority[left] THEN right ELSE left

MaxAction(left, right) == IF Priority[right] > Priority[left] THEN right ELSE left

Severity(score) ==
  IF score >= 90 THEN "critical" ELSE IF score >= 75 THEN "high"
  ELSE IF score >= 45 THEN "medium" ELSE "low"

-------------------------------------------------------------------------------
(* Policies *)

FailureModes == {"allow", "warn", "hold", "block"}

Policy == [allowBelow : Scores, warnBelow : Scores, reviewBelow : Scores,
           blockAt : Scores,        \* quarantine_below = block_at_or_above
           failure : FailureModes,  \* failure_modes.interactive_text_url
           enforcing : BOOLEAN,     \* enforcement.mode = 'enforcing'
           automatic : BOOLEAN,     \* enforcement.automatic_block
           convert : {"warn", "manual_review", "quarantine", "hold"}]

\* validatePolicy: what compilePolicy lets through.
ValidPolicy(p) ==
  /\ p \in Policy
  /\ p.allowBelow <= p.warnBelow
  /\ p.warnBelow <= p.reviewBelow
  /\ p.reviewBelow <= p.blockAt

ASSUME CorrelationAssumption ==
  /\ Items \subseteq Evidence
  /\ \A p \in Policies : ValidPolicy(p)

RecommendationForScore(score, p) ==
  IF score < p.allowBelow THEN "allow"
  ELSE IF score < p.warnBelow THEN "warn"
  ELSE IF score < p.reviewBelow THEN "manual_review"
  ELSE IF score < p.blockAt THEN "quarantine"
  ELSE "block"

\* A guard that trusts the mode alone.
EnforcementGuardByMode(action, p) ==
  IF action = "block" /\ ~p.enforcing THEN p.convert ELSE action

EnforcementGuard(action, p) ==
  IF action = "block" /\ ~(p.enforcing /\ p.automatic) THEN p.convert ELSE action

-------------------------------------------------------------------------------
(* correlate *)

\* The risks that a set of reason codes carries by itself, and the highest of them.
CarriedRisks(codes) ==
  LET mismatch == codes \cap {"identity", "sender"} # {}
      lure == codes \cap {"credential", "payment", "urgency"} # {}
      has(c) == c \in codes
  IN {risk \in Scores :
       \/ risk = 35 /\ has("payment")
       \/ risk = 40 /\ (has("credential") \/ has("ipElevated"))
       \/ risk = 50 /\ has("obfuscated")
       \/ risk = 55 /\ has("visibleUrl")
       \/ risk = 56 /\ has("domain90") /\ lure /\ mismatch
       \/ risk = 58 /\ lure /\ mismatch
       \/ risk = 60 /\ (has("metaRefresh") \/ (has("domain30") /\ (lure \/ mismatch)))
       \/ risk = 62 /\ has("ipHigh")
       \/ risk = 65 /\ has("visibleUrl") /\ mismatch
       \/ risk = 68 /\ has("credential") /\ has("visibleUrl")
       \/ risk = 72 /\ has("auth") /\ (lure \/ mismatch)
       \/ risk = 75 /\ has("confusable")}

DeterministicEmailRisk(codes) == Max({0} \cup CarriedRisks(codes))

Completed(ev) == {e \in ev : e.status = "completed"}
Scored(ev) == {e \in Completed(ev) : e.score # NoScore}
RequiredFailures(ev) == {e \in ev : e.required /\ e.status = "failed"}
CodesOf(ev) == UNION {e.codes : e \in Completed(ev)}

\* The most favourable score instead of the highest.
LowestScore(ev) ==
  IF Scored(ev) = {} THEN 0 ELSE Min({e.score : e \in Scored(ev)})

TopScore(ev) == Max({0} \cup {e.score : e \in Scored(ev)})
TopOfKind(ev, kind) == TopScore({e \in ev : e.kind = kind})

\* Nothing was scored and required evidence failed: the risk is unknown.
RiskUnknown(ev) ==
  /\ Scored(ev) = {}
  /\ DeterministicEmailRisk(CodesOf(ev)) = 0
  /\ RequiredFailures(ev) # {}

Risk(ev) ==
  Max({TopScore(ev), DeterministicEmailRisk(CodesOf(ev)),
       IF RiskUnknown(ev) THEN 50 ELSE 0})

\* Identity or authentication evidence beside a phishing score asks for a review.
NeedsIndependentReview(ev) ==
  /\ CodesOf(ev) \cap {"identity", "auth"} # {}
  /\ \/ TopOfKind(ev, "phishing") >= 45
     \/ DeterministicEmailRisk(CodesOf(ev)) >= 45

UnguardedAction(ev, p) ==
  LET byRisk == RecommendationForScore(Risk(ev), p)
      reviewed == IF NeedsIndependentReview(ev)
                    THEN MaxAction(byRisk, "manual_review") ELSE byRisk
  IN IF RequiredFailures(ev) # {} THEN MaxAction(reviewed, p.failure)
     ELSE reviewed

Correlate(ev, p) ==
  LET action == EnforcementGuard(UnguardedAction(ev, p), p)
  IN [risk |-> Risk(ev),
      severity |-> Severity(Risk(ev)),
      verdict |-> IF Risk(ev) < 45 /\ Completed(ev) = {} THEN "unknown"
                  ELSE Severity(Risk(ev)),
      recommendation |-> action,
      final |-> \A e \in ev : e.status # "pending",
      review |-> \/ action \in {"manual_review", "quarantine", "block", "hold"}
                 \/ NeedsIndependentReview(ev)]

-------------------------------------------------------------------------------
(* A scan: evidence is recorded, and the decision recomputed over all of it *)

VARIABLES policy,    \* the policy version the scan was claimed with
          evidence,  \* gateway_evidence rows
          decision,  \* the latest published decision
          decidedOn  \* the evidence it was computed from

vars == <<policy, evidence, decision, decidedOn>>

NoDecision == [recommendation |-> "none"]
Decided == decision # NoDecision

Init ==
  /\ policy \in Policies
  /\ evidence = {}
  /\ decision = NoDecision
  /\ decidedOn = {}

\* recordEvidence, by the orchestrator or by a media job.
RecordEvidence(item) ==
  /\ item \notin evidence
  /\ evidence' = evidence \cup {item}
  /\ UNCHANGED <<policy, decision, decidedOn>>

\* correlate and publishDecision: once by the orchestrator, again when media jobs
\* or a reconciliation finish the scan.
Decide ==
  /\ decision' = Correlate(evidence, policy)
  /\ decidedOn' = evidence
  /\ UNCHANGED <<policy, evidence>>

Next == Decide \/ \E item \in Items : RecordEvidence(item)

Spec == Init /\ [][Next]_vars

-------------------------------------------------------------------------------
(* Properties *)

\* No evidence and no failure mode leads to an automatic block unless the policy
\* is in enforcing mode and enables it ('advisory' is the default stance).
AutomaticBlockOnly ==
  decision.recommendation = "block" => policy.enforcing /\ policy.automatic

\* When required evidence failed, the recommendation is at least the policy's
\* failure mode, unless it is what a disabled block was converted to.
FailureFloor ==
  Decided /\ RequiredFailures(decidedOn) # {} =>
    \/ Priority[decision.recommendation] >= Priority[policy.failure]
    \/ UnguardedAction(decidedOn, policy) = "block"

\* What is recommended stays within the policy on both sides: no block it does not
\* allow, nothing below its floor after a failure (correlation.js:109-129).
DecisionWithinPolicy == AutomaticBlockOnly /\ FailureFloor

\* More evidence never lowers the risk of a scan, with one exception: the risk
\* assumed while nothing at all could be scored.
RiskDropsOnlyFromUnknown ==
  [][Decided /\ decision'.risk < decision.risk => RiskUnknown(decidedOn)]_vars

\* More evidence never weakens the recommendation, with two exceptions: the risk
\* was unknown before, or the policy converts blocks to less than a quarantine
\* (then a higher score can end in a weaker action).
EvidenceNeverRelaxes ==
  [][Decided
     /\ Priority[decision'.recommendation] < Priority[decision.recommendation]
     => \/ RiskUnknown(decidedOn)
        \/ policy.convert # "quarantine" /\ UnguardedAction(evidence, policy) = "block"]_vars

\* The abstraction the life-cycle models use, for either kind of failure mode.
Lenient == INSTANCE Recommendation WITH FailMode <- "allow"
Strict == INSTANCE Recommendation WITH FailMode <- "escalate"

Outcome(item) ==
  IF item.status = "failed" THEN "failed"
  ELSE IF item.score < policy.allowBelow THEN "clean" ELSE "risky"

Plain(item) ==
  /\ item.codes = {}
  /\ item.score # NoScore \/ (item.status = "failed" /\ item.required)

\* On evidence without reason codes, under a policy that allows a risk of 0 but not an
\* unknown one (50), Recommendation!Recommend says exactly whether correlate() lets a scan
\* pass (correlation.js:101-119).
RecommendAgrees ==
  LET rows == {[outcome |-> Outcome(e)] : e \in decidedOn}
      abstract == IF policy.failure = "allow" THEN Lenient!Recommend(rows)
                  ELSE Strict!Recommend(rows)
  IN Decided /\ (\A e \in decidedOn : Plain(e)) /\ policy.allowBelow \in 1..50 =>
       (decision.recommendation = "allow" <=> abstract = "allow")
===============================================================================
