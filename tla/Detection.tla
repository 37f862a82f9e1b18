------------------------------- MODULE Detection -------------------------------
(***************************************************************************)
(* How the detectors score: the deterministic indicators of a message and   *)
(* of a URL, their combination with a model's score, and the verdict        *)
(* (lib/risk-engine.js, lib/link-intelligence.js, lib/detection-service.js, *)
(* and the adapters of lib/models).  Scores are in units of 1/100000, the   *)
(* precision the code rounds them to.  Patterns over text are traits that a *)
(* message or URL has or has not.  A subject is what is being scored; it    *)
(* changes one step at a time so that neighbouring verdicts can be compared.*)
(***************************************************************************)
EXTENDS Integers, FiniteSetsExt, Functions

CONSTANTS
  ModelScores,   \* the scores a model may return
  UrlFeatures,   \* the features that URLs and their context may have
  Detectors      \* the detectors considered: "mailguard", "cortex", "swift", "pixel"

ASSUME DetectionAssumption == \A m \in ModelScores : m \in Nat /\ m <= 100000

VARIABLE subject  \* the detector, the model's score, and the traits

Unit == 100000
RoundDiv(x, d) == (x + d \div 2) \div d
MaxOf(a, b) == IF a >= b THEN a ELSE b
MinOf(a, b) == IF a <= b THEN a ELSE b

\* 1 Low, 2 Medium, 3 High, 4 Critical.
RiskFromScore(score) ==
  IF score >= 90000 THEN 4 ELSE IF score >= 75000 THEN 3 ELSE IF score >= 45000 THEN 2 ELSE 1
SeverityScore == [Critical |-> 95000, High |-> 78000, Medium |-> 52000, Low |-> 25000]

\* The indicators of one severity, their scores by severity, and the worst score.
CountOf(severity, level) == Cardinality({i \in DOMAIN severity : severity[i] = level})
TotalScore(severity) ==
  LET Scored(level) == SeverityScore[level] * CountOf(severity, level)
  IN Scored("Critical") + Scored("High") + Scored("Medium") + Scored("Low")
WorstScore(severity) == Max({SeverityScore[level] : level \in Range(severity)})

\* A share of the worst severity, a capped share of the sum, and a capped bonus for
\* every indicator after the second.
ScoreIndicators(severity, weights) ==
  LET count == Cardinality(DOMAIN severity)
  IN IF count = 0 THEN 0
     ELSE MinOf(98000, (WorstScore(severity) * weights.worst) \div 100
                       + MinOf(weights.sumCap, (TotalScore(severity) * weights.sum) \div 100)
                       + MinOf(weights.bonusCap, MaxOf(0, count - 2) * weights.bonus))

-------------------------------------------------------------------------------
(* Messages *)

\* buildPhishingIndicators: one pattern list each.  A message has one link or several;
\* "flagged" is a shortener or a domain that matches the heuristics.
MailSeverity ==
  [urgency |-> "Medium", credentials |-> "High", otp |-> "High", payment |-> "Medium",
   blocking |-> "High", attachment |-> "Medium", link |-> "Medium", links |-> "High",
   flagged |-> "High", sender |-> "Low", contact |-> "Medium"]
MailTraits == {t \in SUBSET DOMAIN MailSeverity : {"link", "links"} \cap t = {} => "flagged" \notin t}
OneLinkCount(traits) == ~ {"link", "links"} \subseteq traits

MailRules(traits) ==
  ScoreIndicators(Restrict(MailSeverity, traits),
                  [worst |-> 55, sum |-> 12, sumCap |-> 40000, bonus |-> 3000, bonusCap |-> 18000])

CombineMail(model, rules) ==
  LET mixed == RoundDiv(70 * model + 30 * rules, 100)
      agreed == IF model >= 65000 /\ rules >= 60000 THEN MaxOf(mixed, 75000) ELSE mixed
      doubted == IF model < 45000 /\ rules >= 72000 THEN MaxOf(agreed, 45000) ELSE agreed
  IN IF model < 30000 /\ rules < 20000 THEN MinOf(doubted, 32000) ELSE doubted

\* runMailGuard with the thresholds of config/hf-model-contracts.canary.json.
MailGuardState(model) ==
  IF model >= 70000 THEN "LIKELY_PHISHING" ELSE IF model <= 20000 THEN "LIKELY_BENIGN" ELSE "UNCERTAIN"

NoScore == -1

\* phishingDecisionState; Cortex has no score and is always uncertain.
MailState(modelState, model, rules, decision) ==
  IF model = NoScore THEN "UNCERTAIN"
  ELSE IF modelState = "LIKELY_PHISHING" /\ model >= 55000 THEN "LIKELY_PHISHING"
  ELSE IF decision >= 75000 /\ rules >= 60000 THEN "LIKELY_PHISHING"
  ELSE IF modelState = "LIKELY_BENIGN" /\ model <= 35000 /\ rules < 45000 /\ decision < 45000 THEN "LIKELY_BENIGN"
  ELSE IF model <= 30000 /\ rules < 30000 /\ decision < 40000 THEN "LIKELY_BENIGN"
  ELSE "UNCERTAIN"

\* The label that goes with a state, in lower case.
LabelOf == [LIKELY_PHISHING |-> "likely phishing", LIKELY_BENIGN |-> "likely benign", UNCERTAIN |-> "uncertain"]

\* buildSafeSummary for a message.
MailSummary(label, level) ==
  IF label = "phishing" THEN "The message is likely phishing."
  ELSE IF level = 2 THEN "The message has some suspicious signals."
  ELSE "No strong phishing indicators were found from the available signals."

\* finalizePhishingPayload.
FinalizeMail(detector, model, traits) ==
  LET rules == MailRules(traits)
      score == IF model = NoScore THEN rules ELSE CombineMail(model, rules)
      state == MailState(IF detector = "mailguard" THEN MailGuardState(model) ELSE "UNCERTAIN", model, rules, score)
      level == RiskFromScore(score)
  IN [score |-> score, rules |-> rules, level |-> level,
      verdict |-> CASE state = "LIKELY_PHISHING" -> "malicious" [] state = "LIKELY_BENIGN" -> "safe"
                    [] OTHER -> "unknown",
      summary |-> MailSummary(LabelOf[state], level)]

-------------------------------------------------------------------------------
(* Links *)

FeatureSeverity ==
  [url_shortener |-> "High", ip_address_url |-> "High", punycode_idn |-> "High", long_domain |-> "Medium",
   too_many_hyphens |-> "Medium", too_many_subdomains |-> "Medium", suspicious_tld |-> "Medium",
   missing_https |-> "Medium", login_verify_terms |-> "High", payment_lure_terms |-> "Medium",
   india_scam_terms |-> "Medium", credential_terms |-> "High", redirect_query |-> "Medium",
   encoded_url_query |-> "High", random_characters |-> "Medium"]

\* analyzeUrlRules: a feature each, and two that need a brand in the host name.  A
\* URL may also have "foreign_brand" (a brand on another domain), "own_brand", and
\* "official_terms" (official, support, secure, ...).
BrandSeverity(features) ==
  LET lure == {"login_verify_terms", "payment_lure_terms", "credential_terms"} \cap features # {} IN
  [i \in {"brand_impersonation" : x \in {"foreign_brand"} \cap IF lure THEN features ELSE {}}
     \cup {"official_brand_like_terms" : x \in {"foreign_brand", "own_brand"}
                                            \cap IF "official_terms" \in features THEN features ELSE {}}
   |-> "High"]
LinkIndicators(features) ==
  LET plain == Restrict(FeatureSeverity, features \cap DOMAIN FeatureSeverity)
      brand == BrandSeverity(features)
  IN [i \in DOMAIN plain \cup DOMAIN brand |-> IF i \in DOMAIN brand THEN brand[i] ELSE plain[i]]

LinkRules(features) ==
  ScoreIndicators(LinkIndicators(features),
                  [worst |-> 52, sum |-> 10, sumCap |-> 42000, bonus |-> 3500, bonusCap |-> 20000])

\* The cap of two low scores applied as a floor.
CombineBlunt(model, rules) ==
  LET mixed == RoundDiv(62 * model + 38 * rules, 100)
  IN IF model < 30000 /\ rules < 40000 THEN MaxOf(mixed, 32000) ELSE mixed

CombineLink(model, rules) ==
  LET mixed == RoundDiv(62 * model + 38 * rules, 100)
      agreed == IF model >= 75000 /\ rules >= 55000 THEN MaxOf(mixed, 82000) ELSE mixed
      doubted == IF model < 35000 /\ rules >= 85000 THEN MaxOf(agreed, 78000)
                 ELSE IF model < 35000 /\ rules >= 72000 THEN MaxOf(agreed, 62000) ELSE agreed
  IN IF model < 30000 /\ rules < 20000 THEN MinOf(doubted, 32000) ELSE doubted

\* labelFromScore, with the model's own label (normalizeSwiftOutput).
LinkLabel(score, model, features) ==
  LET phishing == {"brand_impersonation", "credential_terms", "encoded_url_query"}
                    \cap DOMAIN LinkIndicators(features) # {}
  IN IF score >= 90000 /\ model >= 50000 THEN "Malicious"
     ELSE IF score >= 75000 /\ phishing THEN "Phishing"
     ELSE IF score >= 45000 THEN "Suspicious" ELSE "Lower risk"

\* buildLinkResult, and verdictForResult of lib/models/malicious-url.js.
FinalizeLink(model, features) ==
  LET rules == LinkRules(features)
      score == CombineLink(model, rules)
      label == LinkLabel(score, model, features)
  IN [score |-> score, rules |-> rules, level |-> RiskFromScore(score),
      verdict |-> IF label \in {"Malicious", "Phishing"} \/ score >= 75000 THEN "malicious"
                  ELSE IF label = "Suspicious" \/ score >= 45000 THEN "suspicious" ELSE "safe",
      summary |-> label]

-------------------------------------------------------------------------------
(* Images *)

\* finalizeDeepfakePayload, and the adapter of lib/models/deepfake-image.js: the
\* scores are the probabilities of the image being fake and real, which sum to one.
FinalizeImage(model) ==
  [score |-> model, rules |-> 0, level |-> RiskFromScore(model),
   verdict |-> IF model >= 75000 THEN "malicious" ELSE IF model >= 45000 THEN "suspicious" ELSE "safe",
   summary |-> IF model >= Unit - model THEN "Fake" ELSE "Real"]

-------------------------------------------------------------------------------

Assess(s) ==
  CASE s.detector \in {"mailguard", "cortex"} -> FinalizeMail(s.detector, s.model, s.traits)
    [] s.detector = "swift" -> FinalizeLink(s.model, s.traits)
    [] OTHER -> FinalizeImage(s.model)

TraitsFor(detector) ==
  CASE detector \in {"mailguard", "cortex"} -> {t \in MailTraits : OneLinkCount(t)}
    [] detector = "swift" -> SUBSET UrlFeatures
    [] OTHER -> {{}}

Subjects ==
  UNION {[detector : {d}, traits : TraitsFor(d), model : IF d = "cortex" THEN {NoScore} ELSE ModelScores]
         : d \in Detectors}

DetectionInit == subject \in {s \in Subjects : s.traits = {} /\ \A m \in ModelScores : s.model <= m}

\* The model returns the next higher score for a subject that is otherwise the same.
RaiseScore ==
  \E m \in {n \in ModelScores : n > subject.model} :
    /\ subject.model # NoScore
    /\ \A n \in ModelScores : n > subject.model => m <= n
    /\ subject' = [subject EXCEPT !.model = m]

\* One more trait; a second link makes one link several.
AddTrait ==
  \/ \E x \in DOMAIN MailSeverity \cup UrlFeatures :
       /\ x \notin subject.traits /\ subject.traits \cup {x} \in TraitsFor(subject.detector)
       /\ subject' = [subject EXCEPT !.traits = @ \cup {x}]
  \/ /\ "link" \in subject.traits /\ subject.detector # "swift"
     /\ subject' = [subject EXCEPT !.traits = (@ \ {"link"}) \cup {"links"}]

DetectionNext == RaiseScore \/ AddTrait
DetectionSpec == DetectionInit /\ [][DetectionNext]_subject

-------------------------------------------------------------------------------
(* Properties *)

DetectionTypeOK == subject \in Subjects

Severity(verdict) ==
  CASE verdict = "safe" -> 0 [] verdict \in {"unknown", "suspicious"} -> 1 [] OTHER -> 2

\* A higher score of the model or one more indicator never lowers the combined score
\* or softens the verdict (risk-engine.js:262-293, link-intelligence.js:441-465): the
\* floors and caps overlap so that no threshold is a step down.  There is one place
\* where it is: a link whose indicators score at least 0.72 has a floor of 0.62 or
\* 0.78 only while the model's score is below 0.35, and falls back to the mixture
\* (0.54 at 0.85) when the model becomes more suspicious.
RiskRises ==
  [][LET before == Assess(subject)
         after == Assess(subject')
     IN \/ after.score >= before.score /\ Severity(after.verdict) >= Severity(before.verdict)
        \/ /\ subject.detector = "swift" /\ subject.model < 35000 /\ subject'.model >= 35000
           /\ before.rules >= 72000]_subject

\* "Missing, failed, unavailable, or uncertain evidence must not be converted into a
\* benign result" (README.md:156): all the less a verdict of likely phishing, which must
\* not be summed up as "no strong phishing indicators" (risk-engine.js:309-317).
SummaryTellsVerdict ==
  subject.detector \in {"mailguard", "cortex"} /\ Assess(subject).verdict = "malicious"
    => Assess(subject).summary # "No strong phishing indicators were found from the available signals."
===============================================================================
