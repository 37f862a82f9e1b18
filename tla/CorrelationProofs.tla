--------------------------- MODULE CorrelationProofs ---------------------------
(***************************************************************************)
(* What holds of correlate() for every policy that validatePolicy accepts   *)
(* and every set of evidence: a decision stays within its policy, more      *)
(* evidence neither lowers the risk nor relaxes the action, and the short   *)
(* form in Recommendation says the same.                                    *)
(***************************************************************************)
EXTENDS Correlation, WellFoundedInduction, TLAPS

\* A higher score never gets a weaker action, under any valid policy.
THEOREM ScoreMonotone ==
  ASSUME NEW p, ValidPolicy(p), NEW low \in Scores, NEW high \in Scores, low <= high
  PROVE  Priority[RecommendationForScore(low, p)]
           <= Priority[RecommendationForScore(high, p)]
<1>1. /\ Priority["allow"] = 0 /\ Priority["warn"] = 1
      /\ Priority["manual_review"] = 2 /\ Priority["quarantine"] = 4
      /\ Priority["block"] = 5
  BY DEF Priority, Actions
<1>2. low \in Int /\ high \in Int
  BY DEF Scores
<1>3. /\ p.allowBelow \in Int /\ p.warnBelow \in Int
      /\ p.reviewBelow \in Int /\ p.blockAt \in Int
  BY DEF ValidPolicy, Policy, Scores
<1> QED
  BY <1>1, <1>2, <1>3 DEF ValidPolicy, RecommendationForScore

LEMMA PriorityType == \A a \in Actions : Priority[a] \in 0..5
BY DEF Priority, Actions

\* The stronger of two actions.
LEMMA MaxActionBounds ==
  ASSUME NEW a \in Actions, NEW b \in Actions
  PROVE  /\ MaxAction(a, b) \in {a, b}
         /\ Priority[MaxAction(a, b)] >= Priority[a]
         /\ Priority[MaxAction(a, b)] >= Priority[b]
BY PriorityType DEF MaxAction

LEMMA UnguardedIsAction ==
  ASSUME NEW ev, NEW p, ValidPolicy(p)
  PROVE  /\ UnguardedAction(ev, p) \in Actions
         /\ RequiredFailures(ev) # {} =>
              Priority[UnguardedAction(ev, p)] >= Priority[p.failure]
<1> DEFINE byRisk == RecommendationForScore(Risk(ev), p)
           reviewed == IF NeedsIndependentReview(ev)
                         THEN MaxAction(byRisk, "manual_review") ELSE byRisk
<1>1. byRisk \in Actions
  BY DEF RecommendationForScore, Actions
<1>2. p.failure \in Actions
  BY DEF ValidPolicy, Policy, FailureModes, Actions
<1>3. reviewed \in Actions
  <2>1. "manual_review" \in Actions
    BY DEF Actions
  <2> HIDE DEF byRisk
  <2> QED
    BY <1>1, <2>1, MaxActionBounds
<1>4. UnguardedAction(ev, p) =
        IF RequiredFailures(ev) # {} THEN MaxAction(reviewed, p.failure) ELSE reviewed
  BY DEF UnguardedAction
<1> HIDE DEF reviewed
<1> QED
  BY <1>2, <1>3, <1>4, MaxActionBounds

\* What the enforcement guard lets through.
LEMMA GuardStopsBlocks ==
  ASSUME NEW p, ValidPolicy(p), NEW action
  PROVE  /\ EnforcementGuard(action, p) = "block" => p.enforcing /\ p.automatic
         /\ action # "block" => EnforcementGuard(action, p) = action
BY DEF EnforcementGuard, ValidPolicy, Policy

-------------------------------------------------------------------------------
\* The published decision is the correlation of the evidence it was computed from.
DecisionInv ==
  /\ policy \in Policies
  /\ Decided => decision = Correlate(decidedOn, policy)

LEMMA DecisionInvariant == Spec => []DecisionInv
<1>1. Init => DecisionInv
  BY DEF Init, DecisionInv, Decided
<1>2. DecisionInv /\ [Next]_vars => DecisionInv'
  <2> SUFFICES ASSUME DecisionInv, [Next]_vars PROVE DecisionInv'
    OBVIOUS
  <2>1. CASE Decide
    BY <2>1 DEF Decide, DecisionInv, Decided
  <2>2. ASSUME NEW item \in Items, RecordEvidence(item) PROVE DecisionInv'
    BY <2>2 DEF RecordEvidence, DecisionInv, Decided, NoDecision
  <2>3. CASE UNCHANGED vars
    BY <2>3 DEF vars, DecisionInv, Decided, NoDecision
  <2> QED
    BY <2>1, <2>2, <2>3 DEF Next
<1> QED
  BY <1>1, <1>2, PTL DEF Spec

LEMMA CorrelateRecommends ==
  ASSUME NEW ev, NEW p
  PROVE  Correlate(ev, p).recommendation = EnforcementGuard(UnguardedAction(ev, p), p)
BY DEF Correlate

\* No automatic block without an enforcing policy that enables it.
THEOREM NoAutomaticBlock == Spec => []AutomaticBlockOnly
<1>1. DecisionInv => AutomaticBlockOnly
  <2> SUFFICES ASSUME DecisionInv, decision.recommendation = "block"
               PROVE policy.enforcing /\ policy.automatic
    BY DEF AutomaticBlockOnly
  <2>1. Decided
    BY DEF Decided, NoDecision
  <2>2. ValidPolicy(policy)
    BY CorrelationAssumption DEF DecisionInv
  <2>3. EnforcementGuard(UnguardedAction(decidedOn, policy), policy) = "block"
    BY <2>1, CorrelateRecommends DEF DecisionInv
  <2> QED
    BY <2>2, <2>3, GuardStopsBlocks
<1> QED
  BY <1>1, DecisionInvariant, PTL

\* Failed required evidence keeps the recommendation at the policy's failure mode.
THEOREM FailuresKeepFloor == Spec => []FailureFloor
<1>1. DecisionInv => FailureFloor
  <2> SUFFICES ASSUME DecisionInv, Decided, RequiredFailures(decidedOn) # {},
                      UnguardedAction(decidedOn, policy) # "block"
               PROVE Priority[decision.recommendation] >= Priority[policy.failure]
    BY DEF FailureFloor
  <2>1. ValidPolicy(policy)
    BY CorrelationAssumption DEF DecisionInv
  <2>2. decision.recommendation = UnguardedAction(decidedOn, policy)
    BY <2>1, CorrelateRecommends, GuardStopsBlocks DEF DecisionInv
  <2> QED
    BY <2>1, <2>2, UnguardedIsAction
<1> QED
  BY <1>1, DecisionInvariant, PTL
-------------------------------------------------------------------------------

\* Both bounds of the policy together.
THEOREM AlwaysWithinPolicy == Spec => []DecisionWithinPolicy
<1>1. AutomaticBlockOnly /\ FailureFloor => DecisionWithinPolicy
  BY DEF DecisionWithinPolicy
<1> QED
  BY <1>1, NoAutomaticBlock, FailuresKeepFloor, PTL

-------------------------------------------------------------------------------
(* More evidence *)

\* A bounded set of integers that is not empty has a greatest element.
LEMMA MaxOfBounded ==
  ASSUME NEW S \in SUBSET Int, S # {}, NEW hi \in Int, \A x \in S : x <= hi
  PROVE  Max(S) \in S /\ \A y \in S : y <= Max(S)
<1> DEFINE gaps == {n \in Nat : hi - n \in S}
<1>1. gaps \subseteq Nat /\ gaps # {}
  <2>1. PICK x \in S : TRUE
    OBVIOUS
  <2>2. hi - x \in Nat /\ hi - (hi - x) = x
    OBVIOUS
  <2> QED
    BY <2>1, <2>2
<1>2. PICK least \in gaps : \A n \in gaps : <<n, least>> \notin OpToRel(<, Nat)
  <2> HIDE DEF gaps
  <2> QED
    BY <1>1, NatLessThanWellFounded, WFMin
<1>3. \A n \in gaps : least <= n
  <2>1. \A m, n \in Nat : m < n => <<m, n>> \in OpToRel(<, Nat)
    BY DEF OpToRel
  <2>2. \A n \in gaps : ~(n < least)
    BY <1>2, <2>1
  <2> QED
    BY <2>2
<1>4. hi - least \in S /\ \A y \in S : y <= hi - least
  <2>1. hi - least \in S /\ least \in Nat
    OBVIOUS
  <2>2. ASSUME NEW y \in S PROVE y <= hi - least
    <3>1. hi - y \in Nat /\ hi - (hi - y) = y
      OBVIOUS
    <3>2. least <= hi - y
      BY <1>3, <3>1
    <3> QED
      BY <2>1, <3>2
  <2> QED
    BY <2>1, <2>2
<1> QED
  BY <1>4 DEF Max

LEMMA ScoreMax ==
  ASSUME NEW S \in SUBSET Scores
  PROVE  /\ Max({0} \cup S) \in Scores
         /\ Max({0} \cup S) = 0 \/ Max({0} \cup S) \in S
         /\ \A y \in S : y <= Max({0} \cup S)
<1> DEFINE all == {0} \cup S
<1>1. all \in SUBSET Int /\ all # {} /\ 100 \in Int /\ \A x \in all : x <= 100
  BY DEF Scores
<1>2. all \subseteq Scores /\ \A y \in all : y = 0 \/ y \in S
  BY DEF Scores
<1>3. Max(all) \in all /\ \A y \in all : y <= Max(all)
  <2> HIDE DEF all
  <2> QED
    BY <1>1, MaxOfBounded
<1>4. Max(all) \in Scores /\ (Max(all) = 0 \/ Max(all) \in S) /\ \A y \in S : y <= Max(all)
  <2>1. S \subseteq all
    OBVIOUS
  <2> HIDE DEF all
  <2> QED
    BY <1>2, <1>3, <2>1
<1> QED
  BY <1>4

LEMMA ScoreMaxGrows ==
  ASSUME NEW T \in SUBSET Scores, NEW S \in SUBSET T
  PROVE  Max({0} \cup S) <= Max({0} \cup T)
<1>1. S \in SUBSET Scores
  OBVIOUS
<1>2. Max({0} \cup S) = 0 \/ Max({0} \cup S) \in T
  BY <1>1, ScoreMax
<1>3. Max({0} \cup T) \in Scores /\ \A y \in T : y <= Max({0} \cup T)
  BY ScoreMax
<1>4. \A x \in Scores : 0 <= x
  BY DEF Scores
<1> QED
  BY <1>2, <1>3, <1>4

-------------------------------------------------------------------------------
LEMMA TopScoreGrows ==
  ASSUME NEW more \in SUBSET Evidence, NEW ev \in SUBSET more
  PROVE  /\ TopScore(ev) \in Scores /\ TopScore(more) \in Scores
         /\ TopScore(ev) <= TopScore(more)
<1> DEFINE scores(rows) == {e.score : e \in Scored(rows)}
<1>1. scores(more) \subseteq Scores /\ scores(ev) \subseteq scores(more)
  BY DEF Scored, Completed, Evidence, Rows
<1>2. TopScore(ev) = Max({0} \cup scores(ev)) /\ TopScore(more) = Max({0} \cup scores(more))
  BY DEF TopScore
<1> HIDE DEF scores
<1> QED
  BY <1>1, <1>2, ScoreMax, ScoreMaxGrows

LEMMA DeterministicGrows ==
  ASSUME NEW more \in SUBSET Codes, NEW codes \in SUBSET more
  PROVE  /\ DeterministicEmailRisk(codes) \in Scores /\ DeterministicEmailRisk(more) \in Scores
         /\ DeterministicEmailRisk(codes) <= DeterministicEmailRisk(more)
<1>1. CarriedRisks(more) \subseteq Scores /\ CarriedRisks(codes) \subseteq Scores
  BY DEF CarriedRisks
<1>2. CarriedRisks(codes) \subseteq CarriedRisks(more)
  BY DEF CarriedRisks
<1> QED
  BY <1>1, <1>2, ScoreMax, ScoreMaxGrows DEF DeterministicEmailRisk

\* The parts of the risk over a set of evidence.
LEMMA EvidenceParts ==
  ASSUME NEW more \in SUBSET Evidence, NEW ev \in SUBSET more
  PROVE  /\ CodesOf(more) \in SUBSET Codes /\ CodesOf(ev) \in SUBSET CodesOf(more)
         /\ Scored(ev) \subseteq Scored(more) /\ RequiredFailures(ev) \subseteq RequiredFailures(more)
BY DEF CodesOf, Scored, Completed, RequiredFailures, Evidence, Rows

LEMMA RiskBounds ==
  ASSUME NEW ev \in SUBSET Evidence
  PROVE  /\ Risk(ev) \in Scores
         /\ TopScore(ev) <= Risk(ev) /\ DeterministicEmailRisk(CodesOf(ev)) <= Risk(ev)
         /\ RiskUnknown(ev) => 50 <= Risk(ev)
         /\ ~RiskUnknown(ev) => Risk(ev) \in {0, TopScore(ev), DeterministicEmailRisk(CodesOf(ev))}
<1> DEFINE top == TopScore(ev)
           carried == DeterministicEmailRisk(CodesOf(ev))
           assumed == IF RiskUnknown(ev) THEN 50 ELSE 0
<1>1. top \in Scores /\ carried \in Scores
  BY EvidenceParts, TopScoreGrows, DeterministicGrows
<1>2. Risk(ev) = Max({top, carried, assumed})
  BY DEF Risk
<1>3. assumed \in Scores /\ (RiskUnknown(ev) => assumed = 50) /\ (~RiskUnknown(ev) => assumed = 0)
  BY DEF Scores
<1> HIDE DEF top, carried, assumed
<1>4. {top, carried, assumed} \in SUBSET Int /\ {top, carried, assumed} # {} /\ 100 \in Int
      /\ \A x \in {top, carried, assumed} : x <= 100
  BY <1>1, <1>3 DEF Scores
<1>5. Risk(ev) \in {top, carried, assumed} /\ \A y \in {top, carried, assumed} : y <= Risk(ev)
  BY <1>2, <1>4, MaxOfBounded
<1> QED
  BY <1>1, <1>3, <1>5 DEF top, carried

\* More evidence never lowers the risk, unless it was assumed.
LEMMA RiskGrows ==
  ASSUME NEW more \in SUBSET Evidence, NEW ev \in SUBSET more, ~RiskUnknown(ev)
  PROVE  Risk(ev) \in Scores /\ Risk(more) \in Scores /\ Risk(ev) <= Risk(more)
<1>1. /\ Risk(ev) \in Scores /\ Risk(more) \in Scores
      /\ TopScore(more) <= Risk(more) /\ DeterministicEmailRisk(CodesOf(more)) <= Risk(more)
      /\ Risk(ev) \in {0, TopScore(ev), DeterministicEmailRisk(CodesOf(ev))}
  BY RiskBounds
<1>2. /\ TopScore(ev) \in Scores /\ TopScore(more) \in Scores /\ TopScore(ev) <= TopScore(more)
  BY TopScoreGrows
<1>3. /\ DeterministicEmailRisk(CodesOf(ev)) \in Scores /\ DeterministicEmailRisk(CodesOf(more)) \in Scores
      /\ DeterministicEmailRisk(CodesOf(ev)) <= DeterministicEmailRisk(CodesOf(more))
  BY EvidenceParts, DeterministicGrows
<1> QED
  BY <1>1, <1>2, <1>3 DEF Scores

LEMMA ReviewGrows ==
  ASSUME NEW more \in SUBSET Evidence, NEW ev \in SUBSET more, NeedsIndependentReview(ev)
  PROVE  NeedsIndependentReview(more)
<1>1. CodesOf(more) \cap {"identity", "auth"} # {}
  BY EvidenceParts DEF NeedsIndependentReview
<1>2. CASE TopOfKind(ev, "phishing") >= 45
  <2> DEFINE small == {e \in ev : e.kind = "phishing"}
             large == {e \in more : e.kind = "phishing"}
  <2>1. large \in SUBSET Evidence /\ small \in SUBSET large
    OBVIOUS
  <2>2. TopOfKind(ev, "phishing") = TopScore(small) /\ TopOfKind(more, "phishing") = TopScore(large)
    BY DEF TopOfKind
  <2> HIDE DEF small, large
  <2>3. TopOfKind(more, "phishing") >= 45
    BY <1>2, <2>1, <2>2, TopScoreGrows DEF Scores
  <2> QED
    BY <1>1, <2>3 DEF NeedsIndependentReview
<1>3. CASE DeterministicEmailRisk(CodesOf(ev)) >= 45
  <2>1. DeterministicEmailRisk(CodesOf(more)) >= 45
    BY <1>3, EvidenceParts, DeterministicGrows DEF Scores
  <2> QED
    BY <1>1, <2>1 DEF NeedsIndependentReview
<1> QED
  BY <1>2, <1>3 DEF NeedsIndependentReview

LEMMA RecommendationIsAction ==
  ASSUME NEW score, NEW p
  PROVE  RecommendationForScore(score, p) \in Actions
BY DEF RecommendationForScore, Actions

\* The stronger of two actions grows with both.
LEMMA MaxActionGrows ==
  ASSUME NEW a \in Actions, NEW b \in Actions, NEW c \in Actions, NEW d \in Actions,
         Priority[a] <= Priority[c], Priority[b] <= Priority[d]
  PROVE  Priority[MaxAction(a, b)] <= Priority[MaxAction(c, d)]
BY PriorityType DEF MaxAction

\* Before the enforcement guard, more evidence never weakens the action.
LEMMA UnguardedGrows ==
  ASSUME NEW p, ValidPolicy(p), NEW more \in SUBSET Evidence, NEW ev \in SUBSET more, ~RiskUnknown(ev)
  PROVE  Priority[UnguardedAction(ev, p)] <= Priority[UnguardedAction(more, p)]
<1> DEFINE byRisk(rows) == RecommendationForScore(Risk(rows), p)
           reviewed(rows) == IF NeedsIndependentReview(rows) THEN MaxAction(byRisk(rows), "manual_review") ELSE byRisk(rows)
<1>1. /\ byRisk(ev) \in Actions /\ byRisk(more) \in Actions
      /\ Priority[byRisk(ev)] <= Priority[byRisk(more)]
  BY RiskGrows, ScoreMonotone, RecommendationIsAction
<1>2. /\ UnguardedAction(ev, p) = IF RequiredFailures(ev) # {} THEN MaxAction(reviewed(ev), p.failure) ELSE reviewed(ev)
      /\ UnguardedAction(more, p) = IF RequiredFailures(more) # {} THEN MaxAction(reviewed(more), p.failure) ELSE reviewed(more)
  BY DEF UnguardedAction
<1>3. p.failure \in Actions /\ "manual_review" \in Actions
  BY DEF ValidPolicy, Policy, FailureModes, Actions
<1>4. /\ reviewed(ev) \in Actions /\ reviewed(more) \in Actions
      /\ Priority[reviewed(ev)] <= Priority[reviewed(more)]
  <2>1. \A a \in Actions : Priority[a] \in Int /\ MaxAction(a, "manual_review") \in Actions
                          /\ Priority[a] <= Priority[MaxAction(a, "manual_review")]
    BY <1>3, MaxActionBounds, PriorityType
  <2> HIDE DEF byRisk
  <2>2. CASE NeedsIndependentReview(ev)
    <3>1. reviewed(ev) = MaxAction(byRisk(ev), "manual_review") /\ reviewed(more) = MaxAction(byRisk(more), "manual_review")
      BY <2>2, ReviewGrows
    <3>2. Priority["manual_review"] <= Priority["manual_review"]
      BY <1>3, PriorityType
    <3> QED
      BY <1>1, <1>3, <2>1, <3>1, <3>2, MaxActionGrows
  <2>3. CASE ~NeedsIndependentReview(ev)
    <3>1. reviewed(ev) = byRisk(ev) /\ reviewed(more) \in {byRisk(more), MaxAction(byRisk(more), "manual_review")}
      BY <2>3
    <3> HIDE DEF reviewed
    <3> QED
      BY <1>1, <2>1, <3>1
  <2> QED
    BY <2>2, <2>3
<1> HIDE DEF byRisk, reviewed
<1>5. CASE RequiredFailures(ev) # {}
  <2>1. RequiredFailures(more) # {}
    BY <1>5, EvidenceParts
  <2>2. Priority[p.failure] <= Priority[p.failure]
    BY <1>3, PriorityType
  <2> QED
    BY <1>2, <1>3, <1>4, <1>5, <2>1, <2>2, MaxActionGrows
<1>6. CASE RequiredFailures(ev) = {}
  <2>1. /\ Priority[reviewed(more)] <= Priority[MaxAction(reviewed(more), p.failure)]
        /\ MaxAction(reviewed(more), p.failure) \in Actions
    BY <1>3, <1>4, MaxActionBounds
  <2> QED
    BY <1>2, <1>4, <1>6, <2>1, PriorityType
<1> QED
  BY <1>5, <1>6

-------------------------------------------------------------------------------
\* A decision rests on evidence that is still there.
EvidenceInv == DecisionInv /\ evidence \subseteq Evidence /\ decidedOn \subseteq evidence

LEMMA EvidenceInvariant == Spec => []EvidenceInv
<1>1. Init => evidence \subseteq Evidence /\ decidedOn \subseteq evidence
  BY DEF Init
<1>2. evidence \subseteq Evidence /\ decidedOn \subseteq evidence /\ [Next]_vars
        => (evidence \subseteq Evidence /\ decidedOn \subseteq evidence)'
  BY CorrelationAssumption DEF Next, Decide, RecordEvidence, vars
<1> QED
  BY <1>1, <1>2, DecisionInvariant, PTL DEF Spec, EvidenceInv

\* What a step does to a published decision: nothing, or it is computed again.
LEMMA DecisionSteps ==
  ASSUME EvidenceInv, [Next]_vars, Decided
  PROVE  \/ decision' = decision
         \/ /\ decision = Correlate(decidedOn, policy) /\ decision' = Correlate(evidence, policy)
            /\ ValidPolicy(policy) /\ evidence \in SUBSET Evidence /\ decidedOn \in SUBSET evidence
BY CorrelationAssumption DEF EvidenceInv, DecisionInv, Next, Decide, RecordEvidence, vars

LEMMA CorrelateRisk == ASSUME NEW ev, NEW p PROVE Correlate(ev, p).risk = Risk(ev)
BY DEF Correlate

\* More evidence never lowers the risk, unless nothing was known before.
THEOREM RiskNeverDrops == Spec => RiskDropsOnlyFromUnknown
<1>1. EvidenceInv /\ [Next]_vars
        => [Decided /\ decision'.risk < decision.risk => RiskUnknown(decidedOn)]_vars
  <2> SUFFICES ASSUME EvidenceInv, [Next]_vars, Decided, decision'.risk < decision.risk, ~RiskUnknown(decidedOn)
               PROVE  UNCHANGED vars
    OBVIOUS
  <2>1. CASE decision' = decision
    <3>1. decision = Correlate(decidedOn, policy)
      BY DEF EvidenceInv, DecisionInv
    <3>2. decision.risk \in Scores
      BY <3>1, CorrelateRisk, RiskBounds DEF EvidenceInv
    <3> QED
      BY <2>1, <3>2 DEF Scores
  <2>2. CASE /\ decision = Correlate(decidedOn, policy) /\ decision' = Correlate(evidence, policy)
             /\ ValidPolicy(policy) /\ evidence \in SUBSET Evidence /\ decidedOn \in SUBSET evidence
    <3>1. decision.risk = Risk(decidedOn) /\ decision'.risk = Risk(evidence)
      BY <2>2, CorrelateRisk
    <3> QED
      BY <2>2, <3>1, RiskGrows DEF Scores
  <2> QED
    BY <2>1, <2>2, DecisionSteps
<1> QED
  BY <1>1, EvidenceInvariant, PTL DEF Spec, RiskDropsOnlyFromUnknown

\* More evidence never weakens the recommendation, unless nothing was known before or a
\* block is converted to less than a quarantine.
THEOREM NeverRelaxes == Spec => EvidenceNeverRelaxes
<1>1. EvidenceInv /\ [Next]_vars
        => [Decided
            /\ Priority[decision'.recommendation] < Priority[decision.recommendation]
            => \/ RiskUnknown(decidedOn)
               \/ policy.convert # "quarantine" /\ UnguardedAction(evidence, policy) = "block"]_vars
  <2> SUFFICES ASSUME EvidenceInv, [Next]_vars, Decided, ~RiskUnknown(decidedOn),
                      Priority[decision'.recommendation] < Priority[decision.recommendation]
               PROVE  policy.convert # "quarantine" /\ UnguardedAction(evidence, policy) = "block"
    OBVIOUS
  <2> DEFINE before == UnguardedAction(decidedOn, policy)
             after == UnguardedAction(evidence, policy)
  <2>1. decision = Correlate(decidedOn, policy) /\ ValidPolicy(policy)
    BY CorrelationAssumption DEF EvidenceInv, DecisionInv
  <2>2. /\ before \in Actions /\ after \in Actions /\ policy.convert \in Actions
        /\ Priority["block"] = 5 /\ Priority["quarantine"] = 4 /\ "block" \in Actions
        /\ \A a \in Actions : Priority[a] \in 0..5 /\ (a # "block" => Priority[a] <= 4)
    BY <2>1, UnguardedIsAction DEF ValidPolicy, Policy, Priority, Actions
  <2>3. decision.recommendation = EnforcementGuard(before, policy)
    BY <2>1, CorrelateRecommends
  <2>4. decision.recommendation \in Actions
    BY <2>2, <2>3 DEF EnforcementGuard
  <2>5. decision' # decision
    BY <2>2, <2>4
  <2>6. /\ decision' = Correlate(evidence, policy)
        /\ evidence \in SUBSET Evidence /\ decidedOn \in SUBSET evidence
    BY <2>5, DecisionSteps
  <2>7. decision'.recommendation = EnforcementGuard(after, policy)
    BY <2>6, CorrelateRecommends
  <2>8. Priority[before] <= Priority[after]
    BY <2>1, <2>6, UnguardedGrows
  <2> HIDE DEF before, after
  <2>9. after = "block"
    <3> SUFFICES ASSUME after # "block" PROVE FALSE
      OBVIOUS
    <3>1. before # "block"
      BY <2>2, <2>8
    <3> QED
      BY <2>2, <2>3, <2>7, <2>8, <3>1 DEF EnforcementGuard
  <2>10. policy.convert # "quarantine"
    <3> SUFFICES ASSUME policy.convert = "quarantine" PROVE FALSE
      OBVIOUS
    <3>1. CASE policy.enforcing /\ policy.automatic
      BY <2>2, <2>3, <2>4, <2>7, <2>9, <3>1 DEF EnforcementGuard
    <3>2. CASE ~(policy.enforcing /\ policy.automatic)
      <4>1. decision'.recommendation = "quarantine"
        BY <2>7, <2>9, <3>2 DEF EnforcementGuard
      <4>2. decision.recommendation # "block"
        BY <2>3, <3>2 DEF EnforcementGuard
      <4> QED
        BY <2>2, <2>4, <4>1, <4>2
    <3> QED
      BY <3>1, <3>2
  <2> QED
    BY <2>9, <2>10 DEF after
<1> QED
  BY <1>1, EvidenceInvariant, PTL DEF Spec, EvidenceNeverRelaxes

-------------------------------------------------------------------------------
\* A scan passes when its risk is low, nothing asks for a review, and no failure or one
\* that the policy lets pass was met.
LEMMA WhenAllowed ==
  ASSUME NEW p, ValidPolicy(p), NEW ev
  PROVE  Correlate(ev, p).recommendation = "allow" <=>
           /\ Risk(ev) < p.allowBelow /\ ~NeedsIndependentReview(ev)
           /\ RequiredFailures(ev) # {} => p.failure = "allow"
<1> DEFINE byRisk == RecommendationForScore(Risk(ev), p)
           reviewed == IF NeedsIndependentReview(ev) THEN MaxAction(byRisk, "manual_review") ELSE byRisk
<1>1. byRisk \in Actions /\ (byRisk = "allow" <=> Risk(ev) < p.allowBelow)
  BY DEF RecommendationForScore, Actions
<1>2. p.failure \in Actions /\ "manual_review" \in Actions /\ "allow" \in Actions /\ p.convert # "allow"
  BY DEF ValidPolicy, Policy, FailureModes, Actions
<1>3. \A a, b \in Actions : MaxAction(a, b) \in Actions /\ (MaxAction(a, b) = "allow" <=> a = "allow" /\ b = "allow")
  <2>1. Priority["allow"] = 0 /\ \A a \in Actions : Priority[a] \in 0..5 /\ (a # "allow" => Priority[a] > 0)
    BY DEF Priority, Actions
  <2> QED
    BY <1>2, <2>1 DEF MaxAction
<1>4. UnguardedAction(ev, p) = IF RequiredFailures(ev) # {} THEN MaxAction(reviewed, p.failure) ELSE reviewed
  BY DEF UnguardedAction
<1> HIDE DEF byRisk
<1>5. reviewed \in Actions /\ (reviewed = "allow" <=> byRisk = "allow" /\ ~NeedsIndependentReview(ev))
  BY <1>1, <1>2, <1>3
<1> HIDE DEF reviewed
<1>6. UnguardedAction(ev, p) = "allow" <=> reviewed = "allow" /\ (RequiredFailures(ev) # {} => p.failure = "allow")
  BY <1>2, <1>3, <1>4, <1>5
<1>7. Correlate(ev, p).recommendation = "allow" <=> UnguardedAction(ev, p) = "allow"
  BY <1>2, CorrelateRecommends DEF EnforcementGuard
<1> QED
  BY <1>1, <1>5, <1>6, <1>7

\* The life-cycle models' recommendation and that of correlate() let the same scans pass.
THEOREM RecommendationsAgree == Spec => []RecommendAgrees
<1>1. EvidenceInv => RecommendAgrees
  <2> DEFINE ev == decidedOn
             rows == {[outcome |-> Outcome(e)] : e \in ev}
             Has(o) == \E e \in ev : Outcome(e) = o
  <2> SUFFICES ASSUME EvidenceInv, Decided, \A e \in ev : Plain(e), policy.allowBelow \in 1..50
               PROVE  decision.recommendation = "allow"
                        <=> (IF policy.failure = "allow" THEN Lenient!Recommend(rows)
                             ELSE Strict!Recommend(rows)) = "allow"
    BY DEF RecommendAgrees
  <2>1. /\ decision = Correlate(ev, policy) /\ ValidPolicy(policy)
        /\ ev \in SUBSET Evidence
    BY CorrelationAssumption DEF EvidenceInv, DecisionInv
  <2>2. \A o : (\E row \in rows : row.outcome = o) <=> Has(o)
    <3>1. ASSUME NEW o, NEW row \in rows, row.outcome = o PROVE Has(o)
      BY <3>1
    <3>2. ASSUME NEW o, NEW e \in ev, Outcome(e) = o PROVE \E row \in rows : row.outcome = o
      <4>1. [outcome |-> Outcome(e)] \in rows /\ [outcome |-> Outcome(e)].outcome = o
        BY <3>2
      <4> QED
        BY <4>1
    <3> QED
      BY <3>1, <3>2
  <2>3. (IF policy.failure = "allow" THEN Lenient!Recommend(rows) ELSE Strict!Recommend(rows)) = "allow"
          <=> ~Has("risky") /\ (Has("failed") => Has("clean") /\ policy.failure = "allow")
    <3> HIDE DEF rows, Has
    <3> QED
      BY <2>2 DEF Lenient!Recommend, Lenient!HasOutcome, Strict!Recommend, Strict!HasOutcome
  <2>4. CodesOf(ev) = {}
    BY DEF CodesOf, Completed, Plain
  <2>5. DeterministicEmailRisk(CodesOf(ev)) = 0 /\ ~NeedsIndependentReview(ev)
    <3>1. CarriedRisks({}) = {}
      BY DEF CarriedRisks
    <3>2. DeterministicEmailRisk({}) = 0
      BY <3>1, ScoreMax DEF DeterministicEmailRisk
    <3> QED
      BY <2>4, <3>2 DEF NeedsIndependentReview
  <2>6. \A e \in ev : /\ Outcome(e) = "failed" <=> e.status = "failed"
                      /\ Outcome(e) \in {"clean", "risky"} <=> e \in Scored(ev)
                      /\ Outcome(e) = "risky" => policy.allowBelow <= e.score
                      /\ Outcome(e) = "clean" => e.score < policy.allowBelow
    BY <2>1 DEF Outcome, Plain, Scored, Completed, Evidence, Rows, Scores, NoScore
  <2>7. RequiredFailures(ev) # {} <=> Has("failed")
    BY <2>1, <2>6 DEF RequiredFailures, Plain, Evidence
  <2>8. TopScore(ev) \in Scores /\ (TopScore(ev) < policy.allowBelow <=> ~Has("risky"))
    <3> DEFINE scores == {e.score : e \in Scored(ev)}
    <3>1. scores \in SUBSET Scores
      BY <2>1 DEF Scored, Completed, Evidence, Rows
    <3>2. TopScore(ev) = Max({0} \cup scores)
      BY DEF TopScore
    <3>3. TopScore(ev) \in Scores /\ (TopScore(ev) = 0 \/ TopScore(ev) \in scores) /\ \A y \in scores : y <= TopScore(ev)
      <4> HIDE DEF scores
      <4> QED
        BY <3>1, <3>2, ScoreMax
    <3>4. ASSUME Has("risky") PROVE policy.allowBelow <= TopScore(ev)
      <4>1. PICK e \in ev : Outcome(e) = "risky"
        BY <3>4
      <4>2. e.score \in scores /\ policy.allowBelow <= e.score
        BY <2>6, <4>1
      <4>3. e.score \in Scores
        BY <3>1, <4>2
      <4>4. PICK top \in Scores : top = TopScore(ev)
        BY <3>3
      <4>5. PICK score \in Scores : score = e.score
        BY <4>3
      <4>6. policy.allowBelow <= score /\ score <= top
        BY <3>3, <4>2, <4>4, <4>5
      <4>7. policy.allowBelow \in Int
        BY <2>1
      <4>8. policy.allowBelow <= top
        <5> PICK below \in Int : below = policy.allowBelow
          BY <4>7
        <5> QED
          BY <4>6 DEF Scores
      <4> QED
        BY <4>4, <4>8
    <3>5. ASSUME ~Has("risky") PROVE TopScore(ev) < policy.allowBelow
      <4>1. \A y \in scores : y < policy.allowBelow
        BY <2>6, <3>5 DEF Scored, Completed
      <4> QED
        BY <3>3, <4>1
    <3> QED
      BY <3>3, <3>4, <3>5 DEF Scores
  <2>9. RiskUnknown(ev) <=> Has("failed") /\ ~Has("clean") /\ ~Has("risky")
    BY <2>5, <2>6, <2>7 DEF RiskUnknown, Scored, Completed
  <2>10. Risk(ev) < policy.allowBelow <=> ~Has("risky") /\ ~RiskUnknown(ev)
    BY <2>1, <2>5, <2>8, RiskBounds DEF Scores
  <2> QED
    BY <2>1, <2>3, <2>5, <2>7, <2>9, <2>10, WhenAllowed
<1> QED
  BY <1>1, EvidenceInvariant, PTL
===============================================================================
