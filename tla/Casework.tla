------------------------------- MODULE Casework -------------------------------
(***************************************************************************)
(* What analysts and managers change by hand: the workflow and the decision *)
(* of a case (the case page assets/js/pages/cases.js, the routes of         *)
(* lib/routes/account/cases.js, lib/supabase-server.js), the resolution of  *)
(* a gateway review and the policies of a workspace                         *)
(* (lib/gateway/management.js).  Each of these reads, and writes in later   *)
(* calls, with nothing that detects a change in between: a person's request *)
(* may be overtaken by another one's, or die half way.                      *)
(***************************************************************************)
EXTENDS Naturals, Sequences, FiniteSets

CONSTANTS
  People,          \* requests of persons; bounds how many there are
  RoleOf,          \* the role of the one who asks
  Priorities,      \* priorities that are chosen
  Recommendations,    \* recommendations a review can be resolved with
  MaxDecisions,    \* bound: analyst decisions recorded on the case
  MaxCaseFaults    \* bound: lost answers and killed requests

ASSUME CaseworkAssumption ==
  /\ RoleOf \in [People -> {"owner", "admin", "analyst", "member"}]
  /\ MaxDecisions \in Nat /\ MaxCaseFaults \in Nat

CaseFields == {"status", "priority", "assigned_to"}

VARIABLES
  case,        \* the row of a case: its workflow fields
  decisions,   \* analyst decisions recorded so far
  changes,     \* history: how often the row changed
  asked,       \* history: the value each field was last given on purpose
  lostUpdate,  \* history: a write that rested on a row or page somebody had overtaken
  review,      \* gateway_review_cases: the resolution, "open" while there is none
  overrides,   \* override decisions published for the review's scan
  raced,       \* history: two requests resolved the review at the same time
  policy,      \* a person's new policy: "none", "bare", "versioned", "active"
  person,      \* where a request is, with what it read
  policyAnswer,\* what the one who created a policy was told
  caseFaults   \* history: faults so far

caseVars == <<case, decisions, changes, asked, lostUpdate>>
reviewVars == <<review, overrides, raced>>
policyVars == <<policy, policyAnswer>>
caseworkVars == <<caseVars, reviewVars, policyVars, person, caseFaults>>

NewCase == [status |-> "open", priority |-> "normal", assigned_to |-> "nobody"]
Rest(step) ==
  [step |-> step, draft |-> NewCase, analysed |-> FALSE, seen |-> 0, means |-> {}, stale |-> FALSE,
   recommendation |-> "none"]

CaseworkInit ==
  /\ case = NewCase
  /\ decisions = 0 /\ changes = 0 /\ lostUpdate = FALSE
  /\ asked = case
  /\ review = "open" /\ overrides = <<>> /\ raced = FALSE
  /\ policy = [p \in People |-> "none"] /\ policyAnswer = [p \in People |-> "none"]
  /\ person = [p \in People |-> Rest("idle")]
  /\ caseFaults = 0

CaseFault == caseFaults < MaxCaseFaults /\ caseFaults' = caseFaults + 1
NoCaseFault == UNCHANGED caseFaults
In(p, step) == person[p].step = step
Ends(p) == person' = [person EXCEPT ![p] = Rest("ended")]
Goes(p, step) == person' = [person EXCEPT ![p].step = step]

-------------------------------------------------------------------------------
(* Cases *)

MayWriteCase(p) == RoleOf[p] \in {"owner", "admin", "analyst"}

\* An assignee that is written whether or not the request names one.
Overwrites(current, given) ==
  [f \in CaseFields |->
     IF f \in DOMAIN given THEN given[f] ELSE IF f = "assigned_to" THEN "nobody" ELSE current[f]]

\* What the request gives, else what the row had.
Merged(current, given) ==
  [f \in CaseFields |-> IF f \in DOMAIN given THEN given[f] ELSE current[f]]

\* loadCaseDetail: the page keeps the row as it was, and whether an analyst had decided.
OpenCase(p) ==
  /\ In(p, "idle")
  /\ person' = [person EXCEPT ![p] = [Rest("viewing") EXCEPT !.draft = case, !.analysed = decisions > 0,
                                                                !.seen = changes]]
  /\ UNCHANGED <<caseVars, reviewVars, policyVars, caseFaults>>

\* The controls of renderWorkflow: what they send, and which of it the person means.
\* Taking and releasing a case also send the status that the page shows.
PageEdits(p) ==
  LET shown == person[p].draft
      Edit(given, means) == [given |-> given, means |-> means]
      Assign(to, from, next) ==
        Edit([assigned_to |-> to, status |-> IF shown.status = from THEN next ELSE shown.status],
             {"assigned_to"} \cup {f \in {"status"} : shown.status = from})
      Status(next) == Edit([status |-> next], {"status"})
  IN {Edit([priority |-> x], {"priority"}) : x \in Priorities \ {shown.priority}}
     \cup (IF shown.assigned_to = p THEN {Assign("nobody", "in_review", "open")}
           ELSE {Assign(p, "open", "in_review")})
     \cup (IF shown.status = "closed" THEN {Status("open")}
           ELSE IF person[p].analysed THEN {Status("closed")} ELSE {Status("in_review")})

\* updateCaseWorkflow: getCase, and the fields of the input over the row's ...
ReadCase(p) ==
  /\ In(p, "viewing") /\ MayWriteCase(p)
  /\ \E edit \in PageEdits(p) :
       person' = [person EXCEPT ![p] =
                    [Rest("edited") EXCEPT !.draft = Merged(case, edit.given), !.seen = changes,
                       !.means = edit.means,
                       !.stale = DOMAIN edit.given # edit.means /\ person[p].seen # changes]]
  /\ UNCHANGED <<caseVars, reviewVars, policyVars, caseFaults>>

\* ... then case_update_workflow writes all three of them.
WriteCase(p) ==
  /\ In(p, "edited")
  /\ case' = person[p].draft
  /\ asked' = [f \in CaseFields |-> IF f \in person[p].means THEN case'[f] ELSE asked[f]]
  /\ lostUpdate' = (lostUpdate \/ person[p].stale \/ person[p].seen # changes)
  /\ changes' = changes + 1
  /\ Ends(p)
  /\ UNCHANGED <<decisions, reviewVars, policyVars, caseFaults>>

\* recordCaseDecision: the RPC appends the decision and decides the case.
RecordCaseDecision(p) ==
  /\ In(p, "viewing") /\ MayWriteCase(p) /\ decisions < MaxDecisions
  /\ decisions' = decisions + 1
  /\ case' = [case EXCEPT !.status = "decided"]
  /\ asked' = [asked EXCEPT !.status = "decided"]
  /\ changes' = changes + 1
  /\ Ends(p)
  /\ UNCHANGED <<lostUpdate, reviewVars, policyVars, caseFaults>>

-------------------------------------------------------------------------------
(* Reviews *)

Manages(p) == RoleOf[p] \in {"owner", "admin"}
Resolving(p) == person[p].step \in {"read_review", "published"}

\* resolveReview: an open review and the decision it is about ...
ReadReview(p) ==
  /\ In(p, "idle") /\ Manages(p) /\ review = "open"
  /\ \E r \in Recommendations :
       person' = [person EXCEPT ![p] = [Rest("read_review") EXCEPT !.recommendation = r]]
  /\ raced' = (raced \/ \E o \in People \ {p} : Resolving(o))
  /\ UNCHANGED <<caseVars, review, overrides, policyVars, caseFaults>>

\* A review that is closed first, the override following.
ResolveFirst(p) ==
  /\ In(p, "read_review")
  /\ review' = person[p].recommendation
  /\ Goes(p, "published") /\ NoCaseFault
  /\ UNCHANGED <<caseVars, overrides, raced, policyVars>>

\* ... publishDecision 'override' ...
PublishOverride(p) ==
  /\ In(p, "read_review")
  /\ overrides' = Append(overrides, person[p].recommendation)
  /\ \/ Goes(p, "published") /\ NoCaseFault
     \/ Ends(p) /\ CaseFault
  /\ UNCHANGED <<caseVars, review, raced, policyVars>>

\* ... and the patch, which does not ask whether the review is still open.
PatchReview(p) ==
  /\ In(p, "published")
  /\ \/ review' = person[p].recommendation /\ NoCaseFault
     \/ review' \in {review, person[p].recommendation} /\ CaseFault
  /\ Ends(p)
  /\ UNCHANGED <<caseVars, overrides, raced, policyVars>>

-------------------------------------------------------------------------------
(* Policies *)

PolicyIs(p, state) == policy' = [policy EXCEPT ![p] = state]
Told(p, answer) == policyAnswer' = [policyAnswer EXCEPT ![p] = answer]

\* createPolicy inserts the policy; a lost answer leaves it bare.
InsertPolicy(p) ==
  /\ In(p, "idle") /\ Manages(p)
  /\ PolicyIs(p, "bare")
  /\ \/ Goes(p, "inserted") /\ UNCHANGED policyAnswer /\ NoCaseFault
     \/ Ends(p) /\ Told(p, "error") /\ CaseFault
  /\ UNCHANGED <<caseVars, reviewVars>>

\* gateway_create_policy_version, then gateway_activate_policy_version if asked to;
\* either may fail, and may have taken effect when it does.
CreateVersion(p) ==
  /\ In(p, "inserted")
  /\ \/ PolicyIs(p, "versioned") /\ Goes(p, "versioned") /\ NoCaseFault
     \/ UNCHANGED policy /\ Goes(p, "undoing") /\ NoCaseFault
     \/ PolicyIs(p, "versioned") /\ Goes(p, "undoing") /\ CaseFault
  /\ UNCHANGED <<policyAnswer, caseVars, reviewVars>>

ActivateVersion(p) ==
  /\ In(p, "versioned")
  /\ \/ policy' \in {policy, [policy EXCEPT ![p] = "active"]}
        /\ Ends(p) /\ Told(p, "ok") /\ NoCaseFault
     \/ UNCHANGED <<policy, policyAnswer>> /\ Goes(p, "undoing") /\ NoCaseFault
     \/ PolicyIs(p, "active") /\ Goes(p, "undoing") /\ UNCHANGED policyAnswer /\ CaseFault
  /\ UNCHANGED <<caseVars, reviewVars>>

\* The catch block deletes the policy unless it is active; its failure is swallowed.
UndoPolicy(p) ==
  /\ In(p, "undoing")
  /\ LET undone == IF policy[p] = "active" THEN policy ELSE [policy EXCEPT ![p] = "none"] IN
     \/ policy' = undone /\ NoCaseFault
     \/ policy' \in {policy, undone} /\ CaseFault
  /\ Ends(p) /\ Told(p, "error")
  /\ UNCHANGED <<caseVars, reviewVars>>

\* activatePolicy of a version that is there.
ActivatePolicy(p, o) ==
  /\ In(p, "idle") /\ Manages(p) /\ policy[o] = "versioned"
  /\ PolicyIs(o, "active") /\ Ends(p)
  /\ UNCHANGED <<policyAnswer, caseVars, reviewVars, caseFaults>>

\* A request is killed.
RequestDies(p) ==
  /\ person[p].step \notin {"idle", "ended"} /\ CaseFault
  /\ Ends(p)
  /\ UNCHANGED <<caseVars, reviewVars, policyVars>>

CaseworkNext ==
  \E p \in People :
    \/ OpenCase(p) \/ ReadCase(p) \/ WriteCase(p) \/ RecordCaseDecision(p)
    \/ ReadReview(p) \/ PublishOverride(p) \/ PatchReview(p)
    \/ InsertPolicy(p) \/ CreateVersion(p) \/ ActivateVersion(p) \/ UndoPolicy(p)
    \/ \E o \in People \ {p} : ActivatePolicy(p, o)
    \/ RequestDies(p)

CaseworkSpec == CaseworkInit /\ [][CaseworkNext]_caseworkVars

-------------------------------------------------------------------------------
(* Properties *)

CaseRows ==
  [status : {"open", "in_review", "decided", "closed"}, priority : Priorities \cup {"normal"},
   assigned_to : People \cup {"nobody"}]
CaseworkSteps ==
  {"idle", "viewing", "edited", "read_review", "published", "inserted", "versioned", "undoing", "ended"}
CaseworkTypeOK ==
  /\ case \in CaseRows /\ asked \in CaseRows
  /\ decisions \in 0..MaxDecisions /\ changes \in Nat
  /\ lostUpdate \in BOOLEAN /\ raced \in BOOLEAN
  /\ review \in Recommendations \cup {"open"} /\ overrides \in Seq(Recommendations)
  /\ policy \in [People -> {"none", "bare", "versioned", "active"}]
  /\ policyAnswer \in [People -> {"none", "ok", "error"}]
  /\ person \in [People -> [step : CaseworkSteps, draft : CaseRows, analysed : BOOLEAN, seen : Nat, means : SUBSET CaseFields,
                            stale : BOOLEAN, recommendation : Recommendations \cup {"none"}]]
  /\ caseFaults \in 0..MaxCaseFaults

\* Unless a write rested on a row or a page that somebody had overtaken, a case shows
\* what people last meant each field to be: an edit of one field leaves the others
\* alone, a decision stays a decision (supabase-server.js:758-778).  A page that is
\* behind is enough to undo one: taking or releasing a case sends the status that the
\* page shows (cases.js:204-205).
EditsSurvive == ~lostUpdate => case = asked

\* A resolved review shows the override that was published last for its scan, also
\* when earlier requests died after publishing theirs (management.js:127-137); only
\* two requests that resolve it at the same time can break it.
ResolutionIsPublished ==
  review # "open" /\ ~raced =>
    overrides # <<>> /\ overrides[Len(overrides)] = review

\* Policies that a failed creation left behind are paid for by faults: no other
\* failure leaves one (management.js:50-53).
HalfPolicies ==
  {p \in People : /\ policy[p] \in {"bare", "versioned"}
                  /\ person[p].step \in {"idle", "ended"} /\ policyAnswer[p] # "ok"}
LeftoversAreFaults == Cardinality(HalfPolicies) <= caseFaults

\* Management leaves nothing half done that a race or a fault does not explain.
NothingHalfDone == ResolutionIsPublished /\ LeftoversAreFaults
===============================================================================
