---------------------------- MODULE Recommendation ----------------------------
(***************************************************************************)
(* What correlate() recommends, seen from the scan's life cycle: only       *)
(* whether it is benign.  Correlation has the computation itself, and its   *)
(* model checking that the two agree.                                       *)
(***************************************************************************)

CONSTANT FailMode  \* policy.failure_modes.interactive_text_url

ASSUME FailModeAssumption == FailMode \in {"allow", "escalate"}

HasOutcome(rows, o) == \E row \in rows : row.outcome = o

\* A failed model taken for a clean one.
RecommendFailuresPass(rows) ==
  IF HasOutcome(rows, "risky") THEN "escalate" ELSE "allow"

\* A risky score escalates; required evidence that failed counts as risk 0.5 when
\* nothing was scored and falls under the policy's failure mode otherwise; no
\* evidence at all is risk 0.  (Policies here allow a risk of 0 and not one of 0.5.)
Recommend(rows) ==
  IF HasOutcome(rows, "risky") THEN "escalate"
  ELSE IF ~HasOutcome(rows, "failed") THEN "allow"
  ELSE IF HasOutcome(rows, "clean") THEN FailMode
  ELSE "escalate"
===============================================================================
