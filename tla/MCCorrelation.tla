----------------------------- MODULE MCCorrelation -----------------------------
(* A small instance of Correlation for TLC. *)
EXTENDS Correlation

Row(kind, status, score, codes) ==
  [kind |-> kind, status |-> status, score |-> score, codes |-> codes,
   required |-> TRUE]

\* Scores on both sides of every threshold of the policies below, the two kinds of
\* model, deterministic findings that only count together, and a failed model.
MCItems == {
  Row("phishing", "failed", NoScore, {}),
  Row("phishing", "completed", 10, {"identity"}),
  Row("phishing", "completed", 45, {}),
  Row("link", "completed", 74, {}),
  Row("link", "completed", 95, {"visibleUrl"}),
  Row("media", "completed", NoScore, {"credential", "auth"}),
  Row("media", "failed", NoScore, {}),
  Row("media", "pending", NoScore, {})}

Thresholds(failure, enforcing, automatic, convert) ==
  [allowBelow |-> 30, warnBelow |-> 45, reviewBelow |-> 75, blockAt |-> 90,
   failure |-> failure, enforcing |-> enforcing, automatic |-> automatic,
   convert |-> convert]

MCPolicies == {
  Thresholds("warn", FALSE, FALSE, "quarantine"),
  Thresholds("hold", TRUE, TRUE, "quarantine"),
  Thresholds("block", TRUE, FALSE, "warn"),
  Thresholds("allow", FALSE, TRUE, "hold"),
  [Thresholds("hold", TRUE, TRUE, "quarantine") EXCEPT !.allowBelow = 60,
     !.warnBelow = 60, !.reviewBelow = 60, !.blockAt = 60]}
===============================================================================
