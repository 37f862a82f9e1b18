------------------------------ MODULE MCMailRelay ------------------------------
(* A small instance of MailRelay for TLC. *)
EXTENDS MailRelay

\* The defaults of loadConfig, and settings that differ where the code branches.
Default == [forward |-> {"allow", "warn"}, defer |-> {"manual_review", "hold"},
            degradedMode |-> "defer", apiFailureMode |-> "defer", host |-> TRUE,
            secure |-> FALSE, startTls |-> "auto", username |-> FALSE]

MCConfigs == {
  Default,
  [Default EXCEPT !.startTls = "required", !.username = TRUE,
                  !.apiFailureMode = "reject"],
  [Default EXCEPT !.secure = TRUE, !.degradedMode = "policy",
                  !.forward = {"allow"}],
  [Default EXCEPT !.host = FALSE, !.degradedMode = "reject"]}

MCDecisions == {
  [recommendation |-> "allow", degraded |-> FALSE],
  [recommendation |-> "allow", degraded |-> TRUE],
  [recommendation |-> "hold", degraded |-> FALSE],
  [recommendation |-> "block", degraded |-> FALSE]}
===============================================================================
