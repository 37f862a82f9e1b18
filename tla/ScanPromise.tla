------------------------------ MODULE ScanPromise ------------------------------
(***************************************************************************)
(* What the gateway promises of one scan to those who submit it, however    *)
(* often, whatever goes on behind it:                                       *)
(*   - one of them has it analysed, the others are told how it stands;      *)
(*   - it is settled once, and stays as it settled;                         *)
(*   - it is completed by a decision, and a decision takes an analysis;     *)
(*   - each gets one answer, and ok (200) means that the scan is settled    *)
(*     and that the answer carries a final decision;                        *)
(*   - a failure is the failure of its analysis, which is told so.          *)
(***************************************************************************)
CONSTANT Requests

VARIABLES phase,    \* "absent", "open", or the status it settled in
          owner,    \* the submission that has it analysed
          decided,  \* there is a final decision
          told      \* the answer each submission got

vars == <<phase, owner, decided, told>>

NoAnswer == [code |-> 0, kind |-> "none"]

Init ==
  /\ phase = "absent" /\ owner = {} /\ decided = FALSE
  /\ told = [r \in Requests |-> NoAnswer]

Open == /\ phase = "absent" /\ phase' = "open"
        /\ UNCHANGED <<owner, decided, told>>

Own(r) ==
  /\ phase = "open" /\ owner = {} /\ owner' = {r}
  /\ UNCHANGED <<phase, decided, told>>

Decide ==
  /\ owner # {} /\ decided' = TRUE
  /\ phase' = IF phase = "open" THEN "completed" ELSE phase
  /\ UNCHANGED <<owner, told>>

Cancel ==
  /\ phase = "open" /\ phase' \in {"cancelled", "cancel_requested"}
  /\ UNCHANGED <<owner, decided, told>>

Tell(r, answer) == told[r] = NoAnswer /\ told' = [told EXCEPT ![r] = answer]

Truthful(answer) ==
  /\ answer.code = 200 => answer.kind = "final" /\ phase \notin {"absent", "open"}
  /\ answer.kind = "final" => decided
  /\ answer.kind = "preliminary" => owner # {}

\* 400: it is refused before it is looked up; 202: it stands as it stands.
Answer(r) ==
  /\ \E code \in {200, 202, 400}, kind \in {"none", "preliminary", "final"} :
       Truthful([code |-> code, kind |-> kind]) /\ Tell(r, [code |-> code, kind |-> kind])
  /\ UNCHANGED <<phase, owner, decided>>

\* The scan fails with its owner, unless it is settled already or the failure is
\* not recorded.
Fail(r) ==
  /\ r \in owner /\ Tell(r, [code |-> 500, kind |-> "none"])
  /\ \/ phase' = phase
     \/ phase = "open" /\ phase' = "failed"
  /\ UNCHANGED <<owner, decided>>

Next == Open \/ Decide \/ Cancel \/ \E r \in Requests : Own(r) \/ Answer(r) \/ Fail(r)

Spec == Init /\ [][Next]_vars
===============================================================================
