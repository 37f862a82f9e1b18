------------------------------- MODULE OneVerdict -------------------------------
(***************************************************************************)
(* What the e-mail analysis promises of its investigations, each submitted  *)
(* by any number of requests:                                               *)
(*   - an investigation reaches at most one verdict, and keeps it;          *)
(*   - whatever is published of it is this verdict, and stays published;    *)
(*   - it is settled once, stays as it settled, and is completed only       *)
(*     together with its verdict's publication;                             *)
(*   - each request gets one answer: ok (200) with the verdict, or another  *)
(*     code with none.                                                      *)
(***************************************************************************)

CONSTANTS Scans, Requests, NoVerdict

VARIABLES key,        \* the investigation each request submits
          phase,      \* "absent", "open", or the status it settled in
          reached,    \* its verdict, once it has one
          published,  \* what is on record of it
          answer      \* the answer each request got

vars == <<key, phase, reached, published, answer>>

NoAnswer == [code |-> 0, decision |-> NoVerdict]

Init ==
  /\ key \in [Requests -> Scans]
  /\ phase = [s \in Scans |-> "absent"]
  /\ reached = [s \in Scans |-> {}] /\ published = [s \in Scans |-> {}]
  /\ answer = [r \in Requests |-> NoAnswer]

Move(s, to) == phase' = [phase EXCEPT ![s] = to]

Submit(s) ==
  /\ phase[s] = "absent" /\ Move(s, "open")
  /\ UNCHANGED <<key, reached, published, answer>>

Cancel(s) ==
  /\ phase[s] = "open" /\ \E to \in {"cancelled", "cancel_requested"} : Move(s, to)
  /\ UNCHANGED <<key, reached, published, answer>>

\* Whatever the verdict is, there is one.
Reach(s) ==
  /\ phase[s] # "absent" /\ reached[s] = {}
  /\ \E v \in reached'[s] : reached' = [reached EXCEPT ![s] = {v}]
  /\ UNCHANGED <<key, phase, published, answer>>

Publish(s) ==
  /\ reached[s] # {} /\ published' = [published EXCEPT ![s] = reached[s]]
  /\ Move(s, IF phase[s] = "open" THEN "completed" ELSE phase[s])
  /\ UNCHANGED <<key, reached, answer>>

Tell(r, code, v) ==
  /\ answer[r] = NoAnswer
  /\ answer' = [answer EXCEPT ![r] = [code |-> code, decision |-> v]]
  /\ UNCHANGED <<key, reached>>

\* The verdict is told, and may be recorded for later requests at the same time.
Answer(r) ==
  LET s == key[r] IN
  /\ \E v \in reached[s] : Tell(r, 200, v)
  /\ published' \in {published, [published EXCEPT ![s] = reached[s]]}
  /\ UNCHANGED phase

\* 202: it is being analysed; 409: its parent does not fit.
PutOff(r) ==
  /\ \E code \in {202, 409} : Tell(r, code, NoVerdict)
  /\ UNCHANGED <<phase, published>>

\* An error may have been met before or after the investigation was submitted, and
\* may be recorded as its failure.
Fail(r) ==
  LET s == key[r] IN
  /\ Tell(r, 500, NoVerdict)
  /\ \/ UNCHANGED phase
     \/ phase[s] = "absent" /\ Move(s, "open")
     \/ phase[s] = "open" /\ Move(s, "failed")
  /\ UNCHANGED published

Next ==
  \/ \E s \in Scans : Submit(s) \/ Cancel(s) \/ Reach(s) \/ Publish(s)
  \/ \E r \in Requests : Answer(r) \/ PutOff(r) \/ Fail(r)

Spec == Init /\ [][Next]_vars
===============================================================================
