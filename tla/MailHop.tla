-------------------------------- MODULE MailHop --------------------------------
(***************************************************************************)
(* What a mail hop promises its sender about one message, whatever goes on  *)
(* between the two ends.  The sender may submit the message several times;  *)
(* each attempt gets at most one answer:                                    *)
(*   accepted: the next hop holds the message;                              *)
(*   refused:  this attempt's copy is not there and never will be;          *)
(*   deferred: nothing is promised, the sender keeps the message.           *)
(***************************************************************************)

CONSTANT Attempts

VARIABLES took,  \* the attempts whose copy the next hop has taken
          told   \* the answer each attempt got

vars == <<took, told>>

Answers == {"none", "accepted", "deferred", "refused"}

Init ==
  /\ took = {}
  /\ told = [a \in Attempts |-> "none"]

\* The next hop may take a deferred copy late, but never a refused one.
Take(a) ==
  /\ told[a] \in {"none", "deferred"}
  /\ took' = took \cup {a}
  /\ UNCHANGED told

Tell(a, answer) ==
  /\ told[a] = "none"
  /\ told' = [told EXCEPT ![a] = answer]
  /\ UNCHANGED took

Accept(a) == a \in took /\ Tell(a, "accepted")
Refuse(a) == a \notin took /\ Tell(a, "refused")

\* The gateway process may stop, which defers every open attempt at once.
Defer(S) ==
  /\ \A a \in S : told[a] = "none"
  /\ told' = [a \in Attempts |-> IF a \in S THEN "deferred" ELSE told[a]]
  /\ UNCHANGED took

Next ==
  \/ \E a \in Attempts : Take(a) \/ Accept(a) \/ Refuse(a)
  \/ \E S \in SUBSET Attempts : Defer(S)

Spec == Init /\ [][Next]_vars
===============================================================================
