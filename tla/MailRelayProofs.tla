---------------------------- MODULE MailRelayProofs ----------------------------
(***************************************************************************)
(* Proofs about MailRelay: type correctness, that only cleared messages are *)
(* delivered and only with their whole envelope, that a finished relay is   *)
(* reported to the sender, and that the gateway implements the promises of  *)
(* MailHop.                                                                 *)
(***************************************************************************)
EXTENDS MailRelay, TLAPS

\* The stages before the message itself is written.
Before == {"idle", "analysing"} \cup (Dialogue \ {"content", "quit"})

\* What the upstream server can have done, by how far the dialogue has come and by
\* what the sender has been told.
HopInvAt(a) ==
  /\ a > tried => stage[a] = "idle"
  /\ stage[a] \in Before => up[a] = "none"
  /\ stage[a] = "content" => up[a] \in {"open", "took"}
  /\ stage[a] = "quit" => up[a] = "took"
  /\ told[a] = "accepted" => up[a] = "took"
  /\ told[a] = "refused" => stage[a] = "done" /\ up[a] \in {"none", "refused"}

HopInv == \A a \in Attempts : HopInvAt(a)

\* From the first command to the upstream server on, the attempt is to forward.
ForwardInv ==
  \A a \in Attempts :
    stage[a] \in Dialogue \/ up[a] # "none"
      => answer[a] \in Decision /\ Disposition(answer[a]) = "forward"

\* From DATA on, every recipient has been accepted.
EnvelopeInv ==
  \A a \in Attempts :
    stage[a] \in {"data", "content", "quit"} \/ up[a] # "none"
      => accepted[a] = Recipients

-------------------------------------------------------------------------------
\* Every variable of MailRelay keeps its type.
THEOREM TypeCorrect == Spec => []TypeOK
<1>1. Init => TypeOK
  BY MailRelayAssumption DEF Init, TypeOK, Stages, Attempts
<1>2. TypeOK /\ [Next]_vars => TypeOK'
  <2> SUFFICES ASSUME TypeOK, [Next]_vars PROVE TypeOK'
    OBVIOUS
  <2> USE DEF TypeOK, Stages, Dialogue
  <2>1. CASE Submit
    BY <2>1, MailRelayAssumption DEF Submit, Attempts
  <2>2. ASSUME NEW a \in Attempts, AnalysisStep(a) PROVE TypeOK'
    <3>1. CASE AnalysisFails(a)
      BY <3>1 DEF AnalysisFails, Finish, ReplyTo
    <3>2. ASSUME NEW d \in Decisions, AnalysisDecides(a, d) PROVE TypeOK'
      <4>1. d \in Decision /\ config \in Config
        BY MailRelayAssumption
      <4> QED
        BY <3>2, <4>1 DEF AnalysisDecides, Finish, ReplyTo, Config
    <3> QED
      BY <2>2, <3>1, <3>2 DEF AnalysisStep
  <2>3. ASSUME NEW a \in Attempts, RelayStep(a) PROVE TypeOK'
    <3>1. CASE Greeted(a) \/ AuthReply(a) \/ MailReply(a) \/ RcptsDone(a) \/ ContentReply(a)
      BY <3>1 DEF Greeted, AuthReply, MailReply, RcptsDone, ContentReply
    <3>2. CASE StartTlsReply(a) \/ DataReply(a)
      BY <3>2 DEF StartTlsReply, DataReply
    <3>3. ASSUME NEW offers \in SUBSET {"STARTTLS", "AUTH"}, EhloReply(a, offers)
          PROVE TypeOK'
      BY <3>3 DEF EhloReply, AfterEhlo, Finish, RelayErrorReply
    <3>4. ASSUME NEW r \in Recipients, RcptReply(a, r) PROVE TypeOK'
      BY <3>4 DEF RcptReply
    <3>5. ASSUME NEW code \in {"4xx", "5xx"}, UpstreamRefuses(a, code) PROVE TypeOK'
      BY <3>5 DEF UpstreamRefuses, Finish, RelayErrorReply
    <3>6. CASE UpstreamSilent(a) \/ QuitReply(a)
      BY <3>6 DEF UpstreamSilent, QuitReply, Finish, RelayErrorReply
    <3> QED
      BY <2>3, <3>1, <3>2, <3>3, <3>4, <3>5, <3>6 DEF RelayStep
  <2>4. ASSUME NEW a \in Attempts, UpstreamTakes(a) \/ InboundTimeout(a) PROVE TypeOK'
    BY <2>4 DEF UpstreamTakes, InboundTimeout
  <2>5. CASE GatewayStops
    BY <2>5 DEF GatewayStops
  <2>6. CASE UNCHANGED vars
    BY <2>6 DEF vars
  <2> QED
    BY <2>1, <2>2, <2>3, <2>4, <2>5, <2>6 DEF Next
<1> QED
  BY <1>1, <1>2, PTL DEF Spec

-------------------------------------------------------------------------------
\* Init => HopInv and HopInv is inductive (relative to TypeOK).
LEMMA HopStep == TypeOK /\ HopInv /\ [Next]_vars => HopInv'
<1> SUFFICES ASSUME TypeOK, HopInv, [Next]_vars, NEW b \in Attempts
             PROVE HopInvAt(b)'
  BY DEF HopInv
<1>0. HopInvAt(b)
  BY DEF HopInv
<1> USE <1>0 DEF TypeOK, HopInvAt, Before, Dialogue
<1>1. CASE Submit
  BY <1>1 DEF Submit, HopInv, Attempts, Stages
<1>2. ASSUME NEW a \in Attempts, AnalysisStep(a) PROVE HopInvAt(b)'
  <2>1. CASE AnalysisFails(a)
    BY <2>1 DEF AnalysisFails, Finish, ReplyTo
  <2>2. ASSUME NEW d \in Decisions, AnalysisDecides(a, d) PROVE HopInvAt(b)'
    BY <2>2 DEF AnalysisDecides, Finish, ReplyTo
  <2> QED
    BY <1>2, <2>1, <2>2 DEF AnalysisStep
<1>3. ASSUME NEW a \in Attempts, RelayStep(a) PROVE HopInvAt(b)'
  <2>1. CASE Greeted(a) \/ AuthReply(a) \/ MailReply(a) \/ RcptsDone(a) \/ ContentReply(a)
    BY <2>1 DEF Greeted, AuthReply, MailReply, RcptsDone, ContentReply
  <2>2. CASE StartTlsReply(a) \/ DataReply(a)
    BY <2>2 DEF StartTlsReply, DataReply
  <2>3. ASSUME NEW offers \in SUBSET {"STARTTLS", "AUTH"}, EhloReply(a, offers)
        PROVE HopInvAt(b)'
    BY <2>3 DEF EhloReply, AfterEhlo, Finish, RelayErrorReply
  <2>4. ASSUME NEW r \in Recipients, RcptReply(a, r) PROVE HopInvAt(b)'
    BY <2>4 DEF RcptReply
  <2>5. ASSUME NEW code \in {"4xx", "5xx"}, UpstreamRefuses(a, code)
        PROVE HopInvAt(b)'
    BY <2>5 DEF UpstreamRefuses, Finish, RelayErrorReply
  <2>6. CASE UpstreamSilent(a)
    BY <2>6 DEF UpstreamSilent, Finish, RelayErrorReply
  <2>7. CASE QuitReply(a)
    BY <2>7 DEF QuitReply, Finish
  <2> QED
    BY <1>3, <2>1, <2>2, <2>3, <2>4, <2>5, <2>6, <2>7 DEF RelayStep
<1>4. ASSUME NEW a \in Attempts, UpstreamTakes(a) PROVE HopInvAt(b)'
  BY <1>4 DEF UpstreamTakes
<1>5. ASSUME NEW a \in Attempts, InboundTimeout(a) PROVE HopInvAt(b)'
  BY <1>5 DEF InboundTimeout, InFlight
<1>6. CASE GatewayStops
  BY <1>6 DEF GatewayStops, InFlight
<1>7. CASE UNCHANGED vars
  BY <1>7 DEF vars
<1> QED
  BY <1>1, <1>2, <1>3, <1>4, <1>5, <1>6, <1>7 DEF Next

LEMMA HopInvariant == Spec => []HopInv
<1>1. Init => HopInv
  BY DEF Init, HopInv, HopInvAt, Before, Dialogue
<1> QED
  BY <1>1, HopStep, TypeCorrect, PTL DEF Spec
-------------------------------------------------------------------------------
\* An attempt that reaches the upstream server was to be forwarded, and its decision
\* does not change any more.
ForwardAt(a) ==
  stage[a] \in Dialogue \/ up[a] # "none"
    => answer[a] \in Decision /\ Disposition(answer[a]) = "forward"

LEMMA ForwardStep == TypeOK /\ HopInv /\ ForwardInv /\ [Next]_vars => ForwardInv'
<1> SUFFICES ASSUME TypeOK, HopInv, ForwardInv, [Next]_vars, NEW b \in Attempts
             PROVE ForwardAt(b)'
  BY DEF ForwardInv, ForwardAt
<1>0. ForwardAt(b) /\ HopInvAt(b)
  BY DEF ForwardInv, ForwardAt, HopInv
<1>c. config' = config
  BY DEF Next, vars, Submit, AnalysisStep, AnalysisFails, AnalysisDecides, RelayStep,
         Greeted, AuthReply, MailReply, RcptsDone, ContentReply, StartTlsReply,
         DataReply, EhloReply, RcptReply, UpstreamRefuses, UpstreamSilent, QuitReply,
         UpstreamTakes, InboundTimeout, GatewayStops
<1> USE <1>0, <1>c DEF TypeOK, ForwardAt, Dialogue, Disposition
<1>1. CASE Submit
  BY <1>1 DEF Submit, HopInv, HopInvAt, Attempts, Stages, Before
<1>2. ASSUME NEW a \in Attempts, AnalysisStep(a) PROVE ForwardAt(b)'
  <2>1. CASE AnalysisFails(a)
    BY <2>1 DEF AnalysisFails, Finish
  <2>2. ASSUME NEW d \in Decisions, AnalysisDecides(a, d) PROVE ForwardAt(b)'
    BY <2>2, MailRelayAssumption DEF AnalysisDecides, Finish, HopInvAt, Before
  <2> QED
    BY <1>2, <2>1, <2>2 DEF AnalysisStep
<1>3. ASSUME NEW a \in Attempts, RelayStep(a) PROVE ForwardAt(b)'
  <2>1. CASE Greeted(a) \/ AuthReply(a) \/ MailReply(a) \/ RcptsDone(a) \/ ContentReply(a)
    BY <2>1 DEF Greeted, AuthReply, MailReply, RcptsDone, ContentReply
  <2>2. CASE StartTlsReply(a) \/ DataReply(a)
    BY <2>2 DEF StartTlsReply, DataReply
  <2>3. ASSUME NEW offers \in SUBSET {"STARTTLS", "AUTH"}, EhloReply(a, offers)
        PROVE ForwardAt(b)'
    BY <2>3 DEF EhloReply, AfterEhlo, Finish
  <2>4. ASSUME NEW r \in Recipients, RcptReply(a, r) PROVE ForwardAt(b)'
    BY <2>4 DEF RcptReply
  <2>5. ASSUME NEW code \in {"4xx", "5xx"}, UpstreamRefuses(a, code)
        PROVE ForwardAt(b)'
    BY <2>5 DEF UpstreamRefuses, Finish
  <2>6. CASE UpstreamSilent(a) \/ QuitReply(a)
    BY <2>6 DEF UpstreamSilent, QuitReply, Finish
  <2> QED
    BY <1>3, <2>1, <2>2, <2>3, <2>4, <2>5, <2>6 DEF RelayStep
<1>4. ASSUME NEW a \in Attempts, UpstreamTakes(a) \/ InboundTimeout(a) PROVE ForwardAt(b)'
  BY <1>4 DEF UpstreamTakes, InboundTimeout
<1>5. CASE GatewayStops
  BY <1>5 DEF GatewayStops, InFlight
<1>6. CASE UNCHANGED vars
  BY <1>6 DEF vars
<1> QED
  BY <1>1, <1>2, <1>3, <1>4, <1>5, <1>6 DEF Next

LEMMA ForwardInvariant == Spec => []ForwardInv
<1>1. Init => ForwardInv
  BY DEF Init, ForwardInv, Dialogue
<1> QED
  BY <1>1, ForwardStep, TypeCorrect, HopInvariant, PTL DEF Spec

\* Whatever the upstream server takes was cleared by the analysis of that attempt.
THEOREM DeliveryWasCleared == Spec => []DeliveredWasCleared
<1>1. TypeOK /\ ForwardInv => DeliveredWasCleared
  BY MailRelayAssumption
  DEF TypeOK, ForwardInv, DeliveredWasCleared, Took, Disposition, Config
<1> QED
  BY <1>1, TypeCorrect, ForwardInvariant, PTL

-------------------------------------------------------------------------------
EnvelopeAt(a) ==
  stage[a] \in {"data", "content", "quit"} \/ up[a] # "none"
    => accepted[a] = Recipients

LEMMA EnvelopeStep == TypeOK /\ HopInv /\ EnvelopeInv /\ [Next]_vars => EnvelopeInv'
<1> SUFFICES ASSUME TypeOK, HopInv, EnvelopeInv, [Next]_vars, NEW b \in Attempts
             PROVE EnvelopeAt(b)'
  BY DEF EnvelopeInv, EnvelopeAt
<1>0. EnvelopeAt(b) /\ HopInvAt(b)
  BY DEF EnvelopeInv, EnvelopeAt, HopInv
<1> USE <1>0 DEF TypeOK, EnvelopeAt, Dialogue
<1>1. CASE Submit
  BY <1>1 DEF Submit, HopInv, HopInvAt, Attempts, Stages, Before
<1>2. ASSUME NEW a \in Attempts, AnalysisStep(a) PROVE EnvelopeAt(b)'
  <2>1. CASE AnalysisFails(a)
    BY <2>1 DEF AnalysisFails, Finish
  <2>2. ASSUME NEW d \in Decisions, AnalysisDecides(a, d) PROVE EnvelopeAt(b)'
    BY <2>2 DEF AnalysisDecides, Finish
  <2> QED
    BY <1>2, <2>1, <2>2 DEF AnalysisStep
<1>3. ASSUME NEW a \in Attempts, RelayStep(a) PROVE EnvelopeAt(b)'
  <2>1. CASE Greeted(a) \/ AuthReply(a) \/ MailReply(a) \/ RcptsDone(a) \/ ContentReply(a)
    BY <2>1 DEF Greeted, AuthReply, MailReply, RcptsDone, ContentReply
  <2>2. CASE StartTlsReply(a) \/ DataReply(a)
    BY <2>2 DEF StartTlsReply, DataReply
  <2>3. ASSUME NEW offers \in SUBSET {"STARTTLS", "AUTH"}, EhloReply(a, offers)
        PROVE EnvelopeAt(b)'
    BY <2>3 DEF EhloReply, AfterEhlo, Finish
  <2>4. ASSUME NEW r \in Recipients, RcptReply(a, r) PROVE EnvelopeAt(b)'
    BY <2>4 DEF RcptReply, HopInvAt, Before
  <2>5. ASSUME NEW code \in {"4xx", "5xx"}, UpstreamRefuses(a, code)
        PROVE EnvelopeAt(b)'
    BY <2>5 DEF UpstreamRefuses, Finish
  <2>6. CASE UpstreamSilent(a) \/ QuitReply(a)
    BY <2>6 DEF UpstreamSilent, QuitReply, Finish
  <2> QED
    BY <1>3, <2>1, <2>2, <2>3, <2>4, <2>5, <2>6 DEF RelayStep
<1>4. ASSUME NEW a \in Attempts, UpstreamTakes(a) \/ InboundTimeout(a) PROVE EnvelopeAt(b)'
  BY <1>4 DEF UpstreamTakes, InboundTimeout
<1>5. CASE GatewayStops
  BY <1>5 DEF GatewayStops, InFlight
<1>6. CASE UNCHANGED vars
  BY <1>6 DEF vars
<1> QED
  BY <1>1, <1>2, <1>3, <1>4, <1>5, <1>6 DEF Next

\* A copy the upstream server takes carries the whole envelope.
THEOREM EnvelopeIsWhole == Spec => []WholeEnvelope
<1>1. Init => EnvelopeInv
  BY DEF Init, EnvelopeInv
<1>2. EnvelopeInv => WholeEnvelope
  BY DEF EnvelopeInv, WholeEnvelope, Took
<1> QED
  BY <1>1, <1>2, EnvelopeStep, TypeCorrect, HopInvariant, PTL DEF Spec

-------------------------------------------------------------------------------
(* What is sent once TLS is required. *)

ClearAt(a) ==
  config.startTls = "required"
    /\ stage[a] \in {"auth", "mail", "rcpt", "data", "content"} => tls[a]

LEMMA ClearStep == TypeOK /\ NothingInCleartext /\ [Next]_vars => NothingInCleartext'
<1> SUFFICES ASSUME TypeOK, NothingInCleartext, [Next]_vars, NEW b \in Attempts
             PROVE ClearAt(b)'
  BY DEF NothingInCleartext, ClearAt
<1>0. ClearAt(b)
  BY DEF NothingInCleartext, ClearAt
<1> USE <1>0 DEF TypeOK, ClearAt, Dialogue
<1>1. CASE Submit
  BY <1>1 DEF Submit, Attempts, Stages
<1>2. ASSUME NEW a \in Attempts, AnalysisStep(a) PROVE ClearAt(b)'
  <2>1. CASE AnalysisFails(a)
    BY <2>1 DEF AnalysisFails, Finish
  <2>2. ASSUME NEW d \in Decisions, AnalysisDecides(a, d) PROVE ClearAt(b)'
    BY <2>2 DEF AnalysisDecides, Finish
  <2> QED
    BY <1>2, <2>1, <2>2 DEF AnalysisStep
<1>3. ASSUME NEW a \in Attempts, RelayStep(a) PROVE ClearAt(b)'
  <2>1. CASE Greeted(a) \/ AuthReply(a) \/ MailReply(a) \/ RcptsDone(a) \/ ContentReply(a)
    BY <2>1 DEF Greeted, AuthReply, MailReply, RcptsDone, ContentReply
  <2>2. CASE StartTlsReply(a) \/ DataReply(a)
    BY <2>2 DEF StartTlsReply, DataReply
  <2>3. ASSUME NEW offers \in SUBSET {"STARTTLS", "AUTH"}, EhloReply(a, offers)
        PROVE ClearAt(b)'
    BY <2>3 DEF EhloReply, AfterEhlo, Finish
  <2>4. ASSUME NEW r \in Recipients, RcptReply(a, r) PROVE ClearAt(b)'
    BY <2>4 DEF RcptReply
  <2>5. ASSUME NEW code \in {"4xx", "5xx"}, UpstreamRefuses(a, code) PROVE ClearAt(b)'
    BY <2>5 DEF UpstreamRefuses, Finish
  <2>6. CASE UpstreamSilent(a) \/ QuitReply(a)
    BY <2>6 DEF UpstreamSilent, QuitReply, Finish
  <2> QED
    BY <1>3, <2>1, <2>2, <2>3, <2>4, <2>5, <2>6 DEF RelayStep
<1>4. ASSUME NEW a \in Attempts, UpstreamTakes(a) \/ InboundTimeout(a) PROVE ClearAt(b)'
  BY <1>4 DEF UpstreamTakes, InboundTimeout
<1>5. CASE GatewayStops
  BY <1>5 DEF GatewayStops, InFlight
<1>6. CASE UNCHANGED vars
  BY <1>6 DEF vars
<1> QED
  BY <1>1, <1>2, <1>3, <1>4, <1>5, <1>6 DEF Next

\* With STARTTLS required nothing of a message, its envelope or the credentials is
\* sent before the connection is encrypted, whatever the upstream server offers.
THEOREM NeverInCleartext == Spec => []NothingInCleartext
<1>1. Init => NothingInCleartext
  BY DEF Init, NothingInCleartext
<1> QED
  BY <1>1, ClearStep, TypeCorrect, PTL DEF Spec

\* Whole and encrypted, for any number of attempts and recipients.
THEOREM AlwaysAsAgreed == Spec => []RelayedAsAgreed
<1>1. WholeEnvelope /\ NothingInCleartext => RelayedAsAgreed
  BY DEF RelayedAsAgreed
<1> QED
  BY <1>1, EnvelopeIsWhole, NeverInCleartext, PTL

-------------------------------------------------------------------------------
(* The gateway implements MailHop. *)

\* The answer of an attempt that finishes is an answer of the abstract hop.
LEMMA FinishMaps ==
  ASSUME TypeOK, NEW a \in Attempts,
         NEW reply \in {"accepted", "deferred", "refused"},
         Finish(a, reply), Took' = Took,
         reply = "accepted" => a \in Took,
         reply = "refused" => a \notin Took
  PROVE  [Hop!Next]_(Hop!vars)
<1>1. CASE told[a] # "none"
  BY <1>1 DEF TypeOK, Finish, Hop!vars
<1>2. CASE told[a] = "none" /\ reply = "accepted"
  BY <1>2 DEF TypeOK, Finish, Hop!Next, Hop!Accept, Hop!Tell
<1>3. CASE told[a] = "none" /\ reply = "refused"
  BY <1>3 DEF TypeOK, Finish, Hop!Next, Hop!Refuse, Hop!Tell
<1>4. CASE told[a] = "none" /\ reply = "deferred"
  <2>1. told' = [x \in Attempts |-> IF x \in {a} THEN "deferred" ELSE told[x]]
    BY <1>4 DEF TypeOK, Finish
  <2>2. Hop!Defer({a})
    BY <1>4, <2>1 DEF Hop!Defer
  <2> QED
    BY <2>2 DEF Hop!Next
<1> QED
  BY <1>1, <1>2, <1>3, <1>4

\* Every step of the gateway is a step of the hop, or none.
LEMMA HopSimulation == TypeOK /\ HopInv /\ [Next]_vars => [Hop!Next]_(Hop!vars)
<1> SUFFICES ASSUME TypeOK, HopInv, [Next]_vars PROVE [Hop!Next]_(Hop!vars)
  OBVIOUS
<1>0. ASSUME NEW a \in Attempts PROVE HopInvAt(a)
  BY DEF HopInv
<1>s. ASSUME UNCHANGED <<up, told>> PROVE [Hop!Next]_(Hop!vars)
  BY <1>s DEF Took, Hop!vars
<1>t. UNCHANGED up => Took' = Took
  BY DEF Took
<1>1. CASE Submit
  BY <1>1, <1>s DEF Submit
<1>2. ASSUME NEW a \in Attempts, AnalysisStep(a) PROVE [Hop!Next]_(Hop!vars)
  <2>0. stage[a] = "analysing" /\ UNCHANGED up
    BY <1>2 DEF AnalysisStep, AnalysisFails, AnalysisDecides
  <2>1. a \notin Took
    BY <1>0, <2>0 DEF HopInvAt, Before, Took
  <2>2. ASSUME NEW d, Finish(a, ReplyTo(d)) PROVE [Hop!Next]_(Hop!vars)
    BY <2>0, <2>1, <2>2, <1>t, FinishMaps DEF ReplyTo
  <2>3. CASE AnalysisFails(a)
    BY <2>2, <2>3 DEF AnalysisFails
  <2>4. ASSUME NEW d \in Decisions, AnalysisDecides(a, d) PROVE [Hop!Next]_(Hop!vars)
    BY <2>0, <2>2, <2>4, <1>s DEF AnalysisDecides
  <2> QED
    BY <1>2, <2>3, <2>4 DEF AnalysisStep
<1>3. ASSUME NEW a \in Attempts, RelayStep(a) PROVE [Hop!Next]_(Hop!vars)
  <2>1. CASE Greeted(a) \/ AuthReply(a) \/ MailReply(a) \/ RcptsDone(a)
             \/ ContentReply(a) \/ StartTlsReply(a)
    BY <2>1, <1>s DEF Greeted, AuthReply, MailReply, RcptsDone, ContentReply, StartTlsReply
  <2>2. CASE DataReply(a)
    <3>1. up[a] = "none"
      BY <1>0, <2>2 DEF DataReply, HopInvAt, Before, Dialogue
    <3>2. Took' = Took
      BY <2>2, <3>1 DEF DataReply, Took, TypeOK
    <3> QED
      BY <2>2, <3>2 DEF DataReply, Hop!vars
  <2>3. ASSUME NEW offers \in SUBSET {"STARTTLS", "AUTH"}, EhloReply(a, offers)
        PROVE [Hop!Next]_(Hop!vars)
    BY <2>3, <1>s, <1>t, FinishMaps DEF EhloReply, RelayErrorReply
  <2>4. ASSUME NEW r \in Recipients, RcptReply(a, r) PROVE [Hop!Next]_(Hop!vars)
    BY <2>4, <1>s DEF RcptReply
  <2>5. ASSUME NEW code \in {"4xx", "5xx"}, UpstreamRefuses(a, code)
        PROVE [Hop!Next]_(Hop!vars)
    <3>1. Took' = Took
      BY <2>5 DEF UpstreamRefuses, Took, TypeOK
    <3>2. a \notin Took
      BY <2>5, <1>0 DEF UpstreamRefuses, Took, HopInvAt, Before, Dialogue
    <3>3. Finish(a, RelayErrorReply(code))
      BY <2>5 DEF UpstreamRefuses
    <3> QED
      BY <3>1, <3>2, <3>3, FinishMaps DEF RelayErrorReply
  <2>6. CASE UpstreamSilent(a)
    BY <2>6, <1>t, FinishMaps DEF UpstreamSilent, RelayErrorReply
  <2>7. CASE QuitReply(a)
    <3>1. a \in Took
      BY <1>0, <2>7 DEF QuitReply, HopInvAt, Took
    <3> QED
      BY <2>7, <3>1, <1>t, FinishMaps DEF QuitReply
  <2> QED
    BY <1>3, <2>1, <2>2, <2>3, <2>4, <2>5, <2>6, <2>7 DEF RelayStep
<1>4. ASSUME NEW a \in Attempts, UpstreamTakes(a) PROVE [Hop!Next]_(Hop!vars)
  <2>1. told[a] \in {"none", "deferred"}
    BY <1>0, <1>4 DEF UpstreamTakes, HopInvAt, TypeOK
  <2>2. Took' = Took \cup {a}
    BY <1>4 DEF UpstreamTakes, Took, TypeOK
  <2>3. Hop!Take(a)
    BY <1>4, <2>1, <2>2 DEF UpstreamTakes, Hop!Take
  <2> QED
    BY <2>3 DEF Hop!Next
<1>5. ASSUME NEW a \in Attempts, InboundTimeout(a) PROVE [Hop!Next]_(Hop!vars)
  <2>1. told' = [x \in Attempts |-> IF x \in {a} THEN "deferred" ELSE told[x]]
    BY <1>5 DEF InboundTimeout, TypeOK
  <2>2. Hop!Defer({a})
    BY <1>5, <2>1, <1>t DEF InboundTimeout, Hop!Defer
  <2> QED
    BY <2>2 DEF Hop!Next
<1>6. CASE GatewayStops
  <2> DEFINE S == {x \in Attempts : InFlight(x) /\ told[x] = "none"}
  <2>1. told' = [x \in Attempts |-> IF x \in S THEN "deferred" ELSE told[x]]
    BY <1>6 DEF GatewayStops
  <2>2. Hop!Defer(S)
    BY <1>6, <2>1, <1>t DEF GatewayStops, Hop!Defer
  <2>3. S \in SUBSET Attempts
    OBVIOUS
  <2> QED
    BY <2>2, <2>3 DEF Hop!Next
<1>7. CASE UNCHANGED vars
  BY <1>7, <1>s DEF vars
<1> QED
  BY <1>1, <1>2, <1>3, <1>4, <1>5, <1>6, <1>7 DEF Next

\* However attempts, timeouts and late answers interleave, the gateway keeps the
\* promises of a mail hop.
THEOREM ImplementsHop == Spec => HopSpec
<1>1. Init => Hop!Init
  BY DEF Init, Hop!Init, Took
<1> QED
  BY <1>1, HopSimulation, TypeCorrect, HopInvariant, PTL DEF Spec, HopSpec, Hop!Spec

-------------------------------------------------------------------------------
(* What the sender hears of a relayed message. *)

\* The only step that ends an attempt waiting for the answer to QUIT reports success.
LEMMA ReportStep ==
  ASSUME TypeOK, [Next]_vars, NEW b \in Attempts,
         stage[b] = "quit", stage'[b] = "done", told[b] = "none"
  PROVE  told'[b] = "accepted"
<1> USE DEF TypeOK, Dialogue
<1>1. CASE Submit
  BY <1>1 DEF Submit, Attempts
<1>2. ASSUME NEW a \in Attempts, AnalysisStep(a) PROVE told'[b] = "accepted"
  <2>1. CASE AnalysisFails(a)
    BY <2>1 DEF AnalysisFails, Finish
  <2>2. ASSUME NEW d \in Decisions, AnalysisDecides(a, d) PROVE told'[b] = "accepted"
    BY <2>2 DEF AnalysisDecides, Finish
  <2> QED
    BY <1>2, <2>1, <2>2 DEF AnalysisStep
<1>3. ASSUME NEW a \in Attempts, RelayStep(a) PROVE told'[b] = "accepted"
  <2>1. CASE Greeted(a) \/ AuthReply(a) \/ MailReply(a) \/ RcptsDone(a) \/ ContentReply(a)
    BY <2>1 DEF Greeted, AuthReply, MailReply, RcptsDone, ContentReply
  <2>2. CASE StartTlsReply(a) \/ DataReply(a)
    BY <2>2 DEF StartTlsReply, DataReply
  <2>3. ASSUME NEW offers \in SUBSET {"STARTTLS", "AUTH"}, EhloReply(a, offers)
        PROVE told'[b] = "accepted"
    BY <2>3 DEF EhloReply, AfterEhlo, Finish
  <2>4. ASSUME NEW r \in Recipients, RcptReply(a, r) PROVE told'[b] = "accepted"
    BY <2>4 DEF RcptReply
  <2>5. ASSUME NEW code \in {"4xx", "5xx"}, UpstreamRefuses(a, code)
        PROVE told'[b] = "accepted"
    BY <2>5 DEF UpstreamRefuses, Finish
  <2>6. CASE UpstreamSilent(a)
    BY <2>6 DEF UpstreamSilent, Finish
  <2>7. CASE QuitReply(a)
    BY <2>7 DEF QuitReply, Finish
  <2> QED
    BY <1>3, <2>1, <2>2, <2>3, <2>4, <2>5, <2>6, <2>7 DEF RelayStep
<1>4. ASSUME NEW a \in Attempts, UpstreamTakes(a) \/ InboundTimeout(a)
      PROVE told'[b] = "accepted"
  BY <1>4 DEF UpstreamTakes, InboundTimeout
<1>5. CASE GatewayStops
  BY <1>5 DEF GatewayStops, InFlight
<1>6. CASE UNCHANGED vars
  BY <1>6 DEF vars
<1> QED
  BY <1>1, <1>2, <1>3, <1>4, <1>5, <1>6 DEF Next

\* A relayed message is reported as accepted to a sender that still waits, whatever
\* becomes of the upstream connection after the final 250.
THEOREM RelayIsReported == Spec => RelayedIsReported
<1> DEFINE Reported == \A a \in Attempts :
             stage[a] = "quit" /\ stage'[a] = "done" /\ told[a] = "none"
               => told'[a] = "accepted"
<1>1. TypeOK /\ [Next]_vars => [Reported]_vars
  BY ReportStep
<1> QED
  BY <1>1, TypeCorrect, PTL DEF Spec, RelayedIsReported
===============================================================================
