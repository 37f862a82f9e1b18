------------------------------- MODULE MailRelay -------------------------------
(***************************************************************************)
(* One message on its way through the SMTP gateway: onMessage of            *)
(* mail-gateway/server.js, the analysis it asks for                         *)
(* (lib/veritrust-client.js), the SMTP dialogue with the upstream server    *)
(* (lib/smtp-client.js), and the answer the inbound session gives.  The     *)
(* sender submits the message again when it is deferred; an attempt whose   *)
(* inbound session timed out goes on in the background beside the next one. *)
(***************************************************************************)
EXTENDS Naturals

CONSTANTS
  MaxAttempts,  \* how often the sender submits the message
  Recipients,   \* its envelope recipients
  Decisions,    \* what the analysis may answer
  Configs       \* gateway configurations under consideration

Actions == {"allow", "warn", "manual_review", "hold", "quarantine", "block"}

\* loadConfig: the settings this component reads.
Config == [forward : SUBSET Actions,       \* decisions.forwardActions
           defer : SUBSET Actions,         \* decisions.deferActions
           degradedMode : {"policy", "defer", "reject"},
           apiFailureMode : {"defer", "reject"},
           host : BOOLEAN,                 \* an upstream host is configured
           secure : BOOLEAN,               \* implicit TLS
           startTls : {"off", "auto", "required"},
           username : BOOLEAN]             \* upstream AUTH is configured

\* assertDecision: anything else the API answers is an analysis failure.
Decision == [recommendation : Actions, degraded : BOOLEAN]
NoDecision == [recommendation |-> "none", degraded |-> FALSE]

ASSUME MailRelayAssumption ==
  /\ MaxAttempts \in Nat
  /\ Decisions \subseteq Decision
  /\ Configs \subseteq Config

Attempts == 1..MaxAttempts

VARIABLES
  config,   \* fixed when the gateway starts
  tried,    \* how many attempts the sender has made
  stage,    \* each attempt: what onMessage is waiting for
  answer,   \* the gateway decision it got
  tls,      \* its upstream connection is encrypted
  accepted, \* recipients the upstream server accepted
  up,       \* what the upstream server did with its message
  told      \* the answer the sender got

vars == <<config, tried, stage, answer, tls, accepted, up, told>>

\* The replies relayMessage waits for, in order.
Dialogue == {"greeting", "ehlo", "starttls", "auth", "mail", "rcpt", "data",
             "content", "quit"}
Stages == {"idle", "analysing", "done", "stopped"} \cup Dialogue
InFlight(a) == stage[a] \in {"analysing"} \cup Dialogue

-------------------------------------------------------------------------------
(* Decisions *)

\* A disposition that ignores that a model failed.
DispositionByPolicy(d) ==
  IF d.recommendation \in config.forward THEN "forward"
  ELSE IF d.recommendation \in config.defer THEN "defer" ELSE "reject"

\* dispositionForDecision
Disposition(d) ==
  IF d.degraded /\ config.degradedMode # "policy" THEN config.degradedMode
  ELSE IF d.recommendation \in config.forward THEN "forward"
  ELSE IF d.recommendation \in config.defer THEN "defer" ELSE "reject"

\* 250, 451 and 550 as the sender reads them.
ReplyTo(disposition) == IF disposition = "reject" THEN "refused" ELSE "deferred"

\* Every relay error taken for a rejection by the upstream server.
RelayErrorReplyAny(code) == "refused"

\* upstreamCode >= 500 ? 550 : 451 (an error without a code counts as 0).
RelayErrorReply(code) == IF code = "5xx" THEN "refused" ELSE "deferred"

\* The handler returns and the session replies; after 421 the socket is already
\* ended and the reply goes nowhere.
Finish(a, reply) ==
  /\ stage' = [stage EXCEPT ![a] = "done"]
  /\ told' = [told EXCEPT ![a] = IF @ = "none" THEN reply ELSE @]

-------------------------------------------------------------------------------
(* The sender and the analysis *)

Submit ==
  /\ tried < MaxAttempts
  /\ tried > 0 => told[tried] = "deferred"
  /\ tried' = tried + 1
  /\ stage' = [stage EXCEPT ![tried + 1] = "analysing"]
  /\ UNCHANGED <<config, answer, tls, accepted, up, told>>

\* analyzeTrustedReceiver threw: HTTP error, timeout, incomplete answer.
AnalysisFails(a) ==
  /\ stage[a] = "analysing"
  /\ Finish(a, ReplyTo(config.apiFailureMode))
  /\ UNCHANGED <<config, tried, answer, tls, accepted, up>>

\* The decision came; a message to forward needs an upstream host.
AnalysisDecides(a, d) ==
  /\ stage[a] = "analysing"
  /\ answer' = [answer EXCEPT ![a] = d]
  /\ IF Disposition(d) = "forward" /\ config.host
       THEN /\ stage' = [stage EXCEPT ![a] = "greeting"]
            /\ tls' = [tls EXCEPT ![a] = config.secure]
            /\ UNCHANGED told
       ELSE Finish(a, ReplyTo(Disposition(d))) /\ UNCHANGED tls
  /\ UNCHANGED <<config, tried, accepted, up>>

-------------------------------------------------------------------------------
(* relayMessage: each action is a reply that `expect` allows *)

\* What follows the upstream server's EHLO reply; "none" if relayMessage throws.
AfterEhlo(encrypted, offers) ==
  IF ~encrypted /\ config.startTls # "off" /\ "STARTTLS" \in offers THEN "starttls"
  ELSE IF ~encrypted /\ config.startTls = "required" THEN "none"
  ELSE IF ~config.username THEN "mail"
  ELSE IF "AUTH" \in offers THEN "auth" ELSE "none"

Greeted(a) ==
  /\ stage[a] = "greeting"
  /\ stage' = [stage EXCEPT ![a] = "ehlo"]
  /\ UNCHANGED <<config, tried, answer, tls, accepted, up, told>>

EhloReply(a, offers) ==
  /\ stage[a] = "ehlo"
  /\ LET next == AfterEhlo(tls[a], offers)
     IN IF next = "none"
          THEN Finish(a, RelayErrorReply("none"))
          ELSE stage' = [stage EXCEPT ![a] = next] /\ UNCHANGED told
  /\ UNCHANGED <<config, tried, answer, tls, accepted, up>>

\* 220, the handshake, and EHLO once more.
StartTlsReply(a) ==
  /\ stage[a] = "starttls"
  /\ stage' = [stage EXCEPT ![a] = "ehlo"]
  /\ tls' = [tls EXCEPT ![a] = TRUE]
  /\ UNCHANGED <<config, tried, answer, accepted, up, told>>

AuthReply(a) ==
  /\ stage[a] = "auth"
  /\ stage' = [stage EXCEPT ![a] = "mail"]
  /\ UNCHANGED <<config, tried, answer, tls, accepted, up, told>>

MailReply(a) ==
  /\ stage[a] = "mail"
  /\ stage' = [stage EXCEPT ![a] = "rcpt"]
  /\ UNCHANGED <<config, tried, answer, tls, accepted, up, told>>

RcptReply(a, r) ==
  /\ stage[a] = "rcpt"
  /\ r \notin accepted[a]
  /\ accepted' = [accepted EXCEPT ![a] = @ \cup {r}]
  /\ UNCHANGED <<config, tried, stage, answer, tls, up, told>>

\* DATA sent while some recipient was accepted.
RcptsDoneSome(a) ==
  /\ stage[a] = "rcpt"
  /\ accepted[a] # {}
  /\ stage' = [stage EXCEPT ![a] = "data"]
  /\ UNCHANGED <<config, tried, answer, tls, accepted, up, told>>

\* The loop over the recipients is over: DATA.
RcptsDone(a) ==
  /\ stage[a] = "rcpt"
  /\ accepted[a] = Recipients
  /\ stage' = [stage EXCEPT ![a] = "data"]
  /\ UNCHANGED <<config, tried, answer, tls, accepted, up, told>>

\* 354: the message and the final dot are written.
DataReply(a) ==
  /\ stage[a] = "data"
  /\ stage' = [stage EXCEPT ![a] = "content"]
  /\ up' = [up EXCEPT ![a] = "open"]
  /\ UNCHANGED <<config, tried, answer, tls, accepted, told>>

\* 250 after the final dot.
ContentReply(a) ==
  /\ stage[a] = "content"
  /\ up[a] = "took"
  /\ stage' = [stage EXCEPT ![a] = "quit"]
  /\ UNCHANGED <<config, tried, answer, tls, accepted, up, told>>

\* A QUIT that has to be answered like any other command.
QuitReplyRequired(a) ==
  /\ stage[a] = "quit"
  /\ \E reply \in {"accepted", "deferred"} : Finish(a, reply)
  /\ UNCHANGED <<config, tried, answer, tls, accepted, up>>

\* Whatever the answer to QUIT, or none: the message is relayed.
QuitReply(a) ==
  /\ stage[a] = "quit"
  /\ Finish(a, "accepted")
  /\ UNCHANGED <<config, tried, answer, tls, accepted, up>>

\* A reply `expect` does not allow: SmtpResponseError with its code.
UpstreamRefuses(a, code) ==
  /\ stage[a] \in Dialogue \ {"quit"}
  /\ IF stage[a] = "content"
       THEN up[a] = "open" /\ up' = [up EXCEPT ![a] = "refused"]
       ELSE UNCHANGED up
  /\ Finish(a, RelayErrorReply(code))
  /\ UNCHANGED <<config, tried, answer, tls, accepted>>

\* A client that waits for the answer to the final dot for ever.
UpstreamSilentNotAfterDot(a) ==
  /\ stage[a] \in Dialogue \ {"content", "quit"}
  /\ Finish(a, RelayErrorReply("none"))
  /\ UNCHANGED <<config, tried, answer, tls, accepted, up>>

\* No connection, no reply in time, a malformed one, a failed handshake.
UpstreamSilent(a) ==
  /\ stage[a] \in Dialogue \ {"quit"}
  /\ Finish(a, RelayErrorReply("none"))
  /\ UNCHANGED <<config, tried, answer, tls, accepted, up>>

-------------------------------------------------------------------------------
(* The surroundings *)

\* The upstream server takes a complete message, whether or not anybody still
\* waits for its answer.
UpstreamTakes(a) ==
  /\ up[a] = "open"
  /\ up' = [up EXCEPT ![a] = "took"]
  /\ UNCHANGED <<config, tried, stage, answer, tls, accepted, told>>

\* The inbound socket was idle too long (421 and socket.end()), or the sender hung
\* up; onMessage goes on.
InboundTimeout(a) ==
  /\ InFlight(a)
  /\ told[a] = "none"
  /\ told' = [told EXCEPT ![a] = "deferred"]
  /\ UNCHANGED <<config, tried, stage, answer, tls, accepted, up>>

\* The process exits (shutdown gives it ten seconds) and is started again: every
\* sender that still waits loses its connection.
GatewayStops ==
  /\ \E a \in Attempts : InFlight(a)
  /\ stage' = [a \in Attempts |-> IF InFlight(a) THEN "stopped" ELSE stage[a]]
  /\ told' = [a \in Attempts |->
                IF InFlight(a) /\ told[a] = "none" THEN "deferred" ELSE told[a]]
  /\ UNCHANGED <<config, tried, answer, tls, accepted, up>>

Init ==
  /\ config \in Configs
  /\ tried = 0
  /\ stage = [a \in Attempts |-> "idle"]
  /\ answer = [a \in Attempts |-> NoDecision]
  /\ tls = [a \in Attempts |-> FALSE]
  /\ accepted = [a \in Attempts |-> {}]
  /\ up = [a \in Attempts |-> "none"]
  /\ told = [a \in Attempts |-> "none"]

RelayStep(a) ==
  \/ Greeted(a) \/ StartTlsReply(a) \/ AuthReply(a) \/ MailReply(a)
  \/ \E offers \in SUBSET {"STARTTLS", "AUTH"} : EhloReply(a, offers)
  \/ \E r \in Recipients : RcptReply(a, r)
  \/ RcptsDone(a) \/ DataReply(a) \/ ContentReply(a) \/ QuitReply(a)
  \/ \E code \in {"4xx", "5xx"} : UpstreamRefuses(a, code)
  \/ UpstreamSilent(a)

AnalysisStep(a) ==
  AnalysisFails(a) \/ \E d \in Decisions : AnalysisDecides(a, d)

Next ==
  \/ Submit
  \/ \E a \in Attempts :
       AnalysisStep(a) \/ RelayStep(a) \/ UpstreamTakes(a) \/ InboundTimeout(a)
  \/ GatewayStops

Spec == Init /\ [][Next]_vars

\* Nobody has to answer, but waits have timers: the analysis is aborted, and
\* readLine gives up, after timeoutMs.  That connecting ends is an assumption on
\* the network: connectSocket has no timer of its own.
Fairness ==
  \A a \in Attempts :
    WF_vars(AnalysisFails(a)) /\ WF_vars(UpstreamSilent(a)) /\ WF_vars(QuitReply(a))

FairSpec == Spec /\ Fairness

-------------------------------------------------------------------------------
(* Properties *)

Took == {a \in Attempts : up[a] = "took"}

\* Every variable has its type.
TypeOK ==
  /\ config \in Configs
  /\ tried \in 0..MaxAttempts
  /\ stage \in [Attempts -> Stages]
  /\ answer \in [Attempts -> Decision \cup {NoDecision}]
  /\ tls \in [Attempts -> BOOLEAN]
  /\ accepted \in [Attempts -> SUBSET Recipients]
  /\ up \in [Attempts -> {"none", "open", "took", "refused"}]
  /\ told \in [Attempts -> {"none", "accepted", "deferred", "refused"}]

\* The gateway keeps the promises of a mail hop: 250 only for a message the
\* upstream server holds, 550 only for one it does not hold and never will,
\* however timeouts, retries and late answers interleave.
Hop == INSTANCE MailHop WITH took <- Took
HopSpec == Hop!Spec

\* No copy reaches the upstream server unless the analysis of that very attempt
\* cleared it: a forwarded action, and no degraded decision unless the operator
\* chose to follow the policy (mail-gateway/README.md, 'Enforcement behavior').
DeliveredWasCleared ==
  \A a \in Took :
    /\ answer[a].recommendation \in config.forward
    /\ answer[a].degraded => config.degradedMode = "policy"

\* A copy the upstream server takes is addressed to every recipient of the
\* envelope; a refused recipient stops the whole relay.
WholeEnvelope == \A a \in Took : accepted[a] = Recipients

\* Once the gateway has read the upstream server's 250 the sender is told so,
\* unless its connection is gone: no later failure turns a relayed message into a
\* deferred one that would be sent twice.
RelayedIsReported ==
  [][\A a \in Attempts :
       stage[a] = "quit" /\ stage'[a] = "done" /\ told[a] = "none"
         => told'[a] = "accepted"]_vars

\* With STARTTLS required, credentials and envelope are only sent encrypted.
NothingInCleartext ==
  config.startTls = "required" =>
    \A a \in Attempts : stage[a] \in {"auth", "mail", "rcpt", "data", "content"}
                          => tls[a]

\* Both together: what goes to the upstream server goes whole and, where TLS is
\* required, encrypted.
RelayedAsAgreed == WholeEnvelope /\ NothingInCleartext

\* Every submitted message is answered.
EventuallyAnswered ==
  \A a \in Attempts : stage[a] = "analysing" ~> told[a] # "none"
===============================================================================
