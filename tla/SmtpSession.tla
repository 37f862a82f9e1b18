------------------------------ MODULE SmtpSession ------------------------------
(***************************************************************************)
(* One inbound SMTP connection: class SmtpSession of                        *)
(* mail-gateway/lib/smtp-server.js.  The client may pipeline: lines wait in  *)
(* the session's buffer while a message is being processed.  What a line    *)
(* means depends on the session's mode: a command, a line of the message,   *)
(* or a step of an AUTH exchange.                                           *)
(***************************************************************************)
EXTENDS Naturals, Sequences

CONSTANTS
  Addresses,       \* recipient addresses
  Allowed,         \* those isRecipientAllowed accepts
  RequireAuth,     \* options.requireAuth
  AuthConfigured,  \* options.authUsername is set
  MaxSize,         \* maxMessageBytes; a content line counts as one byte
  MaxBuffer        \* bound: lines a client pipelines

ASSUME SessionAssumption ==
  /\ Allowed \subseteq Addresses
  /\ RequireAuth \in BOOLEAN
  /\ AuthConfigured \in BOOLEAN
  /\ MaxSize \in Nat
  /\ MaxBuffer \in Nat

\* A line, by what the three modes make of it: `good` and `bad` are credentials,
\* the rest of a command's syntax is right (ok) or wrong (bad).
Line ==
  [verb : {"EHLO", "MAIL"}, arg : {"ok", "bad"}]
  \cup [verb : {"RCPT"}, arg : Addresses \cup {"bad"}]
  \cup [verb : {"AUTH"}, arg : {"LOGIN", "PLAIN", "PLAIN good", "PLAIN bad", "other"}]
  \cup [verb : {"RSET", "DATA", "QUIT", ".", "*", "good", "bad"}, arg : {"ok"}]

VARIABLES
  buffer,         \* received lines that are not yet handled
  conn,           \* "open", "ended" after socket.end(), or "destroyed"
  helo,           \* EHLO was accepted
  authenticated,
  authState,      \* the AUTH exchange under way
  mailFrom,       \* a reverse path was accepted
  recipients,
  inData, dataLines, dataTooLarge,
  message,        \* the message onMessage is processing (processing = true)
  view            \* history: the dialogue as the replies tell it

sessionVars == <<helo, authenticated, authState>>
txnVars == <<mailFrom, recipients, inData, dataLines, dataTooLarge>>
vars == <<buffer, conn, sessionVars, txnVars, message, view>>

Message == [sender : BOOLEAN, recipients : SUBSET Addresses, data : Seq(Line)]
NoMessage == [sender |-> FALSE, recipients |-> {}, data |-> <<>>]
Processing == message # NoMessage

-------------------------------------------------------------------------------
(* Replies *)

\* socket.write() on an ended socket fails and destroys it.
Reply == conn' = IF conn = "ended" THEN "destroyed" ELSE conn

\* close(): reply, then socket.end().
Close == conn' = IF conn = "open" THEN "ended" ELSE "destroyed"

\* The transaction a client knows of, from the replies alone.
Transaction == [sender : BOOLEAN, rcpts : SUBSET Addresses, text : Seq(Line)]
NoTransaction == [sender |-> FALSE, rcpts |-> {}, text |-> <<>>]
Learn(auth, txn) == view' = [auth |-> auth, txn |-> txn]

ResetTransaction ==
  /\ mailFrom' = FALSE
  /\ recipients' = {}
  /\ inData' = FALSE
  /\ dataLines' = <<>>
  /\ dataTooLarge' = FALSE

-------------------------------------------------------------------------------
(* processBuffer: it handles the first buffered line unless a message is being *)
(* processed.                                                                  *)

Receive(line) ==
  /\ conn # "destroyed"
  /\ Len(buffer) < MaxBuffer
  /\ buffer' = Append(buffer, line)
  /\ UNCHANGED <<conn, sessionVars, txnVars, message, view>>

\* A processBuffer that does not look at the processing flag.
NextLineAlways(line) ==
  /\ buffer # <<>>
  /\ line = Head(buffer)
  /\ buffer' = Tail(buffer)

NextLine(line) ==
  /\ ~Processing
  /\ buffer # <<>>
  /\ line = Head(buffer)
  /\ buffer' = Tail(buffer)

Command(line) == NextLine(line) /\ ~inData /\ authState = "none"

\* A refused or trivial command: 5xx, 252, 454, or 250 to NOOP.
NoEffect == Reply /\ UNCHANGED <<sessionVars, txnVars, message, view>>

\* The checks that come before MAIL, RCPT, DATA and unknown commands.
MayMail == helo /\ (RequireAuth => authenticated)

Ehlo(line) ==
  /\ Command(line)
  /\ line.verb = "EHLO" /\ line.arg = "ok"
  /\ helo' = TRUE
  /\ ResetTransaction
  /\ Reply
  /\ Learn(view.auth, NoTransaction)
  /\ UNCHANGED <<authenticated, authState, message>>

Rset(line) ==
  /\ Command(line)
  /\ line.verb = "RSET"
  /\ ResetTransaction
  /\ Reply
  /\ Learn(view.auth, NoTransaction)
  /\ UNCHANGED <<sessionVars, message>>

Quit(line) ==
  /\ Command(line)
  /\ line.verb = "QUIT"
  /\ Close
  /\ UNCHANGED <<sessionVars, txnVars, message, view>>

\* A second MAIL that keeps the recipients of the first.
MailFromKeeping(line) ==
  /\ Command(line)
  /\ line.verb = "MAIL" /\ line.arg = "ok" /\ MayMail
  /\ mailFrom' = TRUE
  /\ Reply
  /\ Learn(view.auth, [NoTransaction EXCEPT !.sender = TRUE])
  /\ UNCHANGED <<sessionVars, recipients, inData, dataLines, dataTooLarge, message>>

\* A second MAIL starts the transaction over.
MailFrom(line) ==
  /\ Command(line)
  /\ line.verb = "MAIL" /\ line.arg = "ok" /\ MayMail
  /\ mailFrom' = TRUE
  /\ recipients' = {}
  /\ Reply
  /\ Learn(view.auth, [NoTransaction EXCEPT !.sender = TRUE])
  /\ UNCHANGED <<sessionVars, inData, dataLines, dataTooLarge, message>>

RcptTo(line) ==
  /\ Command(line)
  /\ line.verb = "RCPT" /\ line.arg \in Allowed /\ MayMail /\ mailFrom
  /\ recipients' = recipients \cup {line.arg}
  /\ Reply
  /\ Learn(view.auth, [view.txn EXCEPT !.rcpts = @ \cup {line.arg}])
  /\ UNCHANGED <<sessionVars, mailFrom, inData, dataLines, dataTooLarge, message>>

Data(line) ==
  /\ Command(line)
  /\ line.verb = "DATA" /\ MayMail /\ mailFrom /\ recipients # {}
  /\ inData' = TRUE
  /\ dataLines' = <<>>
  /\ dataTooLarge' = FALSE
  /\ Reply
  /\ Learn(view.auth, [view.txn EXCEPT !.text = <<>>])
  /\ UNCHANGED <<sessionVars, mailFrom, recipients, message>>

\* Everything else is answered and changes nothing.
OtherCommand(line) ==
  /\ Command(line)
  /\ line.verb \notin {"RSET", "QUIT"}
  /\ ~(line.verb = "EHLO" /\ line.arg = "ok")
  /\ ~(line.verb = "AUTH" /\ line.arg # "other" /\ AuthConfigured)
  /\ MayMail =>
       /\ ~(line.verb = "MAIL" /\ line.arg = "ok")
       /\ ~(line.verb = "RCPT" /\ line.arg \in Allowed /\ mailFrom)
       /\ ~(line.verb = "DATA" /\ mailFrom /\ recipients # {})
  /\ NoEffect

-------------------------------------------------------------------------------
(* handleAuth, handleAuthContinuation, finishCredentials *)

\* A failed AUTH that leaves the earlier login in place.
FinishCredentialsKeeping(valid) ==
  /\ authenticated' = (valid \/ authenticated)
  /\ authState' = "none"
  /\ Learn(valid, view.txn)

FinishCredentials(valid) ==
  /\ authenticated' = valid
  /\ authState' = "none"
  /\ Learn(valid, view.txn)

Auth(line) ==
  /\ Command(line)
  /\ line.verb = "AUTH" /\ line.arg # "other" /\ AuthConfigured
  /\ IF line.arg \in {"LOGIN", "PLAIN"}
       THEN /\ authState' = IF line.arg = "LOGIN" THEN "LOGIN_USER" ELSE "PLAIN"
            /\ UNCHANGED <<authenticated, view>>
       ELSE FinishCredentials(line.arg = "PLAIN good")
  /\ Reply
  /\ UNCHANGED <<helo, txnVars, message>>

\* Any line continues the exchange; the password is right only after the right
\* user name.
AuthContinuation(line) ==
  /\ NextLine(line)
  /\ ~inData
  /\ authState # "none"
  /\ CASE line.verb = "*" ->
            authState' = "none" /\ UNCHANGED <<authenticated, view>>
       [] line.verb # "*" /\ authState = "LOGIN_USER" ->
            /\ authState' = IF line.verb = "good" THEN "LOGIN_PASS" ELSE "LOGIN_PASS_BAD"
            /\ UNCHANGED <<authenticated, view>>
       [] OTHER ->
            FinishCredentials(line.verb = "good" /\ authState # "LOGIN_PASS_BAD")
  /\ Reply
  /\ UNCHANGED <<helo, txnVars, message>>

-------------------------------------------------------------------------------
(* handleDataLine *)

\* What the client sent; one line more than fits stands for any longer text.
Sent(line) ==
  [view.txn EXCEPT !.text = IF Len(@) > MaxSize THEN @ ELSE Append(@, line)]

DataLine(line) ==
  /\ NextLine(line)
  /\ inData
  /\ line.verb # "."
  /\ IF dataTooLarge \/ Len(dataLines) = MaxSize
       THEN dataTooLarge' = TRUE /\ dataLines' = <<>>
       ELSE dataLines' = Append(dataLines, line) /\ UNCHANGED dataTooLarge
  /\ Learn(view.auth, Sent(line))
  /\ UNCHANGED <<conn, sessionVars, mailFrom, recipients, inData, message>>

\* 552: the transaction is over, nothing is relayed.
MessageTooLarge(line) ==
  /\ NextLine(line)
  /\ inData /\ line.verb = "." /\ dataTooLarge
  /\ ResetTransaction
  /\ Reply
  /\ Learn(view.auth, NoTransaction)
  /\ UNCHANGED <<sessionVars, message>>

\* onMessage is called; nothing else is handled until it returns.
EndOfData(line) ==
  /\ NextLine(line)
  /\ inData /\ line.verb = "." /\ ~dataTooLarge
  /\ inData' = FALSE
  /\ message' = [sender |-> mailFrom, recipients |-> recipients, data |-> dataLines]
  /\ UNCHANGED <<conn, sessionVars, mailFrom, recipients, dataLines, dataTooLarge, view>>

\* onMessage returned or threw: reply, finally { resetTransaction }.
MessageDone ==
  /\ Processing
  /\ message' = NoMessage
  /\ ResetTransaction
  /\ Reply
  /\ Learn(view.auth, NoTransaction)
  /\ UNCHANGED <<buffer, sessionVars>>

\* The socket was idle too long, or the client ended its side.
TimeoutOrEnd ==
  /\ conn # "destroyed"
  /\ Close
  /\ UNCHANGED <<buffer, sessionVars, txnVars, message, view>>

-------------------------------------------------------------------------------
Init ==
  /\ buffer = <<>>
  /\ conn = "open"
  /\ helo = FALSE
  /\ authenticated = ~RequireAuth
  /\ authState = "none"
  /\ mailFrom = FALSE
  /\ recipients = {}
  /\ inData = FALSE
  /\ dataLines = <<>>
  /\ dataTooLarge = FALSE
  /\ message = NoMessage
  /\ view = [auth |-> FALSE, txn |-> NoTransaction]

CommandStep(line) ==
  \/ Ehlo(line) \/ Rset(line) \/ Quit(line) \/ MailFrom(line) \/ RcptTo(line)
  \/ Data(line) \/ OtherCommand(line) \/ Auth(line) \/ AuthContinuation(line)

DataStep(line) == DataLine(line) \/ MessageTooLarge(line) \/ EndOfData(line)

Next ==
  \/ \E line \in Line : Receive(line) \/ CommandStep(line) \/ DataStep(line)
  \/ MessageDone
  \/ TimeoutOrEnd

Spec == Init /\ [][Next]_vars

-------------------------------------------------------------------------------
(* Properties *)

\* Every variable has its type.
TypeOK ==
  /\ buffer \in Seq(Line)
  /\ conn \in {"open", "ended", "destroyed"}
  /\ helo \in BOOLEAN
  /\ authenticated \in BOOLEAN
  /\ authState \in {"none", "PLAIN", "LOGIN_USER", "LOGIN_PASS", "LOGIN_PASS_BAD"}
  /\ mailFrom \in BOOLEAN
  /\ recipients \subseteq Addresses
  /\ inData \in BOOLEAN
  /\ dataLines \in Seq(Line)
  /\ dataTooLarge \in BOOLEAN
  /\ message \in Message
  /\ view \in [auth : BOOLEAN, txn : Transaction]

\* Only a client whose latest AUTH succeeded gets a message processed (where AUTH is
\* required), and only for recipients the listener relays for, however it
\* interleaves AUTH, RSET, EHLO and several transactions.
RelayAuthorised ==
  Processing =>
    /\ RequireAuth => view.auth
    /\ message.recipients # {} /\ message.recipients \subseteq Allowed

\* The session and the replies it has given agree on the open transaction, also
\* when the client pipelines ahead of a message that is still being processed.
TransactionAsAgreed == mailFrom = view.txn.sender /\ recipients = view.txn.rcpts

\* A message is processed whole, with the envelope the replies promised, or not at
\* all: one that is too large is never cut.
MessageAsSent ==
  Processing =>
    /\ message.data = view.txn.text /\ Len(message.data) <= MaxSize
    /\ message.recipients = view.txn.rcpts
===============================================================================
