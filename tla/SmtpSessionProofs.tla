--------------------------- MODULE SmtpSessionProofs ---------------------------
(***************************************************************************)
(* What holds of every inbound SMTP session, for all addresses, sizes and    *)
(* settings.                                                                 *)
(***************************************************************************)
EXTENDS SmtpSession, TLAPS

\* Where AUTH is required, the session and its replies agree on the login.
AuthInv == RequireAuth => (authenticated = view.auth)

\* Recipients were accepted one by one, and only allowed ones.
RecipientsInv == recipients \subseteq Allowed

\* In a message: it was entered by an authorised client with recipients, and what is
\* stored so far is what was sent so far, unless it is too large already.
DataInv ==
  inData =>
    /\ authState = "none" /\ ~Processing
    /\ RequireAuth => authenticated
    /\ recipients # {}
    /\ dataTooLarge \/ (dataLines = view.txn.text /\ Len(dataLines) <= MaxSize)

\* While a message is processed, nothing else happens to the transaction.
ProcessingInv ==
  Processing =>
    /\ RequireAuth => authenticated
    /\ message.recipients = recipients /\ recipients # {}
    /\ message.data = view.txn.text /\ Len(message.data) <= MaxSize

SessionInv ==
  TransactionAsAgreed /\ AuthInv /\ RecipientsInv /\ DataInv /\ ProcessingInv

-------------------------------------------------------------------------------
\* Taking a line off the buffer.
LEMMA NextLineTypes ==
  ASSUME TypeOK, NEW line, NextLine(line)
  PROVE  line \in Line /\ buffer' \in Seq(Line) /\ ~Processing
<1> HIDE DEF Line
<1> QED
  BY DEF TypeOK, NextLine

LEMMA EmptyTypes ==
  /\ <<>> \in Seq(Line)
  /\ NoMessage \in Message
  /\ NoTransaction \in Transaction
  /\ [NoTransaction EXCEPT !.sender = TRUE] \in Transaction
<1> HIDE DEF Line
<1>1. <<>> \in Seq(Line)
  OBVIOUS
<1> QED
  BY <1>1 DEF NoMessage, Message, NoTransaction, Transaction

LEMMA TransactionTypes ==
  ASSUME NEW t \in Transaction
  PROVE  /\ \A r \in Addresses : [t EXCEPT !.rcpts = @ \cup {r}] \in Transaction
         /\ [t EXCEPT !.text = <<>>] \in Transaction
         /\ \A line \in Line :
              [t EXCEPT !.text = IF Len(@) > MaxSize THEN @ ELSE Append(@, line)]
                \in Transaction
<1> HIDE DEF Line
<1>1. \A line \in Line : Append(t.text, line) \in Seq(Line)
  BY DEF Transaction
<1> QED
  BY <1>1, EmptyTypes DEF Transaction

LEMMA LoginTypes ==
  ASSUME TypeOK, NEW valid \in BOOLEAN, FinishCredentials(valid)
  PROVE  /\ authenticated' \in BOOLEAN /\ authState' = "none"
         /\ view' \in [auth : BOOLEAN, txn : Transaction]
BY DEF TypeOK, FinishCredentials, Learn

\* Every variable of SmtpSession keeps its type.
THEOREM TypeCorrect == Spec => []TypeOK
<1>1. ASSUME Init PROVE TypeOK
  <2>1. authenticated \in BOOLEAN
    BY <1>1, SessionAssumption DEF Init
  <2>2. buffer \in Seq(Line) /\ dataLines \in Seq(Line) /\ message \in Message
    BY <1>1, EmptyTypes DEF Init
  <2>3. view \in [auth : BOOLEAN, txn : Transaction]
    BY <1>1, EmptyTypes DEF Init
  <2> QED
    BY <1>1, <2>1, <2>2, <2>3 DEF Init, TypeOK
<1>2. TypeOK /\ [Next]_vars => TypeOK'
  <2> SUFFICES ASSUME TypeOK, [Next]_vars PROVE TypeOK'
    OBVIOUS
  <2>1. ASSUME NEW line \in Line, Receive(line) PROVE TypeOK'
    BY <2>1 DEF TypeOK, Receive, sessionVars, txnVars
  <2>2. ASSUME NEW line \in Line, CommandStep(line) PROVE TypeOK'
    <3>0. NextLine(line)
      BY <2>2 DEF CommandStep, Ehlo, Rset, Quit, MailFrom, RcptTo, Data, OtherCommand,
                  Auth, AuthContinuation, Command
    <3>b. buffer' \in Seq(Line)
      BY <3>0, NextLineTypes
    <3>1. CASE Ehlo(line)
      BY <3>b, <3>1, EmptyTypes
      DEF TypeOK, Ehlo, ResetTransaction, Reply, Learn
    <3>2. CASE Rset(line)
      BY <3>b, <3>2, EmptyTypes
      DEF TypeOK, Rset, ResetTransaction, Reply, Learn, sessionVars
    <3>3. CASE Quit(line)
      BY <3>b, <3>3, EmptyTypes
      DEF TypeOK, Quit, Close, sessionVars, txnVars
    <3>4. CASE MailFrom(line)
      BY <3>b, <3>4, EmptyTypes
      DEF TypeOK, MailFrom, Reply, Learn, sessionVars
    <3>5. CASE RcptTo(line)
      BY <3>b, <3>5, EmptyTypes, SessionAssumption, TransactionTypes
      DEF TypeOK, RcptTo, Reply, Learn, sessionVars
    <3>6. CASE Data(line)
      BY <3>b, <3>6, EmptyTypes, TransactionTypes
      DEF TypeOK, Data, Reply, Learn, sessionVars
    <3>7. CASE OtherCommand(line)
      BY <3>b, <3>7, EmptyTypes
      DEF TypeOK, OtherCommand, NoEffect, Reply, sessionVars, txnVars
    <3>8. CASE Auth(line) \/ AuthContinuation(line)
      <4>1. /\ authenticated' \in BOOLEAN
            /\ authState' \in {"none", "PLAIN", "LOGIN_USER", "LOGIN_PASS", "LOGIN_PASS_BAD"}
            /\ view' \in [auth : BOOLEAN, txn : Transaction]
        <5>1. CASE authenticated' = authenticated /\ view' = view
          BY <3>8, <5>1 DEF TypeOK, Auth, AuthContinuation, FinishCredentials
        <5>2. CASE \E valid \in BOOLEAN : FinishCredentials(valid)
          BY <5>2, LoginTypes
        <5> QED
          BY <3>8, <5>1, <5>2 DEF Auth, AuthContinuation
      <4>2. UNCHANGED <<helo, txnVars, message>> /\ conn' \in {conn, "destroyed"}
        BY <3>8 DEF Auth, AuthContinuation, Reply
      <4> QED
        BY <3>b, <4>1, <4>2 DEF TypeOK, txnVars
    <3> QED
      BY <2>2, <3>1, <3>2, <3>3, <3>4, <3>5, <3>6, <3>7, <3>8 DEF CommandStep
  <2>3. ASSUME NEW line \in Line, DataStep(line) PROVE TypeOK'
    <3>0. NextLine(line)
      BY <2>3 DEF DataStep, DataLine, MessageTooLarge, EndOfData
    <3>b. buffer' \in Seq(Line)
      BY <3>0, NextLineTypes
    <3>1. CASE DataLine(line)
      <4>1. Sent(line) \in Transaction
        BY TransactionTypes DEF TypeOK, Sent
      <4>2. Append(dataLines, line) \in Seq(Line)
        BY DEF TypeOK
      <4> QED
        BY <3>b, <3>1, <4>1, <4>2, EmptyTypes DEF TypeOK, DataLine, Learn, sessionVars
    <3>2. CASE MessageTooLarge(line)
      BY <3>b, <3>2, EmptyTypes
      DEF TypeOK, MessageTooLarge, ResetTransaction, Reply, Learn, sessionVars
    <3>3. CASE EndOfData(line)
      BY <3>b, <3>3, EmptyTypes
      DEF TypeOK, EndOfData, sessionVars, Message
    <3> QED
      BY <2>3, <3>1, <3>2, <3>3 DEF DataStep
  <2>4. CASE MessageDone
    BY <2>4, EmptyTypes
    DEF TypeOK, MessageDone, ResetTransaction, Reply, Learn, sessionVars
  <2>5. CASE TimeoutOrEnd
    BY <2>5 DEF TypeOK, TimeoutOrEnd, Close, sessionVars, txnVars
  <2>6. CASE UNCHANGED vars
    BY <2>6 DEF TypeOK, vars, sessionVars, txnVars
  <2> QED
    BY <2>1, <2>2, <2>3, <2>4, <2>5, <2>6 DEF Next
<1> QED
  BY <1>1, <1>2, PTL DEF Spec

-------------------------------------------------------------------------------
\* SessionInv is inductive, relative to TypeOK.
LEMMA SessionStep == TypeOK /\ SessionInv /\ [Next]_vars => SessionInv'
<1> SUFFICES ASSUME TypeOK, SessionInv, [Next]_vars PROVE SessionInv'
  OBVIOUS
<1> USE DEF SessionInv, TransactionAsAgreed, AuthInv, RecipientsInv, DataInv,
            ProcessingInv, Processing
<1>1. ASSUME NEW line \in Line, Receive(line) PROVE SessionInv'
  BY <1>1 DEF Receive, sessionVars, txnVars
<1>2. ASSUME NEW line \in Line, CommandStep(line) PROVE SessionInv'
  <2>1. CASE Ehlo(line)
    BY <2>1 DEF Ehlo, Command, NextLine, ResetTransaction, Learn, NoTransaction
  <2>2. CASE Rset(line)
    BY <2>2 DEF Rset, Command, NextLine, ResetTransaction, Learn, NoTransaction, sessionVars
  <2>3. CASE Quit(line)
    BY <2>3 DEF Quit, Command, NextLine, sessionVars, txnVars
  <2>4. CASE MailFrom(line)
    BY <2>4 DEF MailFrom, Command, NextLine, Learn, NoTransaction, sessionVars
  <2>5. CASE RcptTo(line)
    BY <2>5 DEF RcptTo, Command, NextLine, Learn, TypeOK, Transaction, sessionVars
  <2>6. CASE Data(line)
    <3>1. dataLines' = view'.txn.text /\ Len(dataLines') <= MaxSize
      BY <2>6, SessionAssumption DEF Data, Learn, TypeOK, Transaction
    <3>2. view'.auth = view.auth /\ view'.txn.sender = view.txn.sender
          /\ view'.txn.rcpts = view.txn.rcpts
      BY <2>6 DEF Data, Learn, TypeOK, Transaction
    <3> QED
      BY <2>6, <3>1, <3>2 DEF Data, Command, NextLine, MayMail, sessionVars
  <2>7. CASE OtherCommand(line)
    BY <2>7 DEF OtherCommand, Command, NextLine, NoEffect, sessionVars, txnVars
  <2>8. CASE Auth(line)
    <3>1. /\ ~inData /\ ~Processing /\ UNCHANGED <<txnVars, message>>
          /\ \/ UNCHANGED <<authenticated, view>>
             \/ \E valid : FinishCredentials(valid)
      BY <2>8 DEF Auth, Command, NextLine
    <3> QED
      BY <3>1 DEF FinishCredentials, Learn, txnVars
  <2>9. CASE AuthContinuation(line)
    BY <2>9 DEF AuthContinuation, NextLine, FinishCredentials, Learn, txnVars
  <2> QED
    BY <1>2, <2>1, <2>2, <2>3, <2>4, <2>5, <2>6, <2>7, <2>8, <2>9 DEF CommandStep
<1>3. ASSUME NEW line \in Line, DataStep(line) PROVE SessionInv'
  <2>1. CASE DataLine(line)
    <3>1. view'.auth = view.auth /\ view'.txn.sender = view.txn.sender
          /\ view'.txn.rcpts = view.txn.rcpts
      BY <2>1 DEF DataLine, Sent, Learn, TypeOK, Transaction
    <3>2. ASSUME ~dataTooLarge'
          PROVE dataLines' = view'.txn.text /\ Len(dataLines') <= MaxSize
      <4>1. /\ dataLines = view.txn.text /\ Len(dataLines) < MaxSize
            /\ dataLines' = Append(dataLines, line)
        BY <2>1, <3>2, SessionAssumption DEF DataLine, TypeOK
      <4>2. view'.txn.text = Append(view.txn.text, line)
        BY <2>1, <4>1, SessionAssumption DEF DataLine, Sent, Learn, TypeOK, Transaction
      <4> QED
        BY <4>1, <4>2, SessionAssumption DEF TypeOK
    <3> QED
      BY <2>1, <3>1, <3>2 DEF DataLine, NextLine, sessionVars
  <2>2. CASE MessageTooLarge(line)
    BY <2>2 DEF MessageTooLarge, NextLine, ResetTransaction, Learn, NoTransaction, sessionVars
  <2>3. CASE EndOfData(line)
    BY <2>3 DEF EndOfData, sessionVars
  <2> QED
    BY <1>3, <2>1, <2>2, <2>3 DEF DataStep
<1>4. CASE MessageDone
  BY <1>4 DEF MessageDone, ResetTransaction, Learn, NoTransaction, sessionVars
<1>5. CASE TimeoutOrEnd
  BY <1>5 DEF TimeoutOrEnd, sessionVars, txnVars
<1>6. CASE UNCHANGED vars
  BY <1>6 DEF vars, sessionVars, txnVars
<1> QED
  BY <1>1, <1>2, <1>3, <1>4, <1>5, <1>6 DEF Next

LEMMA SessionInvariant == Spec => []SessionInv
<1>1. ASSUME Init PROVE SessionInv
  <2>1. AuthInv
    BY <1>1, SessionAssumption DEF Init, AuthInv
  <2>2. ~Processing /\ ~inData
    BY <1>1 DEF Init, Processing
  <2> QED
    BY <1>1, <2>1, <2>2
    DEF Init, SessionInv, TransactionAsAgreed, RecipientsInv, DataInv, ProcessingInv,
        NoTransaction
<1> QED
  BY <1>1, SessionStep, TypeCorrect, PTL DEF Spec

\* A message is processed only for an authorised client and allowed recipients.
THEOREM OnlyAuthorised == Spec => []RelayAuthorised
<1>1. SessionInv => RelayAuthorised
  BY DEF SessionInv, RelayAuthorised, AuthInv, RecipientsInv, ProcessingInv
<1> QED
  BY <1>1, SessionInvariant, PTL

\* The open transaction is the one the replies have agreed to.
THEOREM AlwaysAgreed == Spec => []TransactionAsAgreed
<1>1. SessionInv => TransactionAsAgreed
  BY DEF SessionInv
<1> QED
  BY <1>1, SessionInvariant, PTL

\* A processed message is whole and carries the agreed envelope.
THEOREM AlwaysWhole == Spec => []MessageAsSent
<1>1. SessionInv => MessageAsSent
  BY DEF SessionInv, MessageAsSent, TransactionAsAgreed, ProcessingInv
<1> QED
  BY <1>1, SessionInvariant, PTL
===============================================================================
