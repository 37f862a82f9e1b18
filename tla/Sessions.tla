------------------------------- MODULE Sessions -------------------------------
(***************************************************************************)
(* Browser sessions: the cookies that lib/routes/account/auth-session.js    *)
(* and lib/browser-session.js set, and what the tabs of one browser show    *)
(* (assets/js/core/supabase-client.js).  The cookies are shared by the      *)
(* tabs; a refresh token is good for one exchange, after which the provider *)
(* (external) accepts only the next one.  A request carries the cookies of  *)
(* the moment it is sent, and its answer writes them when it arrives.       *)
(***************************************************************************)
EXTENDS Naturals, FiniteSets

CONSTANTS
  Tabs,             \* tabs of the browser
  MaxGeneration,    \* bound: exchanges of refresh tokens, sign-ins included
  MaxSessionFaults  \* bound: answers of the provider that are lost

ASSUME SessionsAssumption == MaxGeneration \in Nat \ {0} /\ MaxSessionFaults \in Nat

VARIABLES
  provider,      \* the refresh token it accepts (0: none), and the last one it gave
  accessValid,   \* the access token of the cookies is accepted
  jar,           \* the refresh token of the cookies, 0 when there is none
  shown,         \* currentSession of a tab
  call,          \* a tab's request: its step, its answer, and the refresh token it was
                 \* sent with or brings
  disturbed,     \* history: requests of two tabs overlapped, or the answer of an
                 \* exchange was lost
  sessionFaults  \* history: faults so far

cookies == <<provider, accessValid, jar>>
sessionsVars == <<cookies, shown, call, disturbed, sessionFaults>>

NoCall == [step |-> "idle", token |-> 0, answer |-> "none", retried |-> FALSE]

SessionsInit ==
  /\ provider = [current |-> 0, last |-> 0] /\ accessValid = FALSE /\ jar = 0
  /\ shown = [t \in Tabs |-> FALSE]
  /\ call = [t \in Tabs |-> NoCall]
  /\ disturbed = FALSE /\ sessionFaults = 0

SignedIn == provider.current # 0
InFlight(t) == call[t].step # "idle"

\* signIn, or consumeAuthCallback: a new session, and both cookies.
SignIn(t) ==
  /\ ~InFlight(t) /\ provider.last < MaxGeneration
  /\ provider' = [current |-> provider.last + 1, last |-> provider.last + 1]
  /\ jar' = provider.last + 1 /\ accessValid' = TRUE
  /\ shown' = [shown EXCEPT ![t] = TRUE]
  /\ disturbed' = \E o \in Tabs : InFlight(o)
  /\ UNCHANGED <<call, sessionFaults>>

\* The access token expires; its cookie goes with it.
AccessExpires ==
  /\ accessValid /\ accessValid' = FALSE
  /\ UNCHANGED <<provider, jar, shown, call, disturbed, sessionFaults>>

\* getSession with refresh, by itself or because a call was answered with 401: one
\* request per tab, carrying the cookies.
AskSession(t) ==
  /\ ~InFlight(t)
  /\ call' = [call EXCEPT ![t] = [NoCall EXCEPT !.step = "verifying", !.token = jar]]
  /\ disturbed' = (disturbed \/ \E o \in Tabs : InFlight(o))
  /\ UNCHANGED <<cookies, shown, sessionFaults>>

Answer(t, answer) == call' = [call EXCEPT ![t].step = "answered", ![t].answer = answer]

\* verifiedBrowserSession: the access token is good, or is refused (401, 403) and the
\* refresh token is tried, or the provider fails.
VerifyAccess(t) ==
  /\ call[t].step = "verifying"
  /\ \/ accessValid /\ Answer(t, "verified")
     \/ ~accessValid /\ call[t].token = 0 /\ Answer(t, "none")
     \/ ~accessValid /\ call[t].token # 0 /\ call' = [call EXCEPT ![t].step = "refreshing"]
     \/ Answer(t, "error")
  /\ UNCHANGED <<cookies, shown, disturbed, sessionFaults>>

\* An answer that clears the cookies whatever went wrong.
AnyFailure == {"refused", "error"}

\* isInvalidRefreshCredential: 400, 401 and 403.
ClearsCookies == {"refused"}

\* Answers that bring the cookies of an exchange.  verifiedBrowserSession looks up the
\* user after the cookies are set: when that fails the answer is an error
\* ("unconfirmed") or a refusal ("denied"), and brings them all the same.
Brings == {"exchanged", "unconfirmed", "denied"}

\* Failures that getSession takes for transient ones.
Transient == {"error", "unconfirmed"}

\* refreshBrowserSession at the provider: the next token, a refusal, or a failure,
\* after which it may have exchanged the token all the same.
ExchangeToken(t) ==
  LET next == [current |-> provider.last + 1, last |-> provider.last + 1]
      good == call[t].token = provider.current /\ provider.last < MaxGeneration
  IN /\ call[t].step = "refreshing"
     /\ \/ /\ good /\ provider' = next /\ UNCHANGED sessionFaults
           /\ \E answer \in Brings :
                call' = [call EXCEPT ![t] = [@ EXCEPT !.step = "answered", !.answer = answer,
                                                      !.token = next.current]]
        \/ /\ call[t].token # provider.current /\ Answer(t, "refused")
           /\ UNCHANGED <<provider, sessionFaults>>
        \/ Answer(t, "error") /\ UNCHANGED <<provider, sessionFaults>>
        \/ /\ good /\ sessionFaults < MaxSessionFaults /\ sessionFaults' = sessionFaults + 1
           /\ provider' = next /\ Answer(t, "error")
     /\ disturbed' = (disturbed \/ sessionFaults' # sessionFaults)
     /\ UNCHANGED <<accessValid, jar, shown>>

\* The answer arrives: cookies, then currentSession.  A transient failure is tried
\* once more after 250 ms with the cookies of then; any other is thrown at the caller.
ReceiveSession(t) ==
  LET answer == call[t].answer
      retry == answer \in Transient /\ ~call[t].retried
  IN
  /\ call[t].step = "answered"
  /\ IF answer \in Brings THEN jar' = call[t].token /\ accessValid' = TRUE
     ELSE IF answer \in ClearsCookies THEN jar' = 0 /\ accessValid' = FALSE
     ELSE UNCHANGED <<jar, accessValid>>
  /\ \/ answer \in {"verified", "exchanged"} /\ shown' = [shown EXCEPT ![t] = TRUE]
     \* 401
     \/ answer \in {"none", "refused", "denied"} /\ shown' = [shown EXCEPT ![t] = FALSE]
     \* any other status
     \/ answer \in {"error", "unconfirmed", "denied"} /\ UNCHANGED shown
  /\ call' = [call EXCEPT ![t] =
                IF retry
                THEN [step |-> "verifying", token |-> jar', answer |-> "none", retried |-> TRUE]
                ELSE NoCall]
  /\ UNCHANGED <<provider, disturbed, sessionFaults>>

\* signOut: the provider is told if there is an access token, its failure is
\* swallowed, and the cookies are cleared.  When the request itself fails, the tab
\* shows no session although the cookies are still there.
SignOut(t) ==
  /\ ~InFlight(t) /\ shown[t]
  /\ shown' = [shown EXCEPT ![t] = FALSE]
  /\ \/ /\ jar' = 0 /\ accessValid' = FALSE
        /\ provider' = [provider EXCEPT !.current = 0]
     \/ UNCHANGED cookies
  /\ disturbed' = (disturbed \/ \E o \in Tabs : InFlight(o))
  /\ UNCHANGED <<call, sessionFaults>>

\* signUp while the address is to be confirmed: no cookies, and the tab shows nobody,
\* whoever the cookies are of.
SignUp(t) ==
  /\ ~InFlight(t)
  /\ shown' = [shown EXCEPT ![t] = FALSE]
  /\ disturbed' = (disturbed \/ \E o \in Tabs : InFlight(o))
  /\ UNCHANGED <<cookies, call, sessionFaults>>

SessionsNext ==
  \/ AccessExpires
  \/ \E t \in Tabs :
       \/ SignIn(t) \/ AskSession(t) \/ VerifyAccess(t) \/ ExchangeToken(t) \/ ReceiveSession(t)
       \/ SignOut(t) \/ SignUp(t)

SessionsSpec == SessionsInit /\ [][SessionsNext]_sessionsVars

-------------------------------------------------------------------------------
(* Properties *)

SessionsTypeOK ==
  /\ provider \in [current : 0..MaxGeneration, last : 0..MaxGeneration]
  /\ accessValid \in BOOLEAN /\ jar \in 0..MaxGeneration
  /\ shown \in [Tabs -> BOOLEAN]
  /\ call \in [Tabs -> [step : {"idle", "verifying", "refreshing", "answered"},
                        token : 0..MaxGeneration, retried : BOOLEAN,
                        answer : {"none", "verified", "refused", "error"} \cup Brings]]
  /\ disturbed \in BOOLEAN /\ sessionFaults \in 0..MaxSessionFaults

\* A person who is signed in stays signed in: until they sign out, the cookies hold
\* the token the provider accepts, or an answer that brings it is on its way.  Only
\* overlapping requests of two tabs, or an exchange whose answer is lost, can end a
\* session by itself (auth-session.js:47-64): a provider that is down cannot.
StaysSignedIn ==
  SignedIn /\ ~disturbed =>
    jar = provider.current \/ \E t \in Tabs : call[t].answer \in Brings
===============================================================================
