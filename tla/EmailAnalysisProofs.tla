-------------------------- MODULE EmailAnalysisProofs --------------------------
(***************************************************************************)
(* Proofs about EmailAnalysis: type correctness, one decision for all       *)
(* answers, failures that show, evidence and decision that agree, lineage,  *)
(* and that it implements OneVerdict.                                       *)
(***************************************************************************)
EXTENDS EmailAnalysis, TLAPS

-------------------------------------------------------------------------------
(* The inductive invariant *)

Working == {"claimed", "parsed", "detailed", "specialists", "decided", "published",
            "failing"}

\* The request has claimed its investigation, and it shows.
Touched(r) ==
  \/ pc[r] \in Working
  \/ ~parsed[r]
  \/ \E p \in Parts : found[r][p] # "none"
  \/ decided[r] # NoDecision

ClaimedOnce ==
  /\ \A r \in Requests : Touched(r) => scan[key[r]] \notin {"none", "accepted"}
  /\ \A r, q \in Requests : Touched(r) /\ Touched(q) /\ key[r] = key[q] => r = q

\* Where the request is when its specialists are in a given state.
FoundWhen ==
  \A r \in Requests : \A p \in Parts :
    /\ pc[r] \in {"claimed", "parsed", "detailed"} => found[r][p] = "none"
    /\ found[r][p] = "running"
         => pc[r] \in {"specialists", "failing", "over", "dead"}
    /\ found[r][p] = "running" => rows[key[r]][p] = "none"
    /\ found[r][p] \in {"running", "lost"} => decided[r] = NoDecision
    /\ found[r][p] = "lost" => pc[r] \in {"failing", "over", "dead"}

\* A row is what a request found, unless the request never heard of it.
RowsFound ==
  \A s \in Scans : \A p \in Parts :
    rows[s][p] # "none"
    => \E r \in Requests : key[r] = s /\ found[r][p] \in {rows[s][p], "lost"}

DecidedFrom ==
  \A r \in Requests :
    /\ pc[r] \in {"decided", "published"} => decided[r] # NoDecision
    /\ decided[r] # NoDecision
       => /\ pc[r] \in {"decided", "published", "failing", "over", "dead"}
          /\ \E forensics \in Forensics :
               decided[r] = [inputs |-> CorrelationInputs(r) \cup forensics,
                             rec |-> Recommend(CorrelationInputs(r) \cup forensics)]

ToldDecided ==
  \A s \in Scans : \A d \in Told(s) :
    \E r \in Requests : key[r] = s /\ decided[r] = d

IInv == TypeOK /\ ClaimedOnce /\ FoundWhen /\ RowsFound /\ DecidedFrom /\ ToldDecided

\* A parent that was found fit stays fit until the scan is inserted.
LineageInv ==
  /\ LineageForward
  /\ \A r \in Requests :
       pc[r] = "resolved" => \A p \in ParentOf[key[r]] : MayLink(key[r], p)

\* What the endpoint may show at one moment, and what it would show with the stored
\* response's decision.
DecisionAccounts ==
  \A s \in Scans :
    /\ stored[s] # NoDecision => Recorded(s) \subseteq stored[s].inputs
    /\ ReportedDecision(s) # NoDecision
         => ReportedEvidence(s) \subseteq ReportedDecision(s).inputs

\* What one request does, and what one of its specialists does.
RequestAction(r) ==
  \/ RequestStep(r)
  \/ SubmitFails(r) \/ ClaimFails(r) \/ RequestFails(r) \/ RequestDies(r)

-------------------------------------------------------------------------------
(* Types *)

LEMMA RecommendTyped == \A inputs : Recommend(inputs) \in {"allow", "escalate"}
  BY FailModeAssumption DEF Recommend

LEMMA InputsTyped ==
  ASSUME TypeOK, NEW r \in Requests, NEW forensics \in Forensics
  PROVE CorrelationInputs(r) \cup forensics \subseteq Inputs
<1>1. CorrelationInputs(r) \subseteq Inputs
  <2>1. \A p \in Parts : found[r][p] \in Outcomes
                         => [part |-> p, outcome |-> found[r][p]] \in Inputs
    BY DEF Inputs
  <2>2. [part |-> "parser", outcome |-> "failed"] \in Inputs
    BY DEF Inputs, Outcomes
  <2> QED
    BY <2>1, <2>2 DEF CorrelationInputs
<1>2. forensics \subseteq Inputs
  BY DEF Forensics, Inputs, Outcomes
<1> QED
  BY <1>1, <1>2

LEMMA InitTyped == Init => TypeOK
  BY DEF Answers, Init, TypeOK, Statuses, Outcomes, NoDecision, Decisions, NoAnswer, Places

\* The helpers keep the types of what they change.
LEMMA HelpersTyped ==
  ASSUME TypeOK, NEW r \in Requests
  PROVE /\ \A place \in Places : Goto(r, place) => pc' \in [Requests -> Places]
        /\ \A code \in {200, 202, 409, 500}, d \in Decisions :
             Answer(r, code, d) => /\ pc' \in [Requests -> Places]
                                   /\ answer' \in [Requests -> Answers]
        /\ InsertScan(key[r]) => /\ scan' \in [Scans -> Statuses]
                                 /\ linked' \in [Scans -> SUBSET Scans]
<1>1. ASSUME NEW place \in Places, Goto(r, place) PROVE pc' \in [Requests -> Places]
  BY <1>1 DEF Goto, TypeOK
<1>2. ASSUME NEW code \in {200, 202, 409, 500}, NEW d \in Decisions, Answer(r, code, d)
      PROVE pc' \in [Requests -> Places] /\ answer' \in [Requests -> Answers]
  <2>1. [code |-> code, decision |-> d] \in Answers
    BY DEF Answers
  <2>2. "over" \in Places
    BY DEF Places
  <2>3. pc \in [Requests -> Places] /\ answer \in [Requests -> Answers]
    BY DEF TypeOK
  <2> QED
    BY <1>2, <2>1, <2>2, <2>3 DEF Answer
<1>3. ASSUME InsertScan(key[r])
      PROVE scan' \in [Scans -> Statuses] /\ linked' \in [Scans -> SUBSET Scans]
  <2>1. /\ key[r] \in Scans
        /\ scan \in [Scans -> Statuses]
        /\ linked \in [Scans -> SUBSET Scans]
        /\ ParentOf[key[r]] \in SUBSET Scans
    BY EmailAssumption DEF TypeOK
  <2>2. "accepted" \in Statuses
    BY DEF Statuses
  <2> QED
    BY <1>3, <2>1, <2>2 DEF InsertScan
<1> QED
  BY <1>1, <1>2, <1>3

LEMMA NextTyped == TypeOK /\ [Next]_vars => TypeOK'
<1> SUFFICES ASSUME TypeOK, [Next]_vars PROVE TypeOK'
  OBVIOUS
<1> USE DEF TypeOK, dbVars, requestVars
<1>1. NoDecision \in Decisions
  BY DEF NoDecision, Decisions
<1>2. ASSUME NEW r \in Requests, RequestAction(r) PROVE TypeOK'
  <2>1. CASE ResolveParent(r)
    BY <1>1, <2>1, HelpersTyped DEF ResolveParent, Places
  <2>2. CASE Submit(r)
    BY <2>2, HelpersTyped DEF Submit, Places
  <2>3. CASE SubmitFails(r)
    BY <1>1, <2>3, HelpersTyped DEF SubmitFails
  <2>4. CASE ClaimScan(r)
    BY <1>1, <2>4, HelpersTyped DEF ClaimScan, Places, Statuses
  <2>5. CASE ClaimFails(r)
    BY <1>1, <2>5, HelpersTyped DEF ClaimFails, Statuses
  <2>6. ASSUME NEW ok \in BOOLEAN, Parse(r, ok) PROVE TypeOK'
    BY <2>6, HelpersTyped DEF Parse, Places
  <2>7. CASE PersistDetails(r)
    BY <2>7, HelpersTyped DEF PersistDetails, Places
  <2>8. CASE StartSpecialists(r)
    BY <2>8, HelpersTyped DEF StartSpecialists, Outcomes, Places
  <2>9. ASSUME NEW forensics \in Forensics, Correlate(r, forensics) PROVE TypeOK'
    <3> DEFINE inputs == CorrelationInputs(r) \cup forensics
    <3>1. [inputs |-> inputs, rec |-> Recommend(inputs)] \in Decisions
      BY InputsTyped, RecommendTyped DEF Decisions
    <3> HIDE DEF inputs
    <3>2. decided' = [decided EXCEPT ![r] =
                        [inputs |-> inputs, rec |-> Recommend(inputs)]]
      BY <2>9 DEF Correlate, inputs
    <3>3. decided' \in [Requests -> Decisions]
      BY <3>1, <3>2
    <3>4. UNCHANGED <<dbVars, key, parsed, found, answer>>
      BY <2>9 DEF Correlate
    <3>5. pc' \in [Requests -> Places]
      BY <2>9, HelpersTyped DEF Correlate, Places
    <3> QED
      BY <3>3, <3>4, <3>5
  <2>10. CASE PublishDecision(r)
    BY <2>10, HelpersTyped DEF PublishDecision, Places, Statuses
  <2>11. CASE PublishFails(r)
    BY <2>11, HelpersTyped DEF PublishFails, Places
  <2>12. CASE StoreResponse(r)
    <3>1. pc' \in [Requests -> Places] /\ answer' \in [Requests -> Answers]
      BY <2>12, HelpersTyped DEF StoreResponse
    <3>2. stored' \in [Scans -> Decisions]
      <4>1. CASE stored' = stored
        BY <4>1
      <4>2. CASE stored' = [stored EXCEPT ![key[r]] = decided[r]]
        BY <4>2
      <4> QED
        BY <2>12, <4>1, <4>2 DEF StoreResponse
    <3> QED
      BY <2>12, <3>1, <3>2 DEF StoreResponse
  <2>13. CASE FailScan(r)
    <3>1. pc' \in [Requests -> Places] /\ answer' \in [Requests -> Answers]
      BY <1>1, <2>13, HelpersTyped DEF FailScan
    <3>2. scan' \in [Scans -> Statuses] /\ unnoted' \subseteq Scans
      BY <2>13 DEF FailScan, Statuses
    <3> QED
      BY <2>13, <3>1, <3>2 DEF FailScan
  <2>14. CASE RequestFails(r) \/ RequestDies(r)
    BY <2>14, HelpersTyped DEF RequestFails, RequestDies, Places
  <2> QED
    BY <1>2, <2>1, <2>2, <2>3, <2>4, <2>5, <2>6, <2>7, <2>8, <2>9, <2>10, <2>11,
       <2>12, <2>13, <2>14 DEF RequestAction, RequestStep
<1>3. ASSUME NEW r \in Requests, NEW p \in Parts, SpecialistStep(r, p) PROVE TypeOK'
  <2>1. CASE PrepareFails(r, p)
    BY <2>1 DEF PrepareFails, Outcomes
  <2>2. ASSUME NEW o \in Outcomes, Record(r, p, o) PROVE TypeOK'
    BY <2>2 DEF Record
  <2>3. ASSUME NEW o \in Outcomes, RecordFails(r, p, o) PROVE TypeOK'
    <3>1. pc' \in [Requests -> Places]
      BY <2>3 DEF RecordFails, Places
    <3>2. rows' \in [Scans -> [Parts -> Outcomes \cup {"none"}]]
      <4>1. CASE rows' = rows
        BY <4>1
      <4>2. CASE rows' = [rows EXCEPT ![key[r]][p] = o]
        BY <4>2
      <4> QED
        BY <2>3, <4>1, <4>2 DEF RecordFails
    <3> QED
      BY <2>3, <3>1, <3>2 DEF RecordFails
  <2> QED
    BY <1>3, <2>1, <2>2, <2>3 DEF SpecialistStep
<1>4. ASSUME NEW s \in Scans, CancelScan(s) PROVE TypeOK'
  <2>1. ASSUME NEW c \in {"cancel_requested", "cancelled"},
               scan' = [scan EXCEPT ![s] = c]
        PROVE scan' \in [Scans -> Statuses]
    BY <2>1 DEF Statuses
  <2> QED
    BY <1>4, <2>1 DEF CancelScan
<1>5. CASE UNCHANGED vars
  BY <1>5 DEF vars
<1> QED
  BY <1>2, <1>3, <1>4, <1>5 DEF Next, RequestAction

\* Every variable keeps its type, for any requests, investigations and links.
THEOREM TypeCorrect == Spec => []TypeOK
  BY InitTyped, NextTyped, PTL DEF Spec

-------------------------------------------------------------------------------
(* One claim *)

LEMMA Domains ==
  ASSUME TypeOK
  PROVE /\ DOMAIN pc = Requests /\ DOMAIN parsed = Requests /\ DOMAIN found = Requests
        /\ DOMAIN decided = Requests /\ DOMAIN answer = Requests
        /\ DOMAIN scan = Scans /\ DOMAIN rows = Scans /\ DOMAIN stored = Scans
        /\ DOMAIN decision = Scans /\ DOMAIN linked = Scans
        /\ \A r \in Requests : key[r] \in Scans /\ DOMAIN found[r] = Parts
        /\ \A s \in Scans : DOMAIN rows[s] = Parts
  BY DEF TypeOK

\* A request does not touch the local state of another.
LEMMA OthersKeep ==
  ASSUME TypeOK, NEW r \in Requests,
         RequestAction(r) \/ \E p \in Parts : SpecialistStep(r, p)
  PROVE /\ key' = key
        /\ \A q \in Requests \ {r} :
             /\ pc'[q] = pc[q] /\ parsed'[q] = parsed[q] /\ found'[q] = found[q]
             /\ decided'[q] = decided[q] /\ answer'[q] = answer[q]
<1> USE Domains DEF Goto, Answer
<1>1. CASE ResolveParent(r) \/ Submit(r) \/ SubmitFails(r)
  BY <1>1 DEF ResolveParent, Submit, SubmitFails
<1>2. CASE ClaimScan(r) \/ ClaimFails(r)
  BY <1>2 DEF ClaimScan, ClaimFails
<1>3. CASE \E ok \in BOOLEAN : Parse(r, ok)
  BY <1>3 DEF Parse
<1>4. CASE PersistDetails(r) \/ StartSpecialists(r)
  BY <1>4 DEF PersistDetails, StartSpecialists
<1>5. CASE \E forensics \in Forensics : Correlate(r, forensics)
  BY <1>5 DEF Correlate
<1>6. CASE PublishDecision(r) \/ PublishFails(r) \/ StoreResponse(r)
  BY <1>6 DEF PublishDecision, PublishFails, StoreResponse
<1>7. CASE FailScan(r) \/ RequestFails(r) \/ RequestDies(r)
  BY <1>7 DEF FailScan, RequestFails, RequestDies
<1>8. ASSUME NEW p \in Parts, SpecialistStep(r, p)
      PROVE /\ key' = key /\ parsed' = parsed /\ decided' = decided /\ answer' = answer
            /\ \A q \in Requests \ {r} : pc'[q] = pc[q] /\ found'[q] = found[q]
  BY <1>8 DEF SpecialistStep, PrepareFails, Record, RecordFails
<1> QED
  BY <1>1, <1>2, <1>3, <1>4, <1>5, <1>6, <1>7, <1>8 DEF RequestAction, RequestStep

LEMMA CancelKeeps ==
  ASSUME NEW s \in Scans, CancelScan(s)
  PROVE UNCHANGED <<linked, details, rows, decision, stored, unnoted, requestVars>>
  BY DEF CancelScan

\* A scan that has left 'accepted' does not come back to it.
LEMMA ScanMovesOn ==
  ASSUME TypeOK, [Next]_vars, NEW s \in Scans, scan[s] \notin {"none", "accepted"}
  PROVE scan'[s] \notin {"none", "accepted"}
<1> USE Domains
<1>1. ASSUME NEW r \in Requests, RequestAction(r)
      PROVE scan'[s] \notin {"none", "accepted"}
  <2>1. CASE Submit(r) \/ SubmitFails(r)
    BY <2>1 DEF Submit, SubmitFails, InsertScan
  <2>2. CASE ClaimScan(r) \/ ClaimFails(r)
    BY <2>2 DEF ClaimScan, ClaimFails
  <2>3. CASE PublishDecision(r) \/ FailScan(r)
    BY <2>3 DEF PublishDecision, FailScan
  <2>4. CASE scan' = scan
    BY <2>4
  <2> QED
    BY <1>1, <2>1, <2>2, <2>3, <2>4
       DEF RequestAction, RequestStep, ResolveParent, Parse, PersistDetails,
           StartSpecialists, Correlate, PublishFails, StoreResponse, RequestFails,
           RequestDies, dbVars
<1>2. ASSUME NEW r \in Requests, NEW p \in Parts, SpecialistStep(r, p)
      PROVE scan' = scan
  BY <1>2 DEF SpecialistStep, PrepareFails, Record, RecordFails, dbVars
<1>3. ASSUME NEW t \in Scans, CancelScan(t)
      PROVE scan'[s] \notin {"none", "accepted"}
  BY <1>3 DEF CancelScan
<1> QED
  BY <1>1, <1>2, <1>3 DEF Next, RequestAction, vars, dbVars

\* A request first touches its investigation by claiming it.
LEMMA TouchedByClaim ==
  ASSUME TypeOK, NEW r \in Requests, Touched(r)', ~Touched(r),
         RequestAction(r) \/ \E p \in Parts : SpecialistStep(r, p)
  PROVE scan[key[r]] = "accepted" /\ scan'[key[r]] = "processing"
<1> USE Domains DEF Goto, Answer, Touched, Working
<1>1. pc[r] \notin Working
  OBVIOUS
<1>2. CASE ResolveParent(r) \/ Submit(r) \/ SubmitFails(r) \/ ClaimFails(r)
  BY <1>2 DEF ResolveParent, Submit, SubmitFails, ClaimFails
<1>3. CASE ClaimScan(r)
  BY <1>3 DEF ClaimScan, Claims
<1>4. CASE RequestDies(r)
  BY <1>4 DEF RequestDies
<1>5. ASSUME NEW p \in Parts, SpecialistStep(r, p) PROVE FALSE
  BY <1>5 DEF SpecialistStep, PrepareFails, Record, RecordFails, Running
<1> QED
  BY <1>1, <1>2, <1>3, <1>4, <1>5
     DEF RequestAction, RequestStep, Parse, PersistDetails, StartSpecialists, Correlate,
         PublishDecision, PublishFails, StoreResponse, FailScan, RequestFails

LEMMA ClaimedOnceStep == TypeOK /\ ClaimedOnce /\ [Next]_vars => ClaimedOnce'
<1> SUFFICES ASSUME TypeOK, ClaimedOnce, [Next]_vars PROVE ClaimedOnce'
  OBVIOUS
<1>1. ASSUME NEW r \in Requests,
             RequestAction(r) \/ \E p \in Parts : SpecialistStep(r, p)
      PROVE ClaimedOnce'
  <2>1. key' = key
    BY <1>1, OthersKeep
  <2>2. \A q \in Requests \ {r} : Touched(q)' => Touched(q)
    BY <1>1, OthersKeep DEF Touched
  <2>3. \A s \in Scans : scan[s] \notin {"none", "accepted"}
                         => scan'[s] \notin {"none", "accepted"}
    BY ScanMovesOn
  <2>4. Touched(r)' /\ ~Touched(r)
        => scan[key[r]] = "accepted" /\ scan'[key[r]] = "processing"
    BY <1>1, TouchedByClaim
  <2>5. \A q \in Requests : Touched(q)' => scan'[key[q]] \notin {"none", "accepted"}
    BY <2>2, <2>3, <2>4, Domains DEF ClaimedOnce
  <2>6. ASSUME NEW q \in Requests, NEW o \in Requests,
               Touched(q)', Touched(o)', key[q] = key[o]
        PROVE q = o
    BY <2>2, <2>4, <2>6 DEF ClaimedOnce
  <2> QED
    BY <2>1, <2>5, <2>6 DEF ClaimedOnce
<1>2. CASE UNCHANGED requestVars
  <2>1. \A q \in Requests : Touched(q)' <=> Touched(q)
    BY <1>2 DEF Touched, requestVars
  <2> QED
    BY <1>2, <2>1, ScanMovesOn, Domains DEF ClaimedOnce, requestVars
<1> QED
  BY <1>1, <1>2, CancelKeeps DEF Next, RequestAction, vars

-------------------------------------------------------------------------------
(* What is found and recorded *)

LEMMA RequestRows ==
  ASSUME NEW r \in Requests, RequestAction(r)
  PROVE rows' = rows
  BY DEF RequestAction, RequestStep, ResolveParent, Submit, SubmitFails, ClaimScan,
         ClaimFails, Parse, PersistDetails, StartSpecialists, Correlate,
         PublishDecision, PublishFails, StoreResponse, FailScan, RequestFails,
         RequestDies, dbVars

\* One entry of a table is replaced.
LEMMA NestedExcept ==
  ASSUME NEW f, NEW g, NEW i \in DOMAIN f, NEW k \in DOMAIN f[i], NEW v,
         g = [f EXCEPT ![i][k] = v]
  PROVE /\ g[i][k] = v
        /\ \A l \in DOMAIN f[i] \ {k} : g[i][l] = f[i][l]
        /\ \A j \in DOMAIN f \ {i} : g[j] = f[j]
  OBVIOUS

\* A specialist of a request works on one row.
LEMMA SpecialistEffect ==
  ASSUME TypeOK, NEW r \in Requests, NEW p \in Parts, SpecialistStep(r, p)
  PROVE /\ found[r][p] = "running"
        /\ found'[r][p] \in Outcomes \cup {"lost"}
        /\ \A q \in Parts \ {p} : found'[r][q] = found[r][q]
        /\ \/ rows'[key[r]][p] \in {rows[key[r]][p], found'[r][p]}
           \/ (found'[r][p] = "lost" /\ rows'[key[r]][p] \in Outcomes)
        /\ \A s \in Scans, q \in Parts :
             s # key[r] \/ q # p => rows'[s][q] = rows[s][q]
        /\ pc'[r] = pc[r] \/ (pc[r] = "specialists" /\ pc'[r] = "failing")
        /\ found'[r][p] = "lost" => pc'[r] # "specialists"
<1> DEFINE Found(v) == found' = [found EXCEPT ![r][p] = v]
           Row(v) == rows' = [rows EXCEPT ![key[r]][p] = v]
           RowsElsewhere == \A s \in Scans, q \in Parts :
                              s # key[r] \/ q # p => rows'[s][q] = rows[s][q]
<1>1. ASSUME NEW v, Found(v)
      PROVE /\ found'[r][p] = v
            /\ \A q \in Parts \ {p} : found'[r][q] = found[r][q]
  BY <1>1, NestedExcept, Domains
<1>2. ASSUME NEW v, Row(v) PROVE rows'[key[r]][p] = v /\ RowsElsewhere
  <2>1. /\ key[r] \in Scans /\ DOMAIN rows = Scans
        /\ DOMAIN rows[key[r]] = Parts /\ p \in Parts
    BY Domains
  <2> DEFINE t == rows'
             k == key[r]
  <2>2. t = [rows EXCEPT ![k][p] = v] /\ k \in DOMAIN rows /\ p \in DOMAIN rows[k]
    BY <1>2, <2>1
  <2> HIDE DEF t, k
  <2>3. /\ t[k][p] = v
        /\ \A q \in DOMAIN rows[k] \ {p} : t[k][q] = rows[k][q]
        /\ \A s \in DOMAIN rows \ {k} : t[s] = rows[s]
    BY <2>2, NestedExcept
  <2> QED
    BY <2>1, <2>3 DEF t, k
<1>3. CASE PrepareFails(r, p)
  <2>1. /\ found[r][p] = "running" /\ pc' = pc /\ rows' = rows
        /\ Found("failed")
    BY <1>3 DEF PrepareFails, Running, dbVars
  <2> HIDE DEF Found
  <2> QED
    BY <1>1, <2>1 DEF Outcomes
<1>4. ASSUME NEW o \in Outcomes, Record(r, p, o)
      PROVE /\ found[r][p] = "running" /\ pc' = pc
            /\ found'[r][p] = o /\ rows'[key[r]][p] = o
            /\ \A q \in Parts \ {p} : found'[r][q] = found[r][q]
            /\ RowsElsewhere
  <2>1. found[r][p] = "running" /\ pc' = pc /\ Found(o) /\ Row(o)
    BY <1>4 DEF Record, Running
  <2> HIDE DEF Found, Row, RowsElsewhere
  <2> QED
    BY <1>1, <1>2, <2>1
<1>5. ASSUME NEW o \in Outcomes, RecordFails(r, p, o)
      PROVE /\ found[r][p] = "running"
            /\ found'[r][p] = "lost" /\ rows'[key[r]][p] \in {rows[key[r]][p], o}
            /\ \A q \in Parts \ {p} : found'[r][q] = found[r][q]
            /\ RowsElsewhere
            /\ pc'[r] = pc[r] \/ (pc[r] = "specialists" /\ pc'[r] = "failing")
            /\ pc'[r] # "specialists"
  <2>1. pc'[r] = (IF pc[r] = "specialists" THEN "failing" ELSE pc[r])
    BY <1>5, Domains DEF RecordFails
  <2>2. found[r][p] = "running" /\ Found("lost") /\ (rows' = rows \/ Row(o))
    BY <1>5 DEF RecordFails, Running
  <2>3. rows' = rows => RowsElsewhere
    OBVIOUS
  <2> HIDE DEF Found, Row, RowsElsewhere
  <2>4. rows'[key[r]][p] \in {rows[key[r]][p], o} /\ RowsElsewhere
    BY <1>2, <2>2, <2>3
  <2> QED
    BY <1>1, <2>1, <2>2, <2>4
<1>6. ASSUME NEW o \in Outcomes PROVE o # "lost"
  BY DEF Outcomes
<1> QED
  BY <1>3, <1>4, <1>5, <1>6 DEF SpecialistStep

LEMMA FoundWhenStep ==
  TypeOK /\ ClaimedOnce /\ FoundWhen /\ RowsFound /\ DecidedFrom /\ [Next]_vars
  => FoundWhen'
<1> SUFFICES ASSUME TypeOK, ClaimedOnce, FoundWhen, RowsFound, DecidedFrom, [Next]_vars
             PROVE FoundWhen'
  OBVIOUS
<1> DEFINE Good(r, p) ==
      /\ pc[r] \in {"claimed", "parsed", "detailed"} => found[r][p] = "none"
      /\ found[r][p] = "running"
           => pc[r] \in {"specialists", "failing", "over", "dead"}
      /\ found[r][p] = "running" => rows[key[r]][p] = "none"
      /\ found[r][p] \in {"running", "lost"} => decided[r] = NoDecision
      /\ found[r][p] = "lost" => pc[r] \in {"failing", "over", "dead"}
<1>1. ASSUME NEW r \in Requests, RequestAction(r) PROVE FoundWhen'
  <2>1. \A q \in Requests \ {r}, p \in Parts : Good(q, p)'
    BY <1>1, OthersKeep, RequestRows DEF FoundWhen
  <2>2. ASSUME NEW p \in Parts PROVE Good(r, p)'
    <3>0. Good(r, p) /\ rows' = rows /\ key' = key
      BY <1>1, RequestRows, OthersKeep DEF FoundWhen
    <3> USE Domains DEF Goto, Answer
    <3>1. CASE ResolveParent(r) \/ Submit(r) \/ SubmitFails(r) \/ ClaimFails(r)
      BY <3>0, <3>1 DEF ResolveParent, Submit, SubmitFails, ClaimFails
    <3>2. CASE ClaimScan(r)
      <4>1. Claims(key[r]) => ~Touched(r)
        BY DEF Claims, ClaimedOnce
      <4> QED
        BY <3>0, <3>2, <4>1 DEF ClaimScan, Touched
    <3>3. CASE (\E ok \in BOOLEAN : Parse(r, ok)) \/ PersistDetails(r) \/ RequestFails(r)
      BY <3>0, <3>3 DEF Parse, PersistDetails, RequestFails
    <3>4. CASE StartSpecialists(r)
      <4>1. pc[r] = "detailed" /\ decided' = decided /\ found[r][p] = "none"
        BY <3>0, <3>4 DEF StartSpecialists
      <4>2. decided[r] = NoDecision
        BY <4>1 DEF DecidedFrom
      <4>3. rows[key[r]][p] = "none"
        <5> SUFFICES ASSUME rows[key[r]][p] # "none" PROVE FALSE
          OBVIOUS
        <5>1. rows[key[r]][p] \in Outcomes
          BY DEF TypeOK
        <5>2. PICK q \in Requests :
                key[q] = key[r] /\ found[q][p] \in {rows[key[r]][p], "lost"}
          BY DEF RowsFound
        <5>3. Touched(q) /\ Touched(r)
          BY <4>1, <5>1, <5>2 DEF Touched, Working, Outcomes
        <5> QED
          BY <4>1, <5>1, <5>2, <5>3 DEF ClaimedOnce, Outcomes
      <4>4. pc'[r] = "specialists" /\ found'[r][p] \in {"running", "failed", "none"}
        BY <3>4 DEF StartSpecialists
      <4> QED
        BY <3>0, <4>1, <4>2, <4>3, <4>4
    <3>5. CASE \E forensics \in Forensics : Correlate(r, forensics)
      BY <3>0, <3>5 DEF Correlate
    <3>6. CASE PublishDecision(r) \/ PublishFails(r) \/ StoreResponse(r)
      BY <3>0, <3>6 DEF PublishDecision, PublishFails, StoreResponse
    <3>7. CASE FailScan(r) \/ RequestDies(r)
      BY <3>0, <3>7 DEF FailScan, RequestDies
    <3> QED
      BY <1>1, <3>1, <3>2, <3>3, <3>4, <3>5, <3>6, <3>7
         DEF RequestAction, RequestStep
  <2> QED
    BY <2>1, <2>2 DEF FoundWhen
<1>2. ASSUME NEW r \in Requests, NEW p \in Parts, SpecialistStep(r, p) PROVE FoundWhen'
  <2>1. /\ key' = key /\ decided' = decided
        /\ \A q \in Requests \ {r} : pc'[q] = pc[q] /\ found'[q] = found[q]
    BY <1>2, OthersKeep DEF SpecialistStep, PrepareFails, Record, RecordFails
  <2>2. ASSUME NEW q \in Requests \ {r}, NEW t \in Parts PROVE Good(q, t)'
    <3>1. found[q][t] = "running" => key[q] # key[r]
      <4>1. Touched(r)
        BY <1>2, SpecialistEffect DEF Touched
      <4>2. found[q][t] = "running" => Touched(q)
        BY DEF Touched
      <4> QED
        BY <4>1, <4>2 DEF ClaimedOnce
    <3>2. found[q][t] = "running" => rows'[key[q]][t] = rows[key[q]][t]
      BY <1>2, <3>1, SpecialistEffect, Domains
    <3> QED
      BY <2>1, <3>2 DEF FoundWhen
  <2>3. ASSUME NEW t \in Parts PROVE Good(r, t)'
    <3>1. /\ found[r][p] = "running" /\ decided[r] = NoDecision
          /\ pc[r] \in {"specialists", "failing", "over", "dead"}
      BY <1>2, SpecialistEffect DEF FoundWhen
    <3>2. CASE t = p
      BY <1>2, <2>1, <3>1, <3>2, SpecialistEffect DEF Outcomes
    <3>3. CASE t # p
      BY <1>2, <2>1, <3>1, <3>3, SpecialistEffect, Domains DEF FoundWhen
    <3> QED
      BY <3>2, <3>3
  <2> QED
    BY <2>2, <2>3 DEF FoundWhen
<1>3. CASE UNCHANGED <<rows, requestVars>>
  BY <1>3 DEF FoundWhen, requestVars
<1> QED
  BY <1>1, <1>2, <1>3, CancelKeeps DEF Next, RequestAction, vars, dbVars

\* A request that starts its specialists has found nothing yet.
LEMMA StartEffect ==
  ASSUME TypeOK, FoundWhen, NEW r \in Requests, RequestAction(r)
  PROVE \/ found' = found
        \/ /\ pc[r] = "detailed"
           /\ \A p \in Parts : found[r][p] = "none"
<1>1. CASE StartSpecialists(r)
  BY <1>1 DEF StartSpecialists, FoundWhen
<1> QED
  BY <1>1
     DEF RequestAction, RequestStep, ResolveParent, Submit, SubmitFails, ClaimScan,
         ClaimFails, Parse, PersistDetails, Correlate, PublishDecision, PublishFails,
         StoreResponse, FailScan, RequestFails, RequestDies

LEMMA RowsFoundStep ==
  TypeOK /\ FoundWhen /\ RowsFound /\ [Next]_vars => RowsFound'
<1> SUFFICES ASSUME TypeOK, FoundWhen, RowsFound, [Next]_vars PROVE RowsFound'
  OBVIOUS
<1> DEFINE Source(s, p, q) == key[q] = s /\ found[q][p] \in {rows[s][p], "lost"}
<1>0. \A s \in Scans, p \in Parts : rows[s][p] # "none" => rows[s][p] \in Outcomes
  BY DEF TypeOK
<1>1. ASSUME NEW r \in Requests, RequestAction(r) PROVE RowsFound'
  <2>1. key' = key /\ rows' = rows
    BY <1>1, OthersKeep, RequestRows
  <2>2. ASSUME NEW s \in Scans, NEW p \in Parts, rows[s][p] # "none",
               NEW q \in Requests, Source(s, p, q)
        PROVE Source(s, p, q)'
    <3>1. q # r \/ found' = found
      BY <1>0, <1>1, <2>2, StartEffect DEF Outcomes
    <3> QED
      BY <1>1, <2>1, <2>2, <3>1, OthersKeep
  <2> QED
    BY <2>1, <2>2 DEF RowsFound
<1>2. ASSUME NEW r \in Requests, NEW p \in Parts, SpecialistStep(r, p) PROVE RowsFound'
  <2>1. key' = key /\ \A q \in Requests \ {r} : found'[q] = found[q]
    BY <1>2, OthersKeep
  <2>2. ASSUME NEW s \in Scans, NEW t \in Parts, rows'[s][t] # "none",
               rows'[s][t] = rows[s][t]
        PROVE \E q \in Requests : Source(s, t, q)'
    <3>1. PICK q \in Requests : Source(s, t, q)
      BY <2>2 DEF RowsFound
    <3>2. q # r \/ t # p
      BY <1>0, <1>2, <2>2, <3>1, SpecialistEffect DEF Outcomes
    <3>3. found'[q][t] = found[q][t]
      BY <1>2, <2>1, <3>2, SpecialistEffect
    <3> QED
      BY <2>1, <2>2, <3>1, <3>3
  <2>3. ASSUME NEW s \in Scans, NEW t \in Parts, rows'[s][t] # rows[s][t]
        PROVE Source(s, t, r)'
    <3>1. s = key[r] /\ t = p
      BY <1>2, <2>3, SpecialistEffect
    <3> QED
      BY <1>2, <2>1, <2>3, <3>1, SpecialistEffect
  <2> QED
    BY <2>2, <2>3 DEF RowsFound
<1>3. CASE UNCHANGED <<rows, requestVars>>
  BY <1>3 DEF RowsFound, requestVars
<1> QED
  BY <1>1, <1>2, <1>3, CancelKeeps DEF Next, RequestAction, vars, dbVars

-------------------------------------------------------------------------------
(* The decision *)

\* A decision, once computed, and what it is based on stay.
LEMMA DecidedStays ==
  ASSUME TypeOK, FoundWhen, DecidedFrom, [Next]_vars,
         NEW r \in Requests, decided[r] # NoDecision
  PROVE /\ decided'[r] = decided[r] /\ found'[r] = found[r] /\ parsed'[r] = parsed[r]
        /\ pc'[r] \in {"decided", "published", "failing", "over", "dead"}
<1>1. pc[r] \in {"decided", "published", "failing", "over", "dead"}
  BY DEF DecidedFrom
<1>2. CASE RequestAction(r)
  <2> USE Domains, <1>1 DEF Goto, Answer
  <2>1. CASE PublishDecision(r) \/ PublishFails(r) \/ StoreResponse(r)
    BY <2>1 DEF PublishDecision, PublishFails, StoreResponse
  <2>2. CASE FailScan(r) \/ RequestFails(r) \/ RequestDies(r)
    BY <2>2 DEF FailScan, RequestFails, RequestDies
  <2> QED
    BY <1>2, <2>1, <2>2
       DEF RequestAction, RequestStep, ResolveParent, Submit, SubmitFails, ClaimScan,
           ClaimFails, Parse, PersistDetails, StartSpecialists, Correlate
<1>3. ASSUME NEW p \in Parts, SpecialistStep(r, p) PROVE FALSE
  BY <1>3, SpecialistEffect DEF FoundWhen
<1>4. ASSUME NEW q \in Requests \ {r},
             RequestAction(q) \/ \E p \in Parts : SpecialistStep(q, p)
      PROVE /\ decided'[r] = decided[r] /\ found'[r] = found[r]
            /\ parsed'[r] = parsed[r] /\ pc'[r] = pc[r]
  BY <1>4, OthersKeep
<1>5. CASE UNCHANGED requestVars
  BY <1>1, <1>5 DEF requestVars
<1> QED
  BY <1>1, <1>2, <1>3, <1>4, <1>5, CancelKeeps DEF Next, RequestAction, vars

\* A decision comes from Correlate.
LEMMA NewDecision ==
  ASSUME TypeOK, [Next]_vars, NEW r \in Requests, decided'[r] # decided[r]
  PROVE \E forensics \in Forensics : Correlate(r, forensics)
<1>1. ASSUME NEW q \in Requests,
             RequestAction(q) \/ \E p \in Parts : SpecialistStep(q, p)
      PROVE q = r
  BY <1>1, OthersKeep
<1>2. RequestAction(r) \/ \E p \in Parts : SpecialistStep(r, p)
  BY <1>1, CancelKeeps DEF Next, RequestAction, vars, requestVars
<1> QED
  BY <1>2
     DEF RequestAction, RequestStep, ResolveParent, Submit, SubmitFails, ClaimScan,
         ClaimFails, Parse, PersistDetails, StartSpecialists, PublishDecision,
         PublishFails, StoreResponse, FailScan, RequestFails, RequestDies,
         SpecialistStep, PrepareFails, Record, RecordFails

\* The step to 'decided' computes the decision, the next one keeps it.
LEMMA DecisionThere ==
  ASSUME TypeOK, DecidedFrom, [Next]_vars,
         NEW r \in Requests, pc'[r] \in {"decided", "published"}
  PROVE \/ \E forensics \in Forensics : Correlate(r, forensics)
        \/ decided[r] # NoDecision
<1>1. ASSUME NEW q \in Requests,
             RequestAction(q) \/ \E p \in Parts : SpecialistStep(q, p)
      PROVE q = r \/ pc'[r] = pc[r]
  BY <1>1, OthersKeep
<1>2. ASSUME NEW p \in Parts, SpecialistStep(r, p) PROVE pc'[r] = pc[r]
  BY <1>2, SpecialistEffect
<1>3. CASE pc'[r] = pc[r]
  BY <1>3 DEF DecidedFrom
<1>4. CASE RequestAction(r)
  <2> USE Domains DEF Goto, Answer
  <2>1. CASE PublishDecision(r) \/ PublishFails(r)
    BY <2>1 DEF PublishDecision, PublishFails, DecidedFrom
  <2>2. CASE ResolveParent(r) \/ Submit(r) \/ SubmitFails(r) \/ ClaimScan(r)
             \/ ClaimFails(r)
    BY <2>2 DEF ResolveParent, Submit, SubmitFails, ClaimScan, ClaimFails
  <2>3. CASE (\E ok \in BOOLEAN : Parse(r, ok)) \/ PersistDetails(r)
             \/ StartSpecialists(r)
    BY <2>3 DEF Parse, PersistDetails, StartSpecialists
  <2>4. CASE StoreResponse(r) \/ FailScan(r) \/ RequestFails(r) \/ RequestDies(r)
    BY <2>4 DEF StoreResponse, FailScan, RequestFails, RequestDies
  <2> QED
    BY <1>4, <2>1, <2>2, <2>3, <2>4 DEF RequestAction, RequestStep
<1> QED
  BY <1>1, <1>2, <1>3, <1>4, CancelKeeps DEF Next, RequestAction, vars, requestVars

LEMMA DecidedFromStep ==
  TypeOK /\ FoundWhen /\ DecidedFrom /\ [Next]_vars => DecidedFrom'
<1> SUFFICES ASSUME TypeOK, FoundWhen, DecidedFrom, [Next]_vars, NEW r \in Requests
             PROVE /\ pc'[r] \in {"decided", "published"} => decided'[r] # NoDecision
                   /\ decided'[r] # NoDecision
                      => /\ pc'[r] \in {"decided", "published", "failing", "over",
                                        "dead"}
                         /\ \E forensics \in Forensics :
                              decided'[r] =
                                [inputs |-> CorrelationInputs(r)' \cup forensics,
                                 rec |-> Recommend(CorrelationInputs(r)' \cup forensics)]
  BY DEF DecidedFrom
<1>1. CASE decided[r] # NoDecision
  <2>1. /\ decided'[r] = decided[r] /\ found'[r] = found[r] /\ parsed'[r] = parsed[r]
        /\ pc'[r] \in {"decided", "published", "failing", "over", "dead"}
    BY <1>1, DecidedStays
  <2>2. CorrelationInputs(r)' = CorrelationInputs(r)
    BY <2>1 DEF CorrelationInputs
  <2> QED
    BY <1>1, <2>1, <2>2 DEF DecidedFrom
<1>2. ASSUME NEW forensics \in Forensics, Correlate(r, forensics)
      PROVE /\ pc'[r] = "decided" /\ decided'[r] # NoDecision
            /\ decided'[r] = [inputs |-> CorrelationInputs(r)' \cup forensics,
                              rec |-> Recommend(CorrelationInputs(r)' \cup forensics)]
  <2>1. found' = found /\ parsed' = parsed
    BY <1>2 DEF Correlate
  <2>2. CorrelationInputs(r)' = CorrelationInputs(r)
    BY <2>1 DEF CorrelationInputs
  <2>3. /\ pc'[r] = "decided"
        /\ decided'[r] = [inputs |-> CorrelationInputs(r) \cup forensics,
                          rec |-> Recommend(CorrelationInputs(r) \cup forensics)]
    BY <1>2, Domains DEF Correlate, Goto
  <2>4. decided'[r] # NoDecision
    BY <2>3, RecommendTyped DEF NoDecision
  <2> QED
    BY <2>2, <2>3, <2>4
<1>3. CASE decided'[r] = NoDecision /\ decided[r] = NoDecision
  BY <1>2, <1>3, DecisionThere
<1> QED
  BY <1>1, <1>2, <1>3, NewDecision

\* Where a decision that is given out may come from.
LEMMA ToldSources ==
  ASSUME TypeOK, [Next]_vars, NEW s \in Scans, NEW d \in Told(s)'
  PROVE d \in Told(s) \/ \E r \in Requests : key[r] = s /\ decided[r] = d
<1> USE Domains
<1>1. key' = key
  BY OthersKeep, CancelKeeps DEF Next, RequestAction, vars, requestVars
<1>2. d # NoDecision
  BY DEF Told
<1>3. \/ d = decision'[s] \/ d = stored'[s]
      \/ \E q \in Requests : key[q] = s /\ d = answer'[q].decision
  BY <1>1 DEF Told
<1>4. ASSUME UNCHANGED <<decision, stored, answer>> PROVE d \in Told(s)
  BY <1>1, <1>4 DEF Told
<1>5. ASSUME NEW r \in Requests, NEW code, NEW e \in {stored[key[r]], NoDecision},
             Answer(r, code, e), UNCHANGED <<decision, stored>>
      PROVE d \in Told(s)
  <2>1. ASSUME NEW q \in Requests, key[q] = s, d = answer'[q].decision
        PROVE d \in {stored[s], answer[q].decision}
    BY <1>2, <1>5, <2>1 DEF Answer
  <2> QED
    BY <1>2, <1>3, <1>5, <2>1 DEF Told
<1>6. ASSUME NEW r \in Requests, PublishDecision(r)
      PROVE d \in Told(s) \/ (key[r] = s /\ decided[r] = d)
  <2>1. stored' = stored /\ answer' = answer
    BY <1>6 DEF PublishDecision
  <2>2. decision'[s] = decision[s] \/ (key[r] = s /\ decision'[s] = decided[r])
    BY <1>6 DEF PublishDecision
  <2> QED
    BY <1>2, <1>3, <2>1, <2>2 DEF Told
<1>7. ASSUME NEW r \in Requests, StoreResponse(r)
      PROVE d \in Told(s) \/ (key[r] = s /\ decided[r] = d)
  <2>1. decision' = decision
    BY <1>7 DEF StoreResponse
  <2>2. stored'[s] = stored[s] \/ (key[r] = s /\ stored'[s] = decided[r])
    BY <1>7 DEF StoreResponse
  <2>3. \A q \in Requests : answer'[q].decision = answer[q].decision
                            \/ (q = r /\ answer'[q].decision = decided[r])
    BY <1>7 DEF StoreResponse, Answer
  <2> QED
    BY <1>2, <1>3, <2>1, <2>2, <2>3 DEF Told
<1>8. ASSUME NEW r \in Requests, ResolveParent(r) \/ Submit(r) \/ SubmitFails(r)
      PROVE d \in Told(s)
  <2>1. UNCHANGED <<decision, stored>>
    BY <1>8 DEF ResolveParent, Submit, SubmitFails, dbVars
  <2>2. \/ UNCHANGED answer
        \/ Answer(r, 200, stored[key[r]])
        \/ Answer(r, 409, NoDecision)
        \/ Answer(r, 500, NoDecision)
    BY <1>8 DEF ResolveParent, Submit, SubmitFails
  <2> QED
    BY <1>4, <1>5, <2>1, <2>2
<1>9. ASSUME NEW r \in Requests, ClaimScan(r) \/ ClaimFails(r) \/ FailScan(r)
      PROVE d \in Told(s)
  <2>1. UNCHANGED <<decision, stored>>
    BY <1>9 DEF ClaimScan, ClaimFails, FailScan
  <2>2. \/ UNCHANGED answer
        \/ Answer(r, 202, NoDecision)
        \/ Answer(r, 500, NoDecision)
    BY <1>9 DEF ClaimScan, ClaimFails, FailScan
  <2> QED
    BY <1>4, <1>5, <2>1, <2>2
<1>10. CASE UNCHANGED vars \/ (\E t \in Scans : CancelScan(t))
  BY <1>4, <1>10, CancelKeeps DEF vars, dbVars, requestVars
<1>11. ASSUME NEW r \in Requests, NEW p \in Parts, SpecialistStep(r, p)
       PROVE UNCHANGED <<decision, stored, answer>>
  BY <1>11 DEF SpecialistStep, PrepareFails, Record, RecordFails, dbVars
<1>12. ASSUME NEW r \in Requests, RequestAction(r)
       PROVE d \in Told(s) \/ \E q \in Requests : key[q] = s /\ decided[q] = d
  BY <1>4, <1>6, <1>7, <1>8, <1>9, <1>12
     DEF RequestAction, RequestStep, Parse, PersistDetails, StartSpecialists, Correlate,
         PublishFails, RequestFails, RequestDies, dbVars
<1> QED
  BY <1>4, <1>10, <1>11, <1>12 DEF Next, RequestAction

LEMMA ToldDecidedStep ==
  TypeOK /\ FoundWhen /\ DecidedFrom /\ ToldDecided /\ [Next]_vars => ToldDecided'
<1> SUFFICES ASSUME TypeOK, FoundWhen, DecidedFrom, ToldDecided, [Next]_vars,
                    NEW s \in Scans, NEW d \in Told(s)'
             PROVE \E r \in Requests : key'[r] = s /\ decided'[r] = d
  BY DEF ToldDecided
<1>1. key' = key
  BY OthersKeep, CancelKeeps DEF Next, RequestAction, vars, requestVars
<1>2. d # NoDecision
  BY DEF Told
<1>3. PICK r \in Requests : key[r] = s /\ decided[r] = d
  BY ToldSources DEF ToldDecided
<1> QED
  BY <1>1, <1>2, <1>3, DecidedStays

LEMMA InitInvariant == Init => IInv
<1> SUFFICES ASSUME Init PROVE IInv
  OBVIOUS
<1>1. TypeOK
  BY InitTyped
<1>2. \A r \in Requests : ~Touched(r)
  BY DEF Init, Touched, Working
<1>3. \A s \in Scans : Told(s) = {}
  BY <1>1 DEF Init, Told, NoAnswer, TypeOK
<1>4. RowsFound
  BY DEF Init, RowsFound
<1>5. FoundWhen /\ DecidedFrom
  BY DEF Init, FoundWhen, DecidedFrom
<1> QED
  BY <1>1, <1>2, <1>3, <1>4, <1>5 DEF IInv, ClaimedOnce, ToldDecided

LEMMA StepInvariant == IInv /\ [Next]_vars => IInv'
  BY NextTyped, ClaimedOnceStep, FoundWhenStep, RowsFoundStep, DecidedFromStep,
     ToldDecidedStep DEF IInv

LEMMA Invariant == Spec => []IInv
  BY InitInvariant, StepInvariant, PTL DEF Spec

\* There is one request behind all decisions of an investigation.
LEMMA OneSource ==
  ASSUME IInv, NEW s \in Scans, NEW d \in Told(s)
  PROVE \E r \in Requests :
          /\ key[r] = s /\ decided[r] = d /\ d # NoDecision
          /\ \A q \in Requests : key[q] = s /\ Touched(q) => q = r
<1>1. d # NoDecision
  BY DEF Told
<1>2. PICK r \in Requests : key[r] = s /\ decided[r] = d
  BY DEF IInv, ToldDecided
<1>3. Touched(r)
  BY <1>1, <1>2 DEF Touched
<1> QED
  BY <1>1, <1>2, <1>3 DEF IInv, ClaimedOnce

LEMMA IInvAgree == IInv => AnswersAgree
<1> SUFFICES ASSUME IInv, NEW s \in Scans, NEW d \in Told(s), NEW e \in Told(s)
             PROVE d = e
  BY DEF AnswersAgree
<1>1. PICK r \in Requests :
        /\ key[r] = s /\ decided[r] = d
        /\ \A q \in Requests : key[q] = s /\ Touched(q) => q = r
  BY OneSource
<1>2. PICK q \in Requests : key[q] = s /\ decided[q] = e /\ e # NoDecision
  BY OneSource
<1> QED
  BY <1>1, <1>2 DEF Touched

\* All answers, stored responses and published decisions of an investigation are one
\* decision, over any number of retries, failures and crashes.
THEOREM AnswersAlwaysAgree == Spec => []AnswersAgree
  BY Invariant, IInvAgree, PTL

LEMMA IInvShows == IInv => FailureShows
<1> SUFFICES ASSUME IInv, NEW s \in Scans, NEW d \in Told(s), NEW r \in Requests,
                    key[r] = s,
                    ~parsed[r] \/ \E p \in Parts : found[r][p] = "failed"
             PROVE /\ HasOutcome(d.inputs, "failed")
                   /\ FailMode = "escalate" => d.rec # "allow"
  BY DEF FailureShows
<1>1. Touched(r)
  BY DEF Touched
<1>2. decided[r] = d /\ d # NoDecision
  BY <1>1, OneSource
<1>3. PICK forensics \in Forensics :
        d = [inputs |-> CorrelationInputs(r) \cup forensics,
             rec |-> Recommend(CorrelationInputs(r) \cup forensics)]
  BY <1>2 DEF IInv, DecidedFrom
<1>4. HasOutcome(CorrelationInputs(r), "failed")
  <2>1. CASE ~parsed[r]
    <3>1. [part |-> "parser", outcome |-> "failed"] \in CorrelationInputs(r)
      BY <2>1 DEF CorrelationInputs
    <3> QED
      BY <3>1 DEF HasOutcome
  <2>2. ASSUME NEW p \in Parts, found[r][p] = "failed"
        PROVE HasOutcome(CorrelationInputs(r), "failed")
    <3>1. [part |-> p, outcome |-> found[r][p]] \in CorrelationInputs(r)
      BY <2>2 DEF CorrelationInputs, Outcomes
    <3> QED
      BY <2>2, <3>1 DEF HasOutcome
  <2> QED
    BY <2>1, <2>2
<1>5. HasOutcome(CorrelationInputs(r) \cup forensics, "failed")
  BY <1>4 DEF HasOutcome
<1> QED
  BY <1>3, <1>5 DEF Recommend

\* What could not be analysed is visible in every decision given out, and is not
\* allowed under an escalating policy.
THEOREM FailuresAlwaysShow == Spec => []FailureShows
  BY Invariant, IInvShows, PTL

-------------------------------------------------------------------------------
(* Evidence and decision *)

\* The decision the endpoint shows accounts for all rows there are.
LEMMA RowsBehindDecision ==
  ASSUME IInv, NEW s \in Scans, NEW d \in Told(s)
  PROVE Recorded(s) \subseteq d.inputs
<1> SUFFICES ASSUME NEW p \in Parts, rows[s][p] # "none"
             PROVE [part |-> p, outcome |-> rows[s][p]] \in d.inputs
  BY DEF Recorded
<1>1. PICK r \in Requests :
        /\ key[r] = s /\ decided[r] = d /\ d # NoDecision
        /\ \A q \in Requests : key[q] = s /\ Touched(q) => q = r
  BY OneSource
<1>2. PICK q \in Requests : key[q] = s /\ found[q][p] \in {rows[s][p], "lost"}
  BY DEF IInv, RowsFound
<1>3. rows[s][p] \in Outcomes
  BY DEF IInv, TypeOK
<1>4. q = r
  BY <1>1, <1>2, <1>3 DEF Touched, Outcomes
<1>5. found[r][p] = rows[s][p]
  BY <1>1, <1>2, <1>4 DEF IInv, FoundWhen
<1>6. [part |-> p, outcome |-> rows[s][p]] \in CorrelationInputs(r)
  BY <1>3, <1>5 DEF CorrelationInputs
<1>7. PICK forensics \in Forensics :
        d = [inputs |-> CorrelationInputs(r) \cup forensics,
             rec |-> Recommend(CorrelationInputs(r) \cup forensics)]
  BY <1>1 DEF IInv, DecidedFrom
<1>8. d.inputs = CorrelationInputs(r) \cup forensics
  BY <1>7
<1> QED
  BY <1>6, <1>8

LEMMA ReportedTold ==
  ASSUME NEW s \in Scans, ReportedDecision(s) # NoDecision
  PROVE ReportedDecision(s) \in Told(s)
  BY DEF ReportedDecision, Told

LEMMA EvidenceBehindDecision == IInv => DecisionAccounts
<1> SUFFICES ASSUME IInv, NEW s \in Scans
             PROVE /\ stored[s] # NoDecision => Recorded(s) \subseteq stored[s].inputs
                   /\ ReportedDecision(s) # NoDecision
                        => ReportedEvidence(s) \subseteq ReportedDecision(s).inputs
  BY DEF DecisionAccounts
<1>1. stored[s] # NoDecision => stored[s] \in Told(s)
  BY DEF Told
<1>2. stored[s] # NoDecision => Recorded(s) \subseteq stored[s].inputs
  BY <1>1, RowsBehindDecision
<1>3. ASSUME ReportedDecision(s) # NoDecision
      PROVE ReportedEvidence(s) \subseteq ReportedDecision(s).inputs
  <2>1. Recorded(s) \subseteq ReportedDecision(s).inputs
    BY <1>3, ReportedTold, RowsBehindDecision
  <2> QED
    BY <2>1 DEF ReportedEvidence, ReportedDecision
<1> QED
  BY <1>2, <1>3

\* Rows are only added.
LEMMA RowsStay ==
  ASSUME IInv, [Next]_vars, NEW s \in Scans
  PROVE Recorded(s) \subseteq Recorded(s)'
<1> SUFFICES ASSUME NEW p \in Parts, rows[s][p] # "none"
             PROVE rows'[s][p] = rows[s][p]
  BY DEF Recorded
<1>1. ASSUME NEW r \in Requests, NEW q \in Parts, SpecialistStep(r, q)
      PROVE rows'[s][p] = rows[s][p]
  BY <1>1, SpecialistEffect DEF IInv, FoundWhen
<1>2. ASSUME NEW r \in Requests, RequestAction(r) PROVE rows' = rows
  BY <1>2, RequestRows
<1>3. CASE UNCHANGED rows
  BY <1>3
<1> QED
  BY <1>1, <1>2, <1>3, CancelKeeps DEF Next, RequestAction, vars, dbVars

\* Only the owner writes decisions, and it has one to write.
LEMMA ReportedStays ==
  ASSUME IInv, [Next]_vars, NEW s \in Scans, ReportedDecision(s) # NoDecision
  PROVE /\ ReportedDecision(s)' # NoDecision
        /\ stored[s] # NoDecision => stored'[s] # NoDecision
<1>1. ASSUME NEW r \in Requests, PublishDecision(r) \/ StoreResponse(r)
      PROVE /\ ReportedDecision(s)' # NoDecision
            /\ stored[s] # NoDecision => stored'[s] # NoDecision
  <2>1. decided[r] # NoDecision
    BY <1>1 DEF PublishDecision, StoreResponse, IInv, DecidedFrom
  <2>2. /\ decision'[s] \in {decision[s], decided[r]}
        /\ stored'[s] \in {stored[s], decided[r]}
    BY <1>1, Domains DEF PublishDecision, StoreResponse, IInv
  <2> QED
    BY <2>1, <2>2 DEF ReportedDecision
<1>2. CASE UNCHANGED <<decision, stored>>
  BY <1>2 DEF ReportedDecision
<1>3. ASSUME NEW r \in Requests, RequestAction(r)
      PROVE \/ PublishDecision(r) \/ StoreResponse(r)
            \/ UNCHANGED <<decision, stored>>
  BY <1>3
     DEF RequestAction, RequestStep, ResolveParent, Submit, SubmitFails, ClaimScan,
         ClaimFails, Parse, PersistDetails, StartSpecialists, Correlate, PublishFails,
         FailScan, RequestFails, RequestDies, dbVars
<1>4. ASSUME NEW r \in Requests, NEW p \in Parts, SpecialistStep(r, p)
      PROVE UNCHANGED <<decision, stored>>
  BY <1>4 DEF SpecialistStep, PrepareFails, Record, RecordFails, dbVars
<1> QED
  BY <1>1, <1>2, <1>3, <1>4, CancelKeeps DEF Next, RequestAction, vars, dbVars

LEMMA DetailsStay ==
  ASSUME [Next]_vars
  PROVE details \subseteq details'
<1>1. ASSUME NEW r \in Requests, RequestAction(r) PROVE details \subseteq details'
  BY <1>1
     DEF RequestAction, RequestStep, ResolveParent, Submit, SubmitFails, ClaimScan,
         ClaimFails, Parse, PersistDetails, StartSpecialists, Correlate,
         PublishDecision, PublishFails, StoreResponse, FailScan, RequestFails,
         RequestDies, dbVars
<1>2. ASSUME NEW r \in Requests, NEW p \in Parts, SpecialistStep(r, p)
      PROVE details' = details
  BY <1>2 DEF SpecialistStep, PrepareFails, Record, RecordFails, dbVars
<1> QED
  BY <1>1, <1>2, CancelKeeps DEF Next, RequestAction, vars, dbVars

\* A decision that was given out remains given out in the database.
LEMMA ReportedSame ==
  ASSUME IInv, [Next]_vars, NEW s \in Scans, ReportedDecision(s) # NoDecision
  PROVE ReportedDecision(s)' = ReportedDecision(s)
<1>1. ReportedDecision(s) \in Told(s)
  BY ReportedTold
<1>2. ReportedDecision(s)' \in Told(s)'
  BY ReportedStays DEF ReportedDecision, Told
<1>3. PICK r \in Requests :
        key[r] = s /\ decided[r] = ReportedDecision(s) /\ decided[r] # NoDecision
  BY <1>1, OneSource
<1>4. \/ ReportedDecision(s)' \in Told(s)
      \/ \E q \in Requests : key[q] = s /\ decided[q] = ReportedDecision(s)'
  BY <1>2, ToldSources DEF IInv
<1>5. CASE ReportedDecision(s)' \in Told(s)
  BY <1>1, <1>5, IInvAgree DEF AnswersAgree
<1>6. ASSUME NEW q \in Requests, key[q] = s, decided[q] = ReportedDecision(s)'
      PROVE ReportedDecision(s)' = ReportedDecision(s)
  <2>1. decided[q] # NoDecision
    BY <1>6, ReportedStays
  <2>2. q = r
    BY <1>3, <1>6, <2>1 DEF IInv, ClaimedOnce, Touched
  <2> QED
    BY <1>3, <1>6, <2>2
<1> QED
  BY <1>4, <1>5, <1>6

\* The stored response is written once.
LEMMA StoredStays ==
  ASSUME IInv, [Next]_vars, NEW s \in Scans, stored[s] # NoDecision
  PROVE stored'[s] = stored[s]
<1>1. ReportedDecision(s) = stored[s]
  BY DEF ReportedDecision
<1>2. ReportedDecision(s)' = stored[s]
  BY <1>1, ReportedSame
<1>3. stored'[s] # NoDecision
  BY <1>1, ReportedStays
<1>4. ReportedDecision(s)' = stored'[s]
  BY <1>3 DEF ReportedDecision
<1> QED
  BY <1>2, <1>4

LEMMA ReadsStep ==
  ASSUME IInv, [Next]_vars, DecisionAccounts', NEW s \in Scans
  PROVE /\ ReportedEvidence(s) \subseteq ReportedEvidence(s)'
        /\ ReportedDecision(s) # NoDecision
             => ReportedDecision(s)' = ReportedDecision(s)
        /\ ReportedDecision(s)' # NoDecision
             => ReportedEvidence(s)' \subseteq ReportedDecision(s)'.inputs
<1>1. ReportedDecision(s) # NoDecision => ReportedDecision(s)' = ReportedDecision(s)
  BY ReportedSame
<1>2. /\ stored'[s] # NoDecision => Recorded(s)' \subseteq stored'[s].inputs
      /\ ReportedDecision(s)' # NoDecision
           => ReportedEvidence(s)' \subseteq ReportedDecision(s)'.inputs
  BY DEF DecisionAccounts
<1>3. Recorded(s) \subseteq Recorded(s)'
  BY RowsStay
<1>4. stored[s] # NoDecision => stored'[s] = stored[s]
  BY StoredStays
<1>5. ReportedEvidence(s) \subseteq ReportedEvidence(s)'
  <2>1. CASE s \notin details
    BY <2>1 DEF ReportedEvidence
  <2>2. CASE s \in details /\ stored[s] # NoDecision /\ s \in Sealed
    BY <1>4, <2>2, DetailsStay DEF ReportedEvidence
  <2>3. CASE s \in details /\ (stored[s] = NoDecision \/ s \notin Sealed)
    BY <1>2, <1>3, <2>3, DetailsStay DEF ReportedEvidence
  <2> QED
    BY <2>1, <2>2, <2>3
<1> QED
  BY <1>1, <1>2, <1>5

\* In whatever order the evidence endpoint reads them, the decision it shows accounts
\* for the evidence it shows.
THEOREM ReadsAlwaysAgree == Spec => ReadsAgree
<1>1. IInv /\ DecisionAccounts' /\ [Next]_vars
      => [\A s \in Scans :
            /\ ReportedEvidence(s) \subseteq ReportedEvidence(s)'
            /\ ReportedDecision(s) # NoDecision
                 => ReportedDecision(s)' = ReportedDecision(s)
            /\ ReportedDecision(s)' # NoDecision
                 => ReportedEvidence(s)' \subseteq ReportedDecision(s)'.inputs]_vars
  BY ReadsStep
<1> QED
  BY <1>1, Invariant, EvidenceBehindDecision, PTL DEF Spec, ReadsAgree

-------------------------------------------------------------------------------
(* Lineage *)

\* A completed investigation stays completed.
LEMMA CompletedStays ==
  ASSUME TypeOK, [Next]_vars, NEW s \in Scans, scan[s] = "completed"
  PROVE scan'[s] = "completed"
<1> USE Domains
<1>1. ASSUME NEW r \in Requests, RequestAction(r)
      PROVE scan'[s] = "completed"
  <2>1. CASE Submit(r) \/ SubmitFails(r)
    BY <2>1 DEF Submit, SubmitFails, InsertScan
  <2>2. CASE ClaimScan(r) \/ ClaimFails(r)
    BY <2>2 DEF ClaimScan, ClaimFails, Claims
  <2>3. CASE PublishDecision(r) \/ FailScan(r)
    BY <2>3 DEF PublishDecision, FailScan
  <2>4. CASE scan' = scan
    BY <2>4
  <2> QED
    BY <1>1, <2>1, <2>2, <2>3, <2>4
       DEF RequestAction, RequestStep, ResolveParent, Parse, PersistDetails,
           StartSpecialists, Correlate, PublishFails, StoreResponse, RequestFails,
           RequestDies, dbVars
<1>2. ASSUME NEW r \in Requests, NEW p \in Parts, SpecialistStep(r, p)
      PROVE scan' = scan
  BY <1>2 DEF SpecialistStep, PrepareFails, Record, RecordFails, dbVars
<1>3. ASSUME NEW t \in Scans, CancelScan(t)
      PROVE scan'[s] = "completed"
  BY <1>3 DEF CancelScan
<1> QED
  BY <1>1, <1>2, <1>3 DEF Next, RequestAction, vars, dbVars

\* A link, and a parent found fit, come from the request itself.
LEMMA LinkSources ==
  ASSUME TypeOK, [Next]_vars
  PROVE /\ key' = key
        /\ \A r \in Requests :
             pc'[r] = "resolved"
             => \/ pc[r] = "resolved"
                \/ \A p \in ParentOf[key[r]] : MayLink(key[r], p)
        /\ \A s \in Scans :
             \/ linked'[s] = linked[s]
             \/ \E r \in Requests :
                  pc[r] = "resolved" /\ key[r] = s /\ linked'[s] = ParentOf[s]
<1> DEFINE Goal ==
      /\ key' = key
      /\ \A r \in Requests :
           pc'[r] = "resolved"
           => \/ pc[r] = "resolved"
              \/ \A p \in ParentOf[key[r]] : MayLink(key[r], p)
      /\ \A s \in Scans :
           \/ linked'[s] = linked[s]
           \/ \E r \in Requests :
                pc[r] = "resolved" /\ key[r] = s /\ linked'[s] = ParentOf[s]
<1> USE Domains
<1>1. ASSUME NEW r \in Requests, RequestAction(r) PROVE Goal
  <2>1. CASE ResolveParent(r)
    BY <2>1 DEF ResolveParent, Answer, Goto, dbVars
  <2>2. CASE Submit(r) \/ SubmitFails(r)
    BY <2>2 DEF Submit, SubmitFails, InsertScan, Answer, Goto
  <2>3. CASE ClaimScan(r) \/ ClaimFails(r)
    BY <2>3 DEF ClaimScan, ClaimFails, Answer, Goto
  <2>4. CASE \/ \E ok \in BOOLEAN : Parse(r, ok)
             \/ PersistDetails(r) \/ StartSpecialists(r)
             \/ RequestFails(r) \/ RequestDies(r)
    BY <2>4 DEF Parse, PersistDetails, StartSpecialists, RequestFails, RequestDies,
                Goto, dbVars
  <2>5. CASE \/ \E forensics \in Forensics : Correlate(r, forensics)
             \/ PublishDecision(r) \/ PublishFails(r)
             \/ StoreResponse(r) \/ FailScan(r)
    BY <2>5 DEF Correlate, PublishDecision, PublishFails, StoreResponse, FailScan,
                Answer, Goto, dbVars
  <2> QED
    BY <1>1, <2>1, <2>2, <2>3, <2>4, <2>5 DEF RequestAction, RequestStep
<1>2. ASSUME NEW r \in Requests, NEW p \in Parts, SpecialistStep(r, p) PROVE Goal
  BY <1>2 DEF SpecialistStep, PrepareFails, Record, RecordFails, dbVars
<1>3. ASSUME NEW t \in Scans, CancelScan(t) PROVE Goal
  BY <1>3 DEF CancelScan, requestVars
<1>4. CASE UNCHANGED vars
  BY <1>4 DEF vars, dbVars, requestVars
<1> QED
  BY <1>1, <1>2, <1>3, <1>4 DEF Next, RequestAction

\* Parents keep their stage and stay completed, so that a check stays true.
LEMMA MayLinkStays ==
  ASSUME TypeOK, [Next]_vars, NEW s \in Scans, NEW p \in Scans, MayLink(s, p)
  PROVE MayLink(s, p)'
  BY CompletedStays DEF MayLink

LEMMA LineageStep == TypeOK /\ LineageInv /\ [Next]_vars => LineageInv'
<1> SUFFICES ASSUME TypeOK, LineageInv, [Next]_vars PROVE LineageInv'
  OBVIOUS
<1>1. \A s \in Scans : linked[s] \subseteq Scans /\ ParentOf[s] \subseteq Scans
  BY EmailAssumption DEF TypeOK
<1>2. \A r \in Requests : key[r] \in Scans
  BY DEF TypeOK
<1>3. ASSUME NEW r \in Requests, pc'[r] = "resolved", NEW p \in ParentOf[key[r]]
      PROVE MayLink(key[r], p)'
  BY <1>1, <1>2, <1>3, LinkSources, MayLinkStays DEF LineageInv
<1>4. ASSUME NEW s \in Scans, NEW p \in linked'[s]
      PROVE scan'[p] = "completed" /\ StageOf[p] < StageOf[s]
  <2>1. CASE linked'[s] = linked[s]
    BY <1>1, <1>4, <2>1, CompletedStays DEF LineageInv, LineageForward
  <2>2. ASSUME NEW r \in Requests,
               pc[r] = "resolved", key[r] = s, linked'[s] = ParentOf[s]
        PROVE scan'[p] = "completed" /\ StageOf[p] < StageOf[s]
    <3>1. p \in Scans /\ MayLink(s, p)
      BY <1>1, <1>4, <2>2 DEF LineageInv
    <3>2. StageOf[s] \in Int /\ StageOf[p] \in Int
      BY <3>1, EmailAssumption
    <3> QED
      BY <3>1, <3>2, CompletedStays DEF MayLink
  <2> QED
    BY <2>1, <2>2, LinkSources
<1> QED
  BY <1>3, <1>4, LinkSources DEF LineageInv, LineageForward, MayLink

\* However the parent's own analysis, its retries and its cancellation run beside the
\* submission, an investigation is linked to a completed one of an earlier stage.
THEOREM LineageAlwaysForward == Spec => []LineageForward
<1>1. Init => LineageInv
  BY DEF Init, LineageInv, LineageForward
<1> QED
  BY <1>1, TypeCorrect, LineageStep, PTL DEF Spec, LineageInv

-------------------------------------------------------------------------------
(* One verdict *)

\* A request that can go on has not been answered.
UnansweredInv ==
  \A r \in Requests : pc[r] \notin {"over", "dead"} => answer[r] = NoAnswer

LEMMA UnansweredStep == TypeOK /\ UnansweredInv /\ [Next]_vars => UnansweredInv'
<1> SUFFICES ASSUME TypeOK, UnansweredInv, [Next]_vars, NEW r \in Requests,
                    pc'[r] \notin {"over", "dead"}
             PROVE answer'[r] = NoAnswer
  BY DEF UnansweredInv
<1> USE Domains DEF UnansweredInv
<1>1. CASE RequestAction(r)
  <2> USE DEF Goto, Answer
  <2>1. CASE ResolveParent(r) \/ Submit(r) \/ SubmitFails(r) \/ ClaimScan(r) \/ ClaimFails(r)
    BY <2>1 DEF ResolveParent, Submit, SubmitFails, ClaimScan, ClaimFails
  <2>2. CASE (\E ok \in BOOLEAN : Parse(r, ok)) \/ PersistDetails(r) \/ StartSpecialists(r)
    BY <2>2 DEF Parse, PersistDetails, StartSpecialists
  <2>3. CASE (\E forensics \in Forensics : Correlate(r, forensics)) \/ PublishDecision(r)
             \/ PublishFails(r)
    BY <2>3 DEF Correlate, PublishDecision, PublishFails
  <2>4. CASE StoreResponse(r) \/ FailScan(r) \/ RequestFails(r) \/ RequestDies(r)
    BY <2>4 DEF StoreResponse, FailScan, RequestFails, RequestDies
  <2> QED
    BY <1>1, <2>1, <2>2, <2>3, <2>4 DEF RequestAction, RequestStep
<1>2. ASSUME NEW p \in Parts, SpecialistStep(r, p) PROVE answer'[r] = NoAnswer
  BY <1>2 DEF SpecialistStep, PrepareFails, Record, RecordFails, Running
<1>3. ASSUME NEW q \in Requests \ {r},
             RequestAction(q) \/ \E p \in Parts : SpecialistStep(q, p)
      PROVE pc'[r] = pc[r] /\ answer'[r] = answer[r]
  BY <1>3, OthersKeep
<1>4. CASE UNCHANGED requestVars
  BY <1>4 DEF requestVars
<1> QED
  BY <1>1, <1>2, <1>3, <1>4, CancelKeeps DEF Next, RequestAction, vars

LEMMA UnansweredInvariant == Spec => []UnansweredInv
<1>1. Init => UnansweredInv
  BY DEF Init, UnansweredInv
<1> QED
  BY <1>1, UnansweredStep, TypeCorrect, PTL DEF Spec

\* An investigation that a request has claimed is present, and no longer accepted.
LEMMA TouchedPresent ==
  ASSUME IInv, NEW r \in Requests, Touched(r)
  PROVE /\ Phase[key[r]] # "absent"
        /\ (Phase[key[r]] = "open") = (scan[key[r]] = "processing")
        /\ scan[key[r]] # "processing" => Phase[key[r]] = scan[key[r]]
<1>1. key[r] \in Scans /\ scan[key[r]] \in Statuses
  BY DEF IInv, TypeOK
<1>2. scan[key[r]] # "none" /\ scan[key[r]] # "accepted"
  BY DEF IInv, ClaimedOnce
<1>3. Phase[key[r]] = IF scan[key[r]] = "processing" THEN "open" ELSE scan[key[r]]
  BY <1>1, <1>2 DEF Phase
<1> QED
  BY <1>1, <1>2, <1>3 DEF Statuses

\* The decision of the claimant is all that has been reached and all that can be on
\* record.
LEMMA ReachedIs ==
  ASSUME IInv, NEW r \in Requests, decided[r] # NoDecision
  PROVE /\ Reached[key[r]] = {decided[r]}
        /\ {decision[key[r]], stored[key[r]]} \subseteq {decided[r], NoDecision}
        /\ Phase[key[r]] # "absent"
<1> DEFINE s == key[r]
<1>0. s \in Scans /\ Touched(r)
  BY DEF IInv, TypeOK, Touched
<1>1. \A q \in Requests : key[q] = s /\ decided[q] # NoDecision => q = r
  BY <1>0 DEF IInv, ClaimedOnce, Touched
<1>2. Reached[s] = {decided[r]}
  BY <1>0, <1>1 DEF Reached
<1>3. ASSUME NEW d \in Told(s) PROVE d = decided[r]
  <2>1. PICK q \in Requests : key[q] = s /\ decided[q] = d /\ d # NoDecision
    BY <1>0, OneSource
  <2> QED
    BY <1>1, <2>1
<1>4. {decision[s], stored[s]} \subseteq {decided[r], NoDecision}
  BY <1>3 DEF Told
<1>5. Phase[s] # "absent"
  BY <1>0, TouchedPresent
<1> QED
  BY <1>2, <1>4, <1>5

\* What is stored has been reached, by a request that has claimed the investigation.
LEMMA StoredReached ==
  ASSUME IInv, NEW s \in Scans, stored[s] # NoDecision
  PROVE stored[s] \in Reached[s] /\ scan[s] # "none" /\ Reached[s] = {stored[s]}
        /\ Published[s] = {stored[s]}
<1>1. stored[s] \in Told(s)
  BY DEF Told
<1>2. PICK r \in Requests : key[r] = s /\ decided[r] = stored[s]
  BY <1>1 DEF IInv, ToldDecided
<1>3. Reached[s] = {stored[s]} /\ decision[s] \in {stored[s], NoDecision} /\ Phase[s] # "absent"
  BY <1>2, ReachedIs
<1> QED
  BY <1>3 DEF Phase, Published

\* A request that is still to be answered is told what it is answered.
LEMMA AnswerTells ==
  ASSUME TypeOK, UnansweredInv, NEW r \in Requests, pc[r] \notin {"over", "dead"},
         NEW code, NEW d, Answer(r, code, d), UNCHANGED <<key, decided>>
  PROVE Verdict!Tell(r, code, d)
<1>1. answer[r] = NoAnswer /\ NoAnswer = Verdict!NoAnswer
  BY DEF UnansweredInv, NoAnswer, Verdict!NoAnswer
<1>2. answer' = [answer EXCEPT ![r] = [code |-> code, decision |-> d]]
  BY DEF Answer
<1>3. Reached' = Reached
  BY DEF Reached
<1> QED
  BY <1>1, <1>2, <1>3 DEF Verdict!Tell

\* The map looks only at the status, the decisions and the answers.
LEMMA SameVerdict ==
  /\ UNCHANGED <<key, decided>> => Reached' = Reached
  /\ UNCHANGED <<decision, stored>> => Published' = Published
  /\ UNCHANGED scan => Phase' = Phase
  BY DEF Reached, Published, Phase

LEMMA VerdictStill ==
  ASSUME UNCHANGED <<key, scan, decided, decision, stored, answer>>
  PROVE [Verdict!Next]_(Verdict!vars)
  BY SameVerdict DEF Verdict!vars

\* Where one scan's status moves, its phase does.
LEMMA PhaseMoves ==
  ASSUME TypeOK, NEW s \in Scans, NEW to \in Statuses \ {"none"},
         scan' = [scan EXCEPT ![s] = to]
  PROVE Verdict!Move(s, IF to \in {"accepted", "processing"} THEN "open" ELSE to)
  BY DEF TypeOK, Phase, Verdict!Move

\* Inserting a scan submits it, or changes nothing.
LEMMA InsertSubmits ==
  ASSUME TypeOK, NEW s \in Scans, InsertScan(s)
  PROVE \/ UNCHANGED scan /\ scan[s] # "none"
        \/ Phase[s] = "absent" /\ Verdict!Move(s, "open")
<1>1. CASE scan[s] = "none"
  <2>1. scan' = [scan EXCEPT ![s] = "accepted"] /\ Phase[s] = "absent"
    BY <1>1 DEF InsertScan, Phase
  <2>2. "accepted" \in Statuses \ {"none"}
    BY DEF Statuses
  <2> QED
    BY <2>1, <2>2, PhaseMoves
<1>2. CASE scan[s] # "none"
  BY <1>2 DEF InsertScan
<1> QED
  BY <1>1, <1>2

LEMMA SubmittingKeeps ==
  ASSUME IInv, UnansweredInv, NEW r \in Requests,
         ResolveParent(r) \/ Submit(r) \/ SubmitFails(r)
  PROVE [Verdict!Next]_(Verdict!vars)
<1>0. TypeOK /\ key[r] \in Scans
  BY DEF IInv, TypeOK
<1>1. CASE ResolveParent(r)
  <2>1. UNCHANGED <<key, scan, decided, decision, stored>> /\ pc[r] = "new"
    BY <1>1 DEF ResolveParent, dbVars
  <2>2. UNCHANGED answer \/ Answer(r, 409, NoDecision)
    BY <1>1 DEF ResolveParent
  <2>3. CASE UNCHANGED answer
    BY <2>1, <2>3, VerdictStill
  <2>4. CASE Answer(r, 409, NoDecision)
    <3>1. Verdict!Tell(r, 409, NoDecision)
      BY <1>0, <2>1, <2>4, AnswerTells
    <3>2. Verdict!PutOff(r)
      BY <2>1, <3>1, SameVerdict DEF Verdict!PutOff
    <3> QED
      BY <3>2 DEF Verdict!Next
  <2> QED
    BY <2>2, <2>3, <2>4
<1>2. CASE Submit(r)
  <2>1. /\ UNCHANGED <<key, decided, decision, stored>> /\ pc[r] = "resolved"
        /\ InsertScan(key[r])
    BY <1>2 DEF Submit
  <2>2. CASE stored[key[r]] # NoDecision
    <3>1. /\ stored[key[r]] \in Reached[key[r]] /\ scan[key[r]] # "none"
      BY <1>0, <2>2, StoredReached
    <3>2. UNCHANGED scan
      BY <2>1, <3>1 DEF InsertScan
    <3>3. Answer(r, 200, stored[key[r]])
      BY <1>2, <2>2 DEF Submit
    <3>4. Verdict!Tell(r, 200, stored[key[r]])
      BY <1>0, <2>1, <3>3, AnswerTells
    <3>5. Verdict!Answer(r)
      BY <2>1, <3>1, <3>2, <3>4, SameVerdict DEF Verdict!Answer
    <3> QED
      BY <3>5 DEF Verdict!Next
  <2>3. CASE stored[key[r]] = NoDecision
    <3>1. UNCHANGED answer
      BY <1>2, <2>3 DEF Submit
    <3>2. CASE UNCHANGED scan
      BY <2>1, <3>1, <3>2, VerdictStill
    <3>3. CASE Phase[key[r]] = "absent" /\ Verdict!Move(key[r], "open")
      <4>1. Verdict!Submit(key[r])
        BY <2>1, <3>1, <3>3, SameVerdict DEF Verdict!Submit
      <4> QED
        BY <1>0, <4>1 DEF Verdict!Next
    <3> QED
      BY <1>0, <2>1, <3>2, <3>3, InsertSubmits
  <2> QED
    BY <2>2, <2>3
<1>3. CASE SubmitFails(r)
  <2>1. /\ UNCHANGED <<key, decided, decision, stored>> /\ pc[r] = "resolved"
        /\ Answer(r, 500, NoDecision)
        /\ InsertScan(key[r]) \/ UNCHANGED scan
    BY <1>3 DEF SubmitFails
  <2>2. Verdict!Tell(r, 500, NoDecision)
    BY <1>0, <2>1, AnswerTells
  <2>3. UNCHANGED scan \/ (Phase[key[r]] = "absent" /\ Verdict!Move(key[r], "open"))
    BY <1>0, <2>1, InsertSubmits
  <2>4. Verdict!Fail(r)
    BY <2>1, <2>2, <2>3, SameVerdict DEF Verdict!Fail
  <2> QED
    BY <2>4 DEF Verdict!Next
<1> QED
  BY <1>1, <1>2, <1>3

LEMMA ClaimingKeeps ==
  ASSUME IInv, UnansweredInv, NEW r \in Requests, ClaimScan(r) \/ ClaimFails(r)
  PROVE [Verdict!Next]_(Verdict!vars)
<1>0. TypeOK /\ key[r] \in Scans
  BY DEF IInv, TypeOK
<1>1. UNCHANGED <<key, decided, decision, stored>> /\ pc[r] = "submitted"
  BY DEF ClaimScan, ClaimFails
<1>2. Phase' = Phase
  BY <1>0 DEF ClaimScan, ClaimFails, Claims, Phase, TypeOK
<1>3. CASE ClaimScan(r)
  <2>1. UNCHANGED answer \/ Answer(r, 202, NoDecision)
    BY <1>3 DEF ClaimScan
  <2>2. CASE UNCHANGED answer
    BY <1>1, <1>2, <2>2, SameVerdict DEF Verdict!vars
  <2>3. CASE Answer(r, 202, NoDecision)
    <3>1. Verdict!Tell(r, 202, NoDecision)
      BY <1>0, <1>1, <2>3, AnswerTells
    <3>2. Verdict!PutOff(r)
      BY <1>1, <1>2, <3>1, SameVerdict DEF Verdict!PutOff
    <3> QED
      BY <3>2 DEF Verdict!Next
  <2> QED
    BY <2>1, <2>2, <2>3
<1>4. CASE ClaimFails(r)
  <2>1. Answer(r, 500, NoDecision)
    BY <1>4 DEF ClaimFails
  <2>2. Verdict!Tell(r, 500, NoDecision)
    BY <1>0, <1>1, <2>1, AnswerTells
  <2>3. Verdict!Fail(r)
    BY <1>1, <1>2, <2>2, SameVerdict DEF Verdict!Fail
  <2> QED
    BY <2>3 DEF Verdict!Next
<1> QED
  BY <1>3, <1>4

LEMMA CorrelatingKeeps ==
  ASSUME IInv, NEW r \in Requests, NEW forensics \in Forensics, Correlate(r, forensics)
  PROVE [Verdict!Next]_(Verdict!vars)
<1> DEFINE s == key[r]
           d == decided'[r]
<1>0. TypeOK /\ s \in Scans
  BY DEF IInv, TypeOK
<1>1. /\ UNCHANGED <<key, scan, decision, stored, answer>>
      /\ pc[r] = "specialists"
      /\ \A q \in Requests \ {r} : decided'[q] = decided[q]
  BY <1>0 DEF Correlate, dbVars, TypeOK
<1>2. d # NoDecision
  BY <1>0, RecommendTyped DEF Correlate, NoDecision, TypeOK
<1>3. Touched(r) /\ decided[r] = NoDecision
  BY <1>1 DEF IInv, DecidedFrom, Touched, Working
<1>4. \A q \in Requests \ {r} : key[q] = s => decided[q] = NoDecision
  BY <1>3 DEF IInv, ClaimedOnce, Touched
<1>5. Reached[s] = {} /\ Phase[s] # "absent"
  <2>1. Reached[s] = {}
    BY <1>0, <1>3, <1>4 DEF Reached
  <2> QED
    BY <1>3, <2>1, TouchedPresent
<1>6. Reached' = [Reached EXCEPT ![s] = {d}]
  <2>1. DOMAIN Reached' = Scans /\ DOMAIN Reached = Scans
    BY DEF Reached
  <2>2. Reached'[s] = {d}
    BY <1>0, <1>1, <1>2, <1>4 DEF Reached
  <2>3. ASSUME NEW t \in Scans \ {s} PROVE Reached'[t] = Reached[t]
    BY <1>1, <2>3 DEF Reached
  <2>4. Reached' = [t \in Scans |-> Reached'[t]] /\ Reached = [t \in Scans |-> Reached[t]]
    BY DEF Reached
  <2> QED
    BY <1>0, <2>1, <2>2, <2>3, <2>4
<1>7. Verdict!Reach(s)
  <2>1. d \in Reached'[s]
    BY <1>0, <1>6 DEF Reached
  <2> QED
    BY <1>1, <1>5, <1>6, <2>1, SameVerdict DEF Verdict!Reach
<1> QED
  BY <1>0, <1>7 DEF Verdict!Next

LEMMA DecidingKeeps ==
  ASSUME IInv, UnansweredInv, NEW r \in Requests, PublishDecision(r) \/ StoreResponse(r)
  PROVE [Verdict!Next]_(Verdict!vars)
<1> DEFINE s == key[r]
           d == decided[r]
<1>0. TypeOK /\ s \in Scans /\ d # NoDecision
  BY DEF IInv, TypeOK, DecidedFrom, PublishDecision, StoreResponse
<1>1. Reached[s] = {d} /\ {decision[s], stored[s]} \subseteq {d, NoDecision}
  BY <1>0, ReachedIs
<1>2. UNCHANGED <<key, decided>>
  BY DEF PublishDecision, StoreResponse
<1>3. ASSUME UNCHANGED stored, decision' = [decision EXCEPT ![s] = d]
      PROVE Published' = [Published EXCEPT ![s] = {d}]
  BY <1>0, <1>1, <1>3 DEF Published, TypeOK
<1>4. ASSUME UNCHANGED decision, stored' = [stored EXCEPT ![s] = d]
      PROVE Published' = [Published EXCEPT ![s] = {d}]
  BY <1>0, <1>1, <1>4 DEF Published, TypeOK
<1>5. CASE PublishDecision(r)
  <2>1. UNCHANGED <<stored, answer>> /\ decision' = [decision EXCEPT ![s] = d]
    BY <1>5 DEF PublishDecision
  <2>2. Verdict!Move(s, IF Phase[s] = "open" THEN "completed" ELSE Phase[s])
    <3>1. scan' = [scan EXCEPT ![s] = IF @ = "processing" THEN "completed" ELSE @]
      BY <1>5 DEF PublishDecision
    <3>2. Touched(r)
      BY <1>0 DEF Touched
    <3>3. scan \in [Scans -> Statuses] /\ DOMAIN Phase = Scans /\ DOMAIN Phase' = Scans
      BY <1>0 DEF TypeOK, Phase
    <3>4. /\ (Phase[s] = "open") = (scan[s] = "processing")
          /\ scan[s] # "processing" => Phase[s] = scan[s]
      BY <3>2, TouchedPresent
    <3>5. scan'[s] = IF scan[s] = "processing" THEN "completed" ELSE scan[s]
      BY <1>0, <3>1, <3>3
    <3>6. Phase'[s] = IF Phase[s] = "open" THEN "completed" ELSE Phase[s]
      <4>1. Phase'[s] = IF scan'[s] = "none" THEN "absent"
                        ELSE IF scan'[s] \in {"accepted", "processing"} THEN "open"
                        ELSE scan'[s]
        BY <1>0 DEF Phase
      <4>2. scan[s] # "none" /\ scan[s] # "accepted"
        BY <3>2 DEF IInv, ClaimedOnce
      <4> QED
        BY <3>4, <3>5, <4>1, <4>2
    <3>7. ASSUME NEW t \in Scans \ {s} PROVE Phase'[t] = Phase[t]
      BY <3>1, <3>3, <3>7 DEF Phase
    <3>8. Phase' = [t \in Scans |-> Phase'[t]] /\ Phase = [t \in Scans |-> Phase[t]]
      BY DEF Phase
    <3> QED
      BY <1>0, <3>3, <3>6, <3>7, <3>8 DEF Verdict!Move
  <2>3. Verdict!Publish(s)
    BY <1>1, <1>2, <1>3, <2>1, <2>2, SameVerdict DEF Verdict!Publish
  <2> QED
    BY <1>0, <2>3 DEF Verdict!Next
<1>6. CASE StoreResponse(r)
  <2>1. /\ UNCHANGED <<scan, decision>> /\ pc[r] = "published"
        /\ stored' = stored \/ stored' = [stored EXCEPT ![s] = d]
        /\ Answer(r, 200, d)
    BY <1>6 DEF StoreResponse
  <2>2. Verdict!Tell(r, 200, d)
    BY <1>0, <1>2, <2>1, AnswerTells
  <2>3. Published' = Published \/ Published' = [Published EXCEPT ![s] = Reached[s]]
    BY <1>1, <1>4, <2>1, SameVerdict
  <2>4. Verdict!Answer(r)
    BY <1>1, <2>1, <2>2, <2>3, SameVerdict DEF Verdict!Answer
  <2> QED
    BY <2>4 DEF Verdict!Next
<1> QED
  BY <1>5, <1>6

LEMMA FailingKeeps ==
  ASSUME IInv, UnansweredInv, NEW r \in Requests, FailScan(r)
  PROVE [Verdict!Next]_(Verdict!vars)
<1>0. TypeOK /\ key[r] \in Scans
  BY DEF IInv, TypeOK
<1>1. /\ UNCHANGED <<key, decided, decision, stored>> /\ pc[r] = "failing"
      /\ Answer(r, 500, NoDecision)
  BY DEF FailScan
<1>2. Verdict!Tell(r, 500, NoDecision)
  BY <1>0, <1>1, AnswerTells
<1>3. Phase' = Phase \/ (Phase[key[r]] = "open" /\ Verdict!Move(key[r], "failed"))
  <2>1. CASE scan[key[r]] \in {"accepted", "processing"} /\ ~UNCHANGED scan
    <3>1. scan' = [scan EXCEPT ![key[r]] = "failed"] /\ Phase[key[r]] = "open"
      BY <1>0, <2>1 DEF FailScan, Phase
    <3>2. "failed" \in Statuses \ {"none"}
      BY DEF Statuses
    <3> QED
      BY <1>0, <3>1, <3>2, PhaseMoves
  <2>2. CASE scan[key[r]] \notin {"accepted", "processing"} \/ UNCHANGED scan
    <3>1. scan' = scan
      BY <1>0, <2>2 DEF FailScan, TypeOK
    <3> QED
      BY <3>1, SameVerdict
  <2> QED
    BY <2>1, <2>2
<1>4. Verdict!Fail(r)
  BY <1>1, <1>2, <1>3, SameVerdict DEF Verdict!Fail
<1> QED
  BY <1>4 DEF Verdict!Next

\* Every step of the system is a step of the abstract specification, or none.
LEMMA VerdictSimulation ==
  IInv /\ UnansweredInv /\ [Next]_vars => [Verdict!Next]_(Verdict!vars)
<1> SUFFICES ASSUME IInv, UnansweredInv, [Next]_vars PROVE [Verdict!Next]_(Verdict!vars)
  OBVIOUS
<1>1. ASSUME NEW r \in Requests, RequestAction(r) PROVE [Verdict!Next]_(Verdict!vars)
  <2>1. CASE (\E ok \in BOOLEAN : Parse(r, ok)) \/ PersistDetails(r) \/ StartSpecialists(r)
             \/ PublishFails(r) \/ RequestFails(r) \/ RequestDies(r)
    BY <2>1, VerdictStill DEF Parse, PersistDetails, StartSpecialists, PublishFails,
       RequestFails, RequestDies, dbVars
  <2> QED
    BY <1>1, <2>1, SubmittingKeeps, ClaimingKeeps, CorrelatingKeeps, DecidingKeeps,
       FailingKeeps DEF RequestAction, RequestStep
<1>2. ASSUME NEW r \in Requests, NEW p \in Parts, SpecialistStep(r, p)
      PROVE [Verdict!Next]_(Verdict!vars)
  BY <1>2, VerdictStill DEF SpecialistStep, PrepareFails, Record, RecordFails, dbVars
<1>3. ASSUME NEW s \in Scans, CancelScan(s) PROVE [Verdict!Next]_(Verdict!vars)
  <2>1. PICK to \in {"cancelled", "cancel_requested"} : scan' = [scan EXCEPT ![s] = to]
    BY <1>3 DEF CancelScan
  <2>2. Phase[s] = "open"
    BY <1>3 DEF CancelScan, Phase
  <2>3. Verdict!Move(s, to)
    BY <2>1, PhaseMoves DEF IInv, Statuses
  <2>4. Verdict!Cancel(s)
    BY <1>3, <2>2, <2>3, CancelKeeps, SameVerdict DEF Verdict!Cancel, requestVars
  <2> QED
    BY <2>4 DEF Verdict!Next
<1>4. CASE UNCHANGED vars
  BY <1>4, VerdictStill DEF vars, dbVars, requestVars
<1> QED
  BY <1>1, <1>2, <1>3, <1>4 DEF Next, RequestAction

\* VerdictSpec, for any investigations, retries, specialists and crashes: the e-mail
\* analysis implements OneVerdict.
THEOREM ImplementsOneVerdict == Spec => VerdictSpec
<1>1. Init => Verdict!Init
  BY DEF Init, Verdict!Init, Verdict!NoAnswer, NoAnswer, Phase, Reached, Published
<1> QED
  BY <1>1, VerdictSimulation, Invariant, UnansweredInvariant, PTL
     DEF Spec, VerdictSpec, Verdict!Spec
===============================================================================
