------------------------------- MODULE Inference -------------------------------
(***************************************************************************)
(* One run of the phishing classifier (runMailGuard of                      *)
(* lib/detection-service.js): the text goes to the hosted model in chunks,  *)
(* two at a time, each a check that the model is the qualified one (cached  *)
(* for a while, and shared with the other runs of the process) and a        *)
(* request that is retried until a deadline (lib/veritrust-api.js).  Time   *)
(* is counted in ticks; answers may come at any time, timers are exact.     *)
(***************************************************************************)
EXTENDS Integers, FiniteSets, FiniteSetsExt

CONSTANTS
  ChunkCount,   \* chunks of the text, at most three in the code
  Second,       \* ticks of a second
  CacheTtl,     \* ticks for which a successful check is believed
  RunBudget     \* ticks the caller allows for the run

ASSUME InferenceAssumption ==
  /\ ChunkCount \in 0..3
  /\ Second \in Nat \ {0} /\ CacheTtl \in Nat /\ Second <= CacheTtl
  /\ RunBudget \in Nat

Chunks == 1..ChunkCount

VARIABLES
  clock,        \* Date.now()
  availability, \* hfAvailabilityCache: "none", a pending check or a fresh result, until when
  chunk,        \* what becomes of each chunk: its step, attempts, and the times it waits for
  shared        \* whether another run of this process has made a check that this one can meet

inferenceVars == <<clock, availability, chunk, shared>>

Waiting0 == [step |-> "waiting", budget |-> 0, began |-> 0, deadline |-> 0, attempt |-> 0, timer |-> 0]

NoCheck == [state |-> "none", until |-> 0]
Fresh == availability.state = "fresh" /\ availability.until > clock

\* Nothing is known of the model, or an earlier run left a result that is still fresh.
InferenceInit ==
  /\ clock = 0
  /\ availability \in {NoCheck} \cup [state : {"fresh"}, until : 1..CacheTtl]
  /\ chunk = [c \in Chunks |-> Waiting0]
  /\ shared = FALSE

AtLeastSecond(t) == Max({Second, t})
RunDeadline == AtLeastSecond(RunBudget)
ChunksIn(steps) == {c \in Chunks : chunk[c].step \in steps}
Active == ChunksIn({"checking", "request", "pause"})

-------------------------------------------------------------------------------

\* mapWithConcurrency: two consumers take the chunks in order; one whose chunk fails
\* stops, the other goes on although the run has failed.
MayStart(c) ==
  /\ chunk[c].step = "waiting" /\ \A d \in 1..(c - 1) : chunk[d].step # "waiting"
  /\ Cardinality(Active \cup ChunksIn({"failed"})) < 2

\* What is left of a chunk's time after the check is the deadline of its requests.
Requesting(r) ==
  LET deadline == clock + AtLeastSecond(r.budget - (clock - r.began))
  IN [r EXCEPT !.step = "request", !.deadline = deadline, !.attempt = 1, !.timer = deadline]

CheckTime(budget) == AtLeastSecond(Min({4 * Second, budget \div 4}))

\* hfJsonInference begins: the check is believed, awaited or made.
StartChunk(c) ==
  /\ MayStart(c)
  /\ LET budget == AtLeastSecond(RunDeadline - clock)
         started == [Waiting0 EXCEPT !.step = "checking", !.budget = budget, !.began = clock]
     IN /\ chunk' = [chunk EXCEPT ![c] = IF Fresh THEN Requesting(started) ELSE started]
        /\ availability' = IF Fresh \/ availability.state = "pending" THEN availability
                           ELSE [state |-> "pending", until |-> clock + CheckTime(budget)]
  /\ UNCHANGED <<clock, shared>>

\* Another run of the process makes the check, with up to four seconds for it.
OtherRunChecks ==
  /\ ~Fresh /\ availability.state # "pending"
  /\ \E time \in Second..(4 * Second) : availability' = [state |-> "pending", until |-> clock + time]
  /\ shared' = TRUE
  /\ UNCHANGED <<clock, chunk>>

\* The check succeeds or fails, for all who wait for it; at its timer it fails.
AnswerCheck(passed) ==
  /\ availability.state = "pending"
  /\ passed => clock < availability.until
  /\ availability' = IF passed THEN [state |-> "fresh", until |-> clock + CacheTtl]
                     ELSE NoCheck
  /\ chunk' = [c \in Chunks |->
       IF chunk[c].step # "checking" THEN chunk[c]
       ELSE IF passed THEN Requesting(chunk[c]) ELSE [chunk[c] EXCEPT !.step = "failed"]]
  /\ UNCHANGED <<clock, shared>>

\* hfRequestWithRetry: a good answer, a bad one for good, or one to retry after a delay
\* if that leaves a second; at its timer the request fails.
AnswerRequest(c) ==
  LET r == chunk[c] IN
  /\ r.step = "request"
  /\ \/ clock < r.timer /\ chunk' = [chunk EXCEPT ![c].step = "done"]
     \/ chunk' = [chunk EXCEPT ![c].step = "failed"]
     \/ \E delay \in 1..((3 * Second) \div 2) :
          /\ r.attempt < 3 /\ r.deadline - clock > delay + Second
          /\ chunk' = [chunk EXCEPT ![c].step = "pause", ![c].timer = clock + delay]
  /\ UNCHANGED <<clock, availability, shared>>

\* A retry that is given the whole time again.
RetryAfresh(c) ==
  LET r == chunk[c] IN
  /\ r.step = "pause" /\ clock = r.timer
  /\ chunk' = [chunk EXCEPT ![c].step = "request", ![c].attempt = @ + 1, ![c].timer = clock + r.budget]
  /\ UNCHANGED <<clock, availability, shared>>

\* The next attempt has what remains until the deadline.
Retry(c) ==
  LET r == chunk[c] IN
  /\ r.step = "pause" /\ clock = r.timer
  /\ chunk' = [chunk EXCEPT ![c].step = "request", ![c].attempt = @ + 1, ![c].timer = r.deadline]
  /\ UNCHANGED <<clock, availability, shared>>

\* Time passes while something is awaited and no timer is due.
Tick ==
  /\ Active # {} /\ \A c \in Chunks : ~MayStart(c)
  /\ availability.state = "pending" => clock < availability.until
  /\ \A c \in ChunksIn({"request", "pause"}) : clock < chunk[c].timer
  /\ clock' = clock + 1
  /\ UNCHANGED <<availability, chunk, shared>>

InferenceNext ==
  \/ \E c \in Chunks : StartChunk(c) \/ AnswerRequest(c) \/ Retry(c)
  \/ \E passed \in BOOLEAN : AnswerCheck(passed)
  \/ OtherRunChecks
  \/ Tick

InferenceSpec == InferenceInit /\ [][InferenceNext]_inferenceVars

-------------------------------------------------------------------------------
(* Properties *)

InferenceTypeOK ==
  /\ clock \in Nat
  /\ availability \in [state : {"none", "pending", "fresh"}, until : Nat]
  /\ chunk \in [Chunks -> [step : {"waiting", "checking", "request", "pause", "done", "failed"},
                           budget : Nat, began : Nat, deadline : Nat, attempt : 0..3, timer : Nat]]
  /\ shared \in BOOLEAN

\* What the minimum waits can add: two of a second each, or a second after the four
\* that another run's check may take.
Grace == (IF shared THEN 5 ELSE 2) * Second

\* No chunk outlasts the time it was given or two seconds, whichever is longer, and
\* nothing of the run, not even the chunks that go on after it failed, is under way
\* more than two seconds after its deadline: minimum waits of a second (for the check,
\* veritrust-api.js:252, and for the requests, veritrust-api.js:405) add up at most
\* twice, whatever is retried (detection-service.js:334-341).  A run that joins the
\* check of another one (veritrust-api.js:247) has to allow five seconds instead.
InferenceInTime ==
  \A c \in Active :
    /\ clock - chunk[c].began <= Max({chunk[c].budget, Grace})
    /\ clock <= RunDeadline + Grace
===============================================================================
