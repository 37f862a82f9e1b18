------------------------------ MODULE Workspaces ------------------------------
(***************************************************************************)
(* The workspace a signed-in person's request works in: getProfileContext   *)
(* and ensureDefaultWorkspace of lib/supabase-server.js.  A first request   *)
(* creates the profile and a workspace of its own for the person; several   *)
(* first requests may run at once, any of them may stop between two calls,  *)
(* and administrators invite and suspend members all the while.             *)
(***************************************************************************)
EXTENDS Naturals, FiniteSets

CONSTANTS
  Visits,            \* requests of one person
  OtherOrgs,         \* workspaces other people may invite the person to
  MaxWorkspaceFaults \* bound: lost answers and killed requests

ASSUME WorkspacesAssumption == "own" \notin OtherOrgs /\ MaxWorkspaceFaults \in Nat

Orgs == OtherOrgs \cup {"own"}  \* "own" has the person's slug

VARIABLES
  profile,         \* the profile row is there
  defaultOrg,      \* its default_org_id
  membership,      \* organization_members: "none", "active" or "suspended"
  orgRows,         \* workspaces with the person's slug
  ownPlan,         \* the plan of that workspace
  visit,           \* where a request is, and the workspace it has found
  memberSince,     \* history: workspaces the person was active in while a request ran
  workspaceFaults  \* history: faults so far

rows == <<profile, defaultOrg, membership, orgRows, ownPlan>>
workspacesVars == <<rows, visit, memberSince, workspaceFaults>>

VisitAt(step, wants, org) == [step |-> step, wants |-> wants, org |-> org]

WorkspacesInit ==
  /\ profile = FALSE /\ defaultOrg = "none"
  /\ membership = [o \in Orgs |-> "none"]
  /\ orgRows = 0 /\ ownPlan = "free"
  /\ visit = [v \in Visits |-> VisitAt("idle", "none", "none")]
  /\ memberSince = [v \in Visits |-> {}]
  /\ workspaceFaults = 0

ActiveIn == {o \in Orgs : membership[o] = "active"}
WorkspaceFault == workspaceFaults < MaxWorkspaceFaults /\ workspaceFaults' = workspaceFaults + 1
NoWorkspaceFault == UNCHANGED workspaceFaults
VisitStep(v, from, to, org) ==
  /\ visit[v].step = from
  /\ visit' = [visit EXCEPT ![v] = VisitAt(to, @.wants, org)]
\* A call that may take effect without its answer arriving: then the request fails.
Asks(v, from, to, org) ==
  \/ VisitStep(v, from, to, org) /\ NoWorkspaceFault
  \/ VisitStep(v, from, "failed", "none") /\ WorkspaceFault

\* The person's token is verified; the request may name a workspace.
Authenticate(v, wants) ==
  /\ visit[v].step = "idle"
  /\ visit' = [visit EXCEPT ![v] = VisitAt("verified", wants, "none")]
  /\ memberSince' = [memberSince EXCEPT ![v] = ActiveIn]
  /\ UNCHANGED <<rows, workspaceFaults>>

\* The profile, created when it is missing; then the workspace to look at: the one
\* that is asked for, else the default, else none.
ReadProfile(v) ==
  /\ profile' = TRUE
  /\ LET wants == visit[v].wants
         org == IF wants # "none" THEN wants ELSE defaultOrg
     IN Asks(v, "verified", IF org = "none" THEN "repair" ELSE "member", org)
  /\ UNCHANGED <<defaultOrg, membership, orgRows, ownPlan, memberSince>>

\* A lookup that does not ask for status=eq.active.
EverMember(org) == membership[org] # "none"

ActiveMember(org) == membership[org] = "active"

\* The active membership of that workspace; without one, a request that named no
\* workspace is repaired, any other is refused.
ReadMembership(v) ==
  LET org == visit[v].org IN
  /\ Asks(v, "member",
           IF ActiveMember(org) THEN "ok"
           ELSE IF visit[v].wants = "none" THEN "repair" ELSE "refused", org)
  /\ UNCHANGED <<rows, memberSince>>

\* ensureDefaultWorkspace: the profile's workspace once more, ...
RepairPreferred(v) ==
  LET org == visit[v].org IN
  /\ Asks(v, "repair", IF org # "none" /\ ActiveMember(org) THEN "ok" ELSE "search", org)
  /\ UNCHANGED <<rows, memberSince>>

\* ... any active membership, which becomes the default, ...
RepairExisting(v) ==
  /\ \/ \E org \in ActiveIn : Asks(v, "search", "adopt", org)
     \/ ActiveIn = {} /\ Asks(v, "search", "create", "none")
  /\ UNCHANGED <<rows, memberSince>>

\* An upsert on the slug: one row, however often.
UpsertsOwn == 1

\* ... or a workspace of the person's own.  The upsert writes the free plan and the
\* name over whatever the row has.
CreateOwn(v) ==
  /\ orgRows' = UpsertsOwn /\ ownPlan' = "free"
  /\ Asks(v, "create", "join", "own")
  /\ UNCHANGED <<profile, defaultOrg, membership, memberSince>>

\* The person becomes its active owner, also when they had been suspended.
JoinOwn(v) ==
  /\ membership' = [membership EXCEPT !["own"] = "active"]
  /\ memberSince' = [r \in Visits |-> memberSince[r] \cup {"own"}]
  /\ Asks(v, "join", "adopt", "own")
  /\ UNCHANGED <<profile, defaultOrg, orgRows, ownPlan>>

\* PATCH profiles default_org_id, and the answer.
AdoptDefault(v) ==
  /\ defaultOrg' = visit[v].org
  /\ Asks(v, "adopt", "ok", visit[v].org)
  /\ UNCHANGED <<profile, membership, orgRows, ownPlan, memberSince>>

VisitDies(v) ==
  /\ visit[v].step \notin {"idle", "ok", "refused", "failed"} /\ WorkspaceFault
  /\ visit' = [visit EXCEPT ![v] = VisitAt("failed", @.wants, "none")]
  /\ UNCHANGED <<rows, memberSince>>

\* Administrators of the workspaces, and the billing of the person's own one.
Invite(o) ==
  /\ IF o = "own" THEN membership[o] = "suspended" ELSE membership[o] # "active"
  /\ membership' = [membership EXCEPT ![o] = "active"]
  /\ memberSince' = [r \in Visits |-> memberSince[r] \cup {o}]
  /\ UNCHANGED <<profile, defaultOrg, orgRows, ownPlan, visit, workspaceFaults>>
Suspend(o) ==
  /\ membership[o] = "active"
  /\ membership' = [membership EXCEPT ![o] = "suspended"]
  /\ UNCHANGED <<profile, defaultOrg, orgRows, ownPlan, visit, memberSince, workspaceFaults>>
Upgrade ==
  /\ orgRows > 0 /\ ownPlan = "free"
  /\ ownPlan' = "paid"
  /\ UNCHANGED <<profile, defaultOrg, membership, orgRows, visit, memberSince, workspaceFaults>>

WorkspacesNext ==
  \/ \E v \in Visits :
       \/ \E wants \in OtherOrgs \cup {"none"} : Authenticate(v, wants)
       \/ ReadProfile(v) \/ ReadMembership(v) \/ RepairPreferred(v) \/ RepairExisting(v)
       \/ CreateOwn(v) \/ JoinOwn(v) \/ AdoptDefault(v) \/ VisitDies(v)
  \/ \E o \in Orgs : Invite(o) \/ Suspend(o)
  \/ Upgrade

WorkspacesSpec == WorkspacesInit /\ [][WorkspacesNext]_workspacesVars

-------------------------------------------------------------------------------
(* Properties *)

WorkspacesTypeOK ==
  /\ profile \in BOOLEAN /\ defaultOrg \in Orgs \cup {"none"}
  /\ membership \in [Orgs -> {"none", "active", "suspended"}]
  /\ orgRows \in Nat /\ ownPlan \in {"free", "paid"}
  /\ memberSince \in [Visits -> SUBSET Orgs]
  /\ workspaceFaults \in 0..MaxWorkspaceFaults

\* A request that gets through works in a workspace its person was an active member
\* of at some time while the request ran, whatever repairs, invitations and
\* suspensions overlapped it (supabase-server.js:304-327).
WorksWhereMember ==
  \A v \in Visits : visit[v].step = "ok" => visit[v].org \in memberSince[v]

\* However many first requests run at once or die half way, the person ends up with
\* one workspace of their own, and a default that names a workspace that exists.
OneOwnWorkspace ==
  /\ orgRows <= 1
  /\ ("own" = defaultOrg \/ membership["own"] # "none") => orgRows = 1

\* A person works where they are a member, and has one place to work.
InOnesPlace == WorksWhereMember /\ OneOwnWorkspace
===============================================================================
