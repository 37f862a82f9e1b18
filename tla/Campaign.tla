-------------------------------- MODULE Campaign --------------------------------
(***************************************************************************)
(* Campaign memory (lib/email/campaign-memory.js): every email scan looks   *)
(* among the entities that earlier scans of its workspace left (domains,    *)
(* attachments, addresses of relays) for scans it has enough in common      *)
(* with, and then leaves its own (analyzeEmail in lib/email/service.js,     *)
(* with lib/email/persistence.js).  Scans run at the same time.             *)
(***************************************************************************)
EXTENDS Naturals, FiniteSets, FiniteSetsExt

CONSTANTS
  EmailScans,    \* scans of one workspace
  IdRank,        \* the order of their ids
  Entities,      \* [type, value], what the messages of these scans may hold
  MessageOf,     \* the message of each scan, see ThreatEntities
  MaxRows,       \* rows of other scans that a search reads, 5000 in the code
  MaxCandidates, \* scans that a search looks at more closely, 30 in the code
  MaxNamed,      \* scans that it names, 20 in the code
  MaxCampaignFaults

-------------------------------------------------------------------------------
(* Entities *)

\* A relay's address counts as trusted or observed, by who reported it.
HopEntities(hop) ==
  LET Some(type, value) == IF value = 0 THEN {} ELSE {[type |-> type, value |-> value]}
  IN Some(IF hop.trusted THEN "infrastructure_ip_trusted" ELSE "infrastructure_ip_observed",
          IF hop.public THEN hop.ip ELSE 0)
     \cup Some("infrastructure_host", hop.host) \cup Some("infrastructure_asn", hop.asn)

\* buildThreatEntities and normalizeEntity: the domains by where they appear, the
\* attachments, and the relays; a value of zero stands for one that is not there or
\* does not parse.
ThreatEntities(message) ==
  UNION {{[type |-> type, value |-> value] : value \in message.found[type]} :
           type \in DOMAIN message.found}
  \cup UNION {HopEntities(hop) : hop \in message.hops}

EntitiesOf == [s \in EmailScans |-> ThreatEntities(MessageOf[s])]

\* ENTITY_WEIGHTS: what entities in common add up to.
Score(common) ==
  LET n(type) == Cardinality({e \in common : e.type = type})
  IN 10 * n("attachment_sha256") + 7 * n("url_domain")
     + 6 * (n("reply_to_domain") + n("infrastructure_ip_trusted")) + 5 * n("return_path_domain")
     + 4 * (n("infrastructure_ip_observed") + n("dkim_domain"))
     + 3 * (n("from_domain") + n("sender_domain"))
     + 2 * (n("message_id_domain") + n("infrastructure_host")) + n("infrastructure_asn")

ASSUME CampaignAssumption ==
  /\ IsFiniteSet(EmailScans) /\ IsFiniteSet(Entities)
  /\ \A s \in EmailScans : EntitiesOf[s] \subseteq Entities
  /\ \A s, o \in EmailScans : IdRank[s] = IdRank[o] => s = o
  /\ MaxRows \in Nat /\ MaxCandidates \in Nat /\ MaxNamed \in Nat /\ MaxCampaignFaults \in Nat

VARIABLES
  memory,      \* email_threat_entities: <<scan, entity>>, in no order that matters
  stage,       \* how far the scan is: "parsed", "searched", "remembered"
  campaign,    \* what it says: its state, and the scans it is related to
  searchedTogether,  \* history: pairs of scans that searched before the other one was remembered
  crowded,     \* history: scans that found more candidates than a search keeps or names
  failedScans, \* history: scans whose search or save failed or was cut short
  campaignFaults

campaignVars == <<memory, stage, campaign, searchedTogether, crowded, failedScans, campaignFaults>>

Unavailable == [state |-> "UNAVAILABLE", related |-> {}]

CampaignInit ==
  /\ memory = {}
  /\ stage = [s \in EmailScans |-> "parsed"]
  /\ campaign = [s \in EmailScans |-> Unavailable]
  /\ searchedTogether = {} /\ crowded = {} /\ failedScans = {} /\ campaignFaults = 0

-------------------------------------------------------------------------------
(* campaignFromMatches *)

\* Two kinds of entities that weigh enough together, or an attachment, in common.
Meaningful(common) ==
  \/ \E e \in common : e.type = "attachment_sha256"
  \/ Score(common) >= 8 /\ Cardinality({e.type : e \in common}) >= 2

\* What matched of another scan, which other scans are candidates, and who comes first.
Matches(s, o, rows) == {e \in EntitiesOf[s] : <<o, e>> \in rows}
Candidates(s, rows) == {o \in EmailScans \ {s} : Score(Matches(s, o, rows)) >= 3}
Outranks(p, o, s, rows) ==
  LET mine == Score(Matches(s, p, rows)) other == Score(Matches(s, o, rows))
  IN p # o /\ (mine > other \/ (mine = other /\ IdRank[p] < IdRank[o]))
Best(n, from, s, rows) == {o \in from : Cardinality({p \in from : Outranks(p, o, s, rows)}) < n}

\* The best candidates are kept, and of these the ones with enough in common count: the
\* others take up places.  Not all that count are named.
MeaningfulIn(s, rows) ==
  {o \in Best(MaxCandidates, Candidates(s, rows), s, rows) : Meaningful(Matches(s, o, rows))}
RelatedIn(s, rows) == Best(MaxNamed, MeaningfulIn(s, rows), s, rows)
CrowdedIn(s, rows) ==
  \/ Cardinality(Candidates(s, rows)) > MaxCandidates
  \/ Cardinality(MeaningfulIn(s, rows)) > MaxNamed

Correlate(s, rows) ==
  [state |-> IF MeaningfulIn(s, rows) # {} THEN "CORRELATED"
             ELSE IF Cardinality(rows) = MaxRows THEN "PARTIAL"
             ELSE "NO_STRONG_MATCH",
   related |-> RelatedIn(s, rows)]

-------------------------------------------------------------------------------

Fails(s) == campaignFaults < MaxCampaignFaults /\ campaignFaults' = campaignFaults + 1
            /\ failedScans' = failedScans \cup {s}

\* The rows of other scans with an entity of this one.
RowsFor(s) == {m \in memory : m[1] # s /\ m[2] \in EntitiesOf[s]}

\* matchingThreatEntities: the rows of the other scans, newest first, as many as the
\* search reads.  When it throws nothing is left either; a memory that is not there
\* (isOptionalSchemaMissing) is said to be unavailable, and the scan still tries to leave
\* its entities.
Search(s) ==
  LET all == RowsFor(s) IN
  /\ stage[s] = "parsed"
  /\ \/ /\ stage' = [stage EXCEPT ![s] = "searched"]
        /\ \E rows \in kSubset(Min({MaxRows, Cardinality(all)}), all) :
             /\ campaign' = [campaign EXCEPT ![s] = Correlate(s, rows)]
             /\ crowded' = IF CrowdedIn(s, rows) THEN crowded \cup {s} ELSE crowded
        /\ failedScans' = IF Cardinality(all) > MaxRows THEN failedScans \cup {s} ELSE failedScans
        /\ UNCHANGED campaignFaults
     \/ /\ stage' \in {[stage EXCEPT ![s] = "searched"], [stage EXCEPT ![s] = "remembered"]}
        /\ UNCHANGED <<campaign, crowded>> /\ Fails(s)
  /\ searchedTogether' = searchedTogether \cup {{s, o} : o \in {x \in EmailScans \ {s} : stage[x] = "searched"}}
  /\ UNCHANGED memory

\* A scan that leaves its entities only when it is related to another one.
RememberRelated(s) ==
  /\ stage[s] = "searched"
  /\ stage' = [stage EXCEPT ![s] = "remembered"]
  /\ memory' = IF campaign[s].related = {} THEN memory
               ELSE memory \cup {<<s, e>> : e \in EntitiesOf[s]}
  /\ UNCHANGED <<campaign, searchedTogether, crowded, failedScans, campaignFaults>>

\* persistThreatEntities: all rows in one upsert.  When it throws, also what the search
\* had found is thrown away, and the rows may have been stored all the same; a memory
\* that is not there takes nothing and what was found stands.
Remember(s) ==
  LET remembered == memory \cup {<<s, e>> : e \in EntitiesOf[s]} IN
  /\ stage[s] = "searched"
  /\ stage' = [stage EXCEPT ![s] = "remembered"]
  /\ \/ memory' = remembered /\ UNCHANGED <<campaign, failedScans, campaignFaults>>
     \/ memory' \in {memory, remembered} /\ campaign' = [campaign EXCEPT ![s] = Unavailable] /\ Fails(s)
     \/ UNCHANGED <<memory, campaign>> /\ Fails(s)
  /\ UNCHANGED <<searchedTogether, crowded>>

CampaignNext == \E s \in EmailScans : Search(s) \/ Remember(s)
CampaignSpec == CampaignInit /\ [][CampaignNext]_campaignVars

-------------------------------------------------------------------------------
(* Properties *)

CampaignTypeOK ==
  /\ memory \subseteq EmailScans \X Entities
  /\ stage \in [EmailScans -> {"parsed", "searched", "remembered"}]
  /\ campaign \in [EmailScans -> [state : {"UNAVAILABLE", "CORRELATED", "PARTIAL", "NO_STRONG_MATCH"},
                                  related : SUBSET EmailScans]]
  /\ searchedTogether \subseteq SUBSET EmailScans /\ crowded \subseteq EmailScans /\ failedScans \subseteq EmailScans
  /\ campaignFaults \in 0..MaxCampaignFaults

\* Of two scans with enough in common the later one finds the earlier one: unless they
\* searched while neither was remembered, or a call of one of them failed or its search
\* was cut short, or one of them found more scans than it looks at or names
\* (campaign-memory.js:100,118), one of them names the other (service.js:595-621).
LaterFindsEarlier ==
  \A s, o \in EmailScans :
    /\ s # o /\ stage[s] = "remembered" /\ stage[o] = "remembered"
    /\ Meaningful(EntitiesOf[s] \cap EntitiesOf[o])
    /\ {s, o} \notin searchedTogether /\ {s, o} \cap (failedScans \cup crowded) = {}
    => s \in campaign[o].related \/ o \in campaign[s].related
===============================================================================
