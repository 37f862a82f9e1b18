------------------------------ MODULE Enrichment ------------------------------
(***************************************************************************)
(* What an e-mail investigation asks of others about the servers and the    *)
(* domains it found: the hops of the Received headers and their location    *)
(* (lib/email/infrastructure.js, geo-provider.js), then the registration of *)
(* the domains and the reputation of the addresses (threat-intelligence.js),*)
(* as analyzeEmail of lib/email/service.js calls them.  The investigations  *)
(* of one process share two caches: a location is cached as a promise, so   *)
(* that one request serves all who ask, and for good; the rest is cached    *)
(* with its answer, and for a time.                                         *)
(***************************************************************************)
EXTENDS Naturals, Sequences, FiniteSets

CONSTANTS
  Traced,         \* the investigations of a process
  IpAddresses,    \* as their four octets, or their eight groups
  Domains,
  Received,       \* the candidate addresses of each Received header of a message
  NamedDomains,   \* the domains a message names (collectDomains), in their order
  MaxLookups,     \* maxLookups (12)
  MaxConcurrent,  \* concurrency (4)
  MaxIntel        \* the limit of mapLimited (8)

ASSUME EnrichmentAssumption ==
  /\ IsFiniteSet(IpAddresses)
  /\ Received \in [Traced -> Seq(Seq(IpAddresses))]
  /\ NamedDomains \in [Traced -> Seq(Domains)]
  /\ MaxLookups \in Nat /\ MaxConcurrent \in Nat /\ MaxIntel \in Nat

VARIABLES
  providers,    \* the configured ones among "geo", "rdap" and "abuse"
  geoCache,     \* cache of geo-provider.js: no promise, one pending, its answer
  requesting,   \* the location requests on their way, with who sent them
  enrichPc,     \* where an investigation is
  geoAnswer,    \* what it was told of an address
  infraState,   \* infrastructureResult.state
  intelFresh,   \* cache of threat-intelligence.js: what is in it and not expired
  intelAnswer,  \* what an investigation was told of a domain or an address
  intelState    \* threatIntelligence.state

enrichmentVars == <<providers, geoCache, requesting, enrichPc, geoAnswer, infraState,
                    intelFresh, intelAnswer, intelState>>

-------------------------------------------------------------------------------
(* The hops of a message *)

IPv4Class(a) ==
  IF a[1] = 127 THEN "loopback"
  ELSE IF a[1] = 10 \/ (a[1] = 172 /\ a[2] \in 16..31) \/ (a[1] = 192 /\ a[2] = 168) THEN "private"
  ELSE IF \/ a[1] = 0 \/ a[1] \in 224..239
          \/ <<a[1], a[2]>> = <<169, 254>>
          \/ a[1] = 100 /\ a[2] \in 64..127
          \/ a[1] = 198 /\ a[2] \in 18..19
          \/ <<a[1], a[2], a[3]>> \in {<<192, 0, 0>>, <<192, 0, 2>>, <<198, 51, 100>>, <<203, 0, 113>>}
       THEN "reserved"
  ELSE "public"

\* The patterns look at the text: a group of two, three or four hexadecimal digits may
\* begin with the two (ff, fc, fd), one of three or four with the three (fe8 to feb).
IPv6Class(a) ==
  LET zeros == \A i \in 1..7 : a[i] = 0
      begins == {a[1], a[1] \div 16, a[1] \div 256}
  IN IF zeros /\ a[8] = 1 THEN "loopback"
     ELSE IF (zeros /\ a[8] = 0) \/ 255 \in begins \/ <<a[1], a[2]>> = <<8193, 3512>> THEN "reserved"
     ELSE IF {252, 253} \cap begins # {} THEN "private"
     ELSE IF {a[1], a[1] \div 16} \cap 4072..4075 # {} THEN "reserved"
     ELSE "public"

ClassifyIp(a) == IF Len(a) = 4 THEN IPv4Class(a) ELSE IPv6Class(a)

\* extractInfrastructure: the first public address of a header, or else its first one.
PublicIn(line) == {i \in DOMAIN line : ClassifyIp(line[i]) = "public"}
HopAddress ==
  [s \in Traced |->
     [h \in {h \in DOMAIN Received[s] : PublicIn(Received[s][h]) # {}} |->
        LET line == Received[s][h]
        IN line[CHOOSE i \in PublicIn(line) : \A j \in PublicIn(line) : i <= j]]]
PublicHops(s) == DOMAIN HopAddress[s]
PublicIps == [s \in Traced |-> {HopAddress[s][h] : h \in PublicHops(s)}]
Named == [s \in Traced |-> {NamedDomains[s][i] : i \in DOMAIN NamedDomains[s]}]

\* The first ones of some items, each counted where it comes first.
IpPlaces(s, ip) == {h \in PublicHops(s) : HopAddress[s][h] = ip}
DomainPlaces(s, d) == {i \in DOMAIN NamedDomains[s] : NamedDomains[s][i] = d}
Before(places, others) == \E i \in places : \A j \in others : i < j

FirstIps(s, limit) ==
  {ip \in PublicIps[s] :
     Cardinality({o \in PublicIps[s] : Before(IpPlaces(s, o), IpPlaces(s, ip))}) < limit}
LookupIps == [s \in Traced |-> FirstIps(s, MaxLookups)]
RatedIps == [s \in Traced |-> FirstIps(s, MaxIntel)]
RegisteredDomains ==
  [s \in Traced |->
     {d \in Named[s] :
        Cardinality({o \in Named[s] : Before(DomainPlaces(s, o), DomainPlaces(s, d))}) < MaxIntel}]

-------------------------------------------------------------------------------
(* Locations *)

EnrichmentInit ==
  /\ providers \in SUBSET {"geo", "rdap", "abuse"}
  /\ geoCache = [ip \in IpAddresses |-> "none"]
  /\ requesting = {}
  /\ enrichPc = [s \in Traced |-> "start"]
  /\ geoAnswer = [s \in Traced |-> [ip \in IpAddresses |-> "waiting"]]
  /\ infraState = [s \in Traced |-> "none"]
  /\ intelFresh = {}
  /\ intelAnswer = [s \in Traced |-> [x \in Domains \cup IpAddresses |-> "waiting"]]
  /\ intelState = [s \in Traced |-> "none"]

Step(s, from, to) == enrichPc[s] = from /\ enrichPc' = [enrichPc EXCEPT ![s] = to]
GeoRests == UNCHANGED <<geoCache, requesting, geoAnswer>>
IntelRests == UNCHANGED <<providers, intelFresh, intelAnswer, intelState>>

With(s, answer) == {ip \in IpAddresses : geoAnswer[s][ip] = answer}

\* enrichInfrastructure, before its lookups: without a public address or a provider
\* there are none.
StartLookups(s) ==
  /\ \/ /\ PublicIps[s] # {} /\ "geo" \in providers
        /\ Step(s, "start", "locating") /\ UNCHANGED infraState
     \/ /\ PublicIps[s] = {} \/ "geo" \notin providers
        /\ Step(s, "start", "located")
        /\ infraState' = [infraState EXCEPT ![s] = "UNAVAILABLE"]
  /\ GeoRests /\ IntelRests

\* A promise that is cached only once it has its answer.
CachedWithAnswer(ip) == geoCache

\* cache.set(ip, promise), before the request is awaited.
CachedAtOnce(ip) == [geoCache EXCEPT ![ip] = "pending"]

\* A worker of mapWithConcurrency takes the next address: from the cache, or with those
\* who wait for it already, or with a request of its own (lookupIpWhoIs,
\* lookupConfiguredProvider).
LookUp(s, ip) ==
  /\ enrichPc[s] = "locating"
  /\ Cardinality(With(s, "asked")) < MaxConcurrent
  /\ ip \in LookupIps[s] /\ geoAnswer[s][ip] = "waiting"
  /\ \A o \in LookupIps[s] :
       geoAnswer[s][o] = "waiting" => ~Before(IpPlaces(s, o), IpPlaces(s, ip))
  /\ geoAnswer' = [geoAnswer EXCEPT ![s][ip] =
                     IF geoCache[ip] \in {"found", "empty"} THEN geoCache[ip] ELSE "asked"]
  /\ IF geoCache[ip] = "none"
       THEN geoCache' = CachedAtOnce(ip) /\ requesting' = requesting \cup {<<s, ip>>}
       ELSE UNCHANGED <<geoCache, requesting>>
  /\ UNCHANGED <<enrichPc, infraState>> /\ IntelRests

\* The promise settles, for all who wait for it: with some context of the address, with
\* nothing of it, or with an error, which takes it out of the cache.
Located(s, ip) ==
  /\ <<s, ip>> \in requesting
  /\ \E a \in {"found", "empty", "failed"} :
       /\ geoCache' = [geoCache EXCEPT ![ip] = IF a = "failed" THEN "none" ELSE a]
       /\ geoAnswer' = [t \in Traced |->
                          [geoAnswer[t] EXCEPT ![ip] = IF @ = "asked" THEN a ELSE @]]
  /\ requesting' = requesting \ {<<s, ip>>}
  /\ UNCHANGED <<enrichPc, infraState>> /\ IntelRests

\* The state of the answer counts the lookups that did not fail, among all addresses.
LiveState(s) ==
  LET succeeded == PublicIps[s] \cap (With(s, "found") \cup With(s, "empty"))
  IN IF succeeded = PublicIps[s] THEN "COMPLETED"
     ELSE IF succeeded # {} THEN "PARTIAL" ELSE "UNAVAILABLE"

FinishLookups(s) ==
  /\ Step(s, "locating", "located")
  /\ LookupIps[s] \cap (With(s, "waiting") \cup With(s, "asked")) = {}
  /\ infraState' = [infraState EXCEPT ![s] = LiveState(s)]
  /\ GeoRests /\ IntelRests

\* infrastructureStateFromHops, of the stored rows: those with some context, among all
\* public hops.
StoredState(s) ==
  LET context == {h \in PublicHops(s) : HopAddress[s][h] \in With(s, "found")}
  IN IF PublicHops(s) = {} \/ context = {} THEN "UNAVAILABLE"
     ELSE IF context = PublicHops(s) THEN "COMPLETED" ELSE "PARTIAL"

-------------------------------------------------------------------------------
(* Registrations and reputations *)

IntelAsked(s) == {x \in Domains \cup IpAddresses : intelAnswer[s][x] = "asked"}

\* mapLimited: every item is looked up at once, from the cache while it is fresh.
Ask(s, items) ==
  intelAnswer' = [intelAnswer EXCEPT ![s] =
    [x \in Domains \cup IpAddresses |->
       IF x \notin items THEN @[x] ELSE IF x \in intelFresh THEN "known" ELSE "asked"]]

\* lookupDomainRdap, unless VERITRUST_RDAP_PROVIDER is off.
AskDomains(s) ==
  /\ Step(s, "located", "registered")
  /\ IF "rdap" \in providers THEN Ask(s, RegisteredDomains[s]) ELSE UNCHANGED intelAnswer
  /\ UNCHANGED <<providers, intelFresh, intelState, infraState>> /\ GeoRests

\* lookupAbuseIpDb, once the domains have their answers; without a key it fails.
AskReputations(s) ==
  /\ Step(s, "registered", "rated") /\ IntelAsked(s) = {}
  /\ IF "abuse" \in providers THEN Ask(s, RatedIps[s])
     ELSE intelAnswer' = [intelAnswer EXCEPT ![s] =
            [x \in Domains \cup IpAddresses |-> IF x \in RatedIps[s] THEN "failed" ELSE @[x]]]
  /\ UNCHANGED <<providers, intelFresh, intelState, infraState>> /\ GeoRests

\* safeJsonFetch returns, or gives up: a redirect too many or to an address that is not
\* public, an error, a body that is too large, a timeout.
IntelReturns(s, x) ==
  /\ intelAnswer[s][x] = "asked"
  /\ \/ /\ intelAnswer' = [intelAnswer EXCEPT ![s][x] = "known"]
        /\ intelFresh' = intelFresh \cup {x}
     \/ intelAnswer' = [intelAnswer EXCEPT ![s][x] = "failed"] /\ UNCHANGED intelFresh
  /\ UNCHANGED <<providers, enrichPc, infraState, intelState>> /\ GeoRests

\* expiresAt has passed: after six hours for a domain, half an hour for an address.
IntelExpires(x) ==
  /\ x \in intelFresh /\ intelFresh' = intelFresh \ {x}
  /\ UNCHANGED <<providers, enrichPc, infraState, intelAnswer, intelState>> /\ GeoRests

\* The rest of enrichThreatIntelligence: what was answered, among what was asked.
FinishIntel(s) ==
  LET usable == {x \in Domains \cup IpAddresses : intelAnswer[s][x] = "known"}
      attempted == {x \in Domains \cup IpAddresses : intelAnswer[s][x] # "waiting"}
  IN /\ Step(s, "rated", "enriched") /\ IntelAsked(s) = {}
     /\ intelState' = [intelState EXCEPT ![s] =
          IF usable = {} THEN "UNAVAILABLE" ELSE IF usable = attempted THEN "COMPLETED" ELSE "PARTIAL"]
     /\ UNCHANGED <<providers, intelFresh, intelAnswer, infraState>> /\ GeoRests

EnrichmentNext ==
  \/ \E s \in Traced :
       \/ StartLookups(s) \/ FinishLookups(s) \/ AskDomains(s) \/ AskReputations(s) \/ FinishIntel(s)
       \/ \E ip \in IpAddresses : LookUp(s, ip) \/ Located(s, ip)
       \/ \E x \in Domains \cup IpAddresses : IntelReturns(s, x)
  \/ \E x \in Domains \cup IpAddresses : IntelExpires(x)

EnrichmentSpec == EnrichmentInit /\ [][EnrichmentNext]_enrichmentVars

-------------------------------------------------------------------------------
(* Properties *)

States == {"none", "COMPLETED", "PARTIAL", "UNAVAILABLE"}

EnrichmentTypeOK ==
  /\ providers \subseteq {"geo", "rdap", "abuse"}
  /\ geoCache \in [IpAddresses -> {"none", "pending", "found", "empty"}]
  /\ requesting \subseteq Traced \X IpAddresses
  /\ enrichPc \in [Traced -> {"start", "locating", "located", "registered", "rated", "enriched"}]
  /\ geoAnswer \in [Traced -> [IpAddresses -> {"waiting", "asked", "found", "empty", "failed"}]]
  /\ infraState \in [Traced -> States] /\ intelState \in [Traced -> States]
  /\ intelFresh \subseteq Domains \cup IpAddresses
  /\ intelAnswer \in [Traced -> [Domains \cup IpAddresses -> {"waiting", "asked", "known", "failed"}]]

\* Whoever waits for a location waits for the one request that asks for it, and two
\* investigations never show different locations of an address, however their lookups
\* overlap (geo-provider.js:52-77): an error ends the wait of all, and the next one asks
\* again.  An investigation keeps to its bounds (infrastructure.js:80-94,121-124).
LookupsShared ==
  /\ \A ip \in IpAddresses, s \in Traced :
       /\ <<s, ip>> \in requesting => \A t \in Traced : <<t, ip>> \in requesting => t = s
       /\ geoAnswer[s][ip] = "asked" => \E t \in Traced : <<t, ip>> \in requesting
       /\ geoAnswer[s][ip] \in {"found", "empty"} => geoCache[ip] = geoAnswer[s][ip]
       /\ geoAnswer[s][ip] # "waiting" => ip \in LookupIps[s]
  /\ \A s \in Traced : Cardinality(With(s, "asked")) <= MaxConcurrent

\* The report rebuilt from the stored hops gives the state that the answer gave, although
\* one counts hops and the other addresses (service.js:696,788), unless the provider knew
\* an address and nothing about it: that lookup succeeded, and leaves no context.
StateRebuilt ==
  \A s \in Traced :
    infraState[s] # "none" /\ PublicIps[s] \cap With(s, "empty") = {} => infraState[s] = StoredState(s)

\* Threat intelligence that calls itself complete has an answer to everything that it was
\* to ask: what mapLimited cuts off, and registrations when they are switched off, are
\* not counted as missing (threat-intelligence.js:188,208,227-230).
IntelComplete ==
  \A s \in Traced, x \in Domains \cup IpAddresses :
    /\ intelState[s] = "COMPLETED"
    /\ x \in RatedIps[s] \/ ("rdap" \in providers /\ x \in RegisteredDomains[s])
    => intelAnswer[s][x] = "known"

\* What is said of the servers and domains of a message is what was found out.
EnrichmentHonest == LookupsShared /\ StateRebuilt /\ IntelComplete
===============================================================================
