SPECIFICATION MCSpec
CONSTANTS
  api1 = api1
  api2 = api2
  api3 = api3
  web1 = web1
  web2 = web2
  web3 = web3
  web4 = web4
  usage1 = usage1
  keyA = keyA
  keyW = keyW
  keyL = keyL
  keyD = keyD
  keyU = keyU
  ev1 = ev1
  ev2 = ev2
  ev3 = ev3
  ev4 = ev4
  jobX = jobX
  jobR = jobR
  jobP = jobP
  jobS = jobS
  hook1 = hook1
  end1 = end1
  ann = ann
  bob = bob
  cas = cas
  rep1 = rep1
  co1 = co1
  co2 = co2
  co3 = co3
  po1 = po1
  tr1 = tr1
  tr2 = tr2
  dom1 = dom1
  dom2 = dom2
  site1 = site1
  site2 = site2
  gate1 = gate1
  SiteScans = {site1, site2}
  GatewayScans = {gate1}
  SwitchedOff = {site2}
  ListLimit = 1
  MaxPublished = 2
  MaxEvidence = 1
  Traced = {tr1, tr2}
  IpAddresses <- MCIpAddresses
  Domains = {dom1, dom2}
  Received <- MCReceived
  NamedDomains <- MCNamedDomains
  MaxLookups = 3
  MaxConcurrent = 2
  MaxIntel = 1
  Openings = {co1, co2, co3, po1}
  Wants <- MCWants
  MaxCheckoutFaults = 2
  Calls = {api1, api2, api3, web1, web2, web3, web4, usage1}
  CallIds = {keyA, keyW, keyL, keyD, keyU}
  IdOf <- MCIdOf
  RouteOf <- MCRouteOf
  UsageQuota = 2
  HitLimit = 1
  MaxCallFaults = 1
  Events = {ev1, ev2, ev3, ev4}
  EventKind <- MCEventKind
  EventPlan <- MCEventPlan
  Deliveries = {dl1, dl2}
  Creators = {mk1, mk2}
  MaxBillingFaults = 1
  PlatformJobIds = {jobX, jobR, jobP, jobS}
  KindOf <- MCKindOf
  PlatformWorkers = {pw1, pw2}
  MaxPlatformAttempts = 2
  MaxPlatformFaults = 1
  Endpoints = {end1}
  UrlOf <- MCUrlOf
  HookEvents = {hook1}
  EndpointOf <- MCEndpointOf
  HookWorkers = {hw1, hw2}
  AllowedHosts <- MCAllowedHosts
  Resolutions <- MCResolutions
  MaxDeliveryAttempts = 3
  MaxHookFaults = 2
  People = {ann, bob, cas}
  RoleOf <- MCRoleOf
  Priorities = {"high"}
  Recommendations = {"allow", "block"}
  MaxDecisions = 1
  MaxCaseFaults = 1
  Visits = {visit1, visit2}
  OtherOrgs = {other}
  MaxWorkspaceFaults = 1
  Tabs = {tab1, tab2}
  MaxGeneration = 4
  MaxSessionFaults = 1
  MaxSubmissions = 2
  ModelScores <- MCModelScores
  UrlFeatures <- MCUrlFeatures
  Detectors = {"mailguard", "cortex", "swift", "pixel"}
  ChunkCount = 3
  Second = 2
  CacheTtl = 3
  RunBudget = 7
  NoPassport = NoPassport
  NoVerdict = NoVerdict
  Reports = {rep1}
  Evidence = {first, rebuilt}
  SigningKeys = {old, new}
  ForeignKeys = {foreign}
  MaxFiles = 2
  EmailScans = {"mail1", "mail2", "mail3", "mail4"}
  Entities <- MCEntities
  MessageOf <- MCMessageOf
  IdRank <- MCIdRank
  MaxRows = 6
  MaxCandidates = 2
  MaxNamed = 1
  MaxCampaignFaults = 1
INVARIANTS
  TypesOK
  QuotaExact
  AcknowledgedIsProcessed
  KeysOverLimitOnlyTogether
  RowsTellTruth
  DeliveriesAccounted
  NothingHalfDone
  InOnesPlace
  StaysSignedIn
  ShowsOwnReport
  InferenceInTime
  VerdictIsExact
  LaterFindsEarlier
  OpenedForTheCustomer
  EnrichmentHonest
  HistoryHonest
PROPERTY RiskRises
CHECK_DEADLOCK FALSE
