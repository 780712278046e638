SPECIFICATION FairSpec
CONSTANTS
  Memories = {h1, h2}
  Bannable = {{h1}}
  NoBatch = NoBatch
  Refreshes = {f1}
  QueueFaults = {"reply", "list", "mcp", "reload", "reset", "ban"}
  MaxQueueFaults = 1
  Sessions = {s1, s2}
  NoSession = NoSession
  Observed = {s1}
  MaxMcpJobs = 2
  ExtractFaults = {"reply", "reload"}
  MaxExtractFaults = 1
  Items = {1, 2}
  Orgs = {o1, o2}
  Views = {v1, v2}
  MaxDrafts = 2
  MaxClicks = 2
  ReviewFaults = {"reply", "reload"}
  MaxReviewFaults = 1
  Calls = {c1, c2}
  Msgs = {m1, m2}
  BroadcastFaults = {"reply", "restart"}
  MaxBroadcastFaults = 2
  SlotCap = 2
  MaxSetups = 2
  LaunchFaults = {"broadcast", "finalize", "record", "reload"}
  MaxLaunchFaults = 1
  Tabs = {t1, t2}
  Wallets = {w1}
  Passkey = Passkey
  NoWallet = NoWallet
  MaxKeys = 2
  MaxSignIns = 1
  UserOrgs = {o1, o2, o3}
  Leads = {o1, o2}
  NoOrg = NoOrg
  MaxSwitches = 3
  Keys = {k1, k2}
  NoKey = NoKey
  MaskOfKey = MaskOfKey
  Models = {model}
  NoModel = NoModel
  MaxSaves = 2
  MaxReads = 2
  Desks = {d1, d2}
  JoinFaults = {"reply", "reload"}
  MaxJoinFaults = 1
  MaxApprovals = 2
  Reports = {r1, r2}
  LeaderTabs = {t1, t2}
  Moderators = {m}
CHECK_DEADLOCK FALSE
INVARIANTS
  TypeOK
  QueueIsHonest
  RunningIsWatched
  DraftsMatchHub
  NeverAgainUnasked
  NeverMoreThanAsked
  PhraseOpensOrg
  FormShowsItsOrg
  ReadinessIsCurrent
  ApprovalMatchesChain
  ReportsAreSettledOnce
PROPERTIES
  QueuesDrain
  TakesTheStoredSeed
