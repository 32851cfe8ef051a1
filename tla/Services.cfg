SPECIFICATION ServicesSpec
CONSTANTS
  h1 = h1
  h2 = h2
  h3 = h3
  main = main
  dev = dev
  s1 = s1
  f = f
  a1 = a1
  a2 = a2
  None = None
  Absent = Absent
  Commits = {h1, h2, h3}
  Parents <- Fan
  MaxWalk = 10
  Branches = {main, dev}
  Forker = f
  Syncers = {s1}
  Readers = {TRUE}
  MaxPushes = 1
  MaxForkFaults = 1
  Identities <- TwoBindings
  Members = {}
  Ids = {1, 2}
  LegacyRows <- OneLegacyRow
  GivenRoles = {"owner"}
  GivenVisibilities = {"internal"}
  Callers = {a1, a2}
  MaxRequests = 4
  LastOps = {"putMember", "removeMember"}
  Scripts = {1, 2}
  Buckets <- TwoBuckets
  Objects <- OneObjectEach
  NoCleaner = None
  MAX_READY_ATTEMPTS = 2
  PageSize = 1
  MaxFaults = 2
  Releasers = {a1, a2}
  VersionOf <- Versioned
  NoOne = None
  MaxRuns = 2
  MaxFailures = 1
  BuildsAt = {"gate"}
  Tags = {"t1"}
  TagTargets = {"k1", "k2"}
  ReleaseCallers = {a1, a2}
  MaxObjects = 1
  MaxAssets = 2
  MaxReleases = 2
  MaxJobs = 5
  MaxDeaths = 1
  Runs = {"r1", "r2"}
  RunCommits = {"k1", "k2"}
  CommitOf <- EachItsOwn
  NoPin = None
  MaxAttempts = 2
  MaxCalls = 5
  MaxStoreFaults = 1
  Isolates = {a1, a2}
  Requests = {"a", "b"}
  migrations = 2
  Deferred = {"b"}
  Scheduled = {"b"}
  NoIsolate = None
  MaxTrouble = 2
  Tabs = {a1, a2}
  ClaimSet <- ClaimsOfThree
  Configs <- TwoConfigs
  SessionAge = 1
  StateAge = 1
  MaxClock = 1
  MaxSends = 3
  MaxChanges = 1
  IssueCallers = {a1, a2}
  LabelIds = {"l1"}
  MilestoneIds = {"m1"}
  Limit = 1
  MaxNumber = 3
  MaxComments = 1
  MaxIssueRequests = 3
  MaxIssueDeaths = 1
  Checks = {"check"}
  Contexts = {"ci", "lint"}
  Bots = {a1, a2}
  MaxPosts = 2
  MaxAsked = 3
  MaxKilled = 1
  Issues = {1, 2}
  LabelNames = {"l"}
  CommentsPerPage = 1
  MaxDrafts = 1
  MaxPageRequests = 5
  MaxUpsets = 1
  FetchBranches = {main, dev}
  Clients = {"k"}
  NoCommit = None
  MaxPacked = 2
  MaxMoves = 3
  MaxFetches = 2
  MaxLost = 1
  Runnable = {1}
  RunCallers = {a1, a2}
  RunLimit = 1
  MaxCommit = 2
  MaxRunRequests = 4
  MaxRunDeaths = 1
SYMMETRY Alike
CHECK_DEADLOCK FALSE
INVARIANTS
  LacksOnlyTheLate FetchedIsComplete ComputedIsExact IssuesHold ChecksHold CommentedOnce RunsHold
  OrgKeepsAdmin ReleasesHold IdentityIsProven PinsHold PublishedIsExact SucceededIsClean ServingHolds
PROPERTIES
  SyncMovesOneBranch IdentityKeepsId
