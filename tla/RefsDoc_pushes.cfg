SPECIFICATION Spec
CONSTANTS
  p1 = p1
  p2 = p2
  m1 = m1
  t1 = t1
  None = None
  main = main
  dev = dev
  v1 = v1
  c1 = c1
  c2 = c2
  c3 = c3
  c4 = c4
  Branches <- MCBranches
  Tags <- MCTags
  Main = main
  FirstOf <- MCFirstOf
  Commits <- MCCommits
  Anc <- MCAnc
  PushRequests <- MCPushRequests
  RuleSpace <- MCRuleSpace
  Pushers = {p1, p2}
  Mergers = {}
  Taggers = {}
  TagsById = FALSE
  VersionedEtags = FALSE
  MaxWrites = 3
INVARIANTS
  BranchesComplete
  DefaultBranchExists
PROPERTIES
  OnlyForcedRewrites
