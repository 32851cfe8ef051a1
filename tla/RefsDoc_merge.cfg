SPECIFICATION Spec
CONSTANTS
  p1 = p1
  p2 = p2
  m1 = m1
  t1 = t1
  None = None
  main = main
  dev = dev
  v1 = v1
  c1 = c1
  c2 = c2
  c3 = c3
  c4 = c4
  Branches <- MCBranches
  Tags <- MCTags
  Main = main
  FirstOf <- MCFirstOf
  Commits <- MCCommits
  Anc <- MCAnc
  PushRequests <- MCFewPushRequests
  RuleSpace <- NoRules
  Pushers = {p1}
  Mergers = {m1}
  Taggers = {t1}
  TagsById = FALSE
  VersionedEtags = TRUE
  MaxWrites = 3
INVARIANTS
  TagsComplete
PROPERTIES
  AtomicRefs
