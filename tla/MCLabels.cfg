SPECIFICATION Spec
CONSTANTS
  p1 = p1
  p2 = p2
  t1 = t1
  t2 = t2
  Handlers = {h1, h2}
  Txns = {x1}
  People = {p1, p2}
  Tags = {t1, t2}
  Rules = {1, 2}
  Matches <- MCMatches
  Seeded = {p1}
  SeededTags = {t1}
  RuleBodies <- MCRuleBodies
  BulkRequests <- MCBulkRequests
  None = None
  Keep = Keep
  NoRule = NoRule
SYMMETRY MCSymmetry
INVARIANT ReferencesLive
PROPERTY RulesOnlyAdd
