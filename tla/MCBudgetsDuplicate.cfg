SPECIFICATION Spec
CONSTANTS
  Handlers = {h1, h2}
  Periods = {jul, aug}
  People = {p1}
  Everyone = Everyone
  Amounts = {10, 20}
  Deleted = Deleted
  MaxRows = 3
INVARIANT OneBudgetPerKey
