SPECIFICATION Spec
CONSTANTS
  c1 = c1
  c2 = c2
  today = today
  week = week
  Cards = {c1, c2}
  Windows = {today, week}
  Within <- MCWithin
  FirstWindow = week
  People = {p}
  Tags = {g1, g2}
  FirstRows <- MCFirstRows
  Nobody = Nobody
  NoCard = NoCard
  Slots = {1, 2, 3}
  MaxClicks = 3
  MaxFaults = 1
INVARIANTS OrganizeInv RowsCurrent NothingMissed
PROPERTIES KeptUntilDone OneTagPerTap BusyEnds
CHECK_DEADLOCK FALSE
