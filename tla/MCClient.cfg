SPECIFICATION Spec
CONSTANTS
  everything = everything
  term = term
  Now = 2
  Everything = everything
  Searches = {everything, term}
  Hits <- MCHits
  Page = 1
  FirstStock = 2
  MaxStock = 3
  HasPassword = TRUE
  FirstLogins <- MCFirstLogins
  Slots = {1, 2}
  MaxClicks = 3
  MaxFaults = 1
INVARIANTS ClientInv ShownIsChosen ListContiguous LogoutSticks
PROPERTY ExtrasKept
CHECK_DEADLOCK FALSE
