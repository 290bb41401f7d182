SPECIFICATION Spec
CONSTANTS
  LastDay = 2
  MonthOf <- MCMonthOf
  Classes <- MCClasses
  All = "all"
  Filters = {"all", "consume"}
  DaysAsked = {0, 2}
  MaxDaily = 2
  Week = 2
  MaxChannels = 1
  MaxTxns = 2
INVARIANTS
  RangeIsAsked
  PartsAgree
  PrevAdjoins
  DigestAgrees
  BudgetsAgree
