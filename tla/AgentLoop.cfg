SPECIFICATION FairSpec
CONSTANTS
  r1 = r1  r2 = r2  fixA = fixA  fixB = fixB  code = code  tables = tables
  Unreadable = Unreadable
  NoFamily = NoFamily
  Rules <- TwoRules
  Tools <- ThreeTools
  FamilyOf <- OneFamily
  MaxCount = 1
  MaxFixAttempts = 3
  MaxPerFamily = 2
  MaxToolRounds = 4
  MaxCalls = 2
INVARIANTS
  BudgetsHold
  FixedIsConformant
  PromptShowsThisFile
PROPERTY RunEnds
CHECK_DEADLOCK FALSE
