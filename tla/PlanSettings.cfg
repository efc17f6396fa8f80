SPECIFICATION PlansSpec
CONSTANTS
  Editors = {1, 2}
  Sees <- Accounts
  WorksAt <- Staff
  Scheduled = {12}
  Typed = {3}
  Shares = {3}
  Imported <- Elsewhere
  Template <- LastMonth
  TemplateShare <- LastShares
  MaxSaves = 2
  MaxTurns = 1
  Answers <- SomeVisits
  Placeholders = {19}
  SurvivorLimit = 1
  Days = {4, 5, 6, 7}
  MonthDays = 2
  Readings <- Clocks
  MaxVisits = 3
  Team <- Everybody
  Plans <- Roles
  Slots <- SomeShifts
  TopUps <- Typings
  Asked <- AskedPeriods
  HomeZone = 1
  MaxChanges = 1
INVARIANTS MetricsTellThePlan SavesQueue OpzIsTheRule RowsAddUp ScreensAgree
 
CHECK_DEADLOCK FALSE
