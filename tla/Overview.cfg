SPECIFICATION MCSpec
CONSTANTS
  Branches = {1, 2}
  WorksAt <- Homes
  Placeholders = {19}
  MonthOf <- Calendar
  YearMonths = 2
  Accounts <- Catalog
  Groups <- GroupServices
  Records <- VisitAnswers
  Transfers <- TransferAnswers
  Moves <- MoveAnswers
  LegacyVisits <- OldVisits
  Bounds <- Windows
  Ranges <- Read
  FirstNow = 9
  LastNow = 10
  NewId <- NewIds
  MaxFacts = 4
  MonthsBack <- Presets
  WeekDays = 2
  OneVisit = 1
  FewVisits = 2
  CashType = 0
  CashlessType = 1
  Questions <- Asked
  LabelChanges <- Batches
  Typed <- YandexPay
  Horizons = {1}
  ChurnDays = 1
  LookbackDays = 2
INVARIANTS FiguresAgree PartsAddUp CertifiedDays OtherRowsSilent PaymentsNetOut ClientsHadTime
CHECK_DEADLOCK FALSE
