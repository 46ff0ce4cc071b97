SPECIFICATION ReportsSpec
CONSTANTS
  People = {ana}
  Births <- MCBirths
  FirstDays <- MCFirstDays
  MaxDays = 5
  Ages <- MCAges
  DefaultTimelineDays = 2
  MaxTimelineDays = 4
  NoBound = NoBound
  Regs = {g1, g2}
  ChartFirstDays <- MCChartDays
  ChartMaxDays = 4
  DaysAsked <- MCDaysAsked
  NoReg = NoReg
  Pagers = {1, 2, 3, 4}
  Surnames = {1, 2}
  PageSizes <- MCPageSizes
  DefaultPageSize = 2
  MaxPageSize = 3
  MaxRenames = 2
  NoName = NoName
  MaxInt = 31
  Typed <- MCTyped
  DefaultWindow = 3
  MaxWindow = 5
  MaxLength = 9
  NoPage = NoPage
  Races = {r1, r2}
  Runners = {eva, leo}
  Sources = {web, friend}
  ShirtForms <- MCShirtForms
  MaxRows = 2
  MaxLost = 1
  AllRaces = AllRaces
  Null = Null
  NoPanelRow = NoPanelRow
  NoAnswer = NoAnswer
  NotCounted = NotCounted
SYMMETRY Symmetry
INVARIANTS
  ReportsTypeOK
  ShownAgesInRange
  PagerShowsAll
  PageIsItsPlaces
PROPERTIES
  AgeFilterExact
  ChartAddsUp
  PanelsReconcile
