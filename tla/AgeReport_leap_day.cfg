SPECIFICATION Spec
CONSTANTS
  People = {ana}
  Births <- MCBirths
  FirstDays <- MCFirstDays
  MaxDays = 5
  Ages <- MCAges
  DefaultTimelineDays = 2
  MaxTimelineDays = 3
  NoBound = NoBound
PROPERTY AgeFilterExactAnyDay
