SPECIFICATION Spec
CONSTANTS
  Days = 7
  Hours = 3
  FromHour = 1
  ToHour = 2
  NoWeather = NoWeather
  NoFactor = NoFactor
  MaxHours = 4
INVARIANT FactorOfPastHours
CHECK_DEADLOCK FALSE
