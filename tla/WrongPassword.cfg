SPECIFICATION WifiSpec
CONSTANTS
  Credentials = {c1, c2}
  None = None
  kAirScanStreak = 2
  kAuthFailLimit = 3
  StreakMax = 4
  kApPinFails = 2
  Hidden = FALSE
  MaxPhone = 2
  MaxNetChanges = 0
  MaxFlukes = 1
  MaxReboots = 1
PROPERTY WrongPasswordAlwaysWaits
CHECK_DEADLOCK FALSE
