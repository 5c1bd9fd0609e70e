SPECIFICATION MCSpec
CONSTANTS
  Credentials = {c1, c2}
  None = None
  kAirScanStreak = 2
  kAuthFailLimit = 3
  StreakMax = 4
  kApPinFails = 2
  Hidden = FALSE
  MaxPhone = 2
  MaxNetChanges = 1
  MaxFlukes = 1
  MaxReboots = 1
  Aps = {1, 2, 3}
  NoAp = 0
  kMaxBannedAps = 2
  kApBan = 2
  kApFails = 1
  MaxLevel = 3
  kFirstScanGain = 2
  kRoamGain = 1
  kRoamDrop = 1
  kRoamCheckMin = 1
  kFallbackSlow = 2
  kFallbackBudget = 1
  MaxTime = 3
  MaxShifts = 1
INVARIANTS
  MCTypeOK
  ScreenMeansSetup
PROPERTIES
  RadioReleased
  WrongPasswordWaits
  RightPasswordConnects
  OthersFirst
CHECK_DEADLOCK FALSE
