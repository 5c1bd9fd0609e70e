SPECIFICATION MCSpec
CONSTANTS
  BambuHosts = {b1}
  MoonHosts = {m1}
  HaHosts = {h1, h2}
  NoHost = NoHost
  Temps = {40}
  MaxWire = 2
INVARIANTS
  IntTypeOK
  OnlySelectedHeats
  EnabledIsSelected
  StatusFresh
PROPERTIES
  HeatStops
CHECK_DEADLOCK FALSE
