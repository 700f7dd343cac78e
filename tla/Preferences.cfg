\* Each frontend by itself: every dialog, a disk that fails once, noticed or not,
\* and a process that dies at any step.
SPECIFICATION PrefsSpec
CONSTANTS
  Keys <- AllKeys
  Unset = Unset
  Absent = Absent
  Torn = Torn
  MaxFailures = 1
  Kits <- AllKits
  Hops = FALSE
  Crashes = TRUE
  Texts <- SomeTexts
  OldSlot7 <- Dropped
INVARIANTS
  SettingsSurvive
  RestartApplies
  ExternalAddressParses
