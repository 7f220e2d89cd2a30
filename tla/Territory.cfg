SPECIFICATION Spec
CONSTANTS
  AppRoot <- Root
  Paths <- FilePaths
  Folders <- Directories
  Ext <- Extensions
  None = none
  Configs <- Considered
  Secret = secret
  Written = {big}
  big = big
  MaxMade = 2
INVARIANTS HiddenUnlessMisled RawNeverStandsIn ListedIsHeld
CHECK_DEADLOCK FALSE
