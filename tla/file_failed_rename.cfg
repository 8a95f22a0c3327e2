\* One file operation fails.
CONSTANTS
  Modes <- AllModes
  KeepChoices = {1}
  MaxBytes = 2
  Sizes <- MCSizes
  MaxWrites = 2
  MaxDays = 0
  MaxCrashes = 0
  MaxFailures = 1
SPECIFICATION Spec
PROPERTY KeepsArchives
