\* Crashes between any two file operations, and file operations that fail.
CONSTANTS
  Modes <- AllModes
  KeepChoices = {0, 2}
  MaxBytes = 2
  Sizes <- MCSizes
  MaxWrites = 5
  MaxDays = 1
  MaxCrashes = 1
  MaxFailures = 1
SPECIFICATION Spec
INVARIANTS TypeOK OkMeansRecorded SizeTracks LogInOrder NewestKept ForgetsWhenFull OneDay
PROPERTIES ActiveBounded
