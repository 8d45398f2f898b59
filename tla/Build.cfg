\* tue build with edits, failures and kills between its file operations.
CONSTANTS
  Sources <- MCSources
  Assets <- MCAssets
  Contents = {1, 2}
  MaxEdits = 1
  MaxFaults = 1
SPECIFICATION Spec
INVARIANTS
  DistKeptUntilGenerated
  DistIsTheBuild
