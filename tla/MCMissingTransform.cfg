CONSTANTS
  v1 = v1
  v2 = v2
  p1 = p1
  p2 = p2
  f1 = f1
  f2 = f2
  Files <- MCFiles
  Versions <- MCVersions
  Patches <- MCPatches
  SaveIgnored = TRUE
  MaxCommands = 1
  WhiteOut = WhiteOut
  Absent = Absent
  Partial = Partial
  Unpatched = Unpatched
SPECIFICATION Spec
SYMMETRY Symmetry
PROPERTY MissingTransformIgnored
