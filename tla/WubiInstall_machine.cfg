CONSTANTS
  Drive = {C, D, E}
  Id = {i1, i2, i3}
  None = None
  Unaimed = Unaimed
  Faults = {"kill", "killEntry", "killClear", "bcdedit", "delete", "locked", "byHand"}
SPECIFICATION Spec
SYMMETRY Exchangeable
INVARIANTS TypeOK InstalledBoots RecordIsTrue FilesAreRegistered UninstalledIsGone
PROPERTIES NeverForgotten
