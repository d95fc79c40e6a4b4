CONSTANTS
  a = a
  b = b
  c = c
  Pkgs = {a, b, c}
  Lists <- Switched
  Kind <- BinaryAndPips
  Strict = {}
  InTree = {}
  Tolerant = {}
  Meson = {}
  Matches <- OwnNames
  Opkg = FALSE
  Options <- NotForced
  Others <- AnyOther
  Fast = TRUE
SPECIFICATION FairSpec
INVARIANTS
  BuildenvIsEarned
  BuildenvIsCurrent
