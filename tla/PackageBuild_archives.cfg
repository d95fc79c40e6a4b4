CONSTANTS
  a = a
  b = b
  c = c
  Pkgs = {a, b}
  Lists <- Both
  Kind <- TwoArchives
  Strict = {a}
  InTree = {b}
  Tolerant = {}
  Meson = {}
  Matches <- OwnNames
  Opkg = FALSE
  Options <- AllOptions
  Others = {}
  Fast = FALSE
SPECIFICATION Spec
INVARIANTS
  TypeOK
  PartialIsMarked
  OnlyOwnPartials
  MarkedIsInstalled
