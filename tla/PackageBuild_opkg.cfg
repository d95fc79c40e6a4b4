CONSTANTS
  a = a
  b = b
  c = c
  Pkgs = {a, b}
  Lists <- Both
  Kind <- ArchiveAndGit
  Strict = {}
  InTree = {a, b}
  Tolerant = {b}
  Meson = {a}
  Matches <- SharedName
  Opkg = TRUE
  Options <- PlainOnly
  Others = {}
  Fast = FALSE
SPECIFICATION FairSpec
INVARIANTS
  MarkedIsInstalled

PROPERTIES
  RunEnds
