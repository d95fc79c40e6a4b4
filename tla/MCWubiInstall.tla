--------------------------- MODULE MCWubiInstall ---------------------------
\* The identifiers of boot entries are exchangeable, and so are the drives.
EXTENDS WubiInstall, TLC

Exchangeable == Permutations(Drive) \cup Permutations(Id)
=============================================================================
