------------------------- MODULE MCBuildFromSource -------------------------
\* Two directories of one package, an archive's and a clone's with a meson
\* build, and an archive in a directory without a dash.
EXTENDS BuildFromSource

CONSTANTS gtk3, gtk4, xvidcore, gtk, xvid

Packaged == [d \in {gtk3, gtk4, xvidcore} |-> IF d = xvidcore THEN xvid ELSE gtk]
=============================================================================
