CONSTANTS
  gtk3 = gtk3
  gtk4 = gtk4
  xvidcore = xvidcore
  gtk = gtk
  xvid = xvid
  Nobody = Nobody
  Source = {gtk3, gtk4, xvidcore}
  Name <- Packaged
  MesonSource = {gtk4}
  Git = {gtk4}
  Versioned = {gtk3, gtk4}
SPECIFICATION StepsSpec
INVARIANTS StepsTypeOK BuildtIsInstalled EarlierStepsAreDone
PROPERTIES BuildsStepwise
