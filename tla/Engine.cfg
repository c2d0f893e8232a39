CONSTANTS
  Archives <- Personas
  Readbacks = {TRUE, FALSE}
  MaxFaults = 1
SPECIFICATION Spec
CHECK_DEADLOCK FALSE
INVARIANTS DeltaRestores DeltaSettles VerifyIsSound SeedRestores SeedResumes TornDeltaResumes
PROPERTIES SavedObjectsStay BookStaysInjective
