SPECIFICATION FairSpec
CONSTANTS
  text = text
  image = image
  hint = hint
  long = long
  Type = {text, image, hint, long}
  Source <- MCSource
  Patterns <- MCPatterns
  HintType = hint
  TooLong = {long}
  Primary = FALSE
  IgnoreSecrets = TRUE
  MinSize = 2
  MaxOffers = 2
  MaxInputs = 2
  MaxBytes = 3
  term = term
  usr1 = usr1
  Signals <- MCSignals
  Quitting = {term}
  MaxEvents = 32
  MaxFaults = 1
  MaxSignals = 2
INVARIANTS
  TypeOK
  FromItsOffer
  WholePayload
  SecretsIgnored
  NoStaleSource
  BlockedIsServed
PROPERTIES
  NoNullOffer
  ClosedIsHandled
  QuitEnds
