SPECIFICATION FairSpec
CONSTANTS
  text = text
  image = image
  hint = hint
  long = long
  Type = {text, image, hint, long}
  Source <- MCMute
  Patterns <- MCPatterns
  HintType = hint
  TooLong = {long}
  Primary = FALSE
  IgnoreSecrets = TRUE
  MinSize = 2
  MaxOffers = 2
  MaxInputs = 2
  MaxBytes = 2
  term = term
  usr1 = usr1
  Signals <- MCSignals
  Quitting = {term}
  MaxEvents = 32
  MaxFaults = 0
  MaxSignals = 0
PROPERTIES
  HintCostsNothing
