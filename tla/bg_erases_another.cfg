SPECIFICATION Spec
CONSTANTS
  t1 = t1
  t2 = t2
  w1 = w1
  w2 = w2
  w3 = w3
  Threads = {t1, t2}
  Main = t1
  Wrappers = {w1, w2}
  NoWrapper = NoWrapper
  Owner <- TwoOwners
  Period = 1
  IdlePeriod = 2
  PollForever = TRUE
  MayClose = FALSE
  Careful = TRUE
PROPERTY ErasesOnlyItsOwn
