SPECIFICATION Spec
CONSTANTS
  t1 = t1
  t2 = t2
  w1 = w1
  w2 = w2
  w3 = w3
  Threads = {t1}
  Main = t1
  Wrappers = {w1, w2, w3}
  NoWrapper = NoWrapper
  Owner <- OneOwner
  Period = 1
  IdlePeriod = 2
  PollForever = TRUE
  MayClose = TRUE
  Careful = FALSE
INVARIANTS
  TypeOK
  ListIsServed
PROPERTIES
  ErasesOnlyItsOwn
  EndsAreKnown
  ImplementsHandoff
