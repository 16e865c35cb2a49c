SPECIFICATION SystemSpec
CONSTANTS
  t1 = t1
  w1 = w1
  w2 = w2
  r1 = r1
  Threads = {t1}
  Main = t1
  Wrappers = {w1, w2}
  NoWrapper = NoWrapper
  Owner <- OneOwner
  Period = 1
  IdlePeriod = 1
  PollForever = FALSE
  MayClose = FALSE
  Careful = TRUE
  Self = w1
  Requests = {r1}
  Targets = {}
  Replies <- NoReplies
INVARIANTS
  ServicedInPeace
  InStep
PROPERTY ImplementsSession
