SPECIFICATION FairProgramSpec
CONSTANTS
  r1 = r1
  a = a
  b = b
  Requests = {r1}
  Targets = {a, b}
  Replies <- SomeReplies
  MaxLuns = 2
INVARIANTS
  ProgramTypeOK
  LegalCalls
  ListOutlivesSession
  EndsClean
PROPERTY MainEnds
