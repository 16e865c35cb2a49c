SPECIFICATION FairSpec
CONSTANTS
  r1 = r1
  r2 = r2
  a = a
  b = b
  Requests = {r1, r2}
  Targets = {a, b}
  Replies <- SomeReplies
INVARIANTS
  TypeOK
  QuietWhenListed
  ContextInUse
  OnlyItsOwnAnswer
  MessageOfTheError
PROPERTIES
  FailureIsFinal
  DiscoveryIsFresh
  CallsEnd
