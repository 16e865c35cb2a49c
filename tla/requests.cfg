SPECIFICATION RequestSpec
CONSTANTS
  Actions <- SomeActions
  Types <- SomeTypes
  Keys <- SomeKeys
  Lists <- SomeLists
  PortIds <- SomePortIds
  Lengths <- SomeLengths
  Stray <- SomeStray
  Sizes <- SomeSizes
  Lbas <- SomeLbas
  StandardData <- SomeStandardData
  PageLists <- SomePageLists
  Serials <- SomeSerials
  IdLists <- SomeIdLists
  LunLists <- SomeLunLists
  KeyLists <- SomeKeyLists
  Reservations <- SomeReservations
  BlockLength = 2
  Throws = Throws
  MaxDescriptors = 4
INVARIANTS
  RequestTypeOK
  FieldsIntact
  LengthsAgree
  CdbIntact
  AnswerArrives
  InquiryTruthful
  PagesFound
  DescriptorsRight
  LunsComplete
  KeysRead
  ReservationRead
