SPECIFICATION Spec
CHECK_DEADLOCK FALSE
CONSTANTS
  KitId = 3
  BrowserId = 10
  OtherViewers = {}
  AckBase = 20
  Candidates = 1
  MaxKitFrames = 4
  MaxOffers = 2
  MaxBrowserOffers = 0
  MaxBrowserFrames = 0
INVARIANTS
  TypeOK
  AckedOrShown
  AckidsInOrder
  RoutedByLearnedIds
  OutstandingOfferIsCurrent
  DescriptionsAccepted
PROPERTIES
  ImplementsExchange
