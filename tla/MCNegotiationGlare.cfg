SPECIFICATION FairSpec
CHECK_DEADLOCK FALSE
CONSTANTS
  KitId = 3
  BrowserId = 10
  OtherViewers = {11}
  AckBase = 20
  Candidates = 0
  MaxKitFrames = 2
  MaxOffers = 1
  MaxBrowserOffers = 1
  MaxBrowserFrames = 1
INVARIANTS
  AckidsFresh
  OutstandingOfferIsCurrent
  DescriptionsAccepted
  LoneOfferDelivered
PROPERTIES
  ImplementsExchange
  OfferReachesBrowser
  BrowserOfferAnswered
  GoroutinesEnd
