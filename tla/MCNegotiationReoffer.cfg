SPECIFICATION ResponsiveSpec
CHECK_DEADLOCK FALSE
CONSTANTS
  KitId = 3
  BrowserId = 10
  OtherViewers = {}
  AckBase = 20
  Candidates = 0
  MaxKitFrames = 3
  MaxOffers = 2
  MaxBrowserOffers = 0
  MaxBrowserFrames = 0
PROPERTIES
  OfferReachesBrowser
