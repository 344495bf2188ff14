SPECIFICATION FairSpec
CONSTANTS
  MaxFrames = 2
  SocketCap = 1
  Injectors = {ice}
  Repliers = {"kit"}
  NoOne = NoOne
INVARIANTS
  TypeOK
  OneWriterPerSocket
  ForwardedInOrder
  NothingLostMidStream
  TornDownBeforePumpReturns
  StuckOnlyOnRemote
PROPERTIES
  RefinesRelay
  HangupEndsSession
