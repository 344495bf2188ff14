SPECIFICATION FairSpec
CHECK_DEADLOCK FALSE
CONSTANTS
  v1 = v1
  v2 = v2
  a1 = a1
  VideoTracks <- MCVideoTracks
  AudioTracks <- MCAudioTracks
  Placeholder = placeholder
  NoTrack = NoTrack
  Finished = Finished
  TrackCap = 1
  MaxPackets <- MCMaxPackets
  MaxOffers = 1
INVARIANTS
  TypeOK
  RelayedInOrder
  AtMostOneLatePacket
  NoTrackForgotten
PROPERTIES
  ImplementsPlayback
  QueuedIsHandled
  MediaGoroutinesEnd
