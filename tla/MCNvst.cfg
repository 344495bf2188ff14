SPECIFICATION Spec
CONSTANTS
  Frames <- MCFrames
  Payloads <- MCPayloads
  Texts = {"", "a", "b"}
  PeerIds = {0, 1, 2}
  Ackids = {0, 1, 7}
  Indexes = {0, 1}
INVARIANTS
  TypeOK
  ReadsAsSet
  SentAsRead
