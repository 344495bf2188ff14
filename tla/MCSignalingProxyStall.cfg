SPECIFICATION GatewaySpec
CONSTANTS
  MaxFrames = 2
  SocketCap = 1
  Injectors = {}
  Repliers = {}
  NoOne = NoOne
PROPERTIES
  ClientCloseTearsDownUpstream
