SPECIFICATION IpcFairSpec
CONSTANTS
  LineLengths = {1, 2, 4}
  MaxLines = 3
  BuffSize = 3
  RecvSize = 6
  SocketRoom = 3
  UnreadRoom = 1
  MaxCommands = 2
INVARIANTS IpcInv
PROPERTIES ReceptionGoesOn SendallEnds
CHECK_DEADLOCK FALSE
