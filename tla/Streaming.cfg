SPECIFICATION FairSpec
CONSTANTS
  Conns = {c1, c2}
  NoConn = NoConn
  Messages = {"stream_ready", "frame"}
  NoMessage = NoMessage
  QueueSize = 2
  MaxPid = 2
  MaxTries = 2
  CommandRoom = 2
INVARIANTS Inv NoStrayFfmpeg NoChildLeft NoStartSwallowed StreamHasItsPeers
PROPERTIES ImplementsSession ShutdownEnds
CHECK_DEADLOCK FALSE
