SPECIFICATION SocketsFairSpec
CONSTANTS
  Sessions = {s1}
  Sockets = {k1, k2}
CONSTRAINT Unfinished
INVARIANTS SocketsTypeOK PresenceFollows
PROPERTY KickedOut
CHECK_DEADLOCK FALSE
