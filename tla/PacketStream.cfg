CONSTANTS
  Messages = 6
  SchemaSize = 3
  PacketSize = 4
  SocketBytes = 9
  MaxErrors = 2
SPECIFICATION Spec
PROPERTY ImplementsWire AllDelivered
CHECK_DEADLOCK FALSE
