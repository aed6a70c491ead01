CONSTANTS
  Packet <- NoPacket
  Mapped <- SomeMapped
  Written <- SomeBytes
  Near <- Close
SPECIFICATION Spec
PROPERTY ActsAs16Bits
