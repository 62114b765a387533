SPECIFICATION NetworkSpec
CONSTANTS
  Name = {n1, n2}
  Address = {ad}
  NotFound = none
  UDP_MAX_SOCKETS = 2
  MaxHops = 2
  PortMod = 2
  IdMod = 8
  Xor <- MCXor
  ZeroId = 5
  Ticks <- MCTicks
  EndTick = 10
  MaxSent = 2
  Endless = endless
  Host = {1, 2}
  Words = {0, 1}
INVARIANTS FramesExact ExchangesIsolated ReceivedInOrder AddressesExact RequestsEnd
PROPERTY AllServed
CHECK_DEADLOCK FALSE
