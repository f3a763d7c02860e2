SPECIFICATION FairSpec
CONSTANTS
  alice = alice
  bob = bob
  a1 = a1
  a2 = a2
  h1 = h1
  h2 = h2
  Name = {alice, bob}
  NoName = NoName
  Addr = {a1}
  NoAddr = NoAddr
  Health = {h1}
  Broadcast = broadcast
  Backlog = 1
  UdpBuffer = 1
  MaxStarts = 2
  ValidName = {alice, bob}
  Trim <- MCTrim
PROPERTIES
  ListsConverge
CHECK_DEADLOCK FALSE
