SPECIFICATION FairSpec
CONSTANTS
  alice = alice
  bob = bob
  a1 = a1
  a2 = a2
  h1 = h1
  h2 = h2
  Name = {alice}
  NoName = NoName
  Addr = {a1, a2}
  NoAddr = NoAddr
  Health = {h1}
  Broadcast = broadcast
  Backlog = 1
  UdpBuffer = 1
  MaxStarts = 2
  ValidName = {alice}
  Trim <- MCTrim
PROPERTIES
  StaleLeaves
  LiveIsListed
CHECK_DEADLOCK FALSE
