SPECIFICATION Spec
CONSTANTS
  alice = alice
  bob = bob
  a1 = a1
  a2 = a2
  h1 = h1
  h2 = h2
  Name = {alice, bob}
  NoName = NoName
  Addr = {a1}
  NoAddr = NoAddr
  Health = {h1, h2}
  Broadcast = broadcast
  Backlog = 2
  UdpBuffer = 1
  MaxStarts = 2
  ValidName = {alice, bob}
  Trim <- MCTrim
SYMMETRY NameAndHealthSymmetry
INVARIANTS
  AnswersThisCheck
PROPERTIES
  LeavesByFailedCheck
CHECK_DEADLOCK FALSE
