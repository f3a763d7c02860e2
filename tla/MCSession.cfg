SPECIFICATION FairSpec
CONSTANTS
  alice = alice
  bob = bob
  carol = carol
  a1 = a1
  a2 = a2
  a3 = a3
  a4 = a4
  Name = {alice, bob, carol}
  Self = alice
  Addr = {a1, a2, a3, a4}
  NoAddr = NoAddr
  Lists <- MCLists
INVARIANTS
  TypeOK
  ThreadsHaveName
  LatestOnly
PROPERTIES
  Ends
  WaitsForAReason
  PhantomsPass
CHECK_DEADLOCK FALSE
