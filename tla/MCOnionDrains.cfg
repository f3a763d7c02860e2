SPECIFICATION FairSpec
CONSTANTS
  alice = alice
  bob = bob
  carol = carol
  dave = dave
  Name = {alice, bob, carol, dave}
  Addr = {alice, bob, carol, dave}
  NoAddr = NoAddr
  NoFile = NoFile
  Home <- MCHome
  Content = {"hi"}
  Keys <- SomeKeys
  Views <- PairViews
  Script <- BadKeys
  MaxRelays = 2
  MaxStops = 1
  MaxLists = 1
INVARIANTS
  HangsForAReason
PROPERTIES
  Drains
CHECK_DEADLOCK FALSE
