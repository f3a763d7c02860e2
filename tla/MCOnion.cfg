SPECIFICATION Spec
CONSTANTS
  alice = alice
  bob = bob
  carol = carol
  dave = dave
  Name = {alice, bob, carol, dave}
  Addr = {alice, bob, carol, dave}
  NoAddr = NoAddr
  NoFile = NoFile
  Home <- MCHome
  Content = {"hi"}
  Keys <- SomeKeys
  Views <- StaleViews
  Script <- TwoMessages
  MaxRelays = 2
  MaxStops = 1
  MaxLists = 1
INVARIANTS
  TypeOK
  OnlyTheRecipient
  Unlinkable
  AtMostOnce
  Chained
CHECK_DEADLOCK FALSE
