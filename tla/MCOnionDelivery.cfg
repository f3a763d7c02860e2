SPECIFICATION FairSpec
CONSTANTS
  alice = alice
  bob = bob
  carol = carol
  dave = dave
  Name = {alice, bob, carol, dave}
  Addr = {alice, bob, carol, dave}
  NoAddr = NoAddr
  NoFile = NoFile
  Home <- MCHome
  Content = {"hi"}
  Keys <- AllKeys
  Views <- MixedViews
  Script <- TwoMessages
  MaxRelays = 2
  MaxStops = 0
  MaxLists = 0
PROPERTIES
  Delivered
CHECK_DEADLOCK FALSE
