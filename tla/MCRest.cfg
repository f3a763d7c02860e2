CONSTANTS
    Client = {broadcast, health}
    NoClient = NoClient
    Name = {alice, bob, other}
    Addr = {a1}
    ValidName = {alice, bob}
SPECIFICATION FairSpec
INVARIANTS TypeOK
PROPERTIES Answered AtomicSpec
CHECK_DEADLOCK FALSE
