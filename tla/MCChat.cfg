CONSTANTS
    n1 = n1
    n2 = n2
    l1 = l1
    l2 = l2
    l3 = l3
    Name = {n1, n2}
    NoName = NoName
    Line = {l1, l2, l3}
    Blank = Blank
    Height <- MCHeight
    Rows = 3
    MaxRooms = 2
SPECIFICATION FairSpec
INVARIANTS TypeOK ReadAll LastLinesShown OwnLinesOnly
PROPERTIES Seen
CHECK_DEADLOCK FALSE
