CONSTANTS
    c1 = c1
    c2 = c2
    Client = {c1, c2}
    Malformed = Malformed
    MaxObjects = 3
    MaxRead = 6
SPECIFICATION FairSpec
INVARIANTS
    ObjectsInOrder
    NothingUnreadAtEnd
PROPERTIES
    RunReturns
