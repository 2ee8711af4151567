CONSTANTS
    p1 = p1  p2 = p2  c1 = c1  o1 = o1  o2 = o2  d1 = d1
    Producers = {p1}
    Consumers = {c1}
    Owners = {o1}
    Ids = {"play", "stop"}
    Data = {d1}
    NoData = NoData
    NoCall = NoCall
    MaxItems = 2
SPECIFICATION FairSpec
INVARIANTS UseIsSafe OneOwner WakeUps
PROPERTIES CallsReturn AbstractSpec FrozenWhileDeleting
CHECK_DEADLOCK FALSE
