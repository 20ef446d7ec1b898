SPECIFICATION QueueSpec
CONSTANTS
    o1 = o1  o2 = o2  p1 = p1  p2 = p2  m1 = m1  m2 = m2
    Owners = {o1, o2}
    Steady = {o1}
    Partitions = {p1, p2}
    Messages = {m1, m2}
    PartitionOf <- TwoPartitions
    MaxTotal = 2
    RetryDepth = 1
    MaxFaults = 1
INVARIANTS
    OneOwner AllOwned CounterCovers
PROPERTIES
    Served
