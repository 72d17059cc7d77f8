\* Safety and refinement: colliding keys, capacities 2, 4 and 8, then the
\* doubled size wraps (SizeMax 15) and ht_expand must fail.
CONSTANTS
    k1 = k1
    k2 = k2
    k3 = k3
    k4 = k4
    NULL = NULL
    Keys <- MCKeys
    Values = {v1, v2}
    Hash <- MCHash
    InitialCapacity = 2
    SizeMax = 15
SPECIFICATION FairSpec
INVARIANTS TypeOK KeysReachable RoomToProbe
PROPERTIES ImplementsMap CallsReturn
