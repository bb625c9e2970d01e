SPECIFICATION Spec
CONSTANTS
    n1 = n1
    n2 = n2
    n3 = n3
    Location <- MCLocation
    MaxStarts = 2
    MaxRestarts = 1
    LateUnregister = FALSE
    qpnpn = 3
    minqpn = 2
SYMMETRY Symmetry
INVARIANTS TypeOK QpnRangesDisjoint ServingIdsAreActive NextIdIsFree
PROPERTIES LendsIds
CHECK_DEADLOCK FALSE
