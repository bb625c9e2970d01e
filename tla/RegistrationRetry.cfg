SPECIFICATION FairSpec
CONSTANTS
    n1 = n1
    n2 = n2
    n3 = n3
    Location <- MCOneLocation
    MaxStarts = 1
    MaxRestarts = 0
    LateUnregister = FALSE
    qpnpn = 3
    minqpn = 2
PROPERTY RegistrationCompletes
CHECK_DEADLOCK FALSE
