\* A device between two tasks that send to it, one of higher, one of lower priority.
CONSTANTS
    s1 = s1
    s2 = s2
    a = a
    b = b
    c = c
    x = x
    y = y
    m1 = m1
    m2 = m2
    m3 = m3
    Q = Q
    NoNode = NoNode
    NoMsg = NoMsg
    NoId = NoId
    Senders <- MCSenders
    Nodes <- MCNodes3
    Devices <- MCDevices1
    Ids <- MCIds1
    DeviceID <- MCDeviceID1
    Priorities <- MCPrioritiesTCPRCBin
    MaxDevices = 1
    MaxSent <- MCMaxSent2
SPECIFICATION Spec
INVARIANTS
    NoMessageLost
