\* Two tasks send to two devices; all of one priority, or the senders of a higher one.
\* No symmetry: one of the properties is about liveness.
CONSTANTS
    s1 = s1
    s2 = s2
    a = a
    b = b
    c = c
    x = x
    y = y
    m1 = m1
    m2 = m2
    m3 = m3
    Q = Q
    NoNode = NoNode
    NoMsg = NoMsg
    NoId = NoId
    Senders <- MCSenders
    Nodes <- MCNodes2
    Devices <- MCDevices3
    Ids <- MCIds2
    DeviceID <- MCDeviceID
    Priorities <- MCPriorities
    MaxDevices = 2
    MaxSent <- MCMaxSent
SPECIFICATION FairSpec
INVARIANTS
    TypeOK
    NoneLostAmongEquals
    WakeupNotLost
PROPERTIES
    ChannelSpec
    MessageHandled
