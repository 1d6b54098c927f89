\* Two clients share one descriptor and one permit. No symmetry: two of the
\* properties are temporal.
CONSTANTS
    c1 = c1
    c2 = c2
    d1 = d1
    d2 = d2
    NoConn = NoConn
    NoFd = NoFd
    Conns <- MCConns2
    Fds <- MCFds1
    Permits = 1
    MaxErrors = 2
SPECIFICATION FairSpec
INVARIANTS
    TypeOK
    PermitsConserved
    SocketsReturned
    EventOutlivesWorker
PROPERTIES
    TimeoutTaskEnds
    ServerServes
