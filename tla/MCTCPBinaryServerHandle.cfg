\* Two clients, one after the other on the same descriptor.
CONSTANTS
    c1 = c1
    c2 = c2
    d1 = d1
    d2 = d2
    NoConn = NoConn
    NoFd = NoFd
    Conns <- MCConns2
    Fds <- MCFds2
    Permits = 2
    MaxErrors = 2
SPECIFICATION Spec
INVARIANTS
    ResponseToItsClient
