\* One client address with two sessions (the limit), two connections, two
\* descriptors: a number freed by a connection can come back within the pass,
\* as a connection or as a file.
CONSTANTS
    MAX_SESSIONS = 2
    MAX_SESSIONS_PER_IP = 2
    SESSION_TIMEOUT = 1
    MAX_FD_PER_CONN = 1
    MAX_TCP_CONN = 2
    CONN_TIMEOUT = 0
    SESSION_SWEEP_INTERVAL = 0
    IPs = {ipA}
    Sids = {s1, s2}
    Fds = {f1, f2}
    NoIp = NoIp
    NoSid = NoSid
    NoFd = NoFd
    NoSession = NoSession
    sockfd = sockfd
    tcplistenfd = tcplistenfd
SYMMETRY Symmetry
SPECIFICATION Spec
INVARIANTS TypeOK NeverBlocks ConnsDistinct ReleasedAtExit
PROPERTIES DeadNotServed ImplementsSessions
