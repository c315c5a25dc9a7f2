\* Liveness: one client address, one session, two connections; a connection
\* and the file of the session, or two connections, take every descriptor.
CONSTANTS
    MAX_SESSIONS = 1
    MAX_SESSIONS_PER_IP = 2
    SESSION_TIMEOUT = 1
    MAX_FD_PER_CONN = 1
    MAX_TCP_CONN = 2
    CONN_TIMEOUT = 0
    SESSION_SWEEP_INTERVAL = 1
    IPs = {ipA}
    Sids = {s1}
    Fds = {f1, f2}
    NoIp = NoIp
    NoSid = NoSid
    NoFd = NoFd
    NoSession = NoSession
    sockfd = sockfd
    tcplistenfd = tcplistenfd
SPECIFICATION Spec
PROPERTIES AbandonedReleased BacklogDrained StopCompletes MessageReceived
