\* Two clients, three slots, a limit of two sessions per address.
CONSTANTS
    MAX_SESSIONS = 3
    MAX_SESSIONS_PER_IP = 2
    SESSION_TIMEOUT = 1
    MAX_FD_PER_CONN = 1
    IPs = {ipA, ipB}
    Sids = {s1, s2, s3}
    Fds = {f1, f2, f3}
    NoIp = NoIp
    NoSid = NoSid
    NoFd = NoFd
    NoSession = NoSession
SYMMETRY Symmetry
SPECIFICATION Spec
INVARIANTS TypeOK UniqueSids CliFdLive OneOwner PerIpLimit
PROPERTIES EvictsOnlyOwnIp
