\* Other clients at the same address and elsewhere, two sessions for each
\* address; numbers modulo 2, so that those of two clients often agree.
CONSTANTS
    SEQ_MOD = 2
    Sids = {s1, s2}
    NoSid = NoSid
    NoSession = NoSession
    MAX_SESSIONS_PER_IP = 2
    Commands = {"read", "umount"}
    UmountZero = FALSE
    Others = {"neighbour", "stranger"}
    Reorder = FALSE
    MaxCalls = 3
    MaxGiveUps = 0
    MaxNet = 2
    MaxMoves = 2
SPECIFICATION FairSpec
PROPERTIES ImplementsCalls UmountCloses CallsAnswered
