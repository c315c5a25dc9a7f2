\* One client; a network that loses and duplicates but keeps the order;
\* sequence numbers modulo 3, so that they wrap, and at most one call given up
\* in a row; its own repeated MOUNTs can bring its address to its limit.
CONSTANTS
    SEQ_MOD = 3
    Sids = {s1, s2}
    NoSid = NoSid
    NoSession = NoSession
    MAX_SESSIONS_PER_IP = 2
    Commands = {"read", "chmod", "umount"}
    UmountZero = FALSE
    Others = {}
    Reorder = FALSE
    MaxCalls = 4
    MaxGiveUps = 1
    MaxNet = 3
    MaxMoves = 0
SPECIFICATION Spec
INVARIANTS TypeOK
PROPERTIES ImplementsCalls
