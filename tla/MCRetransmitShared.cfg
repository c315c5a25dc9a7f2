\* A network that keeps the order, and a neighbour at the client's address.
CONSTANTS
    SEQ_MOD = 3
    Sids = {s1, s2}
    NoSid = NoSid
    NoSession = NoSession
    MAX_SESSIONS_PER_IP = 2
    Commands = {"read"}
    UmountZero = FALSE
    Others = {"neighbour"}
    Reorder = FALSE
    MaxCalls = 2
    MaxGiveUps = 0
    MaxNet = 2
    MaxMoves = 2
SPECIFICATION Spec
INVARIANTS ExecutedOnce
