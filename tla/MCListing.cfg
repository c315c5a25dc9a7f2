SPECIFICATION Spec
CONSTANTS
    Star = Star
    NoRequest = NoRequest
    Trees <- MCTrees
    Ignores <- MCIgnores
    Requests <- MCRequests
    Failing <- MCFailing
    Code <- MCCode
    Caseless <- MCCaseless
    INT_LIMIT = 3
    COUNT_LIMIT = 3
    READDIRX_HEADER_SIZE = 4
    READDIRX_ENTRY_SIZE = 14
    TNFS_MAX_PAYLOAD = 34
    MaxCount = 2
INVARIANTS TypeOK ListsWhatMatches ListsInOrder
PROPERTIES CountTold ReadsOn
CHECK_DEADLOCK FALSE
