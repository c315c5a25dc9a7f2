\* A traversal asked for again with another limit.
CONSTANTS
    MAX_DHND_PER_CONN = 2
    DIR_HANDLE_TIMEOUT = 1
    list = list
    tree = tree
    leaves = leaves
    Searches <- MCSearches
    Traversals <- MCTraversals
    Unfiltered <- MCUnfiltered
    Streams = {d1, d2}
    NoStream = NoStream
    NoSearch = NoSearch
    NoCursor = NoCursor
    MaxEntries = 2
SPECIFICATION Spec
INVARIANTS MaxResultsKept
