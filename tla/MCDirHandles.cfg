\* Two slots, one plain search, a traversal with and without a pattern, results
\* that end, time.
CONSTANTS
    MAX_DHND_PER_CONN = 2
    DIR_HANDLE_TIMEOUT = 1
    list = list
    tree = tree
    leaves = leaves
    Searches <- MCSearches
    Traversals <- MCTraversals
    Unfiltered <- MCUnfiltered
    Streams = {d1, d2}
    NoStream = NoStream
    NoSearch = NoSearch
    NoCursor = NoCursor
    MaxEntries = 1
SYMMETRY Symmetry
SPECIFICATION Spec
INVARIANTS TypeOK StreamsOwned EmfileWhenAllOpen
PROPERTIES FreshResults ImplementsCursors
