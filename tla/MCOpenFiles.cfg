SPECIFICATION Spec
CONSTANTS
    Options <- MCOptions
    MAX_FD_PER_CONN = 2
    MAX_IOSZ = 1
    Names = {prog, xex}
    Excluded = {xex}
    Inodes = {f1}
    Folder = Folder
    NoFile = NoFile
    ATR_TOTAL_SIZE = 3
    boot_end = 1
    INT32_LIMIT = 2
    MaxLen = 2
    MaxPosition = 2
VIEW MCView
INVARIANTS TypeOK VirtualIsReadOnly
PROPERTIES ReadOnlyKeepsFiles  ImplementsHandles
CHECK_DEADLOCK FALSE
