\* An image of 8 bytes: 2 of header, 3 of boot program in sectors of 2, and up
\* to 3 bytes of a file, of which 2 fit.
CONSTANTS
    ATR_HEADER_SIZE = 2
    ATR_DATA_SIZE = 6
    atari_bootsector_bin_len = 3
    SECTOR = 2
    MAX_IOSZ = 9
    MaxFile = 3
    SeekOffsets <- MCSeekOffsets
    MaxPosition = 9
SPECIFICATION FairSpec
INVARIANTS TypeOK BufferIsSlice
PROPERTIES ImplementsImage ReadReturns
