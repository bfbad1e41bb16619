\* Two processes on one shared file; reads and writes of 2 and
\* UINT_RANGE + 1 bytes; seeks to -1, 1, 4 and UINT_RANGE + 1.
CONSTANTS
    p1 = p1
    p2 = p2
    fd = fd
    Procs = {p1, p2}
    Files = {fd}
    FileOf <- MCFileOf
    GMEM_SIZE = 3
    Sizes = {2, 9}
    SeekOffsets <- MCSeekOffsets
    UserFault = TRUE
    UINT_RANGE = 8
SPECIFICATION Spec
INVARIANTS
    GmTypeOK
    PosInRange
    
