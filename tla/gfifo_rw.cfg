\* gfifo.c read/write with a blocking reader, a blocking writer and a non-blocking process that reads, writes and seeks, a signal, failing user copies, and memcpy copying upwards.
CONSTANTS
    r1 = r1  r2 = r2  w1 = w1  w2 = w2
    NoProc = NoProc
    Procs = {r1, r2, w1}
    NonBlock = {r2}
    Calls <- RWSeekCalls
    Sizes = {1, 3}
    Offsets <- SeekOffsets
    GFIFO_SIZE = 3
    MaxByte = 2
    MaxSignals = 1
    UserFault = TRUE
    MemcpyOrders = {"forward"}
SPECIFICATION RWSpec
INVARIANT TypeOK
INVARIANT NoLostWakeup
INVARIANT LockedSections
PROPERTY FifoSpec
CHECK_DEADLOCK FALSE
