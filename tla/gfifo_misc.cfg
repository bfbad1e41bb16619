\* gfifo_misc with its clients: the SIGIO reader of gfifo_signal.c, a writer that may also issue MEM_CLEAR, and the epoll_body of gfifo_poll_n.c (events EPOLLIN).
CONSTANTS
    s1 = s1  w1 = w1  e1 = e1
    NoProc = NoProc
    Procs = {s1, w1, e1}
    SigioProcs = {s1}
    Pollers = {e1}
    Events <- PollNEvents
    HandlerSize = 99
    NonBlock = {}
    Calls <- MiscCalls
    Sizes = {1, 99}
    Offsets <- NoOffsets
    GFIFO_SIZE = 3
    MaxByte = 2
    MaxSignals = 0
    UserFault = FALSE
    MemcpyOrders = {"forward"}
SPECIFICATION MiscSpec
PROPERTY EpollSeesData
PROPERTY Progress
CHECK_DEADLOCK FALSE
