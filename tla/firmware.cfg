\* Two loaders, a process cancelling and changing blocksize, request and ioremap failures, and fw_cleanup.
CONSTANTS
    l1 = l1  l2 = l2  c1 = c1
    NoProc = NoProc
    Procs = {l1, l2, c1}
    Loaders = {l1, l2}
    Cancellers = {c1}
    Tuners = {c1}
    Img <- Image3
    Slack = 1
    BlockSizes <- FwBlockSizes
    DEF_BLOCKSIZE = 20
    ReqCanFail = TRUE
    IoCanFail = TRUE
SPECIFICATION Spec
INVARIANT FwTypeOK
INVARIANT LoadedImageCorrect
PROPERTY LoadReturns
\* After fw_cleanup no attribute can be written and every load has returned.
CHECK_DEADLOCK FALSE
