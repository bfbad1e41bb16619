\* One loader and a canceller, with ioremap failing in memloader_load and only positive block sizes.
CONSTANTS
    l1 = l1  l2 = l2  c1 = c1
    NoProc = NoProc
    Procs = {l1, l2, c1}
    Loaders = {l1, l2}
    Cancellers = {c1}
    Tuners = {c1}
    Img <- Image3
    Slack = 1
    BlockSizes <- PosBlockSizes
    DEF_BLOCKSIZE = 20
    ReqCanFail = FALSE
    IoCanFail = TRUE
SPECIFICATION Spec
PROPERTY ReturnsOkOnlyWhenLoaded
CHECK_DEADLOCK FALSE
