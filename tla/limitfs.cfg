\* limitfs -s (one FUSE thread) with one open file at a time, a --size of 2 and every handler on a file, a directory and a file inside it.
CONSTANTS
    a = a  d = d  da = da  t1 = t1  t2 = t2  h1 = h1  h2 = h2
    Root = Root  None = None
    Paths = {a, d, da}
    Parent <- TreeParent
    ReaddirOrder <- TreeOrder
    InitFs <- StartTrees
    MaxSize = 2
    Threads = {t1}
    Handles = {h1}
    FdNums = {3, 4}
    Sizes = {1, 2}
    Offsets = {0, 1}
    TruncSizes = {0, 2}
SPECIFICATION Spec
INVARIANT LimitTypeOK
INVARIANT CounterNeverUnder
PROPERTY WriteWithinQuota
