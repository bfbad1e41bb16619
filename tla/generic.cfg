\* generic_access.c: two callers sharing the register, either lock mode, a 32-bit build (split 64-bit accesses); the mode is set before the accesses.
CONSTANTS
    p1 = p1  p2 = p2
    NoProc = NoProc
    Procs = {p1, p2}
    W = 2
    CONFIG_64BIT = FALSE
    InitRegs = {0, 5}
    Calls <- TwoCallers
    Setters = {}
    InitModes = {"GA_LM_SPINLOCK", "GA_LM_MUTEX"}
SPECIFICATION Spec
PROPERTY RegisterUpdatesAtomic
PROPERTY CallsReturn
\* An idle caller can always call again, so a deadlock leaves a call pending: CallsReturn states it.
CHECK_DEADLOCK FALSE
