\* One user opening, reading, writing every command to and closing /dev/watchdog, the timer softirq, the kworker (use-workqueue, enable register latching) and the driver's remove; the model stops after remove.
CONSTANTS
    u1 = u1  u2 = u2
    Users = {u1}
    Cmds <- AllCmds
    UseWorkqueue = TRUE
    HasEnable = TRUE
    Gici = TRUE
SPECIFICATION Spec
INVARIANT TypeOK
INVARIANT QuietAfterRemove
PROPERTY KickedWhileStarted
CHECK_DEADLOCK FALSE
