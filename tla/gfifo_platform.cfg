\* The chrdev driver with gfifo_platform_device_n (here three devices), two
\* users of /dev/gfifo, and every allocation, add and cdev_add failure.
CONSTANTS
    Devs = {1, 2, 3}
    Users = {u1, u2}
    Driver = "chrdev"
    AllocFails = TRUE
    AddFails = TRUE
    CdevFails = TRUE
SPECIFICATION Spec
INVARIANT
    AllocBalanced
CHECK_DEADLOCK FALSE
