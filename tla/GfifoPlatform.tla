---------------------------- MODULE GfifoPlatform ----------------------------
(***************************************************************************)
(* The life of a gfifo device on the platform bus: the device module      *)
(* (gfifo_platform_device.c, one device; gfifo_platform_device_n.c,        *)
(* DEVICE_NUM devices) adds platform devices named "gfifo"; each add      *)
(* probes the driver that is loaded; the device module's exit unregisters *)
(* them, and each unregister of a bound device runs the driver's remove.  *)
(*                                                                         *)
(* Two drivers bind such devices:                                         *)
(*  - "chrdev" (gfifo_platform_driver.c): probe registers the chrdev      *)
(*    region of gfifo_major, kzallocs the device into the global          *)
(*    gfifo_devp and adds its cdev; open sets private_data = gfifo_devp.  *)
(*  - "misc" (gfifo_misc.c): probe kzallocs a device per platform device, *)
(*    keeps it as drvdata and misc_registers it as /dev/gfifo.            *)
(*                                                                         *)
(* A kzalloc'ed device is named by the platform device whose probe        *)
(* allocated it: each is probed at most once, as the device module is     *)
(* loaded once.  The FIFO inside is Gfifo's business; here a file         *)
(* operation is one Use step that dereferences private_data.              *)
(***************************************************************************)
EXTENDS Naturals, FiniteSets

CONSTANTS
    Devs,        \* the platform device ids 1..N the device module adds
    Users,       \* processes that open /dev/gfifo
    Driver,      \* "chrdev" or "misc"
    AllocFails,  \* whether platform_device_alloc and kzalloc may fail
    AddFails,    \* whether platform_device_add may fail
    CdevFails    \* whether cdev_add may fail

ASSUME Devs = 1..Cardinality(Devs) /\ Driver \in {"chrdev", "misc"}

NONE == 0
N == Cardinality(Devs)

VARIABLES
    dm,       \* device module: "out", "init", "in", "failed", "exit", "gone"
    di,       \* the loop index of gfifo_device_init / gfifo_device_exit
    pdev,     \* each platform device: "none", "added" (unbound), "bound"
    drv,      \* the driver module: "in", or "out" once unloaded
    region,   \* chrdev: the chrdev region of gfifo_major is registered
    devp,     \* chrdev: the global gfifo_devp (dangling after remove)
    live,     \* the kzalloc'ed devices not yet kfree'd
    node,     \* the device /dev/gfifo opens to (cdev or misc device), or NONE
    fdev,     \* each user's open file: its private_data device, or NONE
    freedUse  \* some file operation dereferenced a kfree'd device

vars == <<dm, di, pdev, drv, region, devp, live, node, fdev, freedUse>>

Bound == {i \in Devs : pdev[i] = "bound"}

Init ==
    /\ dm = "out"
    /\ di = 1
    /\ pdev = [i \in Devs |-> "none"]
    /\ drv = "in"
    /\ region = FALSE
    /\ devp = NONE
    /\ live = {}
    /\ node = NONE
    /\ fdev = [u \in Users |-> NONE]
    /\ freedUse = FALSE

(***************************************************************************)
(* The drivers' probe and remove, as the state they leave.                *)
(***************************************************************************)

\* Mutant: kzalloc into gfifo_devp before the region is registered, and
\* return -EBUSY without kfree when the region is taken.
ProbeChrdevAllocFirst(i, allocOk, cdevOk) ==
    LET ok == ~region /\ allocOk
    IN  /\ pdev' = [pdev EXCEPT ![i] = IF ok THEN "bound" ELSE "added"]
        /\ live' = IF allocOk THEN live \cup {i} ELSE live
        /\ devp' = IF allocOk THEN i ELSE NONE
        /\ region' = (region \/ ok)
        /\ node' = IF ok /\ cdevOk THEN i ELSE node

\* gfifo_platform_driver.c gfifo_probe: register_chrdev_region fails
\* (-EBUSY) while the region is registered; a kzalloc failure unregisters
\* it again (fail_malloc); a cdev_add failure is only printed, and probe
\* returns 0 with no node.  A failed kzalloc leaves gfifo_devp NULL.
ProbeChrdev(i, allocOk, cdevOk) ==
    LET ok == ~region /\ allocOk
    IN  /\ pdev' = [pdev EXCEPT ![i] = IF ok THEN "bound" ELSE "added"]
        /\ live' = IF ok THEN live \cup {i} ELSE live
        /\ devp' = CASE ok -> i
                      [] ~region -> NONE
                      [] OTHER -> devp
        /\ region' = (region \/ ok)
        /\ node' = IF ok /\ cdevOk THEN i ELSE node

\* gfifo_misc.c gfifo_probe: kzalloc, then misc_register, which fails
\* (the name "gfifo" exists) while a gfifo misc device is registered; that
\* failure returns without kfree(dev).
ProbeMisc(i, allocOk) ==
    LET ok == allocOk /\ node = NONE
    IN  /\ pdev' = [pdev EXCEPT ![i] = IF ok THEN "bound" ELSE "added"]
        /\ live' = IF allocOk THEN live \cup {i} ELSE live
        /\ node' = IF ok THEN i ELSE node
        /\ UNCHANGED <<region, devp>>

\* The remove of bound device i.  chrdev: cdev_del, mutex_destroy,
\* kfree(gfifo_devp), unregister_chrdev_region.  misc: misc_deregister,
\* mutex_destroy, kfree(drvdata).
Remove(i) ==
    /\ node' = IF node = (IF Driver = "chrdev" THEN devp ELSE i) THEN NONE ELSE node
    /\ live' = live \ {IF Driver = "chrdev" THEN devp ELSE i}
    /\ region' = (region /\ Driver # "chrdev")
    /\ UNCHANGED devp

(***************************************************************************)
(* The device module.                                                     *)
(***************************************************************************)
DevInitStart ==
    /\ dm = "out"
    /\ dm' = "init"
    /\ UNCHANGED <<di, pdev, drv, region, devp, live, node, fdev, freedUse>>

\* One iteration of gfifo_device_init: platform_device_alloc and
\* platform_device_add of device di, which probes the loaded driver.
\* A failure returns from init, leaving the devices added before.
DevAdd ==
    /\ dm = "init"
    /\ \/ /\ AllocFails \/ AddFails
          /\ dm' = "failed"
          /\ UNCHANGED <<di, pdev, region, devp, live, node>>
       \/ /\ dm' = IF di = N THEN "in" ELSE "init"
          /\ di' = IF di = N THEN 1 ELSE di + 1
          /\ IF drv = "out"
             THEN /\ pdev' = [pdev EXCEPT ![di] = "added"]
                  /\ UNCHANGED <<region, devp, live, node>>
             ELSE \E aOk \in {TRUE, ~AllocFails}, cOk \in {TRUE, ~CdevFails} :
                  IF Driver = "chrdev" THEN ProbeChrdev(di, aOk, cOk)
                  ELSE ProbeMisc(di, aOk)
    /\ UNCHANGED <<drv, fdev, freedUse>>

\* gfifo_device_exit, one platform_device_unregister per step.
DevExitStart ==
    /\ dm = "in"
    /\ dm' = "exit"
    /\ UNCHANGED <<di, pdev, drv, region, devp, live, node, fdev, freedUse>>

DevUnregister ==
    /\ dm = "exit"
    /\ pdev' = [pdev EXCEPT ![di] = "none"]
    /\ IF pdev[di] = "bound" THEN Remove(di)
       ELSE UNCHANGED <<node, live, region, devp>>
    /\ dm' = IF di = N THEN "gone" ELSE "exit"
    /\ di' = IF di = N THEN 1 ELSE di + 1
    /\ UNCHANGED <<drv, fdev, freedUse>>

\* rmmod of the driver: refused while a file holds the module (fops
\* .owner = THIS_MODULE); platform_driver_unregister removes every bound
\* device.
DriverExit ==
    /\ drv = "in" /\ dm \notin {"init", "exit"}
    /\ \A u \in Users : fdev[u] = NONE
    /\ drv' = "out"
    /\ pdev' = [i \in Devs |-> IF pdev[i] = "bound" THEN "added" ELSE pdev[i]]
    /\ IF Bound = {} THEN UNCHANGED <<node, live, region, devp>>
       ELSE Remove(CHOOSE i \in Bound : TRUE)
    /\ UNCHANGED <<dm, di, fdev, freedUse>>

(***************************************************************************)
(* Users of /dev/gfifo.                                                   *)
(***************************************************************************)

\* chrdev: gfifo_open sets private_data = gfifo_devp; misc: misc_open sets
\* it to the registered miscdevice.
Open(u) ==
    /\ fdev[u] = NONE /\ node # NONE /\ drv = "in"
    /\ fdev' = [fdev EXCEPT ![u] = IF Driver = "chrdev" THEN devp ELSE node]
    /\ UNCHANGED <<dm, di, pdev, drv, region, devp, live, node, freedUse>>

\* read, write, ioctl, poll, fasync: each dereferences private_data.
Use(u) ==
    /\ fdev[u] # NONE
    /\ freedUse' = (freedUse \/ fdev[u] \notin live)
    /\ UNCHANGED <<dm, di, pdev, drv, region, devp, live, node, fdev>>

\* gfifo_release calls gfifo_fasync(-1, filp, 0) on private_data.
Close(u) ==
    /\ fdev[u] # NONE
    /\ freedUse' = (freedUse \/ fdev[u] \notin live)
    /\ fdev' = [fdev EXCEPT ![u] = NONE]
    /\ UNCHANGED <<dm, di, pdev, drv, region, devp, live, node>>

Next ==
    \/ DevInitStart \/ DevAdd \/ DevExitStart \/ DevUnregister \/ DriverExit
    \/ \E u \in Users : Open(u) \/ Use(u) \/ Close(u)

Spec == Init /\ [][Next]_vars

(***************************************************************************)
(* Properties.                                                            *)
(***************************************************************************)

\* The kzalloc'ed devices are exactly those of bound devices, and
\* /dev/gfifo leads to one of them: whatever the order of adds, failed
\* probes, removes and the driver's unload, nothing is leaked and nothing
\* freed is reachable.  For the chrdev driver also: at most one device is
\* bound, gfifo_devp is its allocation, and the chrdev region is held
\* exactly while it is bound.
AllocBalanced ==
    /\ live = IF Driver = "chrdev"
              THEN (IF Bound = {} THEN {} ELSE {devp})
              ELSE Bound
    /\ node # NONE => node \in live
    /\ Driver = "chrdev" =>
           /\ Cardinality(Bound) <= 1
           /\ region = (Bound # {})

\* No file operation, release included, dereferences a device that remove
\* has kfree'd.
NoUseAfterFree == ~freedUse

====
