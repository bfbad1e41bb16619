---------------------------- MODULE MC_GfifoMisc ----------------------------
(***************************************************************************)
(* Instances of GfifoMisc: a gfifo_signal process s1, a writer w1 (e.g.    *)
(* echo > /dev/gfifo) that may also issue MEM_CLEAR, and an epoll_body     *)
(* process e1, on a FIFO of 3 bytes.                                       *)
(***************************************************************************)
EXTENDS GfifoMisc, TLC

CONSTANTS s1, w1, e1

MiscCalls == (s1 :> {"read"}) @@ (w1 :> {"write", "clear"}) @@ (e1 :> {"clear"})

\* gfifo_poll_n.c: ev_gfifo.events = EPOLLIN | EPOLLPRI (gfifo_poll never
\* reports POLLPRI)
PollNEvents == {"in"}

NoOffsets == {}

====
