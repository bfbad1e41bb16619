--------------------------- MODULE RelayAbstract ---------------------------
(***************************************************************************)
(* What the relay promises, per direction: every frame the relay accepts   *)
(* from the source interface is forwarded to the other interface, in the   *)
(* order of acceptance, once, until the process stops.  Frames are known   *)
(* here only by their keys; what the editor does to them is not part of    *)
(* this promise.                                                           *)
(***************************************************************************)
EXTENDS Naturals, Sequences

CONSTANTS Dirs,   \* the forwarding directions
          Keys    \* frame keys

VARIABLES accepted,   \* accepted[d]: keys accepted for direction d, in order
          delivered,  \* delivered[d]: keys forwarded in direction d, in order
          up          \* the process runs

vars == <<accepted, delivered, up>>

Init ==
    /\ accepted = [d \in Dirs |-> <<>>]
    /\ delivered = [d \in Dirs |-> <<>>]
    /\ up = TRUE

Accept(d, k) ==
    /\ up
    /\ accepted' = [accepted EXCEPT ![d] = Append(@, k)]
    /\ UNCHANGED <<delivered, up>>

\* The oldest accepted frame not yet delivered is delivered.
Deliver(d) ==
    /\ up
    /\ Len(delivered[d]) < Len(accepted[d])
    /\ delivered' = [delivered EXCEPT ![d] =
                        Append(@, accepted[d][Len(delivered[d]) + 1])]
    /\ UNCHANGED <<accepted, up>>

Stop ==
    /\ up
    /\ up' = FALSE
    /\ UNCHANGED <<accepted, delivered>>

Next ==
    \/ \E d \in Dirs, k \in Keys : Accept(d, k)
    \/ \E d \in Dirs : Deliver(d)
    \/ Stop

Spec == Init /\ [][Next]_vars /\ \A d \in Dirs : WF_vars(Deliver(d))
=============================================================================
