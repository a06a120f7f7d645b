----------------------------- MODULE AppRelation -----------------------------
(***************************************************************************)
(* What a controller handle promises its user about application relations, *)
(* with no threads, buffers, sockets or calls: a handle is opened once and *)
(* closed once, in between it is in at most one AR at a time, and while it *)
(* is in an AR it sends control frames to that AR's device only, carrying  *)
(* STOP or what the user wrote during that AR.  It is closed only when it  *)
(* is in no AR, and after that nothing is sent.                            *)
(***************************************************************************)
EXTENDS Naturals

CONSTANTS
    Peers,      \* the devices an AR can be with
    Nobody      \* no device: PnController assumes NoDevice \notin Devices

VARIABLES
    phase,      \* "new", "down", "up" or "closed"
    epoch,      \* the AR the handle is in, 0 when it is in none
    peer,       \* the device of that AR
    frame       \* the control frame last sent

relation == <<phase, epoch, peer, frame>>

Init ==
    /\ phase = "new"
    /\ epoch = 0
    /\ peer = Nobody
    /\ frame = [by |-> 0]

Open ==
    /\ phase = "new"
    /\ phase' = "down"
    /\ UNCHANGED <<epoch, peer, frame>>

Establish ==
    /\ phase = "down"
    /\ phase' = "up"
    /\ epoch' \in Nat \ {0}
    /\ peer' \in Peers
    /\ UNCHANGED frame

\* STW1 and NSOLL_A, the words of PROFIdrive telegram 1, each of this AR or STOP.
Control == [by : {epoch}, to : {peer}, stw1 : {0, epoch}, nsoll : {0, epoch}]

Exchange ==
    /\ phase = "up"
    /\ frame' \in Control
    /\ UNCHANGED <<phase, epoch, peer>>

Teardown ==
    /\ phase = "up"
    /\ phase' = "down"
    /\ epoch' = 0
    /\ peer' = Nobody
    /\ UNCHANGED frame

Close ==
    /\ phase = "down"
    /\ phase' = "closed"
    /\ UNCHANGED <<epoch, peer, frame>>

Next == Open \/ Establish \/ Exchange \/ Teardown \/ Close

Spec == Init /\ [][Next]_relation
==============================================================================
