---------------------------- MODULE PacketViews -----------------------------
(***************************************************************************)
(* What one server process of the pricing service promises about decision  *)
(* packets: a packet becomes known to it, a pending one is decided once,   *)
(* and what it has shown of a packet it never takes back.  A process that  *)
(* is restarted knows nothing again.                                       *)
(***************************************************************************)
CONSTANTS Servers, Packets

VARIABLE view      \* the status in which each server shows each packet

Verdict == {"approved", "rejected"}
Status == {"pending"} \cup Verdict
Shown == Status \cup {"ABSENT"}

Init == view = [s \in Servers |-> [p \in Packets |-> "ABSENT"]]

Learn(s, p) ==
    /\ view[s][p] = "ABSENT"
    /\ \E status \in Status : view' = [view EXCEPT ![s][p] = status]

Decide(s, p) ==
    /\ view[s][p] = "pending"
    /\ \E verdict \in Verdict : view' = [view EXCEPT ![s][p] = verdict]

Forget(s) == view' = [view EXCEPT ![s] = [p \in Packets |-> "ABSENT"]]

Next ==
    \E s \in Servers :
        \/ \E p \in Packets : Learn(s, p) \/ Decide(s, p)
        \/ Forget(s)

Spec == Init /\ [][Next]_view
=============================================================================
