---------------------------- MODULE BgpHandshake ----------------------------
(***************************************************************************)
(* What one BGP link of PA3 promises while nothing forces it down: the two *)
(* ends climb the rungs DOWN, OPEN, OPEN_CONFIRM and ESTABLISHED in step,  *)
(* an end never more than one rung above what its peer has announced.      *)
(* BgpSession, the threads and frames of PA3/user/sm.cpp, implements it    *)
(* (see Rung there).                                                       *)
(***************************************************************************)
EXTENDS Naturals

CONSTANTS Endpoints,   \* the interfaces that run a session
          Peer         \* Peer[e] is the interface at the other end of e's wire

VARIABLE rung

Down        == 0
Open        == 1
OpenConfirm == 2
Established == 3

TypeOK == rung \in [Endpoints -> Down .. Established]

Init == rung = [e \in Endpoints |-> Down]

\* An end that has completed the TCP handshake announces itself.
Announce(e) ==
  /\ rung[e] = Down
  /\ rung' = [rung EXCEPT ![e] = Open]

\* It climbs further only behind its peer: it confirms a peer that has
\* announced itself and is established with a peer that has confirmed it.
Climb(e) ==
  /\ rung[e] \in {Open, OpenConfirm}
  /\ rung[Peer[e]] >= rung[e]
  /\ rung' = [rung EXCEPT ![e] = @ + 1]

Next == \E e \in Endpoints : Announce(e) \/ Climb(e)

Spec == Init /\ [][Next]_rung
=============================================================================
