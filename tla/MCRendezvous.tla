---------------------------- MODULE MCRendezvous ----------------------------
(***************************************************************************)
(* Two clients behind one NAT, one behind another, and one outside.  c1    *)
(* routes for c2 and the server for c4.                                    *)
(***************************************************************************)
EXTENDS Rendezvous, TLC

CONSTANTS s, n1, n2, c1, c2, c3, c4

Lans == (c1 :> n1) @@ (c2 :> n1) @@ (c3 :> n2) @@ (c4 :> Outside)

Relays == (c1 :> Wired) @@ (c2 :> c1) @@ (c3 :> Wired) @@ (c4 :> s)

\* An ip is named by its machine.
Named == [m \in Machines |-> m]

\* What is typed in one go: lines[m] at m, and nothing at the others.
Story(lines) == [m \in Machines |-> IF m \in DOMAIN lines THEN lines[m] ELSE <<>>]

\* The last port: a retry starts over from the first ones.
Connect == <<"connect", 7>>

\* The NAT blocks a port: under way c1 and c2 get ids, c1 perhaps two.
BlockedPort ==
  Story((c1 :> <<Connect, Connect, <<"info", 2>>>>) @@ (c2 :> <<Connect>>) @@ (n1 :> <<<<"block", 7>>>>))

\* c3 sends to the outside while its NAT changes its ports.
ChangedPorts ==
  Story((c3 :> <<Connect, <<"info", 2>>, <<"public", 2>>, <<"message", 2>>>>)
        @@ (c4 :> <<Connect, <<"message", 1>>>>) @@ (n2 :> <<<<"reset", 1>>>>))

\* c1 and c3 reach each other through both NATs.
HolePunching ==
  Story((c1 :> <<Connect, <<"info", 2>>, <<"public", 2>>>>)
        @@ (c3 :> <<Connect, <<"info", 1>>, <<"public", 1>>, <<"message", 1>>>>))

\* c1 and c2 make a session in their lan, both at once; c4 asks whether it is behind
\* a NAT.
LocalSession ==
  Story((c1 :> <<Connect, <<"info", 2>>, <<"local", 2>>, <<"message", 2>>>>)
        @@ (c2 :> <<Connect, <<"message", 1>>, <<"local", 1>>, <<"message", 1>>>>)
        @@ (c4 :> <<<<"status", 0>>>>))

\* c1 and c2 register while their NAT starts over with the port it began with.
ReusedPorts ==
  Story((c1 :> <<Connect>>) @@ (c2 :> <<Connect>>) @@ (n1 :> <<<<"reset", 0>>>>))

\* c4 makes a session while the answer with the address of its peer comes in.
HalfAddress ==
  Story((c3 :> <<Connect>>)
        @@ (c4 :> <<Connect, <<"message", 1>>, <<"info", 1>>, <<"public", 1>>>>))

Stories == {BlockedPort, ChangedPorts, HolePunching, LocalSession, ReusedPorts, HalfAddress}
=============================================================================
