------------------------------- MODULE MCDhcp -------------------------------
(***************************************************************************)
(* Two servers and three clients in a row, c3 c2 s1 c1 s2: c1 has a server *)
(* on either side and passes an ACK of the one on to the other, c3 and c1  *)
(* compete for the addresses of s1, and c2 passes c3's frames on.          *)
(***************************************************************************)
EXTENDS Dhcp, TLC

CONSTANTS s1, s2, c1, c2, c3

Row == (c3 :> {c2}) @@ (c2 :> {c3, s1}) @@ (s1 :> {c2, c1}) @@ (c1 :> {s1, s2}) @@ (s2 :> {c1})

\* One address in each pool.
RowBlocks == (s1 :> {{1}}) @@ (s2 :> {{2}})

\* An address is asked for for 2 seconds, of which 1 or 2 pass.
RowTimes == (s1 :> {1, 2}) @@ [m \in {s2, c1, c2, c3} |-> {2}]

\* What is typed in one go: which commands at which machine, and how often.
Typed(times) ==
  [m \in Machines |-> [op \in Commands |->
     IF <<m, op>> \in DOMAIN times THEN times[<<m, op>>] ELSE 0]]

Pools == [x \in {s1, s2} \X {"add_pool"} |-> 1]

Asking(C) == [x \in C \X {"get_ip", "accept"} |-> 1]

\* c1 and c3 ask and accept; c1 extends its lease or gives it up; c3 asks, and
\* the time passes at s1.
RowLoads ==
  {Typed(Pools @@ Asking({c1, c3})),
   Typed((<<s1, "add_pool">> :> 1) @@ Asking({c1}) @@ (<<c1, "extend">> :> 1)),
   Typed(Pools @@ Asking({c1}) @@ (<<c1, "release">> :> 1)),
   Typed(Pools @@ Asking({c3}) @@ (<<s1, "add_time">> :> 1))}

\* c1 asks once s1 has its address, and answers after the offer has lapsed.
LateLoads ==
  {Typed((<<s1, "add_pool">> :> 1) @@ Asking({c1}) @@ (<<s1, "add_time">> :> 1))}
=============================================================================
