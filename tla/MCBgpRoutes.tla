----------------------------- MODULE MCBgpRoutes -----------------------------
(***************************************************************************)
(* Parts of the network of fill_interface_info in PA3/user/sm.cpp, for     *)
(* TLC.  Six ASes: 1 provides for 0; 1, 2 and 3 are peers; 2 and 3 provide *)
(* for 4, and 2 and 4 for 5.                                               *)
(***************************************************************************)
EXTENDS BgpRoutes, TLC

CustomersOf == (0 :> {}) @@ (1 :> {0}) @@ (2 :> {4, 5}) @@ (3 :> {4}) @@ (4 :> {5}) @@ (5 :> {})

MCMachines == DOMAIN Interfaces

MCMode ==
  [r \in Machines |-> [n \in Machines |->
     IF n \in CustomersOf[r] THEN "CUSTOMER"
     ELSE IF r \in CustomersOf[n] THEN "PROVIDER" ELSE "PEER"]]

\* How often events happen at a machine: the rest never does.
Nothing == [e \in Events |-> 0]
Idle == [r \in Machines |-> Nothing]

-----------------------------------------------------------------------------
\* Two stories, of which one happens at a time, in parts that share no wire.
\*
\* The pair: 0 and its provider 1 both advertise and withdraw the prefix of 0,
\* and a session of theirs flaps.
Pair == {0, 1}
PairUsers ==
  [Idle EXCEPT
    ![0] = [Nothing EXCEPT !["flap"] = 1, !["withdraw"] = 1, !["advertise"] = 2],
    ![1] = [Nothing EXCEPT !["flap"] = 1, !["withdraw"] = 1, !["advertise"] = 1]]

\* The triangle: the peers 2 and 3, both providers of 4.  2 owns the prefix,
\* everybody advertises once, 3 hijacks the prefix, and 4, who learns paths of
\* different length from two providers, changes a priority.
Triangle == {2, 3, 4}
TriangleUsers ==
  [Idle EXCEPT
    ![2] = [Nothing EXCEPT !["advertise"] = 1],
    ![3] = [Nothing EXCEPT !["advertise"] = 1, !["hijack"] = 1],
    ![4] = [Nothing EXCEPT !["advertise"] = 1, !["priority"] = 1]]

PairAndTriangle ==
  (0 :> <<1>>) @@ (1 :> <<0>>) @@ (2 :> <<3, 4>>) @@ (3 :> <<2, 4>>) @@ (4 :> <<3, 2>>)
PairOrTriangle == {PairUsers, TriangleUsers}
\* 4 learns with priority 80: one step below it, and both ends of the range in
\* which the score is exact.
MCPriorities == {-9000000, 79, 9000000}
PairAndTriangleOwned ==
  [r \in Machines |-> IF r = 0 THEN {"p"} ELSE IF r = 2 THEN {"q"} ELSE {}]
PairAndTriangleNamed == [r \in Machines |-> IF r \in Pair THEN {"p"} ELSE {"q"}]

-----------------------------------------------------------------------------
OwnedBy(o) == [r \in Machines |-> IF r = o THEN Subnets ELSE {}]
AnyNamed == [r \in Machines |-> Subnets]

\* 0, 1 and 1's peer 2 in a row: 0 owns the prefix and withdraws it.
Row == (0 :> <<1>>) @@ (1 :> <<0, 2>>) @@ (2 :> <<1>>)
RowOwned == OwnedBy(0)
RowUsers ==
  {[Idle EXCEPT
     ![0] = [Nothing EXCEPT !["advertise"] = 1, !["withdraw"] = 1],
     ![1] = [Nothing EXCEPT !["advertise"] = 2]]}

\* The row, with 1 the owner and 0 the hijacker.
HijackOwned == OwnedBy(1)
HijackUsers ==
  {[Idle EXCEPT
     ![0] = [Nothing EXCEPT !["hijack"] = 1],
     ![1] = [Nothing EXCEPT !["advertise"] = 1]]}
=============================================================================
