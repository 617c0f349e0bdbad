---------------------------- MODULE MCBgpSession ----------------------------
(***************************************************************************)
(* One wire between two machines, a and b, for TLC.                        *)
(***************************************************************************)
EXTENDS BgpSession, TLC

CONSTANTS a, b

MCEndpoints == {a, b}
MCPeer == (a :> b) @@ (b :> a)

\* How often something may happen at a and at b.
MCNever  == (a :> 0) @@ (b :> 0)
MCOnce   == (a :> 1) @@ (b :> 1)
MCStartAgain == (a :> 2) @@ (b :> 1)
MCExpireOnce == (a :> 0) @@ (b :> 1)

\* The two ends are interchangeable (for the runs without liveness).
Symmetry == Permutations(MCEndpoints)
=============================================================================
