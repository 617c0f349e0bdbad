------------------------------- MODULE MCChat -------------------------------
(***************************************************************************)
(* Two programs and their users.                                           *)
(***************************************************************************)
EXTENDS Chat

CONSTANTS a, b

Typed(connect, listen, send, recv, exit) ==
  [op \in Commands |-> CASE op = "connect" -> connect [] op = "listen" -> listen
     [] op = "send" -> send [] op = "recv" -> recv [] op = "exit" -> exit]

\* Three stories, of which one is typed at a time: lines in both directions, up to
\* a SIGPIPE; sessions one after the other, at old and new listeners, until there
\* is no socket left; and both programs in both roles.
MCWorkloads ==
  {[p \in Programs |-> IF p = a THEN Typed(0, 1, 1, 3, 1) ELSE Typed(1, 0, 3, 1, 1)],
   [p \in Programs |-> IF p = a THEN Typed(0, 3, 0, 1, 2) ELSE Typed(4, 0, 1, 0, 2)],
   [p \in Programs |-> IF p = a THEN Typed(1, 1, 1, 1, 2) ELSE Typed(3, 1, 1, 1, 1)]}
=============================================================================
