---------------------------- MODULE MCFramework ----------------------------
(***************************************************************************)
(* The main thread, the simulation's thread and one timer.                 *)
(***************************************************************************)
EXTENDS Framework

CONSTANTS main, run, timer

\* Three stories: everybody sends a frame; the thread of run() changes an address
\* twice, and processFrame takes a walk; the thread of run() changes the address of an
\* interface and the timer its mask.
\* With and without a node in all three modes, the map's option early or late; and
\* command lines with a mistake, the last one with arguments that are not its own.
Login == <<"ip", "port", "map", "user", "pass">>
MCCommandLines ==
  {Login \o <<mode>> : mode \in DOMAIN NeedNewMaps}
  \cup {<<mode, "node">> \o Login \o <<"args", "ip", mode>> : mode \in DOMAIN NeedNewMaps}
  \cup {<<>>, Login, Login \o <<"new", "free">>, Login \o <<"id", "node", "node">>,
        Login \o <<"new", "other">>, Login \o <<"args", "new">>}

Never == [k \in Calls |-> 0]
MCWorkloads ==
  {[t \in Threads |-> [Never EXCEPT !["frame"] = 1]],
   [t \in Threads |->
      CASE t = Main -> [Never EXCEPT !["walk"] = 1]
        [] t = Run -> [Never EXCEPT !["ip"] = 2]
        [] OTHER -> Never],
   [t \in Threads |->
      CASE t = Main -> Never
        [] t = Run -> [Never EXCEPT !["ip"] = 1]
        [] OTHER -> [Never EXCEPT !["mask"] = 1]]}
=============================================================================
