-------------------------------- MODULE Chat --------------------------------
(***************************************************************************)
(* PA0/server2.cpp: programs that talk over one TCP connection each, by    *)
(* the commands connect, listen, send, recv and exit.  A program has one   *)
(* thread, which a command may block: listen until somebody connects, recv *)
(* until a line or the end comes.  A command that is called invalid        *)
(* changes nothing and is no step here.                                    *)
(*                                                                         *)
(* The sockets are external.  listen sets SO_REUSEPORT and never closes    *)
(* its listener, so a program that listens again has two on one port, and  *)
(* the kernel is free to give a connection to either.                      *)
(***************************************************************************)
EXTENDS Integers, Sequences, FiniteSets, SequencesExt

CONSTANTS Programs,
          Backlog,       \* connections that wait at a listener, but for one (3)
          Chunk,         \* what a call of recv takes at most (1024 bytes)
          LineSize,      \* bound: the size of a line, its newline included
          Descriptors,   \* the sockets a process may have open
          Workloads      \* bound: p types op w[p][op] times at most, for some
                         \* w of this set

Commands == {"connect", "listen", "send", "recv", "exit"}

ASSUME SizesAssumption ==
  Backlog \in Nat /\ Chunk \in Nat \ {0} /\ LineSize \in Nat \ {0} /\ Descriptors \in Nat
ASSUME WorkloadsAssumption == Workloads \subseteq [Programs -> [Commands -> Nat]]

Ends == {"caller", "callee"}
Other(e) == IF e = "caller" THEN "callee" ELSE "caller"

\* A connection is a stream of pieces of lines in each direction.
Pieces == [line : Nat, part : 1 .. LineSize, newline : BOOLEAN]
Line(number, size) ==
  [i \in 1 .. size |-> [line |-> number, part |-> i, newline |-> i = size]]

\* Of a connection: who made it to whom, the ends that are not closed, those that
\* have been reset, and by end what is on its way to it or waits there, how many
\* lines it has sent, and what its recv commands have printed.
Connections ==
  [by : Programs, to : Programs, open : SUBSET Ends, reset : SUBSET Ends,
   got : [Ends -> Seq(Pieces)], sent : [Ends -> Nat], heard : [Ends -> Seq(Seq(Pieces))],
   crowded : SUBSET Ends]   \* where two lines have been at once (for LinesAreKept)

VARIABLES at,          \* where each program is
          connected,
          global_sock, \* the connection and the end of it a program uses
          queues,      \* queues[p][k]: who waits at the k-th listener of p
          conns,       \* the connections, in the order they were made
          descriptors, \* the sockets each program has open
          firstPass,   \* nothing has been printed by the recv under way
          typed        \* commands typed so far, for Workloads

program == <<at, connected, global_sock, firstPass>>
vars == <<program, queues, conns, descriptors, typed>>

Sockets == [conn : Nat, end : Ends]
NoSocket == [conn |-> 0, end |-> "caller"]

TypeOK ==
  /\ at \in [Programs -> {"ready", "accept", "recv", "over"}]
  /\ connected \in [Programs -> BOOLEAN]
  /\ global_sock \in [Programs -> Sockets]
  /\ queues \in [Programs -> Seq(Seq(DOMAIN conns))]
  /\ conns \in Seq(Connections)
  /\ descriptors \in [Programs -> 0 .. Descriptors]
  /\ firstPass \in [Programs -> BOOLEAN]
  /\ typed \in [Programs -> [Commands -> Nat]]

Init ==
  /\ at = [p \in Programs |-> "ready"]
  /\ connected = [p \in Programs |-> FALSE]
  /\ global_sock = [p \in Programs |-> NoSocket]
  /\ queues = [p \in Programs |-> <<>>]
  /\ conns = <<>>
  /\ descriptors = [p \in Programs |-> 0]
  /\ firstPass = [p \in Programs |-> TRUE]
  /\ typed = [p \in Programs |-> [op \in Commands |-> 0]]

-----------------------------------------------------------------------------
(* Sockets.                                                                *)

\* Connections to p that it has not accepted.
Waiting(p) == UNION {ToSet(queues[p][k]) : k \in DOMAIN queues[p]}

\* x after the ends of E are closed.  What was unread there, or not accepted, is
\* answered with a reset.
Shut(x, E, accepted) ==
  LET rest == x.open \ E
      hard == ~ accepted \/ \E e \in E : x.got[e] # <<>>
  IN [x EXCEPT !.open = rest,
               !.reset = IF hard THEN @ \cup rest ELSE @,
               !.got = [e \in Ends |-> IF e \in E THEN <<>> ELSE @[e]]]

\* The process ends, by a return of main or by SIGPIPE.
Ended(p) ==
  LET sock == global_sock[p]
      Held(c) == {e \in Ends : \/ connected[p] /\ sock = [conn |-> c, end |-> e]
                               \/ e = "callee" /\ c \in Waiting(p)}
  IN /\ conns' = [c \in DOMAIN conns |->
          IF Held(c) = {} THEN conns[c] ELSE Shut(conns[c], Held(c), c \notin Waiting(p))]
     /\ queues' = [queues EXCEPT ![p] = <<>>]
     /\ at' = [at EXCEPT ![p] = "over"]
     /\ connected' = [connected EXCEPT ![p] = FALSE]
     /\ UNCHANGED <<global_sock, firstPass, descriptors>>

\* socket() or accept() gives p one more, if the process may have it.
Opens(p) ==
  /\ descriptors[p] < Descriptors
  /\ descriptors' = [descriptors EXCEPT ![p] = @ + 1]

\* What a reset overtakes is lost, from the end on.
Lose(c, e) ==
  /\ e \in conns[c].reset /\ conns[c].got[e] # <<>>
  /\ conns' = [conns EXCEPT ![c].got[e] = Front(@)]
  /\ UNCHANGED <<program, queues, descriptors, typed>>

-----------------------------------------------------------------------------
(* The commands.                                                           *)

Type(p, op) ==
  /\ at[p] = "ready"
  /\ \E w \in Workloads :
       /\ typed[p][op] < w[p][op]
       /\ \A q \in Programs, o \in Commands : typed[q][o] <= w[q][o]
  /\ typed' = [typed EXCEPT ![p][op] = @ + 1]

Connects(p, c, e) ==
  /\ at' = [at EXCEPT ![p] = "ready"]
  /\ connected' = [connected EXCEPT ![p] = TRUE]
  /\ global_sock' = [global_sock EXCEPT ![p] = [conn |-> c, end |-> e]]
  /\ UNCHANGED firstPass

NewConnection(p, q) ==
  [by |-> p, to |-> q, open |-> Ends, reset |-> {}, got |-> [e \in Ends |-> <<>>],
   sent |-> [e \in Ends |-> 0], heard |-> [e \in Ends |-> <<>>], crowded |-> {}]

\* Mutant: a program that is connected connects again.
ConnectAgain(p, q) ==
  /\ Type(p, "connect")
  /\ Opens(p)
  /\ \E k \in DOMAIN queues[q] :
       /\ Len(queues[q][k]) <= Backlog
       /\ conns' = Append(conns, NewConnection(p, q))
       /\ queues' = [queues EXCEPT ![q][k] = Append(@, Len(conns'))]
       /\ Connects(p, Len(conns'), "caller")

\* No listener, none with room in time, or an earlier connection of the two ports
\* that lingers.  The new socket is not closed.
Refused(p, q) ==
  /\ \/ queues[q] = <<>>
     \/ \E k \in DOMAIN queues[q] : Len(queues[q][k]) > Backlog
     \/ \E c \in DOMAIN conns : conns[c].by = p /\ conns[c].to = q
  /\ global_sock' = [global_sock EXCEPT ![p] = NoSocket]
  /\ UNCHANGED <<at, connected, firstPass, queues, conns>>

\* connect, to the port q listens at.  Without a socket main returns.
Connect(p, q) ==
  /\ Type(p, "connect") /\ ~ connected[p]
  /\ \/ /\ Opens(p)
        /\ \E k \in DOMAIN queues[q] :
             /\ Len(queues[q][k]) <= Backlog
             /\ conns' = Append(conns, NewConnection(p, q))
             /\ queues' = [queues EXCEPT ![q][k] = Append(@, Len(conns'))]
             /\ Connects(p, Len(conns'), "caller")
     \/ Opens(p) /\ Refused(p, q)
     \/ descriptors[p] = Descriptors /\ Ended(p)

\* listen, up to the accept.
Listen(p) ==
  /\ Type(p, "listen") /\ ~ connected[p]
  /\ \/ /\ Opens(p)
        /\ queues' = [queues EXCEPT ![p] = Append(@, <<>>)]
        /\ at' = [at EXCEPT ![p] = "accept"]
        /\ UNCHANGED <<connected, global_sock, firstPass, conns>>
     \/ descriptors[p] = Descriptors /\ Ended(p)

\* accept looks at the newest listener only.
Accept(p) ==
  /\ at[p] = "accept"
  /\ LET k == Len(queues[p]) IN
     /\ queues[p][k] # <<>>
     /\ \/ /\ Opens(p)
           /\ queues' = [queues EXCEPT ![p][k] = Tail(@)]
           /\ Connects(p, Head(queues[p][k]), "callee")
           /\ UNCHANGED conns
        \/ descriptors[p] = Descriptors /\ Ended(p)
  /\ UNCHANGED typed

\* send.  To an end that is closed the line is lost, and the answer is a reset;
\* after a reset the line is lost, too, or SIGPIPE ends the process.
Send(p, size) ==
  /\ Type(p, "send") /\ connected[p]
  /\ LET c == global_sock[p].conn
         e == global_sock[p].end
         o == Other(e)
     IN IF o \in conns[c].open
        THEN /\ conns' = [conns EXCEPT
                   ![c].sent[e] = @ + 1,
                   ![c].crowded = IF conns[c].got[o] # <<>> THEN @ \cup {o} ELSE @,
                   ![c].got[o] = @ \o Line(conns[c].sent[e] + 1, size)]
             /\ UNCHANGED <<program, queues, descriptors>>
        ELSE \/ /\ conns' = [conns EXCEPT ![c].sent[e] = @ + 1, ![c].reset = @ \cup {e}]
                /\ UNCHANGED <<program, queues, descriptors>>
             \/ e \in conns[c].reset /\ Ended(p)

Recv(p) ==
  /\ Type(p, "recv") /\ connected[p]
  /\ at' = [at EXCEPT ![p] = "recv"]
  /\ firstPass' = [firstPass EXCEPT ![p] = TRUE]
  /\ UNCHANGED <<connected, global_sock, queues, conns, descriptors>>

\* Mutant: the line does not end the command.
PrintedChunk(chunk) == chunk

\* Of what a call has taken: up to the newline, the rest is dropped.
Printed(chunk) ==
  LET ends == {i \in DOMAIN chunk : chunk[i].newline}
  IN IF ends = {} THEN chunk
     ELSE SubSeq(chunk, 1, CHOOSE i \in ends : \A j \in ends : i <= j)

\* A round of the loop of recv: a call that takes something, or finds the end.
RecvChunk(p) ==
  /\ at[p] = "recv"
  /\ LET c == global_sock[p].conn
         e == global_sock[p].end
         got == conns[c].got[e]
     IN \/ \E n \in 1 .. Len(got) :
             LET out == Printed(SubSeq(got, 1, n)) IN
             /\ n <= Chunk
             /\ conns' = [conns EXCEPT
                  ![c].got[e] = SubSeq(got, n + 1, Len(got)),
                  ![c].heard[e] = IF firstPass[p] THEN Append(@, out)
                                  ELSE Append(Front(@), Last(@) \o out)]
             /\ firstPass' = [firstPass EXCEPT ![p] = FALSE]
             /\ at' = [at EXCEPT ![p] = IF Last(out).newline THEN "ready" ELSE "recv"]
        \/ /\ got = <<>> /\ (Other(e) \notin conns[c].open \/ e \in conns[c].reset)
           /\ at' = [at EXCEPT ![p] = "ready"]
           /\ UNCHANGED <<firstPass, conns>>
  /\ UNCHANGED <<connected, global_sock, queues, descriptors, typed>>

\* Mutant: exit forgets the socket and does not close it.
ExitUnclosed(p) ==
  /\ Type(p, "exit") /\ connected[p]
  /\ global_sock' = [global_sock EXCEPT ![p] = NoSocket]
  /\ connected' = [connected EXCEPT ![p] = FALSE]
  /\ UNCHANGED <<at, firstPass, queues, conns, descriptors>>

\* exit
Exit(p) ==
  /\ Type(p, "exit") /\ connected[p]
  /\ conns' = [conns EXCEPT ![global_sock[p].conn] = Shut(@, {global_sock[p].end}, TRUE)]
  /\ global_sock' = [global_sock EXCEPT ![p] = NoSocket]
  /\ connected' = [connected EXCEPT ![p] = FALSE]
  /\ descriptors' = [descriptors EXCEPT ![p] = @ - 1]
  /\ UNCHANGED <<at, firstPass, queues>>

-----------------------------------------------------------------------------
Next ==
  \/ \E p \in Programs :
       \/ Listen(p) \/ Accept(p) \/ Recv(p) \/ RecvChunk(p) \/ Exit(p)
       \/ \E q \in Programs : Connect(p, q)
       \/ \E size \in 1 .. LineSize : Send(p, size)
  \/ \E c \in DOMAIN conns, e \in Ends : Lose(c, e)

Spec == Init /\ [][Next]_vars

-----------------------------------------------------------------------------
\* What a recv prints is a part without gaps of one line that the peer has sent on
\* this connection, and a later recv prints of a later line: the loop over calls
\* of recv, which take what there is, neither runs two lines together nor goes
\* back.  And who waits with a line until the one before has been taken loses
\* nothing: every recv prints the next line from its start to its end, unless the
\* connection ends first.
LinesAreKept ==
  \A c \in DOMAIN conns : \A e \in Ends :
    LET heard == conns[c].heard[e] IN
    \A i \in DOMAIN heard :
      LET out == heard[i] IN
      /\ out[1].line <= conns[c].sent[Other(e)]
      /\ \A j \in 2 .. Len(out) :
           out[j].line = out[1].line /\ out[j].part = out[j - 1].part + 1
      /\ i < Len(heard) => Last(out).newline /\ out[1].line < heard[i + 1][1].line
      /\ e \notin conns[c].crowded => out[1].part = 1 /\ out[1].line = i

\* A connection is closed by the program that has it: each end of it that is open
\* is the global_sock of a program that knows it is connected, or waits at just one
\* listener to be accepted, whatever the commands, refusals and ends of processes.
NoSessionIsLost ==
  /\ \A p \in Programs : connected[p] =>
       global_sock[p].conn \in DOMAIN conns
       /\ global_sock[p].end \in conns[global_sock[p].conn].open
  /\ \A c \in DOMAIN conns : \A e \in conns[c].open :
       LET owner == IF e = "caller" THEN conns[c].by ELSE conns[c].to
           uses == connected[owner] /\ global_sock[owner] = [conn |-> c, end |-> e]
       IN uses # (e = "callee" /\ c \in Waiting(owner))

\* The connects of p that were refused.
Refusals(p) == typed[p]["connect"] - Cardinality({c \in DOMAIN conns : conns[c].by = p})

\* A process has open the socket it uses, its listeners, and one socket for each of
\* its connects that was refused (the leak of connect), but nothing of a session
\* that is over: whatever sessions it has had, as a caller or a callee, and however
\* they ended, the descriptors run out by refusals and listeners alone.
SocketsAreCounted ==
  \A p \in Programs : at[p] # "over" =>
    descriptors[p] = Len(queues[p]) + Refusals(p) + (IF connected[p] THEN 1 ELSE 0)
=============================================================================
