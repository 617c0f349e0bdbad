------------------------------ MODULE ChatProofs ------------------------------
(***************************************************************************)
(* Proofs about Chat, for every set of programs, every backlog, every size *)
(* of a line and of a call of recv, every limit of sockets and every       *)
(* workload.                                                               *)
(***************************************************************************)
EXTENDS Chat, WellFoundedInduction, TLAPS

-----------------------------------------------------------------------------
(***************************************************************************)
(* The inductive invariants.                                               *)
(***************************************************************************)

\* Whose an end of a connection is, whether p uses it, and who waits for p.
Owner(c, e)   == IF e = "caller" THEN conns[c].by ELSE conns[c].to
Uses(p, c, e) == connected[p] /\ global_sock[p].conn = c /\ global_sock[p].end = e
Waits(p, c)   == \E k \in DOMAIN queues[p] : \E i \in DOMAIN queues[p][k] : queues[p][k][i] = c

\* A program that is not connected is not in a recv, and one that is in an accept is
\* not connected and has a listener.  Who is connected has a socket open.
PlacesInv ==
  \A p \in Programs :
    /\ at[p] = "recv" => connected[p]
    /\ at[p] = "accept" => ~ connected[p] /\ queues[p] # <<>>
    /\ connected[p] => descriptors[p] # 0

\* A socket is an end that is open, used by its owner only, and not in a queue.
SocketsInv ==
  \A p \in Programs : connected[p] =>
    LET c == global_sock[p].conn
        e == global_sock[p].end
    IN /\ c \in DOMAIN conns /\ e \in conns[c].open
       /\ Owner(c, e) = p
       /\ e = "callee" => ~ Waits(p, c)

\* Who waits at a listener of p has called p, and waits there once.
QueuesInv ==
  \A p \in Programs : \A k \in DOMAIN queues[p] : \A i \in DOMAIN queues[p][k] :
    /\ conns[queues[p][k][i]].to = p /\ "callee" \in conns[queues[p][k][i]].open
    /\ \A l \in DOMAIN queues[p] : \A j \in DOMAIN queues[p][l] :
         queues[p][k][i] = queues[p][l][j] => k = l /\ i = j

\* An end that is open is used, or waits to be accepted.
HeldInv ==
  \A c \in DOMAIN conns : \A e \in conns[c].open :
    Uses(Owner(c, e), c, e) \/ (e = "callee" /\ Waits(Owner(c, e), c))

SessionInv == PlacesInv /\ SocketsInv /\ QueuesInv /\ HeldInv

\* Who is told of a reset has no peer any more, and at an end that is closed nothing
\* waits.
Told(c, e) ==
  /\ e \in conns[c].reset => Other(e) \notin conns[c].open
  /\ e \notin conns[c].open => conns[c].got[e] = <<>>

\* What waits to be read goes through lines that were sent, in their order and
\* without gaps inside of them, and up to the end of one while the peer is there.
IsStream(got) ==
  \A j, k \in DOMAIN got : j < k =>
    IF got[j].line = got[k].line
    THEN got[k].part = got[j].part + (k - j) /\ ~ got[j].newline
    ELSE got[j].line < got[k].line /\ \E i \in j .. k - 1 : got[i].newline

Ordered(c, e) ==
  LET x == conns[c]
      got == x.got[e]
      o == Other(e)
  IN /\ IsStream(got)
     /\ \A j \in DOMAIN got : got[j].line <= x.sent[o]
     /\ got # <<>> /\ o \in x.open => got[Len(got)].newline

\* What waits goes on where the last recv has stopped, in the same line only while
\* that recv is under way.
Printing(c, e) == LET heard == conns[c].heard[e] IN heard[Len(heard)]
Stopped(c, e) == Printing(c, e)[Len(Printing(c, e))]
Cut(c, e) == conns[c].heard[e] # <<>> /\ ~ Stopped(c, e).newline

GoesOn(c, e) ==
  LET x == conns[c]
      got == x.got[e]
      p == Owner(c, e)
  IN /\ Cut(c, e) /\ got # <<>> =>
          /\ got[1].line = Stopped(c, e).line /\ got[1].part = Stopped(c, e).part + 1
          /\ Uses(p, c, e) /\ at[p] = "recv" /\ ~ firstPass[p]
     /\ Cut(c, e) /\ got = <<>> => Other(e) \notin x.open \/ e \notin x.open
     /\ x.heard[e] # <<>> /\ ~ Cut(c, e) /\ got # <<>> => Stopped(c, e).line < got[1].line

\* Where no two lines have been at once, all that are sent are heard one by one.
Calm(c, e) ==
  LET x == conns[c]
      got == x.got[e]
      sent == x.sent[Other(e)]
      heard == Len(x.heard[e])
  IN e \notin x.crowded =>
       IF got = <<>>
       THEN {e, Other(e)} \subseteq x.open => heard = sent
       ELSE /\ \A j \in DOMAIN got : got[j].line = sent
            /\ IF Cut(c, e) THEN heard = sent ELSE heard + 1 = sent /\ got[1].part = 1

\* What LinesAreKept says of one end, and that no recv prints nothing.
IsPart(out) ==
  out # <<>> /\ \A j \in 2 .. Len(out) :
                  out[j].line = out[1].line /\ out[j].part = out[j - 1].part + 1

Kept(c, e) ==
  LET heard == conns[c].heard[e] IN
  \A i \in DOMAIN heard :
    /\ IsPart(heard[i])
    /\ heard[i][1].line <= conns[c].sent[Other(e)]
    /\ i < Len(heard) => /\ heard[i][Len(heard[i])].newline
                         /\ heard[i][1].line < heard[i + 1][1].line
    /\ e \notin conns[c].crowded => heard[i][1].part = 1 /\ heard[i][1].line = i

EndInv(c, e) == Told(c, e) /\ Ordered(c, e) /\ GoesOn(c, e) /\ Calm(c, e) /\ Kept(c, e)

\* A recv that has printed something has not finished its line.
RecvInv ==
  \A p \in Programs : at[p] = "recv" /\ ~ firstPass[p] =>
    Cut(global_sock[p].conn, global_sock[p].end)

StreamsInv ==
  /\ \A c \in DOMAIN conns : \A e \in Ends : EndInv(c, e)
  /\ RecvInv

IndInv == TypeOK /\ SessionInv /\ StreamsInv

-----------------------------------------------------------------------------
(***************************************************************************)
(* Types.                                                                  *)
(***************************************************************************)

\* The ends of a connection are two.
LEMMA TwoEnds ==
  \A e \in Ends : Other(e) \in Ends /\ Other(e) # e /\ Ends = {e, Other(e)} /\ Other(Other(e)) = e
  BY DEF Ends, Other

\* A sequence that is changed at some places is one.
LEMMA ChangedSeq ==
  ASSUME NEW S, NEW s \in Seq(S), NEW f \in [DOMAIN s -> S]
  PROVE  f \in Seq(S) /\ DOMAIN f = DOMAIN s /\ Len(f) = Len(s)
<1>1. DOMAIN s = 1 .. Len(s) /\ Len(s) \in Nat
  OBVIOUS
<1>2. \A n \in Nat : \A g \in [1 .. n -> S] : g \in Seq(S) /\ Len(g) = n
  OBVIOUS
<1>3. QED
  BY <1>1, <1>2

\* The queues are queues of what there is, and of what comes, too.
LEMMA QueuesGrow ==
  ASSUME NEW m \in Nat, NEW n \in Nat, m <= n, NEW q \in Seq(Seq(1 .. m))
  PROVE  q \in Seq(Seq(1 .. n))
<1>1. \A r \in Seq(1 .. m) : r \in Seq(1 .. n)
  <2> SUFFICES ASSUME NEW r \in Seq(1 .. m) PROVE r \in Seq(1 .. n)
    OBVIOUS
  <2>1. r \in [1 .. Len(r) -> 1 .. n] /\ Len(r) \in Nat
    OBVIOUS
  <2>2. QED
    BY <2>1
<1>2. q \in [1 .. Len(q) -> Seq(1 .. n)] /\ Len(q) \in Nat
  BY <1>1
<1>3. QED
  BY <1>2

\* A line is made of pieces, and only its last is a newline.
IsLine(line, number, size) ==
  /\ line \in Seq(Pieces) /\ Len(line) = size
  /\ \A i \in 1 .. size : /\ line[i].line = number /\ line[i].part = i
                          /\ line[i].newline = (i = size)

\* Line is one.
LEMMA LineType ==
  ASSUME NEW number \in Nat, NEW size \in 1 .. LineSize
  PROVE  IsLine(Line(number, size), number, size)
<1>1. size \in Nat /\ \A i \in 1 .. size : i \in 1 .. LineSize
  BY SizesAssumption
<1>2. Line(number, size) \in [1 .. size -> Pieces]
  BY <1>1 DEF Line, Pieces
<1>3. \A n \in Nat : \A g \in [1 .. n -> Pieces] : g \in Seq(Pieces) /\ Len(g) = n
  OBVIOUS
<1>4. QED
  BY <1>1, <1>2, <1>3 DEF Line, IsLine

\* Of a set of numbers that is not empty one is the least.
LEMMA LeastNumber ==
  ASSUME NEW T, T \subseteq Nat, T # {}
  PROVE  \E i \in T : \A j \in T : i <= j
<1>1. PICK i \in T : \A j \in T : ~ (<<j, i>> \in OpToRel(<, Nat))
  BY WFMin, NatLessThanWellFounded
<1>2. \A j \in T : ~ (j < i)
  BY <1>1, Zenon DEF OpToRel
<1>3. QED
  BY <1>2

\* What is printed of a chunk is its beginning, up to the first newline.
LEMMA PrintedIs ==
  ASSUME NEW chunk \in Seq(Pieces), chunk # <<>>
  PROVE  \E m \in 1 .. Len(chunk) :
           /\ Printed(chunk) = SubSeq(chunk, 1, m)
           /\ \A j \in 1 .. m - 1 : ~ chunk[j].newline
           /\ chunk[m].newline \/ m = Len(chunk)
<1> DEFINE ends == {i \in DOMAIN chunk : chunk[i].newline}
<1>1. Len(chunk) \in Nat \ {0} /\ DOMAIN chunk = 1 .. Len(chunk)
  OBVIOUS
<1>2. CASE ends = {}
  <2>1. Printed(chunk) = chunk
    BY <1>2 DEF Printed
  <2>2. SubSeq(chunk, 1, Len(chunk)) = chunk
    BY <1>1
  <2>3. Len(chunk) \in 1 .. Len(chunk) /\ \A j \in 1 .. Len(chunk) - 1 : j \in DOMAIN chunk
    BY <1>1
  <2>4. QED
    BY <1>2, <2>1, <2>2, <2>3, Zenon
<1>3. CASE ends # {}
  <2> DEFINE m == CHOOSE i \in ends : \A j \in ends : i <= j
  <2>1. ends \subseteq Nat
    BY <1>1
  <2>2. m \in ends /\ \A j \in ends : m <= j
    BY <1>3, <2>1, LeastNumber
  <2>3. Printed(chunk) = SubSeq(chunk, 1, m)
    BY <1>3 DEF Printed
  <2> HIDE DEF m
  <2>4. \A j \in 1 .. m - 1 : j \in DOMAIN chunk /\ ~ (m <= j)
    BY <1>1, <2>2
  <2>5. QED
    BY <1>1, <2>2, <2>3, <2>4
<1>4. QED
  BY <1>2, <1>3

\* y is x after the ends of E are shut, as far as it matters here.
IsShut(x, E, y) ==
  /\ y \in Connections
  /\ y.by = x.by /\ y.to = x.to /\ y.open = x.open \ E
  /\ y.sent = x.sent /\ y.heard = x.heard /\ y.crowded = x.crowded
  /\ y.reset \subseteq x.reset \cup (x.open \ E)
  /\ \A e \in Ends : y.got[e] = IF e \in E THEN <<>> ELSE x.got[e]

\* A connection of which some ends are shut is one.
LEMMA ShutType ==
  ASSUME NEW x \in Connections, NEW E \in SUBSET Ends, NEW accepted
  PROVE  IsShut(x, E, Shut(x, E, accepted))
<1> DEFINE got2 == [e \in Ends |-> IF e \in E THEN <<>> ELSE x.got[e]]
<1>1. x.got \in [Ends -> Seq(Pieces)] /\ x.open \in SUBSET Ends /\ x.reset \in SUBSET Ends
  BY DEF Connections
<1>2. got2 \in [Ends -> Seq(Pieces)]
  BY <1>1
<1> HIDE DEF got2
<1>3. \E r \in SUBSET Ends : /\ r \subseteq x.reset \cup (x.open \ E)
                             /\ Shut(x, E, accepted) =
                                  [x EXCEPT !.open = x.open \ E, !.reset = r, !.got = got2]
  <2>1. CASE ~ accepted \/ \E e \in E : x.got[e] # <<>>
    BY <1>1, <2>1, Zenon DEF Shut, got2
  <2>2. CASE ~ (~ accepted \/ \E e \in E : x.got[e] # <<>>)
    BY <1>1, <2>2 DEF Shut, got2
  <2>3. QED
    BY <2>1, <2>2, Zenon
<1>4. PICK r \in SUBSET Ends : /\ r \subseteq x.reset \cup (x.open \ E)
                               /\ Shut(x, E, accepted) =
                                    [x EXCEPT !.open = x.open \ E, !.reset = r, !.got = got2]
  BY <1>3
<1> DEFINE y == [x EXCEPT !.open = x.open \ E, !.reset = r, !.got = got2]
<1>5. /\ y \in Connections
      /\ y.by = x.by /\ y.to = x.to /\ y.open = x.open \ E /\ y.reset = r /\ y.got = got2
      /\ y.sent = x.sent /\ y.heard = x.heard /\ y.crowded = x.crowded
  BY <1>1, <1>2 DEF Connections
<1>6. Shut(x, E, accepted) = y
  BY <1>4
<1>7. \A e \in Ends : got2[e] = IF e \in E THEN <<>> ELSE x.got[e]
  BY DEF got2
<1> HIDE DEF y
<1>8. QED
  BY <1>4, <1>5, <1>6, <1>7 DEF IsShut

\* Who waits at some listener is in a queue.
LEMMA WaitingIs ==
  ASSUME NEW q, NEW c
  PROVE  c \in UNION {ToSet(q[k]) : k \in DOMAIN q} <=>
           \E k \in DOMAIN q : \E i \in DOMAIN q[k] : q[k][i] = c
BY DEF ToSet

\* A connection that is new is one.
LEMMA NewConnectionType ==
  ASSUME NEW p \in Programs, NEW q \in Programs
  PROVE  NewConnection(p, q) \in Connections
<1>1. <<>> \in Seq(Pieces) /\ <<>> \in Seq(Seq(Pieces)) /\ {} \in SUBSET Ends
  OBVIOUS
<1>2. /\ [e \in Ends |-> <<>>] \in [Ends -> Seq(Pieces)]
      /\ [e \in Ends |-> <<>>] \in [Ends -> Seq(Seq(Pieces))]
      /\ [e \in Ends |-> 0] \in [Ends -> Nat]
  BY <1>1
<1>3. QED
  BY <1>1, <1>2 DEF NewConnection, Connections

\* A command is typed by a program that is ready.
LEMMA TypeStep ==
  ASSUME TypeOK, NEW p \in Programs, NEW op \in Commands, Type(p, op)
  PROVE  at[p] = "ready" /\ typed' \in [Programs -> [Commands -> Nat]]
BY DEF Type, TypeOK

\* A socket that is opened is one of those a process may have.
LEMMA OpensStep ==
  ASSUME TypeOK, NEW p \in Programs, Opens(p)
  PROVE  descriptors' \in [Programs -> 0 .. Descriptors]
<1>1. Descriptors \in Nat /\ descriptors[p] \in 0 .. Descriptors
  BY SizesAssumption DEF TypeOK
<1>2. descriptors[p] + 1 \in 0 .. Descriptors
  BY <1>1 DEF Opens
<1>3. QED
  BY <1>2 DEF Opens, TypeOK

\* Of each connection c the ends of E[c] are shut, and what is told of a reset is an
\* end whose peer is one of them.
ShutsEach(E) ==
  \A c \in DOMAIN conns :
    /\ conns'[c].by = conns[c].by /\ conns'[c].to = conns[c].to
    /\ conns'[c].open = conns[c].open \ E[c]
    /\ conns'[c].sent = conns[c].sent /\ conns'[c].heard = conns[c].heard
    /\ conns'[c].crowded = conns[c].crowded
    /\ \A e \in Ends :
         /\ e \in conns'[c].reset => e \in conns[c].reset \/ Other(e) \in E[c]
         /\ conns'[c].got[e] = IF e \in E[c] THEN <<>> ELSE conns[c].got[e]

Shuts(E) ==
  conns' \in Seq(Connections) /\ DOMAIN conns' = DOMAIN conns /\ ShutsEach(E)

\* Connections of which each is left alone or shut in part are shut in part.
LEMMA ShutsAll ==
  ASSUME TypeOK, NEW E \in [DOMAIN conns -> SUBSET Ends], NEW A,
         conns' = [c \in DOMAIN conns |->
                     IF E[c] = {} THEN conns[c] ELSE Shut(conns[c], E[c], A[c])]
  PROVE  Shuts(E)
<1>1. conns \in Seq(Connections)
  BY DEF TypeOK
<1>2. \A c \in DOMAIN conns : conns[c] \in Connections
  BY <1>1
<1>3. \A c \in DOMAIN conns :
        /\ conns'[c] \in Connections
        /\ conns'[c].by = conns[c].by /\ conns'[c].to = conns[c].to
        /\ conns'[c].open = conns[c].open \ E[c]
        /\ conns'[c].sent = conns[c].sent /\ conns'[c].heard = conns[c].heard
        /\ conns'[c].crowded = conns[c].crowded
        /\ \A e \in Ends :
             /\ e \in conns'[c].reset => e \in conns[c].reset \/ Other(e) \in E[c]
             /\ conns'[c].got[e] = IF e \in E[c] THEN <<>> ELSE conns[c].got[e]
  <2> SUFFICES ASSUME NEW c \in DOMAIN conns
               PROVE  /\ conns'[c] \in Connections
                      /\ conns'[c].by = conns[c].by /\ conns'[c].to = conns[c].to
                      /\ conns'[c].open = conns[c].open \ E[c]
                      /\ conns'[c].sent = conns[c].sent /\ conns'[c].heard = conns[c].heard
                      /\ conns'[c].crowded = conns[c].crowded
                      /\ \A e \in Ends :
                           /\ e \in conns'[c].reset => e \in conns[c].reset \/ Other(e) \in E[c]
                           /\ conns'[c].got[e] = IF e \in E[c] THEN <<>> ELSE conns[c].got[e]
    OBVIOUS
  <2>1. CASE E[c] = {}
    BY <1>2, <2>1
  <2>2. CASE E[c] # {}
    <3>1. conns'[c] = Shut(conns[c], E[c], A[c])
      BY <2>2
    <3>2. PICK x, F, accepted : x = conns[c] /\ F = E[c] /\ accepted = A[c]
      OBVIOUS
    <3>3. x \in Connections /\ F \in SUBSET Ends /\ F # {}
      BY <1>2, <2>2, <3>2
    <3>4. PICK y : y = Shut(x, F, accepted)
      OBVIOUS
    <3>5. conns'[c] = y
      BY <3>1, <3>2, <3>4
    <3>6. IsShut(x, F, y)
      BY <3>3, <3>4, ShutType
    <3>7. \A e \in Ends : e \in y.reset => e \in x.reset \/ Other(e) \in F
      <4>1. x.open \subseteq Ends
        BY <3>3 DEF Connections
      <4>2. QED
        BY <3>3, <3>6, <4>1, TwoEnds DEF IsShut
    <3>8. QED
      BY <3>2, <3>5, <3>6, <3>7 DEF IsShut
  <2>3. QED
    BY <2>1, <2>2
<1>4. conns' \in [DOMAIN conns -> Connections]
  BY <1>3
<1>5. conns' \in Seq(Connections) /\ DOMAIN conns' = DOMAIN conns
  BY <1>1, <1>4, ChangedSeq
<1>6. QED
  BY <1>3, <1>5 DEF Shuts, ShutsEach

\* The process of p ends: what it uses is shut, and who waits for it.
LEMMA EndedStep ==
  ASSUME TypeOK, NEW p \in Programs, Ended(p)
  PROVE  \E E \in [DOMAIN conns -> SUBSET Ends] :
           /\ \A c \in DOMAIN conns : \A e \in Ends :
                e \in E[c] <=> Uses(p, c, e) \/ (e = "callee" /\ Waits(p, c))
           /\ Shuts(E)
<1> DEFINE Held(c) == {e \in Ends : \/ connected[p] /\ global_sock[p] = [conn |-> c, end |-> e]
                                    \/ e = "callee" /\ c \in Waiting(p)}
           E == [c \in DOMAIN conns |-> Held(c)]
           A == [c \in DOMAIN conns |-> c \notin Waiting(p)]
<1>1. conns' = [c \in DOMAIN conns |->
                  IF Held(c) = {} THEN conns[c] ELSE Shut(conns[c], Held(c), c \notin Waiting(p))]
  BY DEF Ended
<1>2. E \in [DOMAIN conns -> SUBSET Ends]
  OBVIOUS
<1>3. \A c \in DOMAIN conns : E[c] = Held(c) /\ A[c] = (c \notin Waiting(p))
  OBVIOUS
<1>4. \A c \in DOMAIN conns : \A e \in Ends :
        e \in E[c] <=> Uses(p, c, e) \/ (e = "callee" /\ Waits(p, c))
  <2>1. \A c : c \in Waiting(p) <=> Waits(p, c)
    BY WaitingIs DEF Waiting, Waits
  <2>2. global_sock[p] \in Sockets
    BY DEF TypeOK
  <2>3. \A c \in DOMAIN conns : \A e \in Ends :
          connected[p] /\ global_sock[p] = [conn |-> c, end |-> e] <=> Uses(p, c, e)
    BY <2>2 DEF Uses, Sockets
  <2>4. QED
    BY <2>1, <2>3
<1>5. conns' = [c \in DOMAIN conns |->
                  IF E[c] = {} THEN conns[c] ELSE Shut(conns[c], E[c], A[c])]
  BY <1>1, <1>3
<1> HIDE DEF E, A
<1>6. Shuts(E)
  BY <1>2, <1>5, ShutsAll
<1>7. QED
  BY <1>2, <1>4, <1>6

-----------------------------------------------------------------------------
(***************************************************************************)
(* The sessions.                                                           *)
(***************************************************************************)

\* The type of what waits, and of the owners.
LEMMA SessionTypes ==
  ASSUME TypeOK
  PROVE  /\ \A q \in Programs : queues[q] \in Seq(Seq(DOMAIN conns))
         /\ \A q \in Programs : \A k \in DOMAIN queues[q] : queues[q][k] \in Seq(DOMAIN conns)
         /\ \A q \in Programs : \A k \in DOMAIN queues[q] : \A i \in DOMAIN queues[q][k] :
              queues[q][k][i] \in DOMAIN conns
         /\ \A c \in DOMAIN conns : conns[c] \in Connections /\ conns[c].open \subseteq Ends
         /\ \A c \in DOMAIN conns : \A e \in Ends : Owner(c, e) \in Programs
         /\ Len(conns) \in Nat /\ DOMAIN conns = 1 .. Len(conns)
<1>1. \A q \in Programs : queues[q] \in Seq(Seq(DOMAIN conns))
  BY DEF TypeOK
<1>2. \A q \in Programs : \A k \in DOMAIN queues[q] : queues[q][k] \in Seq(DOMAIN conns)
  BY <1>1
<1>3. \A c \in DOMAIN conns : conns[c] \in Connections /\ conns[c].open \subseteq Ends
  <2>1. \A c \in DOMAIN conns : conns[c] \in Connections
    BY DEF TypeOK
  <2>2. QED
    BY <2>1 DEF Connections
<1>4. \A c \in DOMAIN conns : \A e \in Ends : Owner(c, e) \in Programs
  BY <1>3 DEF Owner, Connections
<1>5. Len(conns) \in Nat /\ DOMAIN conns = 1 .. Len(conns)
  BY DEF TypeOK
<1>6. QED
  BY <1>1, <1>2, <1>3, <1>4, <1>5, SMTT(60)

\* What is to be shown of the queues after a step.
LEMMA QueuesAfter ==
  ASSUME \A r \in Programs : \A l \in DOMAIN queues'[r] : \A i \in DOMAIN queues'[r][l] :
           /\ conns'[queues'[r][l][i]].to = r /\ "callee" \in conns'[queues'[r][l][i]].open
           /\ \A m \in DOMAIN queues'[r] : \A j \in DOMAIN queues'[r][m] :
                queues'[r][l][i] = queues'[r][m][j] => l = m /\ i = j
  PROVE  QueuesInv'
BY DEF QueuesInv

\* A step that opens and closes no end, hands over no socket and moves nobody from
\* or to a queue keeps what is said of the sessions.
LEMMA SameSessions ==
  ASSUME TypeOK, SessionInv,
         DOMAIN conns' = DOMAIN conns,
         \A c \in DOMAIN conns : /\ conns'[c].by = conns[c].by /\ conns'[c].to = conns[c].to
                                 /\ conns'[c].open = conns[c].open,
         connected' = connected,
         \A p \in Programs : connected[p] => global_sock'[p] = global_sock[p],
         \A p \in Programs : /\ DOMAIN queues[p] \subseteq DOMAIN queues'[p]
                             /\ \A k \in DOMAIN queues'[p] :
                                  queues'[p][k] = IF k \in DOMAIN queues[p] THEN queues[p][k] ELSE <<>>
  PROVE  (SocketsInv /\ QueuesInv /\ HeldInv)'
<1>1. \A c : \A p \in Programs : Waits(p, c)' <=> Waits(p, c)
  BY DEF Waits
<1>2. \A c \in DOMAIN conns : \A e : Owner(c, e)' = Owner(c, e)
  BY DEF Owner
<1>3. SocketsInv'
  BY <1>1, <1>2 DEF SessionInv, SocketsInv
<1>4. QueuesInv'
  <2> SUFFICES ASSUME NEW p \in Programs, NEW k \in DOMAIN queues'[p],
                      NEW i \in DOMAIN queues'[p][k]
               PROVE  /\ conns'[queues'[p][k][i]].to = p
                      /\ "callee" \in conns'[queues'[p][k][i]].open
                      /\ \A l \in DOMAIN queues'[p] : \A j \in DOMAIN queues'[p][l] :
                           queues'[p][k][i] = queues'[p][l][j] => k = l /\ i = j
    BY DEF QueuesInv
  <2>1. \A l \in DOMAIN queues'[p] : \A j \in DOMAIN queues'[p][l] :
          /\ l \in DOMAIN queues[p] /\ j \in DOMAIN queues[p][l]
          /\ queues'[p][l][j] = queues[p][l][j]
    OBVIOUS
  <2>2. PICK c : c = queues[p][k][i]
    OBVIOUS
  <2>3. c \in DOMAIN conns
    BY <2>1, <2>2, SessionTypes
  <2>4. conns[c].to = p /\ "callee" \in conns[c].open
    BY <2>1, <2>2 DEF SessionInv, QueuesInv
  <2>5. \A l \in DOMAIN queues[p] : \A j \in DOMAIN queues[p][l] :
          queues[p][k][i] = queues[p][l][j] => k = l /\ i = j
    BY <2>1 DEF SessionInv, QueuesInv
  <2>6. QED
    BY <2>1, <2>2, <2>3, <2>4, <2>5
<1>5. HeldInv'
  <2> SUFFICES ASSUME NEW c \in DOMAIN conns, NEW e \in conns[c].open
               PROVE  (Uses(Owner(c, e), c, e) \/ (e = "callee" /\ Waits(Owner(c, e), c)))'
    BY DEF HeldInv
  <2>1. PICK p \in Programs : p = Owner(c, e) /\ p = Owner(c, e)'
    BY <1>2, SessionTypes
  <2>2. Uses(Owner(c, e), c, e) \/ (e = "callee" /\ Waits(Owner(c, e), c))
    BY DEF SessionInv, HeldInv
  <2>3. CASE Uses(Owner(c, e), c, e)
    <3>1. connected'[p] /\ global_sock'[p].conn = c /\ global_sock'[p].end = e
      BY <2>1, <2>3 DEF Uses
    <3>2. QED
      BY <2>1, <3>1 DEF Uses
  <2>4. CASE e = "callee" /\ Waits(Owner(c, e), c)
    <3>1. Waits(p, c)
      BY <2>1, <2>4 DEF Waits
    <3>2. Waits(Owner(c, e), c)'
      BY <1>1, <2>1, <3>1 DEF Waits
    <3>3. QED
      BY <2>4, <3>2
  <2>5. QED
    BY <2>2, <2>3, <2>4
<1>6. QED
  BY <1>3, <1>4, <1>5

\* When p shuts what it uses, with or without who waits for it, the sessions of the
\* others stay.
LEMMA SessionsShut ==
  ASSUME TypeOK, SessionInv, NEW p \in Programs,
         NEW E \in [DOMAIN conns -> SUBSET Ends], Shuts(E),
         connected' = [connected EXCEPT ![p] = FALSE],
         \A q \in Programs \ {p} : global_sock'[q] = global_sock[q],
         \/ /\ queues' = [queues EXCEPT ![p] = <<>>]
            /\ \A c \in DOMAIN conns : \A e \in Ends :
                 e \in E[c] <=> Uses(p, c, e) \/ (e = "callee" /\ Waits(p, c))
         \/ /\ queues' = queues
            /\ \A c \in DOMAIN conns : \A e \in Ends : e \in E[c] <=> Uses(p, c, e)
  PROVE  (SocketsInv /\ QueuesInv /\ HeldInv)'
<1>1. \A c \in DOMAIN conns : /\ \A e \in Ends : Owner(c, e)' = Owner(c, e)
                              /\ conns'[c].open = conns[c].open \ E[c]
                              /\ conns[c].open \subseteq Ends /\ conns[c].to \in Programs
                              /\ \A e \in Ends : Owner(c, e) \in Programs
  <2>1. \A c \in DOMAIN conns : conns[c] \in Connections
    BY DEF TypeOK
  <2>2. QED
    BY <2>1 DEF Shuts, ShutsEach, Owner, Connections
<1>2. DOMAIN conns' = DOMAIN conns
  BY DEF Shuts
<1>3. \A q \in Programs : \A k \in DOMAIN queues[q] : \A i \in DOMAIN queues[q][k] :
        /\ queues[q][k][i] \in DOMAIN conns /\ Waits(q, queues[q][k][i])
        /\ Owner(queues[q][k][i], "callee") = q
  BY DEF TypeOK, Waits, Owner, SessionInv, QueuesInv
<1>4. \A c \in DOMAIN conns : \A e \in E[c] : Owner(c, e) = p
  <2>1. \A c \in DOMAIN conns : \A e \in Ends : Uses(p, c, e) => Owner(c, e) = p
    BY DEF Uses, SessionInv, SocketsInv
  <2>2. \A c \in DOMAIN conns : Waits(p, c) => Owner(c, "callee") = p
    BY <1>3 DEF Waits
  <2>3. QED
    BY <2>1, <2>2
<1>5. \A q \in Programs \ {p} : queues'[q] = queues[q]
  BY DEF TypeOK
<1>6. queues'[p] = <<>> \/ queues'[p] = queues[p]
  BY DEF TypeOK
<1>7. ~ connected'[p] /\ \A q \in Programs \ {p} : connected'[q] = connected[q]
  BY DEF TypeOK
<1>8. SocketsInv'
  <2> SUFFICES ASSUME NEW q \in Programs, connected'[q], NEW c, NEW e,
                      c = global_sock'[q].conn, e = global_sock'[q].end
               PROVE  /\ c \in DOMAIN conns' /\ e \in conns'[c].open
                      /\ Owner(c, e)' = q
                      /\ e = "callee" => ~ Waits(q, c)'
    BY DEF SocketsInv, Owner, Waits
  <2>1. q # p /\ connected[q]
    BY <1>7
  <2>2. c = global_sock[q].conn /\ e = global_sock[q].end
    BY <2>1
  <2>3. /\ c \in DOMAIN conns /\ e \in conns[c].open /\ Owner(c, e) = q
        /\ e = "callee" => ~ Waits(q, c)
    BY <2>1, <2>2 DEF SessionInv, SocketsInv
  <2>4. e \notin E[c] /\ e \in Ends
    BY <1>1, <1>4, <2>1, <2>3
  <2>5. e = "callee" => ~ Waits(q, c)'
    BY <1>5, <2>1, <2>3 DEF Waits
  <2>6. QED
    BY <1>1, <1>2, <2>3, <2>4, <2>5
<1>9. QueuesInv'
  <2> SUFFICES ASSUME NEW q \in Programs, NEW k \in DOMAIN queues'[q],
                      NEW i \in DOMAIN queues'[q][k]
               PROVE  /\ conns'[queues'[q][k][i]].to = q
                      /\ "callee" \in conns'[queues'[q][k][i]].open
                      /\ \A l \in DOMAIN queues'[q] : \A j \in DOMAIN queues'[q][l] :
                           queues'[q][k][i] = queues'[q][l][j] => k = l /\ i = j
    BY DEF QueuesInv
  <2>1. queues'[q] = queues[q]
    BY <1>5, <1>6
  <2>2. PICK c : c = queues[q][k][i]
    OBVIOUS
  <2>3. c \in DOMAIN conns /\ conns[c].to = q /\ "callee" \in conns[c].open
    BY <1>3, <2>1, <2>2 DEF SessionInv, QueuesInv
  <2>4. "callee" \notin E[c]
    <3>1. CASE q # p
      BY <1>3, <1>4, <2>1, <2>2, <2>3, <3>1
    <3>2. CASE q = p
      <4>1. queues'[p] # <<>> /\ Waits(p, c)
        BY <1>3, <2>1, <2>2, <3>2
      <4>2. queues' # [queues EXCEPT ![p] = <<>>]
        BY <4>1 DEF TypeOK
      <4>3. "callee" \in E[c] <=> Uses(p, c, "callee")
        BY <2>3, <4>2 DEF Ends
      <4>4. ~ Uses(p, c, "callee")
        BY <4>1 DEF Uses, SessionInv, SocketsInv
      <4>5. QED
        BY <4>3, <4>4
    <3>3. QED
      BY <3>1, <3>2
  <2>5. conns'[c].to = q /\ "callee" \in conns'[c].open
    BY <1>1, <2>3, <2>4 DEF Shuts, ShutsEach
  <2>6. \A l \in DOMAIN queues[q] : \A j \in DOMAIN queues[q][l] :
          queues[q][k][i] = queues[q][l][j] => k = l /\ i = j
    BY <2>1 DEF SessionInv, QueuesInv
  <2>7. QED
    BY <2>1, <2>2, <2>5, <2>6
<1>10. HeldInv'
  <2> SUFFICES ASSUME NEW c \in DOMAIN conns, NEW e \in conns'[c].open
               PROVE  (Uses(Owner(c, e), c, e) \/ (e = "callee" /\ Waits(Owner(c, e), c)))'
    BY <1>2 DEF HeldInv
  <2>1. e \in conns[c].open /\ e \in Ends /\ e \notin E[c]
    BY <1>1
  <2>2. PICK q \in Programs : q = Owner(c, e) /\ q = Owner(c, e)'
    BY <1>1, <2>1
  <2>3. Uses(q, c, e) \/ (e = "callee" /\ Waits(q, c))
    BY <2>1, <2>2 DEF SessionInv, HeldInv
  <2>4. CASE queues' = [queues EXCEPT ![p] = <<>>] /\ q = p
    <3>1. queues'[p] = <<>>
      BY <2>4 DEF TypeOK
    <3>2. CASE queues[p] = <<>>
      <4>1. ~ Waits(p, c)
        BY <3>2 DEF Waits
      <4>2. QED
        BY <2>1, <2>3, <2>4, <4>1
    <3>3. CASE queues[p] # <<>>
      <4>1. queues' # queues
        BY <3>1, <3>3
      <4>2. QED
        BY <2>1, <2>3, <2>4, <4>1
    <3>4. QED
      BY <3>2, <3>3
  <2>5. CASE queues' = queues /\ q = p
    <3>1. e = "callee" /\ Waits(p, c)
      BY <2>1, <2>3, <2>5
    <3>2. Waits(p, c)'
      BY <2>5, <3>1 DEF Waits
    <3>3. QED
      BY <2>2, <2>5, <3>1, <3>2 DEF Waits
  <2>6. CASE q # p
    <3>1. queues'[q] = queues[q] /\ connected'[q] = connected[q] /\ global_sock'[q] = global_sock[q]
      BY <1>5, <1>7, <2>6
    <3>2. CASE Uses(q, c, e)
      <4>1. connected'[q] /\ global_sock'[q].conn = c /\ global_sock'[q].end = e
        BY <3>1, <3>2 DEF Uses
      <4>2. QED
        BY <2>2, <4>1 DEF Uses
    <3>3. CASE e = "callee" /\ Waits(q, c)
      <4>1. Waits(q, c)'
        BY <3>1, <3>3 DEF Waits
      <4>2. QED
        BY <2>2, <3>3, <4>1 DEF Waits
    <3>4. QED
      BY <2>3, <3>2, <3>3
  <2>7. QED
    BY <2>4, <2>5, <2>6
<1>11. QED
  BY <1>8, <1>9, <1>10

\* A connection that is new is used by the one who made it, and waits at a listener
\* of the other.
LEMMA SessionsConnect ==
  ASSUME TypeOK, SessionInv, NEW p \in Programs, NEW q \in Programs, ~ connected[p],
         NEW k \in DOMAIN queues[q],
         conns' = Append(conns, NewConnection(p, q)),
         queues' = [queues EXCEPT ![q][k] = Append(@, Len(conns'))],
         Connects(p, Len(conns'), "caller")
  PROVE  (SocketsInv /\ QueuesInv /\ HeldInv)'
<1>1. PICK n, last : n = Len(conns') /\ last = Len(queues[q][k]) + 1
  OBVIOUS
<1>2. /\ n = Len(conns) + 1 /\ n \notin DOMAIN conns /\ DOMAIN conns' = DOMAIN conns \cup {n}
      /\ conns'[n] = NewConnection(p, q) /\ \A c \in DOMAIN conns : conns'[c] = conns[c]
  BY <1>1, SessionTypes
<1>3. \A r \in Programs : /\ DOMAIN queues'[r] = DOMAIN queues[r]
                          /\ \A l \in DOMAIN queues[r] :
                               queues'[r][l] = IF r = q /\ l = k THEN Append(queues[q][k], n)
                                               ELSE queues[r][l]
  BY <1>1 DEF TypeOK
<1>4. /\ DOMAIN queues'[q][k] = DOMAIN queues[q][k] \cup {last} /\ last \notin DOMAIN queues[q][k]
      /\ \A i \in DOMAIN queues[q][k] : queues'[q][k][i] = queues[q][k][i]
      /\ queues'[q][k][last] = n
  <2>1. queues[q][k] \in Seq(DOMAIN conns)
    BY SessionTypes
  <2>2. queues'[q][k] = Append(queues[q][k], n)
    BY <1>3
  <2>3. QED
    BY <1>1, <2>1, <2>2
<1>5. conns'[n].by = p /\ conns'[n].to = q /\ conns'[n].open = Ends
  BY <1>2 DEF NewConnection
<1>6. /\ \A r \in Programs : connected'[r] = (connected[r] \/ r = p)
      /\ global_sock'[p].conn = n /\ global_sock'[p].end = "caller"
      /\ \A r \in Programs \ {p} : global_sock'[r] = global_sock[r]
  BY <1>1 DEF Connects, TypeOK
<1>7. \A r \in Programs : \A l \in DOMAIN queues'[r] : \A i \in DOMAIN queues'[r][l] :
        \/ /\ l \in DOMAIN queues[r] /\ i \in DOMAIN queues[r][l]
           /\ queues'[r][l][i] = queues[r][l][i] /\ queues[r][l][i] \in DOMAIN conns
           /\ ~ (r = q /\ l = k /\ i = last)
        \/ r = q /\ l = k /\ i = last /\ queues'[r][l][i] = n
  <2> SUFFICES ASSUME NEW r \in Programs, NEW l \in DOMAIN queues'[r],
                      NEW i \in DOMAIN queues'[r][l]
               PROVE  \/ /\ l \in DOMAIN queues[r] /\ i \in DOMAIN queues[r][l]
                         /\ queues'[r][l][i] = queues[r][l][i]
                         /\ queues[r][l][i] \in DOMAIN conns
                         /\ ~ (r = q /\ l = k /\ i = last)
                      \/ r = q /\ l = k /\ i = last /\ queues'[r][l][i] = n
    OBVIOUS
  <2>1. l \in DOMAIN queues[r]
    BY <1>3
  <2>2. CASE r = q /\ l = k
    BY <1>4, <2>1, <2>2, SessionTypes
  <2>3. CASE ~ (r = q /\ l = k)
    BY <1>3, <2>1, <2>3, SessionTypes
  <2>4. QED
    BY <2>2, <2>3
<1>8. \A r \in Programs : \A c : Waits(r, c)' <=> Waits(r, c) \/ (r = q /\ c = n)
  <2> SUFFICES ASSUME NEW r \in Programs, NEW c
               PROVE  Waits(r, c)' <=> Waits(r, c) \/ (r = q /\ c = n)
    OBVIOUS
  <2>1. ASSUME Waits(r, c)' PROVE Waits(r, c) \/ (r = q /\ c = n)
    BY <1>7, <2>1 DEF Waits
  <2>2. ASSUME r = q, c = n PROVE Waits(r, c)'
    BY <1>3, <1>4, <2>2 DEF Waits
  <2>3. ASSUME Waits(r, c) PROVE Waits(r, c)'
    <3>1. PICK l \in DOMAIN queues[r] : \E i \in DOMAIN queues[r][l] : queues[r][l][i] = c
      BY <2>3 DEF Waits
    <3>2. PICK i \in DOMAIN queues[r][l] : queues[r][l][i] = c
      BY <3>1
    <3>3. i \in DOMAIN queues'[r][l] /\ queues'[r][l][i] = c
      BY <1>3, <1>4, <3>2
    <3>4. QED
      BY <1>3, <3>3 DEF Waits
  <2>4. QED
    BY <2>1, <2>2, <2>3
<1>9. \A c \in DOMAIN conns : \A e : Owner(c, e)' = Owner(c, e)
  BY <1>2 DEF Owner
<1>10. Owner(n, "caller")' = p /\ Owner(n, "callee")' = q
  BY <1>5 DEF Owner
<1>11. SocketsInv'
  <2> SUFFICES ASSUME NEW r \in Programs, connected'[r], NEW c, NEW e,
                      c = global_sock'[r].conn, e = global_sock'[r].end
               PROVE  /\ c \in DOMAIN conns' /\ e \in conns'[c].open
                      /\ Owner(c, e)' = r
                      /\ e = "callee" => ~ Waits(r, c)'
    BY DEF SocketsInv, Owner, Waits
  <2>1. CASE r = p
    <3>1. c = n /\ e = "caller"
      BY <1>6, <2>1
    <3>2. QED
      BY <1>2, <1>5, <1>10, <2>1, <3>1 DEF Ends
  <2>2. CASE r # p
    <3>1. connected[r] /\ c = global_sock[r].conn /\ e = global_sock[r].end
      BY <1>6, <2>2
    <3>2. c \in DOMAIN conns /\ e \in conns[c].open /\ Owner(c, e) = r
          /\ (e = "callee" => ~ Waits(r, c))
      BY <3>1 DEF SessionInv, SocketsInv
    <3>3. c # n
      BY <1>2, <3>2
    <3>4. QED
      BY <1>2, <1>8, <1>9, <3>2, <3>3
  <2>3. QED
    BY <2>1, <2>2
<1>12. \A r \in Programs : \A l \in DOMAIN queues'[r] : \A i \in DOMAIN queues'[r][l] :
         /\ conns'[queues'[r][l][i]].to = r /\ "callee" \in conns'[queues'[r][l][i]].open
         /\ \A m \in DOMAIN queues'[r] : \A j \in DOMAIN queues'[r][m] :
              queues'[r][l][i] = queues'[r][m][j] => l = m /\ i = j
  <2> TAKE r \in Programs
  <2> TAKE l \in DOMAIN queues'[r]
  <2> TAKE i \in DOMAIN queues'[r][l]
  <2>1. CASE l \in DOMAIN queues[r] /\ i \in DOMAIN queues[r][l]
             /\ queues'[r][l][i] = queues[r][l][i] /\ queues[r][l][i] \in DOMAIN conns
    <3>1. conns'[queues'[r][l][i]].to = r /\ "callee" \in conns'[queues'[r][l][i]].open
      BY <1>2, <2>1 DEF SessionInv, QueuesInv
    <3>2. ASSUME NEW m \in DOMAIN queues'[r], NEW j \in DOMAIN queues'[r][m],
                 queues'[r][l][i] = queues'[r][m][j]
          PROVE  l = m /\ i = j
      <4>1. queues'[r][m][j] # n
        BY <1>2, <2>1, <3>2
      <4>2. m \in DOMAIN queues[r] /\ j \in DOMAIN queues[r][m]
            /\ queues'[r][m][j] = queues[r][m][j]
        BY <1>7, <4>1
      <4>3. QED
        BY <2>1, <3>2, <4>2 DEF SessionInv, QueuesInv
    <3>3. QED
      BY <3>1, <3>2
  <2>2. CASE r = q /\ l = k /\ i = last /\ queues'[r][l][i] = n
    <3>1. conns'[queues'[r][l][i]].to = r /\ "callee" \in conns'[queues'[r][l][i]].open
      BY <1>5, <2>2 DEF Ends
    <3>2. ASSUME NEW m \in DOMAIN queues'[r], NEW j \in DOMAIN queues'[r][m],
                 queues'[r][l][i] = queues'[r][m][j]
          PROVE  l = m /\ i = j
      <4>1. queues'[r][m][j] \notin DOMAIN conns
        BY <1>2, <2>2, <3>2
      <4>2. QED
        BY <1>7, <2>2, <4>1
    <3>3. QED
      BY <3>1, <3>2
  <2>3. QED
    BY <1>7, <2>1, <2>2, ZenonT(60)
<1>13. HeldInv'
  <2> SUFFICES ASSUME NEW c \in DOMAIN conns', NEW e \in conns'[c].open
               PROVE  (Uses(Owner(c, e), c, e) \/ (e = "callee" /\ Waits(Owner(c, e), c)))'
    BY DEF HeldInv
  <2>1. CASE c = n /\ e = "caller"
    <3>1. connected'[p] /\ global_sock'[p].conn = c /\ global_sock'[p].end = e
      BY <1>6, <2>1
    <3>2. QED
      BY <1>10, <2>1, <3>1 DEF Uses
  <2>2. CASE c = n /\ e = "callee"
    <3>1. Waits(q, c)'
      BY <1>8, <2>2
    <3>2. QED
      BY <1>10, <2>2, <3>1 DEF Waits
  <2>3. CASE c \in DOMAIN conns
    <3>1. e \in conns[c].open /\ e \in Ends
      BY <1>2, <2>3, SessionTypes
    <3>2. PICK r \in Programs : r = Owner(c, e) /\ r = Owner(c, e)'
      BY <1>9, <2>3, <3>1, SessionTypes
    <3>3. Uses(r, c, e) \/ (e = "callee" /\ Waits(r, c))
      BY <2>3, <3>1, <3>2 DEF SessionInv, HeldInv
    <3>4. CASE Uses(r, c, e)
      <4>1. connected'[r] /\ global_sock'[r].conn = c /\ global_sock'[r].end = e
        BY <1>6, <3>4 DEF Uses
      <4>2. QED
        BY <3>2, <4>1 DEF Uses
    <3>5. CASE e = "callee" /\ Waits(r, c)
      <4>1. Waits(r, c)'
        BY <1>8, <3>5
      <4>2. QED
        BY <3>2, <3>5, <4>1 DEF Waits
    <3>6. QED
      BY <3>3, <3>4, <3>5
  <2>4. c = n => e \in {"caller", "callee"}
    BY <1>5 DEF Ends
  <2>5. QED
    BY <1>2, <2>1, <2>2, <2>3, <2>4
<1>14. QueuesInv'
  BY <1>12, QueuesAfter
<1>15. QED
  BY <1>11, <1>13, <1>14

\* Who is accepted leaves the queue, and is in no other.
LEMMA SessionsAccept ==
  ASSUME TypeOK, SessionInv, NEW p \in Programs, ~ connected[p],
         NEW k \in DOMAIN queues[p], queues[p][k] # <<>>,
         queues' = [queues EXCEPT ![p][k] = Tail(@)],
         Connects(p, Head(queues[p][k]), "callee"),
         conns' = conns
  PROVE  (SocketsInv /\ QueuesInv /\ HeldInv)'
<1>1. PICK n, t : n = Head(queues[p][k]) /\ t = Tail(queues[p][k])
  OBVIOUS
<1>2. /\ n \in DOMAIN conns /\ 1 \in DOMAIN queues[p][k] /\ queues[p][k][1] = n
      /\ \A i \in DOMAIN t : /\ i \in Nat \ {0}
                            /\ i + 1 \in DOMAIN queues[p][k] /\ t[i] = queues[p][k][i + 1]
      /\ \A i \in DOMAIN queues[p][k] \ {1} :
           i - 1 \in DOMAIN t /\ t[i - 1] = queues[p][k][i]
  <2>1. queues[p][k] \in Seq(DOMAIN conns) /\ Len(queues[p][k]) \in Nat \ {0}
    BY SessionTypes
  <2>2. QED
    BY <1>1, <2>1
<1>3. \A r \in Programs : /\ DOMAIN queues'[r] = DOMAIN queues[r]
                          /\ \A l \in DOMAIN queues[r] :
                               queues'[r][l] = IF r = p /\ l = k THEN t ELSE queues[r][l]
  BY <1>1 DEF TypeOK
<1>4. /\ \A r \in Programs : connected'[r] = (connected[r] \/ r = p)
      /\ global_sock'[p].conn = n /\ global_sock'[p].end = "callee"
      /\ \A r \in Programs \ {p} : global_sock'[r] = global_sock[r]
  BY <1>1 DEF Connects, TypeOK
<1> DEFINE Was(r, l, i) == IF r = p /\ l = k THEN i + 1 ELSE i
<1>5. \A r \in Programs : \A l \in DOMAIN queues'[r] : \A i \in DOMAIN queues'[r][l] :
        /\ l \in DOMAIN queues[r] /\ Was(r, l, i) \in DOMAIN queues[r][l]
        /\ queues'[r][l][i] = queues[r][l][Was(r, l, i)]
        /\ ~ (r = p /\ l = k /\ Was(r, l, i) = 1)
  <2> SUFFICES ASSUME NEW r \in Programs, NEW l \in DOMAIN queues'[r],
                      NEW i \in DOMAIN queues'[r][l]
               PROVE  /\ l \in DOMAIN queues[r] /\ Was(r, l, i) \in DOMAIN queues[r][l]
                      /\ queues'[r][l][i] = queues[r][l][Was(r, l, i)]
                      /\ ~ (r = p /\ l = k /\ Was(r, l, i) = 1)
    BY Zenon
  <2>1. CASE r = p /\ l = k
    <3>1. l \in DOMAIN queues[r] /\ queues'[r][l] = t
      BY <1>3, <2>1, Zenon
    <3>2. i \in DOMAIN t
      BY <3>1
    <3>3. i \in Nat \ {0} /\ i + 1 \in DOMAIN queues[p][k] /\ t[i] = queues[p][k][i + 1]
      BY <1>2, <3>2
    <3>4. QED
      BY <2>1, <3>1, <3>3
  <2>2. CASE ~ (r = p /\ l = k)
    BY <1>3, <2>2
  <2>3. QED
    BY <2>1, <2>2
<1>6. \A r \in Programs : \A l \in DOMAIN queues'[r] : \A i, j \in DOMAIN queues'[r][l] :
        Was(r, l, i) = Was(r, l, j) => i = j
  <2> SUFFICES ASSUME NEW r \in Programs, NEW l \in DOMAIN queues'[r],
                      NEW i \in DOMAIN queues'[r][l], NEW j \in DOMAIN queues'[r][l],
                      Was(r, l, i) = Was(r, l, j)
               PROVE  i = j
    BY Zenon
  <2>1. CASE r = p /\ l = k
    BY <1>2, <1>3, <2>1
  <2>2. CASE ~ (r = p /\ l = k)
    BY <2>2
  <2>3. QED
    BY <2>1, <2>2
<1> HIDE DEF Was
<1>7. \A r \in Programs : \A c : Waits(r, c)' <=> Waits(r, c) /\ ~ (r = p /\ c = n)
  <2> SUFFICES ASSUME NEW r \in Programs, NEW c
               PROVE  Waits(r, c)' <=> Waits(r, c) /\ ~ (r = p /\ c = n)
    OBVIOUS
  <2>1. ASSUME Waits(r, c)' PROVE Waits(r, c) /\ ~ (r = p /\ c = n)
    <3>1. PICK l \in DOMAIN queues'[r] : \E i \in DOMAIN queues'[r][l] : queues'[r][l][i] = c
      BY <2>1 DEF Waits
    <3>2. PICK i \in DOMAIN queues'[r][l] : queues'[r][l][i] = c
      BY <3>1
    <3>3. PICK j : j = Was(r, l, i)
      OBVIOUS
    <3>4. /\ l \in DOMAIN queues[r] /\ j \in DOMAIN queues[r][l] /\ queues[r][l][j] = c
          /\ ~ (r = p /\ l = k /\ j = 1)
      BY <1>5, <3>2, <3>3
    <3>5. ~ (r = p /\ c = n)
      BY <1>2, <3>4 DEF SessionInv, QueuesInv
    <3>6. QED
      BY <3>4, <3>5 DEF Waits
  <2>2. ASSUME Waits(r, c), ~ (r = p /\ c = n) PROVE Waits(r, c)'
    <3>1. PICK l \in DOMAIN queues[r] : \E i \in DOMAIN queues[r][l] : queues[r][l][i] = c
      BY <2>2 DEF Waits
    <3>2. PICK i \in DOMAIN queues[r][l] : queues[r][l][i] = c
      BY <3>1
    <3>3. CASE r = p /\ l = k
      <4>1. i # 1
        BY <1>2, <2>2, <3>2, <3>3
      <4>2. i - 1 \in DOMAIN queues'[r][l] /\ queues'[r][l][i - 1] = c
        <5>1. queues'[r][l] = t
          BY <1>3, <3>3
        <5>2. i \in DOMAIN queues[p][k] \ {1} /\ queues[p][k][i] = c
          BY <3>2, <3>3, <4>1
        <5>3. i - 1 \in DOMAIN t /\ t[i - 1] = c
          BY <1>2, <5>2
        <5>4. QED
          BY <5>1, <5>3
      <4>3. QED
        BY <1>3, <4>2 DEF Waits
    <3>4. CASE ~ (r = p /\ l = k)
      <4>1. i \in DOMAIN queues'[r][l] /\ queues'[r][l][i] = c
        BY <1>3, <3>2, <3>4
      <4>2. QED
        BY <1>3, <4>1 DEF Waits
    <3>5. QED
      BY <3>3, <3>4
  <2>3. QED
    BY <2>1, <2>2
<1>8. \A c \in DOMAIN conns : \A e : Owner(c, e)' = Owner(c, e)
  BY DEF Owner
<1>9. conns[n].to = p /\ "callee" \in conns[n].open
  BY <1>2 DEF SessionInv, QueuesInv
<1>10. SocketsInv'
  <2> SUFFICES ASSUME NEW r \in Programs, connected'[r], NEW c, NEW e,
                      c = global_sock'[r].conn, e = global_sock'[r].end
               PROVE  /\ c \in DOMAIN conns' /\ e \in conns'[c].open
                      /\ Owner(c, e)' = r
                      /\ e = "callee" => ~ Waits(r, c)'
    BY DEF SocketsInv, Owner, Waits
  <2>1. CASE r = p
    <3>1. c = n /\ e = "callee"
      BY <1>4, <2>1
    <3>2. Owner(c, e)' = p
      BY <1>9, <3>1 DEF Owner
    <3>3. QED
      BY <1>2, <1>7, <1>9, <2>1, <3>1, <3>2
  <2>2. CASE r # p
    <3>1. connected[r] /\ c = global_sock[r].conn /\ e = global_sock[r].end
      BY <1>4, <2>2
    <3>2. c \in DOMAIN conns /\ e \in conns[c].open /\ Owner(c, e) = r
          /\ (e = "callee" => ~ Waits(r, c))
      BY <3>1 DEF SessionInv, SocketsInv
    <3>3. QED
      BY <1>7, <1>8, <3>2
  <2>3. QED
    BY <2>1, <2>2
<1>11. QueuesInv'
  <2> SUFFICES ASSUME NEW r \in Programs, NEW l \in DOMAIN queues'[r],
                      NEW i \in DOMAIN queues'[r][l]
               PROVE  /\ conns'[queues'[r][l][i]].to = r
                      /\ "callee" \in conns'[queues'[r][l][i]].open
                      /\ \A m \in DOMAIN queues'[r] : \A j \in DOMAIN queues'[r][m] :
                           queues'[r][l][i] = queues'[r][m][j] => l = m /\ i = j
    BY DEF QueuesInv
  <2>1. PICK was : was = Was(r, l, i)
    OBVIOUS
  <2>2. l \in DOMAIN queues[r] /\ was \in DOMAIN queues[r][l]
        /\ queues'[r][l][i] = queues[r][l][was]
    BY <1>5, <2>1
  <2>3. conns'[queues'[r][l][i]].to = r /\ "callee" \in conns'[queues'[r][l][i]].open
    BY <2>2 DEF SessionInv, QueuesInv
  <2>4. ASSUME NEW m \in DOMAIN queues'[r], NEW j \in DOMAIN queues'[r][m],
               queues'[r][l][i] = queues'[r][m][j]
        PROVE  l = m /\ i = j
    <3>1. PICK was2 : was2 = Was(r, m, j)
      OBVIOUS
    <3>2. m \in DOMAIN queues[r] /\ was2 \in DOMAIN queues[r][m]
          /\ queues'[r][m][j] = queues[r][m][was2]
      BY <1>5, <3>1
    <3>3. queues[r][l][was] = queues[r][m][was2]
      BY <2>2, <2>4, <3>2
    <3>4. l = m /\ was = was2
      BY <2>2, <3>2, <3>3 DEF SessionInv, QueuesInv
    <3>5. QED
      BY <1>6, <2>1, <3>1, <3>4
  <2>5. QED
    BY <2>3, <2>4
<1>12. HeldInv'
  <2> SUFFICES ASSUME NEW c \in DOMAIN conns, NEW e \in conns[c].open
               PROVE  (Uses(Owner(c, e), c, e) \/ (e = "callee" /\ Waits(Owner(c, e), c)))'
    BY DEF HeldInv
  <2>1. e \in Ends
    BY SessionTypes
  <2>2. PICK r \in Programs : r = Owner(c, e) /\ r = Owner(c, e)'
    BY <1>8, <2>1, SessionTypes
  <2>3. Uses(r, c, e) \/ (e = "callee" /\ Waits(r, c))
    BY <2>1, <2>2 DEF SessionInv, HeldInv
  <2>4. CASE Uses(r, c, e)
    <3>1. connected'[r] /\ global_sock'[r].conn = c /\ global_sock'[r].end = e
      BY <1>4, <2>4 DEF Uses
    <3>2. QED
      BY <2>2, <3>1 DEF Uses
  <2>5. CASE e = "callee" /\ Waits(r, c) /\ ~ (r = p /\ c = n)
    <3>1. Waits(r, c)'
      BY <1>7, <2>5
    <3>2. QED
      BY <2>2, <2>5, <3>1 DEF Waits
  <2>6. CASE e = "callee" /\ r = p /\ c = n
    <3>1. connected'[r] /\ global_sock'[r].conn = c /\ global_sock'[r].end = e
      BY <1>4, <2>6
    <3>2. QED
      BY <2>2, <3>1 DEF Uses
  <2>7. QED
    BY <2>3, <2>4, <2>5, <2>6
<1>13. QED
  BY <1>10, <1>11, <1>12

-----------------------------------------------------------------------------
(***************************************************************************)
(* Streams.                                                                *)
(***************************************************************************)

\* A stream of which the beginning is taken, or the end lost, is one.
LEMMA StreamPart ==
  ASSUME NEW got \in Seq(Pieces), IsStream(got),
         NEW n \in 0 .. Len(got), NEW m \in n .. Len(got)
  PROVE  /\ SubSeq(got, n + 1, m) \in Seq(Pieces) /\ Len(SubSeq(got, n + 1, m)) = m - n
         /\ \A j \in 1 .. m - n : SubSeq(got, n + 1, m)[j] = got[j + n]
         /\ IsStream(SubSeq(got, n + 1, m))
<1> DEFINE rest == SubSeq(got, n + 1, m)
           length == Len(got)
<1>1. length \in Nat /\ DOMAIN got = 1 .. length /\ n \in 0 .. length /\ m \in n .. length
  OBVIOUS
<1>2. rest \in Seq(Pieces) /\ Len(rest) = m - n /\ \A j \in 1 .. m - n : rest[j] = got[j + n]
  <2>1. \A j \in n + 1 .. m : got[j] \in Pieces
    BY <1>1
  <2>2. Len(rest) = m - n /\ \A j \in 1 .. m - n : rest[j] = got[j + n]
    OBVIOUS
  <2>3. QED
    BY <2>1, <2>2
<1>3. DOMAIN rest = 1 .. m - n
  BY <1>2
<1> HIDE DEF rest, length
<1>4. IsStream(rest)
  <2> SUFFICES ASSUME NEW j \in DOMAIN rest, NEW k \in DOMAIN rest, j < k
               PROVE  IF rest[j].line = rest[k].line
                      THEN rest[k].part = rest[j].part + (k - j) /\ ~ rest[j].newline
                      ELSE /\ rest[j].line < rest[k].line
                           /\ \E i \in j .. k - 1 : rest[i].newline
    BY DEF IsStream
  <2>1. /\ j \in Nat /\ k \in Nat /\ j + n \in DOMAIN got /\ k + n \in DOMAIN got
        /\ j + n < k + n /\ (k + n) - (j + n) = k - j
    BY <1>1, <1>3
  <2>2. rest[j] = got[j + n] /\ rest[k] = got[k + n]
    BY <1>2, <1>3
  <2>3. IF got[j + n].line = got[k + n].line
        THEN got[k + n].part = got[j + n].part + (k - j) /\ ~ got[j + n].newline
        ELSE /\ got[j + n].line < got[k + n].line
             /\ \E i \in j + n .. (k + n) - 1 : got[i].newline
    BY <2>1 DEF IsStream
  <2>4. ASSUME NEW i \in j + n .. (k + n) - 1, got[i].newline
        PROVE  \E l \in j .. k - 1 : rest[l].newline
    <3>1. i - n \in j .. k - 1 /\ i - n \in 1 .. m - n /\ (i - n) + n = i
      BY <1>1, <1>3, <2>1, SMTT(60)
    <3>2. rest[i - n].newline
      BY <1>2, <2>4, <3>1
    <3>3. QED
      BY <3>1, <3>2
  <2>5. QED
    BY <2>2, <2>3, <2>4
<1>5. QED
  BY <1>2, <1>4 DEF rest

\* A stream that goes on with a line that is new.
IsLonger(got, number, more) ==
  /\ more \in Seq(Pieces) /\ more # <<>>
  /\ got # <<>> => more[1] = got[1]
  /\ got = <<>> => more[1].part = 1 /\ \A j \in DOMAIN more : more[j].line = number
  /\ \A j \in DOMAIN more : more[j].line <= number
  /\ more[Len(more)].newline
  /\ IsStream(more)

\* It is one, if the line before is at its end.
LEMMA StreamLonger ==
  ASSUME NEW got \in Seq(Pieces), IsStream(got), NEW number \in Nat, NEW size \in 1 .. LineSize,
         \A j \in DOMAIN got : got[j].line < number,
         got # <<>> => got[Len(got)].newline
  PROVE  IsLonger(got, number, got \o Line(number, size))
<1>1. PICK length, line : length = Len(got) /\ line = Line(number, size)
  OBVIOUS
<1>2. /\ line \in Seq(Pieces) /\ Len(line) = size /\ size \in Nat \ {0}
      /\ \A i \in 1 .. size : /\ line[i].line = number /\ line[i].part = i
                              /\ line[i].newline = (i = size)
  <2>1. size \in Nat \ {0}
    BY SizesAssumption
  <2>2. IsLine(line, number, size)
    BY <1>1, LineType
  <2>3. QED
    BY <2>1, <2>2 DEF IsLine
<1>3. PICK more : more = got \o line
  OBVIOUS
<1>4. /\ length \in Nat /\ DOMAIN got = 1 .. length
      /\ more \in Seq(Pieces) /\ Len(more) = length + size /\ DOMAIN more = 1 .. length + size
      /\ \A j \in 1 .. length : more[j] = got[j]
      /\ \A j \in 1 .. size : more[length + j] = line[j]
  <2>1. line \in Seq(Pieces) /\ Len(line) = size /\ size \in Nat
    BY <1>2
  <2>2. /\ more \in Seq(Pieces) /\ Len(more) = length + size
        /\ \A j \in 1 .. length : more[j] = got[j]
        /\ \A j \in 1 .. size : more[length + j] = line[j]
    <3>1. got \o line \in Seq(Pieces) /\ Len(got \o line) = Len(got) + Len(line)
      BY <2>1
    <3>2. \A j \in 1 .. Len(got) : (got \o line)[j] = got[j]
      BY <2>1
    <3>3. \A j \in 1 .. Len(line) : (got \o line)[Len(got) + j] = line[j]
      BY <2>1
    <3>4. QED
      BY <1>1, <1>3, <2>1, <3>1, <3>2, <3>3
  <2>3. QED
    BY <1>1, <2>2
<1>5. \A j \in length + 1 .. length + size :
        /\ j - length \in 1 .. size
        /\ more[j].line = number /\ more[j].part = j - length
        /\ more[j].newline = (j = length + size)
  <2> SUFFICES ASSUME NEW j \in length + 1 .. length + size
               PROVE  /\ j - length \in 1 .. size
                      /\ more[j].line = number /\ more[j].part = j - length
                      /\ more[j].newline = (j = length + size)
    OBVIOUS
  <2>1. /\ j - length \in 1 .. size /\ length + (j - length) = j
        /\ (j - length = size) = (j = length + size)
    BY <1>2, <1>4
  <2>2. more[j] = line[j - length]
    BY <1>4, <2>1
  <2>3. QED
    BY <1>2, <2>1, <2>2
<1>6. \A j \in 1 .. length : got[j] \in Pieces /\ got[j].line \in Nat /\ got[j].line < number
  <2>1. \A j \in 1 .. length : got[j] \in Pieces /\ got[j].line < number
    BY <1>4, SMTT(60)
  <2>2. QED
    BY <2>1 DEF Pieces
<1>7. length # 0 => got[length].newline
  BY <1>1
<1>8. IsStream(more)
  <2> SUFFICES ASSUME NEW j \in DOMAIN more, NEW k \in DOMAIN more, j < k
               PROVE  IF more[j].line = more[k].line
                      THEN more[k].part = more[j].part + (k - j) /\ ~ more[j].newline
                      ELSE /\ more[j].line < more[k].line
                           /\ \E i \in j .. k - 1 : more[i].newline
    BY DEF IsStream
  <2>1. CASE k \in 1 .. length
    <3>1. j \in 1 .. length /\ \A i \in j .. k - 1 : i \in 1 .. length
      BY <1>4, <2>1
    <3>2. IF got[j].line = got[k].line
          THEN got[k].part = got[j].part + (k - j) /\ ~ got[j].newline
          ELSE got[j].line < got[k].line /\ \E i \in j .. k - 1 : got[i].newline
      BY <1>4, <2>1, <3>1 DEF IsStream
    <3>3. QED
      BY <1>4, <2>1, <3>1, <3>2
  <2>2. CASE j \in 1 .. length /\ k \in length + 1 .. length + size
    <3>1. more[j].line < more[k].line /\ more[j].line \in Nat /\ number \in Nat
      BY <1>4, <1>5, <1>6, <2>2
    <3>2. length \in j .. k - 1 /\ length \in 1 .. length /\ length # 0
      BY <1>2, <1>4, <2>2
    <3>3. more[length].newline
      BY <1>4, <1>7, <3>2
    <3>4. more[j].line # more[k].line
      BY <1>4, <1>5, <1>6, <2>2
    <3>5. QED
      BY <3>1, <3>2, <3>3, <3>4
  <2>3. CASE j \in length + 1 .. length + size /\ k \in length + 1 .. length + size
    <3>1. more[k].part = more[j].part + (k - j) /\ more[j].line = more[k].line
      <4>1. /\ more[j].part = j - length /\ more[k].part = k - length
            /\ more[j].line = more[k].line
        BY <1>5, <2>3
      <4>2. (k - length) = (j - length) + (k - j)
        BY <1>4, <2>3
      <4>3. QED
        BY <4>1, <4>2
    <3>2. j # length + size
      BY <1>2, <1>4, <2>3
    <3>3. QED
      BY <1>5, <2>3, <3>1, <3>2
  <2>4. j \in Nat /\ k \in Nat /\ j \in 1 .. length + size /\ k \in 1 .. length + size
    BY <1>2, <1>4
  <2>5. QED
    BY <1>2, <1>4, <2>1, <2>2, <2>3, <2>4
<1>9. \A j \in DOMAIN more : more[j].line <= number
  <2> SUFFICES ASSUME NEW j \in DOMAIN more PROVE more[j].line <= number
    OBVIOUS
  <2>1. j \in 1 .. length \/ j \in length + 1 .. length + size
    BY <1>2, <1>4
  <2>2. QED
    BY <1>4, <1>5, <1>6, <2>1
<1>10. more[length + size].newline
  <2>1. length + size \in length + 1 .. length + size
    BY <1>2, <1>4
  <2>2. QED
    BY <1>5, <2>1, Zenon
<1>11. 1 \in DOMAIN more /\ more # <<>> /\ more[Len(more)].newline
  <2>1. 1 \in 1 .. length + size
    BY <1>2, <1>4
  <2>2. Len(more) = length + size /\ DOMAIN more = 1 .. length + size
    BY <1>4
  <2>3. QED
    BY <1>10, <2>1, <2>2
<1>12. ASSUME got # <<>> PROVE more[1] = got[1]
  <2>1. 1 \in 1 .. length
    BY <1>1, <1>4, <1>12
  <2>2. QED
    BY <1>4, <2>1
<1>13. ASSUME got = <<>> PROVE more[1].part = 1 /\ \A j \in DOMAIN more : more[j].line = number
  <2>1. length = 0
    BY <1>1, <1>13
  <2>2. length + 1 = 1 /\ 1 - length = 1 /\ 1 \in length + 1 .. length + size
    BY <1>2, <2>1
  <2>3. DOMAIN more = length + 1 .. length + size
    BY <1>4, <2>2
  <2>4. QED
    BY <1>5, <2>2, <2>3
<1>14. IsLonger(got, number, more)
  BY <1>4, <1>8, <1>9, <1>11, <1>12, <1>13 DEF IsLonger
<1>15. QED
  BY <1>1, <1>3, <1>14

\* What a stream begins with, up to a newline at most, is a part of one line.
LEMMA StreamBegins ==
  ASSUME NEW got \in Seq(Pieces), IsStream(got), NEW m \in 1 .. Len(got),
         \A j \in 1 .. m - 1 : ~ got[j].newline
  PROVE  /\ SubSeq(got, 1, m) \in Seq(Pieces) /\ Len(SubSeq(got, 1, m)) = m
         /\ SubSeq(got, 1, m)[1] = got[1] /\ SubSeq(got, 1, m)[m] = got[m]
         /\ IsPart(SubSeq(got, 1, m))
<1>1. PICK out, length : out = SubSeq(got, 1, m) /\ length = Len(got)
  OBVIOUS
<1>2. length \in Nat /\ DOMAIN got = 1 .. length /\ m \in 1 .. length
  BY <1>1
<1>3. /\ out \in Seq(Pieces) /\ Len(out) = m /\ \A j \in 1 .. m : out[j] = got[j]
  BY <1>1, <1>2
<1>4. \A j \in 2 .. m : out[j].line = out[1].line /\ out[j].part = out[j - 1].part + 1
  <2> SUFFICES ASSUME NEW j \in 2 .. m
               PROVE  out[j].line = out[1].line /\ out[j].part = out[j - 1].part + 1
    OBVIOUS
  <2>1. /\ j \in 1 .. length /\ j - 1 \in 1 .. length /\ 1 \in 1 .. length
        /\ j - 1 < j /\ 1 < j /\ j - (j - 1) = 1
        /\ \A i \in 1 .. j - 1 : i \in 1 .. m - 1
        /\ \A i \in j - 1 .. j - 1 : i \in 1 .. m - 1
    BY <1>2
  <2>2. got[j].line = got[1].line
    BY <1>2, <2>1, SMTT(60) DEF IsStream
  <2>3. got[j].part = got[j - 1].part + 1
    BY <1>2, <2>1, SMTT(60) DEF IsStream
  <2>4. out[j] = got[j] /\ out[j - 1] = got[j - 1] /\ out[1] = got[1]
    BY <1>2, <1>3
  <2>5. QED
    BY <2>2, <2>3, <2>4
<1>5. out # <<>>
  BY <1>2, <1>3
<1>6. QED
  BY <1>1, <1>2, <1>3, <1>4, <1>5 DEF IsPart

\* The parts of a line that follow one another are one.
LEMMA PartsJoin ==
  ASSUME NEW s \in Seq(Pieces), NEW t \in Seq(Pieces), IsPart(s), IsPart(t),
         t[1].line = s[Len(s)].line, t[1].part = s[Len(s)].part + 1
  PROVE  /\ s \o t \in Seq(Pieces) /\ IsPart(s \o t)
         /\ (s \o t)[1] = s[1] /\ (s \o t)[Len(s \o t)] = t[Len(t)]
<1>1. PICK m, n : m = Len(s) /\ n = Len(t)
  OBVIOUS
<1>2. m \in Nat \ {0} /\ n \in Nat \ {0} /\ DOMAIN s = 1 .. m /\ DOMAIN t = 1 .. n
  BY <1>1 DEF IsPart
<1>3. PICK r : r = s \o t
  OBVIOUS
<1>4. /\ r \in Seq(Pieces) /\ Len(r) = m + n
      /\ \A j \in 1 .. m : r[j] = s[j]
      /\ \A j \in 1 .. n : r[m + j] = t[j]
  BY <1>1, <1>2, <1>3
<1>5. \A j \in 1 .. m : s[j].line = s[1].line
  BY <1>1, <1>2 DEF IsPart
<1>6. \A j \in 1 .. n : t[j].line = t[1].line
  BY <1>1, <1>2 DEF IsPart
<1>7. s[m].line = s[1].line /\ t[1].line = s[m].line /\ t[1].part = s[m].part + 1
  BY <1>1, <1>2, <1>5
<1>8. r[1] = s[1] /\ r[m] = s[m] /\ r[m + 1] = t[1] /\ r[m + n] = t[n]
  BY <1>2, <1>4
<1>9. \A j \in 2 .. m + n : r[j].line = r[1].line /\ r[j].part = r[j - 1].part + 1
  <2> SUFFICES ASSUME NEW j \in 2 .. m + n
               PROVE  r[j].line = r[1].line /\ r[j].part = r[j - 1].part + 1
    OBVIOUS
  <2>1. CASE j \in 2 .. m
    <3>1. j \in 1 .. m /\ j - 1 \in 1 .. m
      BY <1>2, <2>1
    <3>2. s[j].line = s[1].line /\ s[j].part = s[j - 1].part + 1
      BY <1>1, <2>1 DEF IsPart
    <3>3. QED
      BY <1>4, <1>8, <3>1, <3>2
  <2>2. CASE j = m + 1
    <3>1. j - 1 = m
      BY <1>2, <2>2
    <3>2. QED
      BY <1>7, <1>8, <2>2, <3>1
  <2>3. CASE j \in m + 2 .. m + n
    <3>1. PICK i \in 2 .. n : j = m + i
      <4>1. j - m \in 2 .. n /\ j = m + (j - m)
        BY <1>2, <2>3
      <4>2. QED
        BY <4>1
    <3>2. i \in 1 .. n /\ i - 1 \in 1 .. n /\ j - 1 = m + (i - 1)
      BY <1>2, <3>1
    <3>3. t[i].line = t[1].line /\ t[i].part = t[i - 1].part + 1
      BY <1>1, <3>1 DEF IsPart
    <3>4. r[j] = t[i] /\ r[j - 1] = t[i - 1]
      BY <1>4, <3>1, <3>2
    <3>5. QED
      BY <1>7, <1>8, <3>3, <3>4
  <2>4. QED
    BY <1>2, <2>1, <2>2, <2>3
<1>10. r # <<>>
  BY <1>2, <1>4
<1>11. QED
  BY <1>1, <1>3, <1>4, <1>8, <1>9, <1>10 DEF IsPart

\* What is kept of an end of a connection.
LEMMA EndTypes ==
  ASSUME TypeOK, NEW c \in DOMAIN conns, NEW e \in Ends
  PROVE  /\ conns[c] \in Connections
         /\ conns[c].got[e] \in Seq(Pieces) /\ conns[c].heard[e] \in Seq(Seq(Pieces))
         /\ conns[c].sent[e] \in Nat /\ conns[c].sent[Other(e)] \in Nat
         /\ conns[c].open \subseteq Ends
<1>1. conns[c] \in Connections
  BY DEF TypeOK
<1>2. QED
  BY <1>1, TwoEnds DEF Connections

\* What is said of an end stays when the step only shuts it, or its peer, or tells of
\* a reset, and does not disturb a recv that has more to take.
LEMMA SameEnd ==
  ASSUME NEW c \in DOMAIN conns, NEW e \in Ends, EndInv(c, e),
         conns'[c].open \subseteq conns[c].open,
         \/ conns'[c].got[e] = conns[c].got[e] /\ (e \in conns[c].open => e \in conns'[c].open)
         \/ conns'[c].got[e] = <<>> /\ e \notin conns'[c].open,
         e \in conns'[c].reset => e \in conns[c].reset \/ Other(e) \notin conns'[c].open,
         conns'[c].heard[e] = conns[c].heard[e],
         conns'[c].sent[Other(e)] = conns[c].sent[Other(e)],
         e \in conns[c].crowded => e \in conns'[c].crowded,
         NEW p \in Programs, p = Owner(c, e), p = Owner(c, e)',
         Uses(p, c, e) /\ at[p] = "recv" /\ conns[c].got[e] # <<>> =>
           Uses(p, c, e)' /\ at'[p] = "recv" /\ firstPass'[p] = firstPass[p]
  PROVE  EndInv(c, e)'
<1>1. Cut(c, e)' = Cut(c, e) /\ Stopped(c, e)' = Stopped(c, e)
  BY DEF Cut, Stopped, Printing
<1>2. \/ conns'[c].got[e] = conns[c].got[e] /\ (e \in conns[c].open => e \in conns'[c].open)
      \/ conns'[c].got[e] = <<>> /\ e \notin conns'[c].open
  OBVIOUS
<1>3. Told(c, e)'
  BY <1>2 DEF EndInv, Told
<1>4. Ordered(c, e)'
  <2>1. CASE conns'[c].got[e] = conns[c].got[e]
    BY <2>1 DEF EndInv, Ordered
  <2>2. CASE conns'[c].got[e] = <<>>
    BY <2>2 DEF Ordered, IsStream
  <2>3. QED
    BY <1>2, <2>1, <2>2
<1>5. GoesOn(c, e)'
  <2>1. CASE conns'[c].got[e] = conns[c].got[e] /\ conns[c].got[e] # <<>>
    <3>1. ASSUME Cut(c, e)
          PROVE  /\ conns'[c].got[e][1].line = Stopped(c, e)'.line
                 /\ conns'[c].got[e][1].part = Stopped(c, e)'.part + 1
                 /\ (Uses(p, c, e) /\ at[p] = "recv" /\ ~ firstPass[p])'
      <4>1. /\ conns[c].got[e][1].line = Stopped(c, e).line
            /\ conns[c].got[e][1].part = Stopped(c, e).part + 1
            /\ Uses(p, c, e) /\ at[p] = "recv" /\ ~ firstPass[p]
        BY <2>1, <3>1 DEF EndInv, GoesOn, Uses
      <4>2. QED
        BY <1>1, <2>1, <4>1
    <3>2. ASSUME ~ Cut(c, e), conns[c].heard[e] # <<>>
          PROVE  Stopped(c, e)'.line < conns'[c].got[e][1].line
      <4>1. Stopped(c, e).line < conns[c].got[e][1].line
        BY <2>1, <3>2 DEF EndInv, GoesOn
      <4>2. QED
        BY <1>1, <2>1, <4>1
    <3>3. QED
      BY <1>1, <2>1, <3>1, <3>2 DEF GoesOn, Uses
  <2>2. CASE conns'[c].got[e] = conns[c].got[e] /\ conns[c].got[e] = <<>>
    BY <1>1, <2>2 DEF EndInv, GoesOn
  <2>3. CASE conns'[c].got[e] = <<>> /\ e \notin conns'[c].open
    BY <2>3 DEF GoesOn
  <2>4. QED
    BY <1>2, <2>1, <2>2, <2>3
<1>6. Calm(c, e)'
  <2>1. CASE conns'[c].got[e] = conns[c].got[e]
    BY <1>1, <2>1 DEF EndInv, Calm
  <2>2. CASE conns'[c].got[e] = <<>> /\ e \notin conns'[c].open
    BY <2>2 DEF Calm
  <2>3. QED
    BY <1>2, <2>1, <2>2
<1>7. Kept(c, e)'
  BY DEF EndInv, Kept
<1>8. QED
  BY <1>3, <1>4, <1>5, <1>6, <1>7 DEF EndInv

\* Of a program that is in a recv: it uses one end, which is its own.
LEMMA UsesOne ==
  ASSUME TypeOK, SessionInv, NEW p \in Programs, connected[p]
  PROVE  /\ global_sock[p].conn \in DOMAIN conns /\ global_sock[p].end \in Ends
         /\ global_sock[p].end \in conns[global_sock[p].conn].open
         /\ Owner(global_sock[p].conn, global_sock[p].end) = p
         /\ \A c, e : Uses(p, c, e) => c = global_sock[p].conn /\ e = global_sock[p].end
<1>1. global_sock[p].end \in Ends
  BY DEF TypeOK, Sockets
<1>2. QED
  BY <1>1 DEF SessionInv, SocketsInv, Uses

\* A step that sends and takes nothing keeps what is said of the streams: ends are
\* shut, or are new, and who is in a recv and has more to take stays there.
LEMMA SameStreams ==
  ASSUME TypeOK, SessionInv, StreamsInv,
         NEW E \in [DOMAIN conns -> SUBSET Ends], ShutsEach(E),
         DOMAIN conns \subseteq DOMAIN conns',
         \A c \in DOMAIN conns' \ DOMAIN conns :
           \E p, q \in Programs : conns'[c] = NewConnection(p, q),
         \A p \in Programs : at[p] = "recv"
             /\ conns[global_sock[p].conn].got[global_sock[p].end] # <<>> =>
           /\ at'[p] = "recv" /\ connected'[p] = connected[p]
           /\ global_sock'[p] = global_sock[p] /\ firstPass'[p] = firstPass[p],
         \A p \in Programs : at'[p] = "recv" /\ ~ firstPass'[p] =>
           at[p] = "recv" /\ ~ firstPass[p] /\ global_sock'[p] = global_sock[p]
  PROVE  StreamsInv'
<1>1. ASSUME NEW c \in DOMAIN conns, NEW e \in Ends
      PROVE  EndInv(c, e)'
  <2>1. EndInv(c, e) /\ Other(e) \in Ends
    BY TwoEnds DEF StreamsInv
  <2>2. /\ conns'[c].open = conns[c].open \ E[c]
        /\ conns'[c].sent = conns[c].sent /\ conns'[c].heard = conns[c].heard
        /\ conns'[c].crowded = conns[c].crowded
        /\ e \in conns'[c].reset => e \in conns[c].reset \/ Other(e) \in E[c]
        /\ conns'[c].got[e] = IF e \in E[c] THEN <<>> ELSE conns[c].got[e]
        /\ Owner(c, e)' = Owner(c, e)
    BY DEF ShutsEach, Owner
  <2>3. PICK p \in Programs : p = Owner(c, e) /\ p = Owner(c, e)'
    BY <2>2, SessionTypes
  <2>4. ASSUME Uses(p, c, e), at[p] = "recv", conns[c].got[e] # <<>>
        PROVE  Uses(p, c, e)' /\ at'[p] = "recv" /\ firstPass'[p] = firstPass[p]
    <3>1. c = global_sock[p].conn /\ e = global_sock[p].end
      BY <2>4 DEF Uses
    <3>2. /\ at'[p] = "recv" /\ connected'[p] = connected[p]
          /\ global_sock'[p] = global_sock[p] /\ firstPass'[p] = firstPass[p]
      BY <2>4, <3>1
    <3>3. QED
      BY <2>4, <3>2 DEF Uses
  <2>5. conns'[c].open \subseteq conns[c].open
    BY <2>2
  <2>6. \/ conns'[c].got[e] = conns[c].got[e] /\ (e \in conns[c].open => e \in conns'[c].open)
        \/ conns'[c].got[e] = <<>> /\ e \notin conns'[c].open
    BY <2>2
  <2>7. e \in conns'[c].reset => e \in conns[c].reset \/ Other(e) \notin conns'[c].open
    BY <2>2
  <2>8. QED
    BY <2>1, <2>2, <2>3, <2>4, <2>5, <2>6, <2>7, SameEnd
<1>2. ASSUME NEW c \in DOMAIN conns' \ DOMAIN conns, NEW e \in Ends
      PROVE  EndInv(c, e)'
  <2>1. PICK p, q \in Programs : conns'[c] = NewConnection(p, q)
    OBVIOUS
  <2>2. /\ conns'[c].open = Ends /\ conns'[c].reset = {} /\ conns'[c].got[e] = <<>>
        /\ conns'[c].sent[Other(e)] = 0 /\ conns'[c].heard[e] = <<>>
    BY <2>1, TwoEnds DEF NewConnection
  <2>3. Told(c, e)' /\ Ordered(c, e)'
    BY <2>2 DEF Told, Ordered, IsStream
  <2>4. GoesOn(c, e)' /\ Calm(c, e)' /\ Kept(c, e)'
    BY <2>2 DEF GoesOn, Calm, Kept, Cut
  <2>5. QED
    BY <2>3, <2>4 DEF EndInv
<1>3. RecvInv'
  <2> SUFFICES ASSUME NEW p \in Programs, at'[p] = "recv", ~ firstPass'[p]
               PROVE  Cut(global_sock[p].conn, global_sock[p].end)'
    BY DEF RecvInv
  <2>1. PICK c, e : c = global_sock[p].conn /\ e = global_sock[p].end
    OBVIOUS
  <2>2. at[p] = "recv" /\ ~ firstPass[p] /\ global_sock'[p] = global_sock[p] /\ connected[p]
    BY DEF SessionInv, PlacesInv
  <2>3. c \in DOMAIN conns /\ conns'[c].heard = conns[c].heard
    BY <2>1, <2>2, UsesOne DEF ShutsEach
  <2>4. Cut(global_sock[p].conn, global_sock[p].end)
    BY <2>2 DEF StreamsInv, RecvInv
  <2>5. QED
    BY <2>1, <2>2, <2>3, <2>4, Zenon DEF Cut, Stopped, Printing
<1>4. QED
  BY <1>1, <1>2, <1>3 DEF StreamsInv

-----------------------------------------------------------------------------
(***************************************************************************)
(* The steps.                                                              *)
(***************************************************************************)

\* Of a connection that is changed.
LEMMA ChangedConnection ==
  ASSUME TypeOK, NEW c \in DOMAIN conns, NEW y \in Connections, conns' = [conns EXCEPT ![c] = y]
  PROVE  /\ conns' \in Seq(Connections) /\ DOMAIN conns' = DOMAIN conns
         /\ conns'[c] = y /\ \A d \in DOMAIN conns \ {c} : conns'[d] = conns[d]
<1>1. conns \in Seq(Connections)
  BY DEF TypeOK
<1>2. conns' \in [DOMAIN conns -> Connections]
  BY <1>1
<1>3. QED
  BY <1>1, <1>2, ChangedSeq

\* A step that changes one connection, and opens and closes no end of it, keeps what
\* is said of the sessions, and of the ends of the others.
LEMMA OtherConnections ==
  ASSUME IndInv, NEW c \in DOMAIN conns, NEW y \in Connections,
         conns' = [conns EXCEPT ![c] = y],
         y.by = conns[c].by, y.to = conns[c].to, y.open = conns[c].open,
         UNCHANGED <<connected, global_sock, queues>>,
         \A p \in Programs : at[p] = "recv" /\ global_sock[p].conn # c =>
           at'[p] = "recv" /\ firstPass'[p] = firstPass[p]
  PROVE  /\ SocketsInv' /\ QueuesInv' /\ HeldInv'
         /\ \A d \in DOMAIN conns \ {c} : \A e \in Ends : EndInv(d, e)'
<1>1. /\ conns' \in Seq(Connections) /\ DOMAIN conns' = DOMAIN conns
      /\ conns'[c] = y /\ \A d \in DOMAIN conns \ {c} : conns'[d] = conns[d]
  BY ChangedConnection DEF IndInv
<1>2. SocketsInv' /\ QueuesInv' /\ HeldInv'
  <2>1. \A d \in DOMAIN conns : /\ conns'[d].by = conns[d].by /\ conns'[d].to = conns[d].to
                                /\ conns'[d].open = conns[d].open
    BY <1>1
  <2>2. QED
    BY <1>1, <2>1, SameSessions DEF IndInv
<1>3. ASSUME NEW d \in DOMAIN conns \ {c}, NEW e \in Ends
      PROVE  EndInv(d, e)'
  <2>1. EndInv(d, e) /\ conns'[d] = conns[d] /\ Owner(d, e)' = Owner(d, e)
    BY <1>1 DEF IndInv, StreamsInv, Owner
  <2>2. PICK p \in Programs : p = Owner(d, e) /\ p = Owner(d, e)'
    BY <2>1, SessionTypes DEF IndInv
  <2>3. ASSUME Uses(p, d, e), at[p] = "recv"
        PROVE  Uses(p, d, e)' /\ at'[p] = "recv" /\ firstPass'[p] = firstPass[p]
    BY <2>3 DEF Uses
  <2>4. QED
    BY <2>1, <2>2, <2>3, SameEnd
<1>4. QED
  BY <1>2, <1>3

\* A recv that is under way goes on after a step that prints nothing.
LEMMA SameRecv ==
  ASSUME IndInv, UNCHANGED program, \A d \in DOMAIN conns : conns'[d].heard = conns[d].heard
  PROVE  RecvInv'
<1> SUFFICES ASSUME NEW p \in Programs, at'[p] = "recv", ~ firstPass'[p]
             PROVE  Cut(global_sock[p].conn, global_sock[p].end)'
  BY DEF RecvInv
<1>1. PICK c, e : c = global_sock[p].conn /\ e = global_sock[p].end
  OBVIOUS
<1>2. at[p] = "recv" /\ ~ firstPass[p] /\ global_sock'[p] = global_sock[p] /\ connected[p]
  BY DEF IndInv, SessionInv, PlacesInv, program
<1>3. conns'[c].heard = conns[c].heard
  BY <1>1, <1>2, UsesOne DEF IndInv
<1>4. Cut(global_sock[p].conn, global_sock[p].end)
  BY <1>2 DEF IndInv, StreamsInv, RecvInv
<1>5. QED
  BY <1>1, <1>2, <1>3, <1>4, Zenon DEF Cut, Stopped, Printing

\* What the end of a stream loses to a reset.
LEMMA LoseStep ==
  ASSUME IndInv, NEW c \in DOMAIN conns, NEW e \in Ends, Lose(c, e)
  PROVE  IndInv'
<1>1. PICK x, got, rest : x = conns[c] /\ got = x.got[e] /\ rest = SubSeq(got, 1, Len(got) - 1)
  OBVIOUS
<1>2. /\ x \in Connections /\ got \in Seq(Pieces) /\ got # <<>> /\ e \in x.reset
      /\ x.got \in [Ends -> Seq(Pieces)]
  BY <1>1, EndTypes DEF IndInv, Lose, Connections
<1>3. PICK length : length = Len(got)
  OBVIOUS
<1>4. length \in Nat \ {0} /\ length - 1 \in 0 .. length /\ 0 \in 0 .. length
      /\ length - 1 \in 0 .. length /\ DOMAIN got = 1 .. length
      /\ \A j \in 1 .. length - 1 : j \in 1 .. length
  BY <1>2, <1>3
<1>5. EndInv(c, e) /\ EndInv(c, Other(e))
  BY TwoEnds DEF IndInv, StreamsInv
<1>6. /\ rest \in Seq(Pieces) /\ Len(rest) = length - 1 /\ IsStream(rest)
      /\ \A j \in 1 .. length - 1 : rest[j] = got[j]
  <2>1. IsStream(got)
    BY <1>1, <1>5 DEF EndInv, Ordered
  <2>2. /\ SubSeq(got, 0 + 1, length - 1) \in Seq(Pieces)
        /\ Len(SubSeq(got, 0 + 1, length - 1)) = (length - 1) - 0
        /\ \A j \in 1 .. (length - 1) - 0 : SubSeq(got, 0 + 1, length - 1)[j] = got[j + 0]
        /\ IsStream(SubSeq(got, 0 + 1, length - 1))
    BY <1>2, <1>3, <1>4, <2>1, StreamPart
  <2>3. rest = SubSeq(got, 0 + 1, length - 1) /\ (length - 1) - 0 = length - 1
        /\ \A j \in 1 .. length - 1 : j + 0 = j
    BY <1>1, <1>3, <1>4
  <2>4. QED
    BY <2>2, <2>3
<1>7. PICK y : y = [x EXCEPT !.got = [@ EXCEPT ![e] = rest]]
  OBVIOUS
<1>8. /\ y \in Connections /\ y.by = x.by /\ y.to = x.to /\ y.open = x.open /\ y.reset = x.reset
      /\ y.sent = x.sent /\ y.heard = x.heard /\ y.crowded = x.crowded
      /\ y.got[e] = rest /\ \A f \in Ends \ {e} : y.got[f] = x.got[f]
  <2>1. [x.got EXCEPT ![e] = rest] \in [Ends -> Seq(Pieces)]
    BY <1>2, <1>6
  <2>2. QED
    BY <1>2, <1>7, <2>1 DEF Connections
<1>9. conns' = [conns EXCEPT ![c] = y]
  BY <1>1, <1>7 DEF Lose, Front
<1>10. UNCHANGED <<at, connected, global_sock, firstPass, queues, descriptors, typed>>
  BY DEF Lose, program
<1>11. /\ conns' \in Seq(Connections) /\ DOMAIN conns' = DOMAIN conns
       /\ conns'[c] = y /\ \A d \in DOMAIN conns \ {c} : conns'[d] = conns[d]
  BY <1>8, <1>9, ChangedConnection DEF IndInv
<1>12. TypeOK'
  BY <1>10, <1>11 DEF IndInv, TypeOK
<1>13. /\ SocketsInv' /\ QueuesInv' /\ HeldInv'
       /\ \A d \in DOMAIN conns \ {c} : \A f \in Ends : EndInv(d, f)'
  BY <1>1, <1>8, <1>9, <1>10, OtherConnections
<1>14. PlacesInv'
  BY <1>10 DEF IndInv, SessionInv, PlacesInv
<1>15. EndInv(c, Other(e))'
  <2>1. Other(e) \in Ends \ {e}
    BY TwoEnds
  <2>2. PICK p \in Programs : p = Owner(c, Other(e)) /\ p = Owner(c, Other(e))'
    BY <1>1, <1>8, <1>11, <2>1, SessionTypes DEF Owner, IndInv
  <2>3. QED
    BY <1>1, <1>5, <1>8, <1>10, <1>11, <2>1, <2>2, SameEnd DEF Uses
<1>16. EndInv(c, e)'
  <2>1. Other(e) \notin x.open
    BY <1>1, <1>2, <1>5 DEF EndInv, Told
  <2>2. Cut(c, e)' = Cut(c, e) /\ Stopped(c, e)' = Stopped(c, e) /\ Owner(c, e)' = Owner(c, e)
    BY <1>1, <1>8, <1>11 DEF Cut, Stopped, Printing, Owner
  <2>3. rest # <<>> => length - 1 # 0 /\ 1 \in 1 .. length - 1 /\ rest[1] = got[1]
    BY <1>4, <1>6
  <2>4. DOMAIN rest = 1 .. length - 1
    BY <1>6
  <2>5. Told(c, e)'
    BY <1>1, <1>2, <1>5, <1>8, <1>11, <2>1 DEF EndInv, Told
  <2>6. Ordered(c, e)'
    <3>1. \A j \in DOMAIN rest : rest[j].line <= x.sent[Other(e)]
      BY <1>1, <1>4, <1>5, <1>6, <2>4 DEF EndInv, Ordered
    <3>2. QED
      BY <1>6, <1>8, <1>11, <2>1, <3>1 DEF Ordered
  <2>7. GoesOn(c, e)'
    <3>1. CASE rest = <<>>
      BY <1>8, <1>11, <2>1, <3>1 DEF GoesOn
    <3>2. CASE rest # <<>>
      <4>1. rest[1] = got[1]
        BY <2>3, <3>2
      <4>2. /\ Cut(c, e) => /\ got[1].line = Stopped(c, e).line
                            /\ got[1].part = Stopped(c, e).part + 1
                            /\ Uses(Owner(c, e), c, e) /\ at[Owner(c, e)] = "recv"
                            /\ ~ firstPass[Owner(c, e)]
            /\ x.heard[e] # <<>> /\ ~ Cut(c, e) => Stopped(c, e).line < got[1].line
        BY <1>1, <1>2, <1>5 DEF EndInv, GoesOn
      <4>3. Uses(Owner(c, e), c, e)' = Uses(Owner(c, e), c, e)
        BY <1>10, <2>2 DEF Uses
      <4>4. QED
        BY <1>8, <1>10, <1>11, <2>2, <3>2, <4>1, <4>2, <4>3 DEF GoesOn, Uses
    <3>3. QED
      BY <3>1, <3>2
  <2>8. Calm(c, e)'
    <3>1. CASE rest = <<>>
      BY <1>8, <1>11, <2>1, <3>1 DEF Calm
    <3>2. CASE rest # <<>>
      <4>1. rest[1] = got[1] /\ \A j \in DOMAIN rest : j \in DOMAIN got /\ rest[j] = got[j]
        BY <1>4, <1>6, <2>3, <2>4, <3>2
      <4>2. e \notin x.crowded =>
              /\ \A j \in DOMAIN got : got[j].line = x.sent[Other(e)]
              /\ IF Cut(c, e) THEN Len(x.heard[e]) = x.sent[Other(e)]
                 ELSE Len(x.heard[e]) + 1 = x.sent[Other(e)] /\ got[1].part = 1
        BY <1>1, <1>2, <1>5 DEF EndInv, Calm
      <4>3. e \notin x.crowded =>
              /\ \A j \in DOMAIN rest : rest[j].line = x.sent[Other(e)]
              /\ IF Cut(c, e)' THEN Len(x.heard[e]) = x.sent[Other(e)]
                 ELSE Len(x.heard[e]) + 1 = x.sent[Other(e)] /\ rest[1].part = 1
        BY <2>2, <4>1, <4>2
      <4>4. QED
        BY <1>8, <1>11, <3>2, <4>3 DEF Calm
    <3>3. QED
      BY <3>1, <3>2
  <2>9. Kept(c, e)'
    BY <1>1, <1>5, <1>8, <1>11, SMTT(60) DEF EndInv, Kept
  <2>10. QED
    BY <2>5, <2>6, <2>7, <2>8, <2>9 DEF EndInv
<1>17. RecvInv'
  <2>1. \A d \in DOMAIN conns : conns'[d].heard = conns[d].heard
    BY <1>1, <1>8, <1>11
  <2>2. QED
    BY <1>10, <2>1, SameRecv DEF program
<1>18. StreamsInv'
  BY <1>11, <1>13, <1>15, <1>16, <1>17, TwoEnds DEF StreamsInv
<1>19. QED
  BY <1>12, <1>13, <1>14, <1>18 DEF IndInv, SessionInv

\* What has been heard stays as it is when one more line is sent.
LEMMA KeptLonger ==
  ASSUME TypeOK, NEW c \in DOMAIN conns, NEW e \in Ends, Kept(c, e),
         conns'[c].heard[e] = conns[c].heard[e],
         conns'[c].sent[Other(e)] = conns[c].sent[Other(e)] + 1,
         e \in conns[c].crowded => e \in conns'[c].crowded
  PROVE  Kept(c, e)'
<1>1. PICK heard, number : heard = conns[c].heard[e] /\ number = conns[c].sent[Other(e)]
  OBVIOUS
<1>2. heard \in Seq(Seq(Pieces)) /\ number \in Nat
  BY <1>1, EndTypes
<1>3. \A i \in DOMAIN heard :
        /\ IsPart(heard[i]) /\ heard[i][1].line <= number
        /\ i < Len(heard) => /\ heard[i][Len(heard[i])].newline
                             /\ heard[i][1].line < heard[i + 1][1].line
        /\ e \notin conns[c].crowded => heard[i][1].part = 1 /\ heard[i][1].line = i
  BY <1>1 DEF Kept
<1>4. \A i \in DOMAIN heard : heard[i][1].line <= number + 1
  <2> SUFFICES ASSUME NEW i \in DOMAIN heard PROVE heard[i][1].line <= number + 1
    OBVIOUS
  <2>1. PICK out : out = heard[i]
    OBVIOUS
  <2>2. out # <<>> /\ out[1].line <= number
    BY <1>3, <2>1 DEF IsPart
  <2>3. out \in Seq(Pieces)
    BY <1>2, <2>1
  <2>4. out[1] \in Pieces
    BY <2>2, <2>3
  <2>5. out[1].line \in Nat
    BY <2>4 DEF Pieces
  <2>6. out[1].line <= number + 1
    BY <1>2, <2>2, <2>5
  <2>7. QED
    BY <2>1, <2>6
<1>5. conns'[c].heard[e] = heard /\ conns'[c].sent[Other(e)] = number + 1
  BY <1>1
<1>6. QED
  BY <1>3, <1>4, <1>5 DEF Kept

\* What becomes of the connections when a line is sent to a peer that is there.
Arrives(c, e, o, size) ==
  conns' = [conns EXCEPT
    ![c].sent[e] = @ + 1,
    ![c].crowded = IF conns[c].got[o] # <<>> THEN @ \cup {o} ELSE @,
    ![c].got[o] = @ \o Line(conns[c].sent[e] + 1, size)]

\* The same, of the connection as a whole.
After(x, e, o, size) ==
  [x EXCEPT !.sent = [x.sent EXCEPT ![e] = x.sent[e] + 1],
            !.crowded = IF x.got[o] # <<>> THEN x.crowded \cup {o} ELSE x.crowded,
            !.got = [x.got EXCEPT ![o] = x.got[o] \o Line(x.sent[e] + 1, size)]]

\* It is the same.
LEMMA ArrivesIs ==
  ASSUME NEW c, NEW e, NEW o, NEW size, Arrives(c, e, o, size)
  PROVE  conns' = [conns EXCEPT ![c] = After(conns[c], e, o, size)]
BY ZenonT(60) DEF Arrives, After

\* A line goes to a peer that is there.
LEMMA SendOpenStep ==
  ASSUME IndInv, NEW p \in Programs, NEW size \in 1 .. LineSize, NEW c, NEW e, NEW o,
         c = global_sock[p].conn, e = global_sock[p].end, o = Other(e),
         connected[p], o \in conns[c].open,
         UNCHANGED <<program, queues, descriptors>>,
         typed' \in [Programs -> [Commands -> Nat]],
         Arrives(c, e, o, size)
  PROVE  IndInv'
<1>1. /\ c \in DOMAIN conns /\ e \in Ends /\ o \in Ends \ {e} /\ Ends = {e, o}
      /\ e \in conns[c].open /\ Other(o) = e
  BY UsesOne, TwoEnds DEF IndInv
<1>2. PICK x, got : x = conns[c] /\ got = x.got[o]
  OBVIOUS
<1>3. PICK number : number = x.sent[e] + 1
  OBVIOUS
<1>4. PICK line : line = Line(number, size)
  OBVIOUS
<1>5. PICK more : more = got \o line
  OBVIOUS
<1>6. /\ x \in Connections /\ got \in Seq(Pieces) /\ number \in Nat /\ x.sent[e] \in Nat
      /\ x.heard[o] \in Seq(Seq(Pieces))
      /\ x.got \in [Ends -> Seq(Pieces)] /\ x.sent \in [Ends -> Nat] /\ x.crowded \in SUBSET Ends
  <2>1. x \in Connections /\ got \in Seq(Pieces) /\ x.sent[e] \in Nat
    BY <1>1, <1>2, EndTypes DEF IndInv
  <2>2. number \in Nat
    BY <1>3, <2>1
  <2>3. x.heard[o] \in Seq(Seq(Pieces))
    BY <1>1, <1>2, EndTypes DEF IndInv
  <2>4. /\ x.got \in [Ends -> Seq(Pieces)] /\ x.sent \in [Ends -> Nat]
        /\ x.crowded \in SUBSET Ends
    BY <2>1 DEF Connections
  <2>5. QED
    BY <2>1, <2>2, <2>3, <2>4
<1>7. EndInv(c, e) /\ EndInv(c, o)
  BY <1>1 DEF IndInv, StreamsInv
<1>8. IsStream(got) /\ (\A j \in DOMAIN got : got[j].line <= x.sent[e])
      /\ (got # <<>> => got[Len(got)].newline)
  BY <1>1, <1>2, <1>7, Zenon DEF EndInv, Ordered
<1>9. \A j \in DOMAIN got : got[j].line < number
  <2>1. \A j \in DOMAIN got : got[j] \in Pieces
    BY <1>6
  <2>2. \A j \in DOMAIN got : got[j].line \in Nat
    BY <2>1 DEF Pieces
  <2>3. QED
    BY <1>6, <1>8, <1>3, <2>2, SMTT(60)
<1>10. IsLonger(got, number, more)
  <2>1. IsLonger(got, number, got \o Line(number, size))
    BY <1>6, <1>8, <1>9, StreamLonger
  <2>2. QED
    BY <1>4, <1>5, <2>1
<1>11. more \in Seq(Pieces) /\ more # <<>> /\ (got # <<>> => more[1] = got[1])
  BY <1>10 DEF IsLonger
<1>12. got = <<>> => more[1].part = 1 /\ \A j \in DOMAIN more : more[j].line = number
  BY <1>10 DEF IsLonger
<1>13. PICK crowded, sent : /\ crowded = IF got # <<>> THEN x.crowded \cup {o} ELSE x.crowded
                            /\ sent = [x.sent EXCEPT ![e] = number]
  OBVIOUS
<1>14. PICK y : y = [x EXCEPT !.sent = sent, !.crowded = crowded,
                              !.got = [x.got EXCEPT ![o] = more]]
  OBVIOUS
<1>15. /\ sent \in [Ends -> Nat] /\ sent[e] = number /\ sent[o] = x.sent[o]
       /\ crowded \in SUBSET Ends /\ x.crowded \subseteq crowded
       /\ o \notin crowded => got = <<>> /\ o \notin x.crowded
  BY <1>1, <1>6, <1>13, Zenon
<1>16. /\ y \in Connections /\ y.by = x.by /\ y.to = x.to /\ y.open = x.open /\ y.reset = x.reset
       /\ y.sent = sent /\ y.heard = x.heard /\ y.crowded = crowded
       /\ y.got[o] = more /\ y.got[e] = x.got[e]
  <2>1. [x.got EXCEPT ![o] = more] \in [Ends -> Seq(Pieces)]
    BY <1>6, <1>11
  <2>2. QED
    BY <1>1, <1>6, <1>14, <1>15, <2>1, ZenonT(60) DEF Connections
<1>17. conns' = [conns EXCEPT ![c] = y]
  <2>1. y = After(x, e, o, size)
    BY <1>2, <1>3, <1>4, <1>5, <1>13, <1>14, Zenon DEF After
  <2>2. conns' = [conns EXCEPT ![c] = After(conns[c], e, o, size)]
    BY ArrivesIs
  <2>3. QED
    BY <1>2, <2>1, <2>2
<1>18. UNCHANGED <<at, connected, global_sock, firstPass>>
  BY DEF program
<1>19. /\ conns' \in Seq(Connections) /\ DOMAIN conns' = DOMAIN conns
       /\ conns'[c] = y /\ \A d \in DOMAIN conns \ {c} : conns'[d] = conns[d]
  BY <1>1, <1>16, <1>17, ChangedConnection DEF IndInv
<1>20. TypeOK'
  BY <1>18, <1>19 DEF IndInv, TypeOK
<1>21. /\ SocketsInv' /\ QueuesInv' /\ HeldInv'
       /\ \A d \in DOMAIN conns \ {c} : \A f \in Ends : EndInv(d, f)'
  BY <1>1, <1>2, <1>16, <1>17, <1>18, OtherConnections
<1>22. PlacesInv'
  BY <1>18 DEF IndInv, SessionInv, PlacesInv
<1>23. Owner(c, e)' = Owner(c, e) /\ Owner(c, o)' = Owner(c, o)
  BY <1>2, <1>16, <1>19 DEF Owner
<1>24. EndInv(c, e)'
  <2>1. PICK q \in Programs : q = Owner(c, e) /\ q = Owner(c, e)'
    BY <1>1, <1>23, SessionTypes DEF IndInv
  <2>2. QED
    BY <1>1, <1>2, <1>7, <1>15, <1>16, <1>18, <1>19, <2>1, SameEnd, ZenonT(60) DEF Uses
<1>25. EndInv(c, o)'
  <2>1. Cut(c, o)' = Cut(c, o) /\ Stopped(c, o)' = Stopped(c, o)
    BY <1>2, <1>16, <1>19, ZenonT(60) DEF Cut, Stopped, Printing
  <2>2. Told(c, o)'
    BY <1>2, <1>7, <1>16, <1>19 DEF EndInv, Told
  <2>3. Ordered(c, o)'
    <3>1. /\ conns'[c].got[o] = more /\ conns'[c].sent[Other(o)] = number
          /\ conns'[c].open = x.open
      BY <1>1, <1>15, <1>16, <1>19
    <3>2. IsStream(more) /\ more[Len(more)].newline /\ \A j \in DOMAIN more : more[j].line <= number
      BY <1>10 DEF IsLonger
    <3>3. QED
      BY <3>1, <3>2 DEF Ordered
  <2>4. ~ (Cut(c, o) /\ got = <<>>)
    BY <1>1, <1>2, <1>7 DEF EndInv, GoesOn
  <2>5. GoesOn(c, o)'
    <3>1. ASSUME Cut(c, o)
          PROVE  /\ more[1].line = Stopped(c, o).line /\ more[1].part = Stopped(c, o).part + 1
                 /\ Uses(Owner(c, o), c, o)' /\ (at[Owner(c, o)] = "recv")'
                 /\ (~ firstPass[Owner(c, o)])'
      <4>1. got # <<>> /\ more[1] = got[1]
        BY <1>11, <2>4, <3>1
      <4>2. /\ got[1].line = Stopped(c, o).line /\ got[1].part = Stopped(c, o).part + 1
            /\ Uses(Owner(c, o), c, o) /\ at[Owner(c, o)] = "recv" /\ ~ firstPass[Owner(c, o)]
        BY <1>2, <1>7, <3>1, <4>1, Zenon DEF EndInv, GoesOn
      <4>3. QED
        BY <1>18, <1>23, <4>1, <4>2 DEF Uses
    <3>2. ASSUME ~ Cut(c, o), x.heard[o] # <<>>
          PROVE  Stopped(c, o).line < more[1].line
      <4>1. CASE got # <<>>
        BY <1>2, <1>7, <1>11, <3>2, <4>1, Zenon DEF EndInv, GoesOn
      <4>2. CASE got = <<>>
        <5>1. PICK out, n : n = Len(x.heard[o]) /\ out = x.heard[o][n]
          OBVIOUS
        <5>2. n \in DOMAIN x.heard[o] /\ out \in Seq(Pieces)
          BY <1>6, <3>2, <5>1
        <5>3. IsPart(out) /\ out[1].line <= x.sent[e]
          BY <1>1, <1>2, <1>7, <5>1, <5>2, ZenonT(60) DEF EndInv, Kept
        <5>4. PICK m : m = Len(out)
          OBVIOUS
        <5>5. m \in Nat \ {0} /\ DOMAIN out = 1 .. m
          BY <5>2, <5>3, <5>4 DEF IsPart
        <5>6. out[m].line = out[1].line
          BY <5>3, <5>4, <5>5 DEF IsPart
        <5>7. Stopped(c, o) = out[m]
          BY <1>2, <5>1, <5>4 DEF Stopped, Printing
        <5>8. out[1].line \in Nat
          <6>1. out[1] \in Pieces
            BY <5>2, <5>5
          <6>2. QED
            BY <6>1 DEF Pieces
        <5>9. out[1].line < number
          BY <1>6, <1>3, <5>3, <5>8, SMTT(60)
        <5>10. more[1].line = number
          <6>1. 1 \in DOMAIN more
            BY <1>11
          <6>2. QED
            BY <1>12, <4>2, <6>1
        <5>11. QED
          BY <5>6, <5>7, <5>9, <5>10
      <4>3. QED
        BY <4>1, <4>2
    <3>3. QED
      BY <1>11, <1>16, <1>19, <2>1, <3>1, <3>2 DEF GoesOn, Uses
  <2>6. Calm(c, o)'
    <3>1. ASSUME o \notin crowded
          PROVE  /\ \A j \in DOMAIN more : more[j].line = sent[e]
                 /\ ~ Cut(c, o)' /\ Len(x.heard[o]) + 1 = sent[e] /\ more[1].part = 1
      <4>1. got = <<>> /\ o \notin x.crowded
        BY <1>15, <3>1
      <4>2. Len(x.heard[o]) = x.sent[e]
        BY <1>1, <1>2, <1>7, <4>1 DEF EndInv, Calm
      <4>3. QED
        BY <1>12, <1>15, <1>3, <2>1, <2>4, <4>1, <4>2
    <3>2. /\ conns'[c].got[o] = more /\ conns'[c].sent[Other(o)] = sent[e]
          /\ conns'[c].heard[o] = x.heard[o] /\ conns'[c].crowded = crowded
      BY <1>1, <1>16, <1>19
    <3>3. QED
      BY <1>11, <3>1, <3>2 DEF Calm
  <2>7. Kept(c, o)'
    <3>1. /\ conns'[c].sent[Other(o)] = conns[c].sent[Other(o)] + 1
          /\ conns'[c].heard[o] = conns[c].heard[o]
          /\ o \in conns[c].crowded => o \in conns'[c].crowded
      BY <1>1, <1>2, <1>3, <1>15, <1>16, <1>19
    <3>2. QED
      BY <1>1, <1>7, <3>1, KeptLonger, Zenon DEF IndInv, EndInv
  <2>8. QED
    BY <2>2, <2>3, <2>5, <2>6, <2>7 DEF EndInv
<1>26. RecvInv'
  <2>1. \A d \in DOMAIN conns : conns'[d].heard = conns[d].heard
    BY <1>2, <1>16, <1>19
  <2>2. QED
    BY <2>1, SameRecv
<1>27. StreamsInv'
  BY <1>1, <1>19, <1>21, <1>24, <1>25, <1>26 DEF StreamsInv
<1>28. QED
  BY <1>20, <1>21, <1>22, <1>27 DEF IndInv, SessionInv

\* What becomes of the connections when a line is sent to nobody.
Bounces(c, e) ==
  conns' = [conns EXCEPT ![c].sent[e] = @ + 1, ![c].reset = @ \cup {e}]

\* A line is lost, because the peer is gone.
LEMMA SendClosedStep ==
  ASSUME IndInv, NEW p \in Programs, NEW c, NEW e, NEW o,
         c = global_sock[p].conn, e = global_sock[p].end, o = Other(e),
         connected[p], o \notin conns[c].open,
         UNCHANGED <<program, queues, descriptors>>,
         typed' \in [Programs -> [Commands -> Nat]],
         Bounces(c, e)
  PROVE  IndInv'
<1>1. /\ c \in DOMAIN conns /\ e \in Ends /\ o \in Ends \ {e} /\ Ends = {e, o}
      /\ e \in conns[c].open /\ Other(o) = e
  BY UsesOne, TwoEnds DEF IndInv
<1>2. PICK x : x = conns[c]
  OBVIOUS
<1>3. PICK y : y = [x EXCEPT !.sent = [x.sent EXCEPT ![e] = x.sent[e] + 1],
                             !.reset = x.reset \cup {e}]
  OBVIOUS
<1>4. x \in Connections
  BY <1>1, <1>2, EndTypes DEF IndInv
<1>5. /\ y \in Connections /\ y.by = x.by /\ y.to = x.to /\ y.open = x.open
      /\ y.reset = x.reset \cup {e} /\ y.heard = x.heard /\ y.crowded = x.crowded
      /\ y.got = x.got /\ y.sent[e] = x.sent[e] + 1 /\ y.sent[o] = x.sent[o]
  <2>1. x.sent \in [Ends -> Nat] /\ x.reset \in SUBSET Ends
    BY <1>4 DEF Connections
  <2>2. [x.sent EXCEPT ![e] = x.sent[e] + 1] \in [Ends -> Nat]
    BY <1>1, <2>1
  <2>3. QED
    BY <1>1, <1>3, <1>4, <2>1, <2>2, ZenonT(60) DEF Connections
<1>6. conns' = [conns EXCEPT ![c] = y]
  BY <1>2, <1>3, Zenon DEF Bounces
<1>7. UNCHANGED <<at, connected, global_sock, firstPass>>
  BY DEF program
<1>8. /\ conns' \in Seq(Connections) /\ DOMAIN conns' = DOMAIN conns
      /\ conns'[c] = y /\ \A d \in DOMAIN conns \ {c} : conns'[d] = conns[d]
  BY <1>1, <1>5, <1>6, ChangedConnection DEF IndInv
<1>9. TypeOK'
  BY <1>7, <1>8 DEF IndInv, TypeOK
<1>10. /\ SocketsInv' /\ QueuesInv' /\ HeldInv'
       /\ \A d \in DOMAIN conns \ {c} : \A f \in Ends : EndInv(d, f)'
  BY <1>1, <1>2, <1>5, <1>6, <1>7, OtherConnections
<1>11. PlacesInv'
  BY <1>7 DEF IndInv, SessionInv, PlacesInv
<1>12. EndInv(c, e) /\ EndInv(c, o)
  BY <1>1 DEF IndInv, StreamsInv
<1>13. EndInv(c, e)'
  <2>1. PICK q \in Programs : q = Owner(c, e) /\ q = Owner(c, e)'
    BY <1>1, <1>2, <1>5, <1>8, SessionTypes DEF IndInv, Owner
  <2>2. QED
    BY <1>1, <1>2, <1>5, <1>7, <1>8, <1>12, <2>1, SameEnd, Zenon DEF Uses
<1>14. EndInv(c, o)'
  <2>1. conns'[c].got[o] = <<>> /\ o \notin conns'[c].open /\ conns'[c].heard[o] = conns[c].heard[o]
    BY <1>2, <1>5, <1>8, <1>12 DEF EndInv, Told
  <2>2. Told(c, o)'
    BY <1>1, <1>2, <1>5, <1>8, <1>12, <2>1 DEF EndInv, Told
  <2>3. Ordered(c, o)' /\ GoesOn(c, o)' /\ Calm(c, o)'
    BY <2>1 DEF Ordered, IsStream, GoesOn, Calm
  <2>4. Kept(c, o)'
    <3>1. conns'[c].sent[Other(o)] = conns[c].sent[Other(o)] + 1
      BY <1>1, <1>2, <1>5, <1>8
    <3>2. conns'[c].crowded = conns[c].crowded
      BY <1>2, <1>5, <1>8
    <3>3. QED
      BY <1>1, <1>12, <2>1, <3>1, <3>2, KeptLonger, Zenon DEF IndInv, EndInv
  <2>5. QED
    BY <2>2, <2>3, <2>4 DEF EndInv
<1>15. RecvInv'
  <2>1. \A d \in DOMAIN conns : conns'[d].heard = conns[d].heard
    BY <1>2, <1>5, <1>8
  <2>2. QED
    BY <2>1, SameRecv
<1>16. StreamsInv'
  BY <1>1, <1>8, <1>10, <1>13, <1>14, <1>15 DEF StreamsInv
<1>17. QED
  BY <1>9, <1>10, <1>11, <1>16 DEF IndInv, SessionInv

\* A sequence with one more at its end.
Grows(s, a, t) ==
  /\ Len(t) = Len(s) + 1
  /\ \A i \in 1 .. Len(s) : t[i] = s[i]
  /\ t[Len(s) + 1] = a

\* Append makes one.
LEMMA Appended ==
  ASSUME NEW S, NEW s \in Seq(S), NEW a \in S
  PROVE  Append(s, a) \in Seq(S) /\ Grows(s, a, Append(s, a))
BY DEF Grows

\* The lists of what was heard after a call of recv: the last entry is new, or longer.
IsHeardAfter(heard, first, out, heard2) ==
  /\ heard2 \in Seq(Seq(Pieces))
  /\ Len(heard2) = IF first THEN Len(heard) + 1 ELSE Len(heard)
  /\ \A i \in 1 .. Len(heard2) - 1 : i \in DOMAIN heard /\ heard2[i] = heard[i]
  /\ heard2[Len(heard2)] = IF first THEN out ELSE heard[Len(heard)] \o out

\* It is what RecvChunk makes of it.
LEMMA HeardAfter ==
  ASSUME NEW heard \in Seq(Seq(Pieces)), NEW out \in Seq(Pieces), NEW first \in BOOLEAN,
         ~ first => heard # <<>>
  PROVE  IsHeardAfter(heard, first, out,
           IF first THEN Append(heard, out) ELSE Append(Front(heard), Last(heard) \o out))
<1>1. PICK heard2 :
        heard2 = IF first THEN Append(heard, out) ELSE Append(Front(heard), Last(heard) \o out)
  OBVIOUS
<1>2. PICK n : n = Len(heard)
  OBVIOUS
<1>3. n \in Nat /\ DOMAIN heard = 1 .. n
  BY <1>2
<1>4. CASE first
  <2>1. heard2 = Append(heard, out)
    BY <1>1, <1>4
  <2>2. heard2 \in Seq(Seq(Pieces)) /\ Grows(heard, out, heard2)
    BY <2>1, Appended
  <2>3. /\ heard2 \in Seq(Seq(Pieces)) /\ Len(heard2) = n + 1
        /\ \A i \in 1 .. n : heard2[i] = heard[i]
        /\ heard2[n + 1] = out
    BY <1>2, <2>2 DEF Grows
  <2>4. (n + 1) - 1 = n
    BY <1>3
  <2>5. QED
    BY <1>1, <1>2, <1>3, <1>4, <2>3, <2>4 DEF IsHeardAfter
<1>5. CASE ~ first
  <2>1. n \in Nat \ {0} /\ n - 1 \in Nat /\ n \in DOMAIN heard
    BY <1>2, <1>3, <1>5
  <2>2. PICK last, front : last = heard[n] \o out /\ front = SubSeq(heard, 1, n - 1)
    OBVIOUS
  <2>3. heard[n] \in Seq(Pieces)
    BY <2>1
  <2>4. last \in Seq(Pieces)
    BY <2>2, <2>3
  <2>5. \A i \in 1 .. n - 1 : i \in 1 .. n /\ heard[i] \in Seq(Pieces)
    BY <1>3, <2>1
  <2>6. /\ front \in Seq(Seq(Pieces)) /\ Len(front) = n - 1
        /\ \A i \in 1 .. n - 1 : front[i] = heard[i]
    BY <1>2, <1>3, <2>1, <2>2, <2>5
  <2>7. heard2 = Append(front, last)
    BY <1>1, <1>2, <1>5, <2>2 DEF Front, Last
  <2>8. (n - 1) + 1 = n
    BY <2>1
  <2>9. heard2 \in Seq(Seq(Pieces)) /\ Grows(front, last, heard2)
    BY <2>4, <2>6, <2>7, Appended
  <2>10. /\ heard2 \in Seq(Seq(Pieces)) /\ Len(heard2) = n
         /\ \A i \in 1 .. n - 1 : heard2[i] = heard[i]
         /\ heard2[n] = last
    BY <2>6, <2>8, <2>9, Zenon DEF Grows
  <2>11. QED
    <3>1. Len(heard2) = IF first THEN Len(heard) + 1 ELSE Len(heard)
      BY <1>2, <1>5, <2>10
    <3>2. Len(heard2) = n
      BY <2>10
    <3>3. \A i \in 1 .. Len(heard2) - 1 : i \in DOMAIN heard /\ heard2[i] = heard[i]
      BY <1>3, <2>5, <2>10, <3>2
    <3>4. heard2[Len(heard2)] = (IF first THEN out ELSE heard[Len(heard)] \o out)
      <4>1. heard2[n] = heard[n] \o out
        BY <2>2, <2>10
      <4>2. heard2[Len(heard2)] = heard[Len(heard)] \o out
        BY <1>2, <3>2, <4>1, Zenon
      <4>3. QED
        BY <1>5, <4>2, Zenon
    <3>5. QED
      BY <1>1, <2>10, <3>1, <3>3, <3>4 DEF IsHeardAfter
<1>6. QED
  BY <1>4, <1>5

\* What a sequence begins with.
IsBeginning(s, n, t) ==
  t \in Seq(Pieces) /\ Len(t) = n /\ \A j \in 1 .. n : t[j] = s[j]

\* It is what SubSeq makes of it.
LEMMA BeginningIs ==
  ASSUME NEW s \in Seq(Pieces), NEW n \in 1 .. Len(s)
  PROVE  IsBeginning(s, n, SubSeq(s, 1, n))
BY DEF IsBeginning

\* p takes n pieces, and prints out.
Taken(p, c, e, n, out) ==
  /\ out = Printed(SubSeq(conns[c].got[e], 1, n))
  /\ conns' = [conns EXCEPT
       ![c].got[e] = SubSeq(conns[c].got[e], n + 1, Len(conns[c].got[e])),
       ![c].heard[e] = IF firstPass[p] THEN Append(@, out) ELSE Append(Front(@), Last(@) \o out)]
  /\ firstPass' = [firstPass EXCEPT ![p] = FALSE]
  /\ at' = [at EXCEPT ![p] = IF Last(out).newline THEN "ready" ELSE "recv"]

\* The same, of the connection as a whole.
AfterTaken(x, e, n, first, out) ==
  [x EXCEPT !.got = [x.got EXCEPT ![e] = SubSeq(x.got[e], n + 1, Len(x.got[e]))],
            !.heard = [x.heard EXCEPT
               ![e] = IF first THEN Append(x.heard[e], out)
                      ELSE Append(Front(x.heard[e]), Last(x.heard[e]) \o out)]]

\* It is the same.
LEMMA TakenIs ==
  ASSUME NEW p, NEW c, NEW e, NEW n, NEW out, Taken(p, c, e, n, out)
  PROVE  conns' = [conns EXCEPT ![c] = AfterTaken(conns[c], e, n, firstPass[p], out)]
BY DEF Taken, AfterTaken

\* A call of recv takes something.
LEMMA TakeStep ==
  ASSUME IndInv, NEW p \in Programs, at[p] = "recv", NEW c, NEW e, NEW o, NEW n, NEW out,
         c = global_sock[p].conn, e = global_sock[p].end, o = Other(e),
         n \in 1 .. Len(conns[c].got[e]),
         Taken(p, c, e, n, out),
         UNCHANGED <<connected, global_sock, queues, descriptors, typed>>
  PROVE  IndInv'
<1>1. connected[p]
  BY DEF IndInv, SessionInv, PlacesInv
<1>2. /\ c \in DOMAIN conns /\ e \in Ends /\ o \in Ends \ {e} /\ Ends = {e, o}
      /\ e \in conns[c].open /\ Other(o) = e /\ Owner(c, e) = p
  BY <1>1, UsesOne, TwoEnds DEF IndInv
<1>3. PICK x, got, heard : x = conns[c] /\ got = x.got[e] /\ heard = x.heard[e]
  OBVIOUS
<1>4. PICK length : length = Len(got)
  OBVIOUS
<1>5. /\ x \in Connections /\ got \in Seq(Pieces) /\ heard \in Seq(Seq(Pieces))
      /\ x.sent[o] \in Nat
  BY <1>2, <1>3, EndTypes DEF IndInv
<1>6. /\ length \in Nat /\ DOMAIN got = 1 .. length /\ n \in 1 .. length /\ n \in Nat \ {0}
      /\ got # <<>> /\ n \in 0 .. length /\ length \in n .. length
  <2>1. length \in Nat /\ DOMAIN got = 1 .. length
    BY <1>4, <1>5
  <2>2. n \in 1 .. length
    BY <1>3, <1>4
  <2>3. n \in Nat \ {0} /\ n \in 0 .. length /\ length \in n .. length /\ length # 0
    BY <2>1, <2>2
  <2>4. QED
    BY <1>4, <2>1, <2>2, <2>3
<1>7. EndInv(c, e) /\ EndInv(c, o)
  BY <1>2 DEF IndInv, StreamsInv
<1>8. /\ IsStream(got) /\ \A j \in DOMAIN got : got[j].line <= x.sent[o]
      /\ got # <<>> /\ o \in x.open => got[length].newline
  BY <1>2, <1>3, <1>4, <1>7, Zenon DEF EndInv, Ordered
<1>9. PICK m \in 1 .. n : /\ out = SubSeq(got, 1, m)
                          /\ \A j \in 1 .. m - 1 : ~ got[j].newline
                          /\ got[m].newline \/ m = n
  <2>1. PICK chunk : chunk = SubSeq(got, 1, n)
    OBVIOUS
  <2>2. /\ chunk \in Seq(Pieces) /\ Len(chunk) = n /\ chunk # <<>>
        /\ \A j \in 1 .. n : chunk[j] = got[j]
    <3>1. n \in 1 .. Len(got)
      BY <1>4, <1>6
    <3>2. IsBeginning(got, n, chunk)
      BY <1>5, <2>1, <3>1, BeginningIs DEF Pieces
    <3>3. Len(chunk) # 0
      BY <1>6, <3>2 DEF IsBeginning
    <3>4. QED
      BY <3>2, <3>3 DEF IsBeginning
  <2>3. PICK m \in 1 .. Len(chunk) :
          /\ Printed(chunk) = SubSeq(chunk, 1, m)
          /\ \A j \in 1 .. m - 1 : ~ chunk[j].newline
          /\ chunk[m].newline \/ m = Len(chunk)
    BY <2>2, PrintedIs
  <2>4. m \in 1 .. n /\ m \in Nat /\ \A j \in 1 .. m - 1 : j \in 1 .. n
    BY <1>6, <2>2, <2>3
  <2>5. SubSeq(chunk, 1, m) = SubSeq(got, 1, m)
    <3>1. /\ SubSeq(chunk, 1, m) \in Seq(Pieces) /\ Len(SubSeq(chunk, 1, m)) = m
          /\ \A j \in 1 .. m : SubSeq(chunk, 1, m)[j] = chunk[j]
      BY <1>6, <2>2, <2>4
    <3>2. /\ SubSeq(got, 1, m) \in Seq(Pieces) /\ Len(SubSeq(got, 1, m)) = m
          /\ \A j \in 1 .. m : SubSeq(got, 1, m)[j] = got[j]
      BY <1>4, <1>5, <1>6, <2>4
    <3>3. \A j \in 1 .. m : chunk[j] = got[j]
      BY <1>6, <2>2, <2>4
    <3>4. QED
      BY <3>1, <3>2, <3>3
  <2>6. out = SubSeq(got, 1, m)
    BY <1>3, <2>1, <2>3, <2>5, Zenon DEF Taken
  <2>7. QED
    BY <2>2, <2>3, <2>4, <2>6
<1>10. m \in 1 .. length /\ m \in Nat \ {0} /\ m <= n
  <2>1. m \in 1 .. n
    BY <1>9
  <2>2. QED
    BY <1>6, <2>1
<1>11. /\ out \in Seq(Pieces) /\ Len(out) = m /\ out[1] = got[1] /\ out[m] = got[m]
       /\ IsPart(out) /\ out # <<>> /\ Last(out) = got[m]
  <2>1. /\ out \in Seq(Pieces) /\ Len(out) = m /\ out[1] = got[1] /\ out[m] = got[m]
        /\ IsPart(out)
    BY <1>4, <1>5, <1>8, <1>9, <1>10, StreamBegins
  <2>2. QED
    BY <2>1 DEF IsPart, Last
<1>12. PICK rest : rest = SubSeq(got, n + 1, length)
  OBVIOUS
<1>13. /\ rest \in Seq(Pieces) /\ Len(rest) = length - n /\ IsStream(rest)
       /\ \A j \in 1 .. length - n : rest[j] = got[j + n]
  BY <1>4, <1>5, <1>6, <1>8, <1>12, StreamPart
<1>14. firstPass[p] = ~ Cut(c, e)
  <2>1. firstPass[p] \in BOOLEAN
    BY DEF IndInv, TypeOK
  <2>2. ASSUME Cut(c, e) PROVE ~ firstPass[p]
    BY <1>2, <1>3, <1>6, <1>7, <2>2 DEF EndInv, GoesOn
  <2>3. ASSUME ~ firstPass[p] PROVE Cut(c, e)
    BY <2>3 DEF IndInv, StreamsInv, RecvInv
  <2>4. QED
    BY <2>1, <2>2, <2>3
<1>15. PICK first \in BOOLEAN : first = firstPass[p]
  BY DEF IndInv, TypeOK
<1>16. PICK heard2 : heard2 = IF first THEN Append(heard, out)
                              ELSE Append(Front(heard), Last(heard) \o out)
  BY Zenon
<1>17. ~ first => heard # <<>> /\ ~ heard[Len(heard)][Len(heard[Len(heard)])].newline
  BY <1>3, <1>14, <1>15, Zenon DEF Cut, Stopped, Printing
<1>18. /\ heard2 \in Seq(Seq(Pieces))
       /\ Len(heard2) = IF first THEN Len(heard) + 1 ELSE Len(heard)
       /\ \A i \in 1 .. Len(heard2) - 1 : i \in DOMAIN heard /\ heard2[i] = heard[i]
       /\ heard2[Len(heard2)] = IF first THEN out ELSE heard[Len(heard)] \o out
  <2>1. IsHeardAfter(heard, first, out,
          IF first THEN Append(heard, out) ELSE Append(Front(heard), Last(heard) \o out))
    BY <1>5, <1>11, <1>17, HeardAfter
  <2>2. IsHeardAfter(heard, first, out, heard2)
    BY <1>16, <2>1
  <2>3. QED
    BY <2>2 DEF IsHeardAfter
<1>19. PICK y : y = [x EXCEPT !.got = [x.got EXCEPT ![e] = rest],
                              !.heard = [x.heard EXCEPT ![e] = heard2]]
  OBVIOUS
<1>20. /\ y \in Connections /\ y.by = x.by /\ y.to = x.to /\ y.open = x.open /\ y.reset = x.reset
       /\ y.sent = x.sent /\ y.crowded = x.crowded
       /\ y.got[e] = rest /\ y.got[o] = x.got[o] /\ y.heard[e] = heard2 /\ y.heard[o] = x.heard[o]
  <2>1. x.got \in [Ends -> Seq(Pieces)] /\ x.heard \in [Ends -> Seq(Seq(Pieces))]
    BY <1>5 DEF Connections
  <2>2. /\ [x.got EXCEPT ![e] = rest] \in [Ends -> Seq(Pieces)]
        /\ [x.heard EXCEPT ![e] = heard2] \in [Ends -> Seq(Seq(Pieces))]
    BY <1>13, <1>18, <2>1
  <2>3. QED
    BY <1>2, <1>5, <1>19, <2>1, <2>2, ZenonT(60) DEF Connections
<1>21. conns' = [conns EXCEPT ![c] = y]
  <2>1. y = AfterTaken(x, e, n, first, out)
    BY <1>3, <1>4, <1>12, <1>16, <1>19, Zenon DEF AfterTaken
  <2>2. conns' = [conns EXCEPT ![c] = AfterTaken(conns[c], e, n, firstPass[p], out)]
    BY TakenIs
  <2>3. QED
    BY <1>3, <1>15, <2>1, <2>2
<1>22. /\ conns' \in Seq(Connections) /\ DOMAIN conns' = DOMAIN conns
       /\ conns'[c] = y /\ \A d \in DOMAIN conns \ {c} : conns'[d] = conns[d]
  BY <1>2, <1>20, <1>21, ChangedConnection, Zenon DEF IndInv
<1>23. /\ at'[p] = IF got[m].newline THEN "ready" ELSE "recv"
       /\ firstPass'[p] = FALSE
       /\ \A q \in Programs \ {p} : at'[q] = at[q] /\ firstPass'[q] = firstPass[q]
  BY <1>11, Zenon DEF IndInv, TypeOK, Taken
<1>24. TypeOK'
  <2>1. at' \in [Programs -> {"ready", "accept", "recv", "over"}]
        /\ firstPass' \in [Programs -> BOOLEAN]
    BY DEF IndInv, TypeOK, Taken
  <2>2. QED
    BY <1>22, <2>1, Zenon DEF IndInv, TypeOK
<1>25. \A q \in Programs : at[q] = "recv" /\ q # p => Uses(q, c, e) = FALSE
  BY <1>2, UsesOne DEF IndInv, SessionInv, PlacesInv, SocketsInv, Uses
<1>26. /\ SocketsInv' /\ QueuesInv' /\ HeldInv'
       /\ \A d \in DOMAIN conns \ {c} : \A f \in Ends : EndInv(d, f)'
  <2>1. \A q \in Programs : at[q] = "recv" /\ global_sock[q].conn # c =>
          at'[q] = "recv" /\ firstPass'[q] = firstPass[q]
    BY <1>23
  <2>2. QED
    BY <1>2, <1>3, <1>20, <1>21, <2>1, OtherConnections
<1>27. PlacesInv'
  BY <1>1, <1>23 DEF IndInv, SessionInv, PlacesInv
<1>28. EndInv(c, o)'
  <2>1. PICK q \in Programs : q = Owner(c, o) /\ q = Owner(c, o)'
    BY <1>2, <1>3, <1>20, <1>22, SessionTypes DEF IndInv, Owner
  <2>2. ASSUME Uses(q, c, o), at[q] = "recv"
        PROVE  Uses(q, c, o)' /\ at'[q] = "recv" /\ firstPass'[q] = firstPass[q]
    <3>1. q # p
      BY <1>2, <2>2 DEF Uses
    <3>2. QED
      BY <1>23, <2>2, <3>1 DEF Uses
  <2>3. QED
    BY <1>2, <1>3, <1>7, <1>20, <1>22, <2>1, <2>2, SameEnd, ZenonT(60)
<1>29. PICK h, last : h = Len(heard2) /\ last = heard2[h]
  OBVIOUS
<1>30. /\ h \in Nat \ {0} /\ h \in DOMAIN heard2 /\ DOMAIN heard2 = 1 .. h
       /\ (first => h = Len(heard) + 1) /\ (~ first => h = Len(heard) /\ h \in DOMAIN heard)
  BY <1>5, <1>17, <1>18, <1>29
<1>31. /\ last \in Seq(Pieces) /\ IsPart(last) /\ last[Len(last)] = got[m]
       /\ first => last[1] = got[1]
       /\ ~ first => last[1] = heard[h][1]
  <2>1. CASE first
    BY <1>11, <1>18, <1>29, <2>1
  <2>2. CASE ~ first
    <3>1. heard[h] \in Seq(Pieces) /\ last = heard[h] \o out
      <4>1. h = Len(heard) /\ h \in DOMAIN heard /\ h = Len(heard2)
        BY <1>29, <1>30, <2>2
      <4>2. heard[h] \in Seq(Pieces)
        BY <1>5, <4>1
      <4>3. heard2[Len(heard2)] = heard[Len(heard)] \o out
        BY <1>18, <2>2
      <4>4. last = heard[h] \o out
        BY <1>29, <4>1, <4>3, Zenon
      <4>5. QED
        BY <4>2, <4>4
    <3>2. IsPart(heard[h])
      BY <1>3, <1>7, <1>30, <2>2, Zenon DEF EndInv, Kept
    <3>3. /\ got[1].line = heard[h][Len(heard[h])].line
          /\ got[1].part = heard[h][Len(heard[h])].part + 1
      <4>1. Cut(c, e)
        BY <1>14, <1>15, <2>2, Zenon
      <4>2. got[1].line = Stopped(c, e).line /\ got[1].part = Stopped(c, e).part + 1
        BY <1>3, <1>6, <1>7, <4>1, Zenon DEF EndInv, GoesOn
      <4>3. QED
        BY <1>3, <1>30, <2>2, <4>2, Zenon DEF Stopped, Printing
    <3>4. /\ heard[h] \o out \in Seq(Pieces) /\ IsPart(heard[h] \o out)
          /\ (heard[h] \o out)[1] = heard[h][1]
          /\ (heard[h] \o out)[Len(heard[h] \o out)] = out[Len(out)]
      BY <1>11, <3>1, <3>2, <3>3, PartsJoin, ZenonT(60)
    <3>5. QED
      BY <1>11, <2>2, <3>1, <3>4
  <2>3. QED
    BY <2>1, <2>2
<1>32. Cut(c, e)' = ~ got[m].newline /\ Stopped(c, e)' = got[m] /\ Owner(c, e)' = p
  <2>1. Stopped(c, e)' = got[m]
    BY <1>20, <1>22, <1>29, <1>31 DEF Stopped, Printing
  <2>2. heard2 # <<>>
    BY <1>29, <1>30
  <2>3. Owner(c, e)' = p
    BY <1>2, <1>3, <1>20, <1>22 DEF Owner
  <2>4. Cut(c, e)' = ~ got[m].newline
    BY <1>20, <1>22, <2>1, <2>2 DEF Cut
  <2>5. QED
    BY <2>1, <2>3, <2>4
<1>33. rest # <<>> => /\ n + 1 \in 1 .. length /\ rest[1] = got[n + 1]
                      /\ 1 \in 1 .. length - n /\ rest[Len(rest)] = got[length]
  <2> SUFFICES ASSUME rest # <<>>
               PROVE  /\ n + 1 \in 1 .. length /\ rest[1] = got[n + 1]
                      /\ 1 \in 1 .. length - n /\ rest[Len(rest)] = got[length]
    OBVIOUS
  <2>1. length - n # 0
    BY <1>13
  <2>2. /\ n + 1 \in 1 .. length /\ 1 \in 1 .. length - n /\ 1 + n = n + 1
        /\ length - n \in 1 .. length - n /\ (length - n) + n = length
    BY <1>6, <2>1
  <2>3. rest[1] = got[n + 1] /\ rest[length - n] = got[length]
    BY <1>13, <2>2
  <2>4. QED
    BY <1>13, <2>2, <2>3
<1>34. rest = <<>> => n = length
  <2>1. rest = <<>> => length - n = 0
    BY <1>13
  <2>2. QED
    BY <1>6, <2>1
<1>35. Told(c, e)'
  BY <1>2, <1>3, <1>7, <1>20, <1>22 DEF EndInv, Told
<1>36. Ordered(c, e)'
  <2>1. \A j \in DOMAIN rest : rest[j].line <= x.sent[o]
    <3>1. DOMAIN rest = 1 .. length - n /\ \A j \in 1 .. length - n : j + n \in DOMAIN got
      BY <1>6, <1>13
    <3>2. QED
      BY <1>8, <1>13, <3>1
  <2>2. rest # <<>> /\ o \in x.open => rest[Len(rest)].newline
    BY <1>6, <1>8, <1>33
  <2>3. QED
    BY <1>2, <1>13, <1>20, <1>22, <2>1, <2>2 DEF Ordered
<1>37. GoesOn(c, e)'
  <2>1. ASSUME ~ got[m].newline, rest # <<>>
        PROVE  /\ rest[1].line = got[m].line /\ rest[1].part = got[m].part + 1
               /\ (Uses(p, c, e) /\ at[p] = "recv" /\ ~ firstPass[p])'
    <3>1. /\ m = n /\ n < n + 1 /\ (n + 1) - n = 1 /\ n \in DOMAIN got /\ n + 1 \in DOMAIN got
          /\ \A i \in n .. (n + 1) - 1 : i = n
      BY <1>6, <1>9, <1>33, <2>1
    <3>2. got[n + 1].line = got[n].line /\ got[n + 1].part = got[n].part + 1
      BY <1>8, <2>1, <3>1 DEF IsStream
    <3>3. Uses(p, c, e)'
      BY <1>1 DEF Uses
    <3>4. QED
      BY <1>23, <1>33, <2>1, <3>1, <3>2, <3>3
  <2>2. ASSUME ~ got[m].newline, rest = <<>>
        PROVE  o \notin x.open
    BY <1>6, <1>8, <1>9, <1>34, <2>2
  <2>3. ASSUME got[m].newline, rest # <<>>
        PROVE  got[m].line < rest[1].line
    <3>1. m < n + 1 /\ m \in DOMAIN got /\ n + 1 \in DOMAIN got
      BY <1>6, <1>9, <1>10, <1>33, <2>3
    <3>2. got[m].line < got[n + 1].line
      BY <1>8, <2>3, <3>1 DEF IsStream
    <3>3. QED
      BY <1>33, <2>3, <3>2
  <2>4. QED
    BY <1>20, <1>22, <1>32, <2>1, <2>2, <2>3, Zenon DEF GoesOn, Uses
<1>38. ASSUME e \notin x.crowded
       PROVE  /\ \A j \in DOMAIN got : got[j].line = x.sent[o]
              /\ h = x.sent[o] /\ (first => got[1].part = 1)
  <2>1. /\ \A j \in DOMAIN got : got[j].line = x.sent[o]
        /\ IF Cut(c, e) THEN Len(heard) = x.sent[o]
           ELSE Len(heard) + 1 = x.sent[o] /\ got[1].part = 1
    BY <1>2, <1>3, <1>6, <1>7, <1>38, Zenon DEF EndInv, Calm
  <2>2. QED
    BY <1>14, <1>15, <1>30, <2>1
<1>39. Calm(c, e)'
  <2>1. ASSUME e \notin x.crowded, rest # <<>>
        PROVE  ~ got[m].newline /\ \A j \in DOMAIN rest : rest[j].line = x.sent[o]
    <3>1. DOMAIN rest = 1 .. length - n /\ \A j \in 1 .. length - n : j + n \in DOMAIN got
      BY <1>6, <1>13
    <3>2. \A j \in DOMAIN rest : rest[j].line = x.sent[o]
      BY <1>13, <1>38, <2>1, <3>1
    <3>3. /\ m < n + 1 /\ m \in DOMAIN got /\ n + 1 \in DOMAIN got
      BY <1>6, <1>9, <1>10, <1>33, <2>1
    <3>4. got[m].line = got[n + 1].line
      BY <1>38, <2>1, <3>3
    <3>5. ~ got[m].newline
      BY <1>8, <3>3, <3>4 DEF IsStream
    <3>6. QED
      BY <3>2, <3>5
  <2>2. ASSUME e \notin x.crowded PROVE h = x.sent[o]
    BY <1>38, <2>2
  <2>3. /\ conns'[c].got[e] = rest /\ conns'[c].sent[Other(e)] = x.sent[o]
        /\ conns'[c].crowded = x.crowded /\ Len(conns'[c].heard[e]) = h
    BY <1>20, <1>22, <1>29
  <2>4. QED
    BY <1>32, <2>1, <2>2, <2>3 DEF Calm
<1>40. Kept(c, e)'
  <2>1. \A i \in DOMAIN heard :
          /\ IsPart(heard[i]) /\ heard[i][1].line <= x.sent[o]
          /\ i < Len(heard) => /\ heard[i][Len(heard[i])].newline
                               /\ heard[i][1].line < heard[i + 1][1].line
          /\ e \notin x.crowded => heard[i][1].part = 1 /\ heard[i][1].line = i
    BY <1>3, <1>7, ZenonT(60) DEF EndInv, Kept
  <2>2. /\ IsPart(last) /\ last[1].line <= x.sent[o]
        /\ e \notin x.crowded => last[1].part = 1 /\ last[1].line = h
    <3>1. CASE first
      <4>1. 1 \in DOMAIN got
        BY <1>6
      <4>2. last[1].line <= x.sent[o]
        BY <1>8, <1>31, <3>1, <4>1
      <4>3. ASSUME e \notin x.crowded PROVE last[1].part = 1 /\ last[1].line = h
        BY <1>31, <1>38, <3>1, <4>1, <4>3
      <4>4. QED
        BY <1>31, <4>2, <4>3
    <3>2. CASE ~ first
      BY <1>30, <1>31, <2>1, <3>2
    <3>3. QED
      BY <3>1, <3>2
  <2>3. ASSUME NEW i \in 1 .. h - 1
        PROVE  /\ IsPart(heard2[i]) /\ heard2[i][1].line <= x.sent[o]
               /\ heard2[i][Len(heard2[i])].newline
               /\ heard2[i][1].line < heard2[i + 1][1].line
               /\ e \notin x.crowded => heard2[i][1].part = 1 /\ heard2[i][1].line = i
    <3>1. i \in DOMAIN heard /\ heard2[i] = heard[i]
      BY <1>18, <1>29
    <3>2. PICK k : k = Len(heard)
      OBVIOUS
    <3>3. k \in Nat /\ DOMAIN heard = 1 .. k /\ i \in 1 .. k
          /\ (first => h = k + 1) /\ (~ first => h = k)
      BY <1>5, <1>30, <3>1, <3>2
    <3>4. CASE i < k
      <4>1. heard[i][Len(heard[i])].newline /\ heard[i][1].line < heard[i + 1][1].line
        BY <2>1, <3>1, <3>2, <3>4
      <4>2. heard2[i + 1][1] = heard[i + 1][1]
        <5>1. CASE i + 1 \in 1 .. h - 1
          BY <1>18, <1>29, <5>1
        <5>2. CASE i + 1 = h
          <6>1. ~ first
            BY <3>3, <3>4, <5>2
          <6>2. QED
            BY <1>29, <1>31, <5>2, <6>1
        <5>3. QED
          BY <1>30, <5>1, <5>2
      <4>3. QED
        BY <2>1, <3>1, <4>1, <4>2
    <3>5. CASE i = k
      <4>1. first /\ i + 1 = h
        BY <1>30, <3>3, <3>5
      <4>2. ~ Cut(c, e) /\ heard # <<>>
        <5>1. ~ Cut(c, e)
          BY <1>14, <1>15, <4>1
        <5>2. heard # <<>>
          BY <3>1
        <5>3. QED
          BY <5>1, <5>2
      <4>3. PICK was : was = heard[k]
        OBVIOUS
      <4>4. was[Len(was)].newline /\ was[Len(was)].line < got[1].line
        <5>1. Stopped(c, e) = was[Len(was)]
          BY <1>3, <3>2, <4>3 DEF Stopped, Printing
        <5>2. was[Len(was)].newline
          BY <1>3, <4>2, <5>1 DEF Cut
        <5>3. Stopped(c, e).line < got[1].line
          BY <1>3, <1>6, <1>7, <4>2, Zenon DEF EndInv, GoesOn
        <5>4. QED
          BY <5>1, <5>2, <5>3
      <4>5. was[Len(was)].line = was[1].line
        <5>1. was \in Seq(Pieces) /\ IsPart(was)
          BY <1>5, <2>1, <3>1, <3>5, <4>3
        <5>2. PICK l : l = Len(was)
          OBVIOUS
        <5>3. l \in Nat \ {0}
          BY <5>1, <5>2 DEF IsPart
        <5>4. QED
          BY <5>1, <5>2, <5>3 DEF IsPart
      <4>6. heard2[i + 1][1] = got[1]
        BY <1>29, <1>31, <4>1
      <4>7. QED
        BY <2>1, <3>1, <3>5, <4>3, <4>4, <4>5, <4>6
    <3>6. QED
      BY <3>3, <3>4, <3>5
  <2>4. \A i \in DOMAIN heard2 : i \in 1 .. h - 1 \/ i = h
    BY <1>30
  <2>5. \A i \in DOMAIN heard2 :
          /\ IsPart(heard2[i]) /\ heard2[i][1].line <= x.sent[o]
          /\ i < h => /\ heard2[i][Len(heard2[i])].newline
                      /\ heard2[i][1].line < heard2[i + 1][1].line
          /\ e \notin x.crowded => heard2[i][1].part = 1 /\ heard2[i][1].line = i
    <3> SUFFICES ASSUME NEW i \in DOMAIN heard2
                 PROVE  /\ IsPart(heard2[i]) /\ heard2[i][1].line <= x.sent[o]
                        /\ i < h => /\ heard2[i][Len(heard2[i])].newline
                                    /\ heard2[i][1].line < heard2[i + 1][1].line
                        /\ e \notin x.crowded => heard2[i][1].part = 1 /\ heard2[i][1].line = i
      OBVIOUS
    <3>1. CASE i \in 1 .. h - 1
      BY <2>3, <3>1
    <3>2. CASE i = h
      <4>1. ~ (i < h)
        BY <1>30, <3>2
      <4>2. QED
        BY <1>29, <2>2, <3>2, <4>1
    <3>3. QED
      BY <2>4, <3>1, <3>2
  <2>6. /\ conns'[c].sent[Other(e)] = x.sent[o] /\ conns'[c].crowded = x.crowded
        /\ conns'[c].heard[e] = heard2
    BY <1>20, <1>22
  <2>7. QED
    BY <1>29, <2>5, <2>6 DEF Kept
<1>41. EndInv(c, e)'
  BY <1>35, <1>36, <1>37, <1>39, <1>40 DEF EndInv
<1>42. RecvInv'
  <2> SUFFICES ASSUME NEW q \in Programs, at'[q] = "recv", ~ firstPass'[q]
               PROVE  Cut(global_sock[q].conn, global_sock[q].end)'
    BY DEF RecvInv
  <2>1. CASE q = p
    <3>1. ~ got[m].newline
      BY <1>23, <2>1
    <3>2. Cut(c, e)'
      BY <1>32, <3>1, Zenon
    <3>3. QED
      BY <2>1, <3>2, Zenon DEF Cut, Stopped, Printing
  <2>2. CASE q # p
    <3>1. at[q] = "recv" /\ ~ firstPass[q] /\ connected[q]
      BY <1>23, <2>2 DEF IndInv, SessionInv, PlacesInv
    <3>2. PICK d, f : d = global_sock[q].conn /\ f = global_sock[q].end
      OBVIOUS
    <3>3. d \in DOMAIN conns /\ f \in Ends /\ ~ (d = c /\ f = e)
      BY <1>2, <2>2, <3>1, <3>2, UsesOne DEF IndInv
    <3>4. conns'[d].heard[f] = conns[d].heard[f]
      BY <1>2, <1>3, <1>20, <1>22, <3>3
    <3>5. Cut(global_sock[q].conn, global_sock[q].end)
      BY <3>1 DEF IndInv, StreamsInv, RecvInv
    <3>6. global_sock'[q] = global_sock[q]
      OBVIOUS
    <3>7. QED
      BY <3>2, <3>4, <3>5, <3>6, Zenon DEF Cut, Stopped, Printing
  <2>3. QED
    BY <2>1, <2>2
<1>43. StreamsInv'
  BY <1>2, <1>22, <1>26, <1>28, <1>41, <1>42 DEF StreamsInv
<1>44. QED
  BY <1>24, <1>26, <1>27, <1>43 DEF IndInv, SessionInv

\* A step of p leaves the others where they are.
LEMMA PlacesStep ==
  ASSUME IndInv, NEW p \in Programs,
         \A q \in Programs \ {p} :
           /\ at'[q] = at[q] /\ connected'[q] = connected[q] /\ descriptors'[q] = descriptors[q]
           /\ queues[q] # <<>> => queues'[q] # <<>>,
         at'[p] = "recv" => connected'[p],
         at'[p] = "accept" => ~ connected'[p] /\ queues'[p] # <<>>,
         connected'[p] => descriptors'[p] # 0
  PROVE  PlacesInv'
BY DEF IndInv, SessionInv, PlacesInv

\* A step of p that sends and takes nothing, while nothing waits for a recv of p,
\* keeps what is said of the streams.
LEMMA StreamsStay ==
  ASSUME IndInv, NEW p \in Programs,
         at[p] # "recv" \/ conns[global_sock[p].conn].got[global_sock[p].end] = <<>>,
         at'[p] = "recv" => firstPass'[p],
         \A q \in Programs \ {p} :
           /\ at'[q] = at[q] /\ connected'[q] = connected[q]
           /\ global_sock'[q] = global_sock[q] /\ firstPass'[q] = firstPass[q],
         NEW E \in [DOMAIN conns -> SUBSET Ends], ShutsEach(E),
         DOMAIN conns \subseteq DOMAIN conns',
         \A c \in DOMAIN conns' \ DOMAIN conns :
           \E q, r \in Programs : conns'[c] = NewConnection(q, r)
  PROVE  StreamsInv'
<1>1. \A q \in Programs : at[q] = "recv"
          /\ conns[global_sock[q].conn].got[global_sock[q].end] # <<>> =>
        /\ at'[q] = "recv" /\ connected'[q] = connected[q]
        /\ global_sock'[q] = global_sock[q] /\ firstPass'[q] = firstPass[q]
  OBVIOUS
<1>2. \A q \in Programs : at'[q] = "recv" /\ ~ firstPass'[q] =>
        at[q] = "recv" /\ ~ firstPass[q] /\ global_sock'[q] = global_sock[q]
  OBVIOUS
<1>3. QED
  BY <1>1, <1>2, SameStreams DEF IndInv

\* Connections that stay as they are have no end shut.
LEMMA NoneShut ==
  ASSUME \A c \in DOMAIN conns : conns'[c] = conns[c]
  PROVE  \E E \in [DOMAIN conns -> SUBSET Ends] : ShutsEach(E)
<1>1. PICK E : E = [c \in DOMAIN conns |-> {}]
  OBVIOUS
<1>2. E \in [DOMAIN conns -> SUBSET Ends] /\ \A c \in DOMAIN conns : E[c] = {}
  BY <1>1
<1>3. ShutsEach(E)
  BY <1>2 DEF ShutsEach
<1>4. QED
  BY <1>2, <1>3

\* A recv ends without taking anything.
LEMMA FinishStep ==
  ASSUME IndInv, NEW p \in Programs,
         conns[global_sock[p].conn].got[global_sock[p].end] = <<>>,
         at' = [at EXCEPT ![p] = "ready"],
         UNCHANGED <<connected, global_sock, firstPass, queues, conns, descriptors, typed>>
  PROVE  IndInv'
<1>1. TypeOK'
  BY DEF IndInv, TypeOK
<1>2. at'[p] = "ready" /\ \A q \in Programs \ {p} : at'[q] = at[q]
  BY DEF IndInv, TypeOK
<1>3. SocketsInv' /\ QueuesInv' /\ HeldInv'
  BY SameSessions DEF IndInv
<1>4. PlacesInv'
  BY <1>2 DEF IndInv, SessionInv, PlacesInv
<1>5. StreamsInv'
  <2>1. PICK E \in [DOMAIN conns -> SUBSET Ends] : ShutsEach(E)
    BY NoneShut
  <2>2. QED
    BY <1>2, <2>1, StreamsStay
<1>6. QED
  BY <1>1, <1>3, <1>4, <1>5 DEF IndInv, SessionInv

\* A round of the loop of recv.
LEMMA RecvChunkStep ==
  ASSUME IndInv, NEW p \in Programs, RecvChunk(p)
  PROVE  IndInv'
<1>1. PICK c, e : c = global_sock[p].conn /\ e = global_sock[p].end
  OBVIOUS
<1>2. at[p] = "recv" /\ UNCHANGED <<connected, global_sock, queues, descriptors, typed>>
  BY Zenon DEF RecvChunk
<1>3. CASE \E n \in 1 .. Len(conns[c].got[e]) :
             Taken(p, c, e, n, Printed(SubSeq(conns[c].got[e], 1, n)))
  BY <1>1, <1>2, <1>3, TakeStep
<1>4. CASE /\ conns[c].got[e] = <<>>
           /\ at' = [at EXCEPT ![p] = "ready"]
           /\ UNCHANGED <<firstPass, conns>>
  BY <1>1, <1>2, <1>4, FinishStep
<1>5. QED
  BY <1>1, <1>3, <1>4, Zenon DEF RecvChunk, Taken

\* A recv begins.
LEMMA RecvStep ==
  ASSUME IndInv, NEW p \in Programs, Recv(p)
  PROVE  IndInv'
<1>1. /\ connected[p] /\ at[p] = "ready" /\ typed' \in [Programs -> [Commands -> Nat]]
      /\ at' = [at EXCEPT ![p] = "recv"] /\ firstPass' = [firstPass EXCEPT ![p] = TRUE]
      /\ UNCHANGED <<connected, global_sock, queues, conns, descriptors>>
  BY TypeStep DEF Recv, IndInv, Commands
<1>2. TypeOK'
  BY <1>1 DEF IndInv, TypeOK
<1>3. /\ at'[p] = "recv" /\ firstPass'[p]
      /\ \A q \in Programs \ {p} : at'[q] = at[q] /\ firstPass'[q] = firstPass[q]
  BY <1>1 DEF IndInv, TypeOK
<1>4. SocketsInv' /\ QueuesInv' /\ HeldInv'
  BY <1>1, SameSessions DEF IndInv
<1>5. PlacesInv'
  BY <1>1, <1>3 DEF IndInv, SessionInv, PlacesInv
<1>6. StreamsInv'
  <2>1. PICK E \in [DOMAIN conns -> SUBSET Ends] : ShutsEach(E)
    BY <1>1, NoneShut
  <2>2. QED
    BY <1>1, <1>3, <2>1, StreamsStay
<1>7. QED
  BY <1>2, <1>4, <1>5, <1>6 DEF IndInv, SessionInv

\* The process of p ends.
LEMMA EndedKeeps ==
  ASSUME IndInv, NEW p \in Programs, at[p] # "recv", Ended(p),
         typed' \in [Programs -> [Commands -> Nat]]
  PROVE  IndInv'
<1>1. /\ queues' = [queues EXCEPT ![p] = <<>>]
      /\ at' = [at EXCEPT ![p] = "over"]
      /\ connected' = [connected EXCEPT ![p] = FALSE]
      /\ UNCHANGED <<global_sock, firstPass, descriptors>>
  BY DEF Ended
<1>2. PICK E \in [DOMAIN conns -> SUBSET Ends] :
        /\ \A c \in DOMAIN conns : \A e \in Ends :
             e \in E[c] <=> Uses(p, c, e) \/ (e = "callee" /\ Waits(p, c))
        /\ Shuts(E)
  BY EndedStep DEF IndInv
<1>3. conns' \in Seq(Connections) /\ DOMAIN conns' = DOMAIN conns /\ ShutsEach(E)
  BY <1>2 DEF Shuts
<1>4. /\ at'[p] = "over" /\ ~ connected'[p]
      /\ \A q \in Programs \ {p} :
           at'[q] = at[q] /\ connected'[q] = connected[q] /\ queues'[q] = queues[q]
  BY <1>1 DEF IndInv, TypeOK
<1>5. TypeOK'
  <2>1. queues' \in [Programs -> Seq(Seq(DOMAIN conns))]
    BY <1>1 DEF IndInv, TypeOK
  <2>2. QED
    BY <1>1, <1>3, <2>1 DEF IndInv, TypeOK
<1>6. SocketsInv' /\ QueuesInv' /\ HeldInv'
  BY <1>1, <1>2, SessionsShut DEF IndInv
<1>7. PlacesInv'
  BY <1>1, <1>4, PlacesStep
<1>8. StreamsInv'
  BY <1>1, <1>3, <1>4, StreamsStay
<1>9. QED
  BY <1>5, <1>6, <1>7, <1>8 DEF IndInv, SessionInv

\* A socket that is opened is there, and the others have what they had.
LEMMA OpensOne ==
  ASSUME TypeOK, NEW p \in Programs, Opens(p)
  PROVE  /\ descriptors'[p] # 0
         /\ \A q \in Programs \ {p} : descriptors'[q] = descriptors[q]
<1>1. descriptors \in [Programs -> 0 .. Descriptors] /\ Descriptors \in Nat
  BY SizesAssumption DEF TypeOK
<1>2. descriptors[p] \in Nat /\ descriptors'[p] = descriptors[p] + 1
  BY <1>1 DEF Opens
<1>3. descriptors'[p] # 0
  BY <1>2
<1>4. \A q \in Programs \ {p} : descriptors'[q] = descriptors[q]
  BY <1>1 DEF Opens
<1>5. QED
  BY <1>3, <1>4

\* p is connected by a connection that is new, or is accepted.
LEMMA ConnectsStep ==
  ASSUME TypeOK, NEW p \in Programs, NEW c \in Nat, NEW e \in Ends, Connects(p, c, e)
  PROVE  /\ at' \in [Programs -> {"ready", "accept", "recv", "over"}]
         /\ connected' \in [Programs -> BOOLEAN]
         /\ global_sock' \in [Programs -> Sockets]
         /\ firstPass' = firstPass
         /\ at'[p] = "ready"
         /\ \A q \in Programs \ {p} :
              /\ at'[q] = at[q] /\ connected'[q] = connected[q]
              /\ global_sock'[q] = global_sock[q]
BY DEF TypeOK, Connects, Sockets

\* connect, when there is a listener with room.
LEMMA ConnectOpenStep ==
  ASSUME IndInv, NEW p \in Programs, NEW q \in Programs, at[p] = "ready", ~ connected[p],
         Opens(p), NEW k \in DOMAIN queues[q],
         conns' = Append(conns, NewConnection(p, q)),
         queues' = [queues EXCEPT ![q][k] = Append(@, Len(conns'))],
         Connects(p, Len(conns'), "caller"),
         typed' \in [Programs -> [Commands -> Nat]]
  PROVE  IndInv'
<1>1. PICK n, new : n = Len(conns') /\ new = NewConnection(p, q)
  OBVIOUS
<1>2. new \in Connections
  BY <1>1, NewConnectionType
<1>3. conns \in Seq(Connections) /\ Len(conns) \in Nat /\ DOMAIN conns = 1 .. Len(conns)
  BY DEF IndInv, TypeOK
<1>4. conns' \in Seq(Connections) /\ Grows(conns, new, conns')
  BY <1>1, <1>2, <1>3, Appended
<1>5. /\ n = Len(conns) + 1 /\ n \in Nat /\ DOMAIN conns' = 1 .. n
      /\ conns'[n] = new /\ \A c \in DOMAIN conns : conns'[c] = conns[c]
      /\ DOMAIN conns \subseteq DOMAIN conns'
      /\ \A c \in DOMAIN conns' \ DOMAIN conns : c = n
  <2>1. n = Len(conns) + 1
    BY <1>1, <1>4 DEF Grows
  <2>2. conns'[n] = new /\ \A c \in DOMAIN conns : conns'[c] = conns[c]
    BY <1>3, <1>4, <2>1 DEF Grows
  <2>3. DOMAIN conns' = 1 .. n
    BY <1>1, <1>4
  <2>4. QED
    BY <1>3, <2>1, <2>2, <2>3
<1>6. Connects(p, n, "caller") /\ "caller" \in Ends
  BY <1>1 DEF Ends
<1>7. /\ at' \in [Programs -> {"ready", "accept", "recv", "over"}]
      /\ connected' \in [Programs -> BOOLEAN]
      /\ global_sock' \in [Programs -> Sockets]
      /\ firstPass' = firstPass
      /\ at'[p] = "ready"
      /\ \A r \in Programs \ {p} :
           /\ at'[r] = at[r] /\ connected'[r] = connected[r]
           /\ global_sock'[r] = global_sock[r]
  BY <1>5, <1>6, ConnectsStep DEF IndInv
<1>8. /\ descriptors' \in [Programs -> 0 .. Descriptors] /\ descriptors'[p] # 0
      /\ \A r \in Programs \ {p} : descriptors'[r] = descriptors[r]
  BY OpensStep, OpensOne DEF IndInv
<1>9. queues' = [queues EXCEPT ![q] = [queues[q] EXCEPT ![k] = Append(queues[q][k], n)]]
  BY <1>1
<1>10. \A r \in Programs : queues[r] \in Seq(Seq(1 .. n))
  BY <1>3, <1>5, QueuesGrow DEF IndInv, TypeOK
<1>11. [queues[q] EXCEPT ![k] = Append(queues[q][k], n)] \in Seq(Seq(1 .. n))
  <2>1. queues[q][k] \in Seq(1 .. n) /\ n \in 1 .. n
    BY <1>3, <1>5, <1>10
  <2>2. Append(queues[q][k], n) \in Seq(1 .. n)
    BY <2>1
  <2>3. [queues[q] EXCEPT ![k] = Append(queues[q][k], n)] \in [DOMAIN queues[q] -> Seq(1 .. n)]
    BY <1>10, <2>2
  <2>4. QED
    BY <1>10, <2>3, ChangedSeq
<1>12. queues' \in [Programs -> Seq(Seq(DOMAIN conns'))]
  <2>1. PICK row : row = [queues[q] EXCEPT ![k] = Append(queues[q][k], n)]
    OBVIOUS
  <2>2. queues' = [queues EXCEPT ![q] = row] /\ row \in Seq(Seq(1 .. n))
    BY <1>9, <1>11, <2>1
  <2>3. DOMAIN queues = Programs /\ queues = [r \in Programs |-> queues[r]]
    BY DEF IndInv, TypeOK
  <2>4. queues' \in [Programs -> Seq(Seq(1 .. n))]
    BY <1>10, <2>2, <2>3
  <2>5. QED
    BY <1>5, <2>4
<1>13. TypeOK'
  BY <1>4, <1>7, <1>8, <1>12 DEF IndInv, TypeOK
<1>14. SocketsInv' /\ QueuesInv' /\ HeldInv'
  BY SessionsConnect DEF IndInv
<1>15. \A r \in Programs : queues[r] # <<>> => queues'[r] # <<>>
  <2>1. \A r \in Programs : DOMAIN queues'[r] = DOMAIN queues[r]
    BY <1>9 DEF IndInv, TypeOK
  <2>2. \A r \in Programs : queues[r] \in Seq(Seq(1 .. n)) /\ queues'[r] \in Seq(Seq(1 .. n))
    BY <1>5, <1>10, <1>12
  <2>3. QED
    BY <2>1, <2>2
<1>16. PlacesInv'
  BY <1>7, <1>8, <1>15, PlacesStep
<1>17. StreamsInv'
  <2>1. PICK E \in [DOMAIN conns -> SUBSET Ends] : ShutsEach(E)
    BY <1>5, NoneShut
  <2>2. \A c \in DOMAIN conns' \ DOMAIN conns :
          \E r, t \in Programs : conns'[c] = NewConnection(r, t)
    BY <1>1, <1>5
  <2>3. QED
    BY <1>5, <1>7, <2>1, <2>2, StreamsStay
<1>18. QED
  BY <1>13, <1>14, <1>16, <1>17 DEF IndInv, SessionInv

\* connect, when it is refused.
LEMMA RefusedStep ==
  ASSUME IndInv, NEW p \in Programs, NEW q \in Programs, at[p] = "ready", ~ connected[p],
         Opens(p), Refused(p, q), typed' \in [Programs -> [Commands -> Nat]]
  PROVE  IndInv'
<1>1. /\ global_sock' = [global_sock EXCEPT ![p] = NoSocket]
      /\ UNCHANGED <<at, connected, firstPass, queues, conns>>
  BY DEF Refused
<1>2. /\ descriptors' \in [Programs -> 0 .. Descriptors] /\ descriptors'[p] # 0
      /\ \A r \in Programs \ {p} : descriptors'[r] = descriptors[r]
  BY OpensStep, OpensOne DEF IndInv
<1>3. /\ global_sock' \in [Programs -> Sockets]
      /\ \A r \in Programs \ {p} : global_sock'[r] = global_sock[r]
  BY <1>1 DEF IndInv, TypeOK, Sockets, NoSocket, Ends
<1>4. TypeOK'
  BY <1>1, <1>2, <1>3 DEF IndInv, TypeOK
<1>5. SocketsInv' /\ QueuesInv' /\ HeldInv'
  BY <1>1, <1>3, SameSessions DEF IndInv
<1>6. PlacesInv'
  BY <1>1, <1>2, PlacesStep
<1>7. StreamsInv'
  <2>1. PICK E \in [DOMAIN conns -> SUBSET Ends] : ShutsEach(E)
    BY <1>1, NoneShut
  <2>2. QED
    BY <1>1, <1>3, <2>1, StreamsStay
<1>8. QED
  BY <1>4, <1>5, <1>6, <1>7 DEF IndInv, SessionInv

\* connect.
LEMMA ConnectStep ==
  ASSUME IndInv, NEW p \in Programs, NEW q \in Programs, Connect(p, q)
  PROVE  IndInv'
<1>1. at[p] = "ready" /\ ~ connected[p] /\ typed' \in [Programs -> [Commands -> Nat]]
  BY TypeStep DEF Connect, IndInv, Commands
<1>2. CASE /\ Opens(p)
           /\ \E k \in DOMAIN queues[q] :
                /\ Len(queues[q][k]) <= Backlog
                /\ conns' = Append(conns, NewConnection(p, q))
                /\ queues' = [queues EXCEPT ![q][k] = Append(@, Len(conns'))]
                /\ Connects(p, Len(conns'), "caller")
  BY <1>1, <1>2, ConnectOpenStep
<1>3. CASE Opens(p) /\ Refused(p, q)
  BY <1>1, <1>3, RefusedStep
<1>4. CASE Ended(p)
  BY <1>1, <1>4, EndedKeeps
<1>5. QED
  BY <1>2, <1>3, <1>4 DEF Connect

\* listen, up to the accept.
LEMMA ListenStep ==
  ASSUME IndInv, NEW p \in Programs, Listen(p)
  PROVE  IndInv'
<1>1. at[p] = "ready" /\ ~ connected[p] /\ typed' \in [Programs -> [Commands -> Nat]]
  BY TypeStep DEF Listen, IndInv, Commands
<1>2. CASE /\ Opens(p)
           /\ queues' = [queues EXCEPT ![p] = Append(@, <<>>)]
           /\ at' = [at EXCEPT ![p] = "accept"]
           /\ UNCHANGED <<connected, global_sock, firstPass, conns>>
  <2>1. /\ descriptors' \in [Programs -> 0 .. Descriptors] /\ descriptors'[p] # 0
        /\ \A r \in Programs \ {p} : descriptors'[r] = descriptors[r]
    BY <1>2, OpensStep, OpensOne DEF IndInv
  <2>2. PICK row, more : row = queues[p] /\ more = Append(row, <<>>)
    OBVIOUS
  <2>3. row \in Seq(Seq(DOMAIN conns)) /\ <<>> \in Seq(DOMAIN conns)
    BY <2>2, SessionTypes DEF IndInv
  <2>4. more \in Seq(Seq(DOMAIN conns)) /\ Grows(row, <<>>, more)
    BY <2>2, <2>3, Appended
  <2>5. queues' = [queues EXCEPT ![p] = more]
    BY <1>2, <2>2
  <2>6. /\ queues' \in [Programs -> Seq(Seq(DOMAIN conns))] /\ queues'[p] = more
        /\ \A r \in Programs \ {p} : queues'[r] = queues[r]
    BY <2>4, <2>5 DEF IndInv, TypeOK
  <2>7. /\ at'[p] = "accept" /\ at' \in [Programs -> {"ready", "accept", "recv", "over"}]
        /\ \A r \in Programs \ {p} : at'[r] = at[r]
    BY <1>2 DEF IndInv, TypeOK
  <2>8. TypeOK'
    BY <1>1, <1>2, <2>1, <2>6, <2>7 DEF IndInv, TypeOK
  <2>9. /\ DOMAIN row \subseteq DOMAIN more /\ more # <<>>
        /\ \A k \in DOMAIN more : more[k] = IF k \in DOMAIN row THEN row[k] ELSE <<>>
    <3>1. PICK n : n = Len(row)
      OBVIOUS
    <3>2. n \in Nat /\ DOMAIN row = 1 .. n /\ Len(more) = n + 1 /\ DOMAIN more = 1 .. n + 1
      BY <2>3, <2>4, <3>1 DEF Grows
    <3>3. (\A k \in 1 .. n : more[k] = row[k]) /\ more[n + 1] = <<>>
      BY <2>4, <3>1 DEF Grows
    <3>4. QED
      BY <3>2, <3>3
  <2>10. \A r \in Programs :
           /\ DOMAIN queues[r] \subseteq DOMAIN queues'[r]
           /\ \A k \in DOMAIN queues'[r] :
                queues'[r][k] = IF k \in DOMAIN queues[r] THEN queues[r][k] ELSE <<>>
    BY <2>2, <2>6, <2>9
  <2>11. SocketsInv' /\ QueuesInv' /\ HeldInv'
    BY <1>2, <2>10, SameSessions DEF IndInv
  <2>12. PlacesInv'
    <3>1. queues'[p] # <<>> /\ ~ connected'[p]
      BY <1>1, <1>2, <2>6, <2>9
    <3>2. \A r \in Programs \ {p} : /\ at'[r] = at[r] /\ connected'[r] = connected[r]
                                   /\ descriptors'[r] = descriptors[r]
                                   /\ queues'[r] = queues[r]
      BY <1>2, <2>1, <2>6, <2>7
    <3>3. at'[p] # "recv"
      BY <2>7
    <3>4. QED
      BY <3>1, <3>2, <3>3, PlacesStep
  <2>13. StreamsInv'
    <3>1. PICK E \in [DOMAIN conns -> SUBSET Ends] : ShutsEach(E)
      BY <1>2, NoneShut
    <3>2. QED
      BY <1>1, <1>2, <2>7, <3>1, StreamsStay
  <2>14. QED
    BY <2>8, <2>11, <2>12, <2>13 DEF IndInv, SessionInv
<1>3. CASE Ended(p)
  BY <1>1, <1>3, EndedKeeps
<1>4. QED
  BY <1>2, <1>3 DEF Listen

\* What a sequence begins with, and the rest.
LEMMA HeadTail ==
  ASSUME NEW S, NEW s \in Seq(S), s # <<>>
  PROVE  Head(s) \in S /\ Tail(s) \in Seq(S)
OBVIOUS

\* accept, when somebody waits.
LEMMA AcceptStep ==
  ASSUME IndInv, NEW p \in Programs, Accept(p)
  PROVE  IndInv'
<1>1. /\ at[p] = "accept" /\ ~ connected[p] /\ queues[p] # <<>>
      /\ typed' \in [Programs -> [Commands -> Nat]]
  BY DEF Accept, IndInv, TypeOK, SessionInv, PlacesInv
<1>2. PICK k : k = Len(queues[p])
  OBVIOUS
<1>3. k \in DOMAIN queues[p] /\ queues[p] \in Seq(Seq(DOMAIN conns))
      /\ queues[p][k] \in Seq(DOMAIN conns)
  <2>1. queues[p] \in Seq(Seq(DOMAIN conns))
    BY SessionTypes DEF IndInv
  <2>2. k \in DOMAIN queues[p]
    BY <1>1, <1>2, <2>1
  <2>3. QED
    BY <2>1, <2>2
<1>4. CASE /\ queues[p][k] # <<>>
           /\ Opens(p)
           /\ queues' = [queues EXCEPT ![p][k] = Tail(@)]
           /\ Connects(p, Head(queues[p][k]), "callee")
           /\ UNCHANGED <<conns, typed>>
  <2>1. /\ descriptors' \in [Programs -> 0 .. Descriptors] /\ descriptors'[p] # 0
        /\ \A r \in Programs \ {p} : descriptors'[r] = descriptors[r]
    BY <1>4, OpensStep, OpensOne DEF IndInv
  <2>2. PICK c, t : c = Head(queues[p][k]) /\ t = Tail(queues[p][k])
    OBVIOUS
  <2>3. c \in DOMAIN conns /\ t \in Seq(DOMAIN conns)
    BY <1>3, <1>4, <2>2, HeadTail
  <2>4. c \in Nat /\ "callee" \in Ends
    BY <2>3 DEF IndInv, TypeOK, Ends
  <2>5. /\ at' \in [Programs -> {"ready", "accept", "recv", "over"}]
        /\ connected' \in [Programs -> BOOLEAN]
        /\ global_sock' \in [Programs -> Sockets]
        /\ firstPass' = firstPass
        /\ at'[p] = "ready"
        /\ \A r \in Programs \ {p} :
             /\ at'[r] = at[r] /\ connected'[r] = connected[r]
             /\ global_sock'[r] = global_sock[r]
    BY <1>4, <2>2, <2>4, ConnectsStep DEF IndInv
  <2>6. PICK row : row = [queues[p] EXCEPT ![k] = t]
    OBVIOUS
  <2>7. queues' = [queues EXCEPT ![p] = row]
    BY <1>4, <2>2, <2>6
  <2>8. row \in Seq(Seq(DOMAIN conns))
    <3>1. row \in [DOMAIN queues[p] -> Seq(DOMAIN conns)]
      BY <1>3, <2>3, <2>6
    <3>2. QED
      BY <1>3, <3>1, ChangedSeq
  <2>9. /\ queues' \in [Programs -> Seq(Seq(DOMAIN conns))]
        /\ \A r \in Programs \ {p} : queues'[r] = queues[r]
    BY <2>7, <2>8 DEF IndInv, TypeOK
  <2>10. TypeOK'
    BY <1>1, <1>4, <2>1, <2>5, <2>9 DEF IndInv, TypeOK
  <2>11. SocketsInv' /\ QueuesInv' /\ HeldInv'
    BY <1>1, <1>3, <1>4, SessionsAccept DEF IndInv
  <2>12. PlacesInv'
    BY <2>1, <2>5, <2>9, PlacesStep
  <2>13. StreamsInv'
    <3>1. PICK E \in [DOMAIN conns -> SUBSET Ends] : ShutsEach(E)
      BY <1>4, NoneShut
    <3>2. QED
      BY <1>1, <1>4, <2>5, <3>1, StreamsStay
  <2>14. QED
    BY <2>10, <2>11, <2>12, <2>13 DEF IndInv, SessionInv
<1>5. CASE Ended(p)
  BY <1>1, <1>5, EndedKeeps
<1>6. QED
  BY <1>2, <1>4, <1>5 DEF Accept

\* send.
LEMMA SendStep ==
  ASSUME IndInv, NEW p \in Programs, NEW size \in 1 .. LineSize, Send(p, size)
  PROVE  IndInv'
<1>1. at[p] = "ready" /\ connected[p] /\ typed' \in [Programs -> [Commands -> Nat]]
  BY TypeStep, Zenon DEF Send, IndInv, Commands
<1>2. PICK c, e, o : c = global_sock[p].conn /\ e = global_sock[p].end /\ o = Other(e)
  OBVIOUS
<1>3. CASE o \in conns[c].open /\ Arrives(c, e, o, size) /\ UNCHANGED <<program, queues, descriptors>>
  BY <1>1, <1>2, <1>3, SendOpenStep
<1>4. CASE o \notin conns[c].open /\ Bounces(c, e) /\ UNCHANGED <<program, queues, descriptors>>
  BY <1>1, <1>2, <1>4, SendClosedStep
<1>5. CASE Ended(p)
  BY <1>1, <1>5, EndedKeeps
<1>6. QED
  BY <1>2, <1>3, <1>4, <1>5, Zenon DEF Send, Arrives, Bounces

\* exit.
LEMMA ExitStep ==
  ASSUME IndInv, NEW p \in Programs, Exit(p)
  PROVE  IndInv'
<1>1. /\ at[p] = "ready" /\ connected[p] /\ typed' \in [Programs -> [Commands -> Nat]]
      /\ global_sock' = [global_sock EXCEPT ![p] = NoSocket]
      /\ connected' = [connected EXCEPT ![p] = FALSE]
      /\ descriptors' = [descriptors EXCEPT ![p] = @ - 1]
      /\ UNCHANGED <<at, firstPass, queues>>
  BY TypeStep DEF Exit, IndInv, Commands
<1>2. PICK c, e : c = global_sock[p].conn /\ e = global_sock[p].end
  OBVIOUS
<1>3. c \in DOMAIN conns /\ e \in Ends /\ \A d, f : Uses(p, d, f) <=> d = c /\ f = e
  BY <1>1, <1>2, UsesOne DEF IndInv, Uses
<1>4. conns' = [conns EXCEPT ![c] = Shut(conns[c], {e}, TRUE)]
  BY <1>2 DEF Exit
<1>5. PICK E, A : /\ E = [d \in DOMAIN conns |-> IF d = c THEN {e} ELSE {}]
                  /\ A = [d \in DOMAIN conns |-> TRUE]
  OBVIOUS
<1>6. /\ E \in [DOMAIN conns -> SUBSET Ends]
      /\ \A d \in DOMAIN conns : E[d] = (IF d = c THEN {e} ELSE {}) /\ A[d] = TRUE
  BY <1>3, <1>5
<1>7. conns' = [d \in DOMAIN conns |->
                  IF E[d] = {} THEN conns[d] ELSE Shut(conns[d], E[d], A[d])]
  BY <1>4, <1>6
<1>8. Shuts(E)
  BY <1>6, <1>7, ShutsAll DEF IndInv
<1>9. \A d \in DOMAIN conns : \A f \in Ends : f \in E[d] <=> Uses(p, d, f)
  BY <1>3, <1>6
<1>10. conns' \in Seq(Connections) /\ DOMAIN conns' = DOMAIN conns /\ ShutsEach(E)
  BY <1>8 DEF Shuts
<1>11. descriptors' \in [Programs -> 0 .. Descriptors]
  <2>1. Descriptors \in Nat /\ descriptors[p] \in 0 .. Descriptors
    BY SizesAssumption DEF IndInv, TypeOK
  <2>2. descriptors[p] # 0
    BY <1>1 DEF IndInv, SessionInv, PlacesInv
  <2>3. descriptors[p] - 1 \in 0 .. Descriptors
    BY <2>1, <2>2
  <2>4. QED
    BY <1>1, <2>3 DEF IndInv, TypeOK
<1>12. /\ ~ connected'[p] /\ global_sock' \in [Programs -> Sockets]
       /\ \A q \in Programs \ {p} :
            /\ connected'[q] = connected[q] /\ global_sock'[q] = global_sock[q]
            /\ descriptors'[q] = descriptors[q]
  BY <1>1 DEF IndInv, TypeOK, Sockets, NoSocket, Ends
<1>13. TypeOK'
  BY <1>1, <1>10, <1>11, <1>12 DEF IndInv, TypeOK
<1>14. SocketsInv' /\ QueuesInv' /\ HeldInv'
  BY <1>1, <1>6, <1>8, <1>9, <1>12, SessionsShut DEF IndInv
<1>15. PlacesInv'
  BY <1>1, <1>12, PlacesStep
<1>16. StreamsInv'
  BY <1>1, <1>6, <1>10, <1>12, StreamsStay
<1>17. QED
  BY <1>13, <1>14, <1>15, <1>16 DEF IndInv, SessionInv

-----------------------------------------------------------------------------
(***************************************************************************)
(* The theorems.                                                           *)
(***************************************************************************)

\* It holds at the start.
LEMMA InitStep == Init => IndInv
<1> SUFFICES ASSUME Init PROVE IndInv
  OBVIOUS
<1>1. TypeOK
  <2>1. Descriptors \in Nat
    BY SizesAssumption
  <2>2. conns \in Seq(Connections) /\ <<>> \in Seq(Seq(DOMAIN conns))
    BY DEF Init
  <2>3. NoSocket \in Sockets
    BY DEF NoSocket, Sockets, Ends
  <2>4. QED
    BY <2>1, <2>2, <2>3 DEF Init, TypeOK
<1>2. DOMAIN conns = {} /\ \A p \in Programs : ~ connected[p] /\ at[p] = "ready" /\ DOMAIN queues[p] = {}
  BY DEF Init
<1>3. SessionInv
  BY <1>2 DEF SessionInv, PlacesInv, SocketsInv, QueuesInv, HeldInv
<1>4. StreamsInv
  BY <1>2 DEF StreamsInv, RecvInv
<1>5. QED
  BY <1>1, <1>3, <1>4 DEF IndInv

\* Every step keeps it.
LEMMA NextStep == IndInv /\ [Next]_vars => IndInv'
<1> SUFFICES ASSUME IndInv, [Next]_vars PROVE IndInv'
  OBVIOUS
<1>1. ASSUME NEW p \in Programs, NEW q \in Programs, Connect(p, q) PROVE IndInv'
  BY <1>1, ConnectStep
<1>2. ASSUME NEW p \in Programs, Listen(p) PROVE IndInv'
  BY <1>2, ListenStep
<1>3. ASSUME NEW p \in Programs, Accept(p) PROVE IndInv'
  BY <1>3, AcceptStep
<1>4. ASSUME NEW p \in Programs, NEW size \in 1 .. LineSize, Send(p, size) PROVE IndInv'
  BY <1>4, SendStep
<1>5. ASSUME NEW p \in Programs, Recv(p) PROVE IndInv'
  BY <1>5, RecvStep
<1>6. ASSUME NEW p \in Programs, RecvChunk(p) PROVE IndInv'
  BY <1>6, RecvChunkStep
<1>7. ASSUME NEW p \in Programs, Exit(p) PROVE IndInv'
  BY <1>7, ExitStep
<1>8. ASSUME NEW c \in DOMAIN conns, NEW e \in Ends, Lose(c, e) PROVE IndInv'
  BY <1>8, LoseStep
<1>9. CASE UNCHANGED vars
  <2>1. PICK E \in [DOMAIN conns -> SUBSET Ends] : ShutsEach(E)
    BY <1>9, NoneShut DEF vars
  <2>2. StreamsInv'
    BY <1>9, <2>1, SameStreams DEF vars, program, IndInv
  <2>3. SocketsInv' /\ QueuesInv' /\ HeldInv'
    BY <1>9, SameSessions DEF vars, program, IndInv
  <2>4. TypeOK' /\ PlacesInv'
    BY <1>9 DEF vars, program, IndInv, TypeOK, SessionInv, PlacesInv
  <2>5. QED
    BY <2>2, <2>3, <2>4 DEF IndInv, SessionInv
<1>10. QED
  BY <1>1, <1>2, <1>3, <1>4, <1>5, <1>6, <1>7, <1>8, <1>9 DEF Next

\* It holds always.
LEMMA IndInvAlways == Spec => []IndInv
<1>1. QED
  BY InitStep, NextStep, PTL DEF Spec

\* Every variable keeps its type: connections stay a list of records of their shape,
\* queues name connections there are, and no process has more sockets open than it
\* may, nor closes one it does not have.
THEOREM TypeCorrect == Spec => []TypeOK
<1>1. IndInv => TypeOK
  BY DEF IndInv
<1>2. QED
  BY <1>1, IndInvAlways, PTL

\* Every end of a connection that is open has exactly one who can close it.
THEOREM NoSessionIsLostAlways == Spec => []NoSessionIsLost
<1>1. ASSUME IndInv PROVE NoSessionIsLost
  <2>1. ASSUME NEW p \in Programs, connected[p]
        PROVE  /\ global_sock[p].conn \in DOMAIN conns
               /\ global_sock[p].end \in conns[global_sock[p].conn].open
    BY <1>1, <2>1, UsesOne DEF IndInv
  <2>2. ASSUME NEW c \in DOMAIN conns, NEW e \in conns[c].open, NEW owner,
               owner = IF e = "caller" THEN conns[c].by ELSE conns[c].to
        PROVE  (connected[owner] /\ global_sock[owner] = [conn |-> c, end |-> e])
                 # (e = "callee" /\ c \in Waiting(owner))
    <3>1. owner = Owner(c, e) /\ owner \in Programs
      BY <1>1, <2>2, SessionTypes DEF IndInv, Owner
    <3>2. c \in Waiting(owner) <=> Waits(owner, c)
      BY WaitingIs DEF Waiting, Waits
    <3>3. connected[owner] /\ global_sock[owner] = [conn |-> c, end |-> e] <=> Uses(owner, c, e)
      <4>1. global_sock[owner] \in Sockets
        BY <1>1, <3>1 DEF IndInv, TypeOK
      <4>2. QED
        BY <4>1 DEF Uses, Sockets
    <3>4. Uses(owner, c, e) \/ (e = "callee" /\ Waits(owner, c))
      BY <1>1, <3>1 DEF IndInv, SessionInv, HeldInv
    <3>5. ~ (Uses(owner, c, e) /\ e = "callee" /\ Waits(owner, c))
      BY <1>1, <3>1 DEF IndInv, SessionInv, SocketsInv, Uses
    <3>6. QED
      BY <3>2, <3>3, <3>4, <3>5, Zenon
  <2>3. QED
    BY <2>1, <2>2 DEF NoSessionIsLost
<1>2. QED
  BY <1>1, IndInvAlways, PTL

\* What the commands recv print are parts of lines without gaps, in the order in which
\* the peer has sent them, and whole lines, one by one, of a peer that waits.
THEOREM LinesAreKeptAlways == Spec => []LinesAreKept
<1>1. ASSUME IndInv PROVE LinesAreKept
  <2>1. \A c \in DOMAIN conns : \A e \in Ends : \A i \in DOMAIN conns[c].heard[e] :
          /\ conns[c].heard[e][i][1].line <= conns[c].sent[Other(e)]
          /\ \A j \in 2 .. Len(conns[c].heard[e][i]) :
               /\ conns[c].heard[e][i][j].line = conns[c].heard[e][i][1].line
               /\ conns[c].heard[e][i][j].part = conns[c].heard[e][i][j - 1].part + 1
          /\ i < Len(conns[c].heard[e]) =>
               /\ Last(conns[c].heard[e][i]).newline
               /\ conns[c].heard[e][i][1].line < conns[c].heard[e][i + 1][1].line
          /\ e \notin conns[c].crowded =>
               conns[c].heard[e][i][1].part = 1 /\ conns[c].heard[e][i][1].line = i
    <3> TAKE c \in DOMAIN conns
    <3> TAKE e \in Ends
    <3> TAKE i \in DOMAIN conns[c].heard[e]
    <3>1. Kept(c, e)
      BY <1>1 DEF IndInv, StreamsInv, EndInv
    <3>2. \A s : Last(s) = s[Len(s)]
      BY DEF Last
    <3>3. /\ IsPart(conns[c].heard[e][i])
          /\ conns[c].heard[e][i][1].line <= conns[c].sent[Other(e)]
          /\ i < Len(conns[c].heard[e]) =>
               /\ conns[c].heard[e][i][Len(conns[c].heard[e][i])].newline
               /\ conns[c].heard[e][i][1].line < conns[c].heard[e][i + 1][1].line
          /\ e \notin conns[c].crowded =>
               conns[c].heard[e][i][1].part = 1 /\ conns[c].heard[e][i][1].line = i
      BY <3>1 DEF Kept
    <3>4. QED
      BY <3>2, <3>3 DEF IsPart
  <2>2. QED
    BY <2>1, Zenon DEF LinesAreKept
<1>2. QED
  BY <1>1, IndInvAlways, PTL

===============================================================================
