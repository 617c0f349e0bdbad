-------------------------- MODULE ChatSocketsProofs --------------------------
(***************************************************************************)
(* What a process of Chat has open, for every set of programs, every       *)
(* backlog, every limit of sockets and every workload.                     *)
(***************************************************************************)
EXTENDS ChatProofs, FiniteSetTheorems

\* The connections that p has made.
Made(p) == {c \in DOMAIN conns : conns[c].by = p}

\* What p should have open, but for its refusals.
One(p) == IF connected[p] THEN 1 ELSE 0

\* They are finitely many.
LEMMA MadeType ==
  ASSUME TypeOK
  PROVE  \A p : IsFiniteSet(Made(p)) /\ Cardinality(Made(p)) \in Nat
<1> SUFFICES ASSUME NEW p PROVE IsFiniteSet(Made(p)) /\ Cardinality(Made(p)) \in Nat
  OBVIOUS
<1>1. Len(conns) \in Nat /\ DOMAIN conns = 1 .. Len(conns)
  BY DEF TypeOK
<1>2. IsFiniteSet(DOMAIN conns)
  BY <1>1, FS_Interval
<1>3. Made(p) \subseteq DOMAIN conns
  BY DEF Made
<1>4. QED
  BY <1>2, <1>3, FS_Subset, FS_CardinalityType

\* A connection that is changed is still of the program that made it.
SameMakers ==
  DOMAIN conns' = DOMAIN conns /\ \A c \in DOMAIN conns : conns'[c].by = conns[c].by

\* So everybody has made what it had.
LEMMA MadeStays ==
  ASSUME SameMakers
  PROVE  \A p : Made(p)' = Made(p)
BY DEF Made, SameMakers

\* The numbers there are.
LEMMA Numbers ==
  ASSUME TypeOK
  PROVE  \A p \in Programs :
           /\ Len(queues[p]) \in Nat /\ typed[p]["connect"] \in Nat
           /\ descriptors[p] \in Nat /\ One(p) \in Nat
           /\ Refusals(p) \in Int /\ Refusals(p) = typed[p]["connect"] - Cardinality(Made(p))
<1> SUFFICES ASSUME NEW p \in Programs
             PROVE  /\ Len(queues[p]) \in Nat /\ typed[p]["connect"] \in Nat
                    /\ descriptors[p] \in Nat /\ One(p) \in Nat
                    /\ Refusals(p) \in Int
                    /\ Refusals(p) = typed[p]["connect"] - Cardinality(Made(p))
  OBVIOUS
<1>1. queues[p] \in Seq(Seq(DOMAIN conns)) /\ descriptors[p] \in 0 .. Descriptors
  BY DEF TypeOK
<1>2. typed[p] \in [Commands -> Nat] /\ "connect" \in Commands
  BY DEF TypeOK, Commands
<1>3. Cardinality(Made(p)) \in Nat
  BY MadeType
<1>4. Refusals(p) = typed[p]["connect"] - Cardinality(Made(p))
  BY DEF Refusals, Made
<1>5. Descriptors \in Nat
  BY SizesAssumption
<1>6. QED
  BY <1>1, <1>2, <1>3, <1>4, <1>5 DEF One

\* What p has open is what it should have.
Counted(p) == at[p] # "over" => descriptors[p] = Len(queues[p]) + Refusals(p) + One(p)

\* What is counted of r is not touched.
Untouched(r) ==
  /\ at[r] = "over" => at'[r] = "over"
  /\ descriptors'[r] = descriptors[r] /\ Len(queues'[r]) = Len(queues[r])
  /\ connected'[r] = connected[r] /\ typed'[r]["connect"] = typed[r]["connect"]
  /\ Made(r)' = Made(r)

\* Then it is counted still,
LEMMA CountStays ==
  ASSUME TypeOK, TypeOK', NEW r \in Programs, Counted(r), Untouched(r)
  PROVE  Counted(r)'
<1>1. Refusals(r)' = Refusals(r) /\ One(r)' = One(r)
  BY DEF Refusals, Made, Untouched, One
<1>2. QED
  BY <1>1 DEF Counted, Untouched

\* and the others are counted if only p is touched.
LEMMA CountOthers ==
  ASSUME TypeOK, TypeOK', SocketsAreCounted, NEW p \in Programs, Counted(p)',
         \A r \in Programs \ {p} : Untouched(r)
  PROVE  SocketsAreCounted'
<1> SUFFICES ASSUME NEW r \in Programs PROVE Counted(r)'
  BY DEF SocketsAreCounted, Counted, One
<1>1. CASE r = p
  BY <1>1
<1>2. CASE r # p
  <2>1. Counted(r)
    BY DEF SocketsAreCounted, Counted, One
  <2>2. QED
    BY <1>2, <2>1, CountStays
<1>3. QED
  BY <1>1, <1>2

\* A command that is not connect leaves the connects alone, and a connect of p is one.
LEMMA TypedStep ==
  ASSUME TypeOK, NEW p \in Programs, NEW op \in Commands, Type(p, op)
  PROVE  /\ at[p] = "ready"
         /\ \A r \in Programs \ {p} : typed'[r] = typed[r]
         /\ op # "connect" => typed'[p]["connect"] = typed[p]["connect"]
         /\ op = "connect" => typed'[p]["connect"] = typed[p]["connect"] + 1
<1>1. typed' = [typed EXCEPT ![p] = [typed[p] EXCEPT ![op] = typed[p][op] + 1]] /\ at[p] = "ready"
  BY DEF Type
<1>2. typed \in [Programs -> [Commands -> Nat]] /\ "connect" \in Commands
  BY DEF TypeOK, Commands
<1>3. QED
  BY <1>1, <1>2

\* A socket that is opened is one more.
LEMMA OneMore ==
  ASSUME TypeOK, NEW p \in Programs, Opens(p)
  PROVE  /\ descriptors'[p] = descriptors[p] + 1
         /\ \A r \in Programs \ {p} : descriptors'[r] = descriptors[r]
<1>1. descriptors \in [Programs -> 0 .. Descriptors]
  BY DEF TypeOK
<1>2. QED
  BY <1>1 DEF Opens

\* Sequences of one domain are of one length.
LEMMA SameLength ==
  ASSUME NEW S, NEW T, NEW s \in Seq(S), NEW t \in Seq(T), DOMAIN s = DOMAIN t
  PROVE  Len(s) = Len(t)
OBVIOUS

\* A queue that is changed at a listener has the same listeners.
LEMMA SameListeners ==
  ASSUME TypeOK, TypeOK', NEW q \in Programs, NEW k, NEW row,
         queues' = [queues EXCEPT ![q][k] = row]
  PROVE  \A r \in Programs : Len(queues'[r]) = Len(queues[r])
<1> SUFFICES ASSUME NEW r \in Programs PROVE Len(queues'[r]) = Len(queues[r])
  OBVIOUS
<1>1. queues[r] \in Seq(Seq(DOMAIN conns)) /\ queues'[r] \in Seq(Seq(DOMAIN conns'))
  BY DEF TypeOK
<1>2. DOMAIN queues'[r] = DOMAIN queues[r]
  BY DEF TypeOK
<1>3. QED
  BY <1>1, <1>2, SameLength

\* The process of p ends: nothing more is counted.
LEMMA CountEnded ==
  ASSUME IndInv, IndInv', SocketsAreCounted, NEW p \in Programs, Ended(p),
         \A r \in Programs \ {p} : typed'[r]["connect"] = typed[r]["connect"]
  PROVE  SocketsAreCounted'
<1>1. SameMakers
  BY EndedStep DEF IndInv, Shuts, ShutsEach, SameMakers
<1>2. \A r : Made(r)' = Made(r)
  BY <1>1, MadeStays
<1>3. at'[p] = "over"
  BY DEF Ended, IndInv, TypeOK
<1>4. \A r \in Programs \ {p} : /\ at'[r] = at[r] /\ connected'[r] = connected[r]
                               /\ queues'[r] = queues[r] /\ descriptors'[r] = descriptors[r]
  BY DEF Ended, IndInv, TypeOK
<1>5. \A r \in Programs \ {p} : Untouched(r)
  BY <1>2, <1>4 DEF Untouched
<1>6. QED
  BY <1>3, <1>5, CountOthers DEF Counted, IndInv

\* connect, when there is a listener with room.
LEMMA CountConnected ==
  ASSUME IndInv, IndInv', SocketsAreCounted, NEW p \in Programs, NEW q \in Programs,
         Type(p, "connect"), ~ connected[p], Opens(p), NEW k \in DOMAIN queues[q],
         conns' = Append(conns, NewConnection(p, q)),
         queues' = [queues EXCEPT ![q][k] = Append(@, Len(conns'))],
         Connects(p, Len(conns'), "caller")
  PROVE  SocketsAreCounted'
<1>1. /\ typed'[p]["connect"] = typed[p]["connect"] + 1 /\ at[p] = "ready"
      /\ \A r \in Programs \ {p} : typed'[r] = typed[r]
  BY TypedStep DEF IndInv, Commands
<1>2. /\ descriptors'[p] = descriptors[p] + 1
      /\ \A r \in Programs \ {p} : descriptors'[r] = descriptors[r]
  BY OneMore DEF IndInv
<1>3. \A r \in Programs : Len(queues'[r]) = Len(queues[r])
  <2>1. queues' = [queues EXCEPT ![q][k] = Append(queues[q][k], Len(conns'))]
    OBVIOUS
  <2>2. QED
    BY <2>1, SameListeners DEF IndInv
<1>4. /\ connected'[p]
      /\ \A r \in Programs \ {p} : connected'[r] = connected[r] /\ at'[r] = at[r]
  BY DEF Connects, IndInv, TypeOK
<1>5. PICK new, n : new = NewConnection(p, q) /\ n = Len(conns) + 1
  OBVIOUS
<1>6. new \in Connections /\ new.by = p
  BY <1>5, NewConnectionType DEF NewConnection
<1>7. conns \in Seq(Connections) /\ Grows(conns, new, conns') /\ conns' \in Seq(Connections)
  BY <1>5, <1>6, Appended DEF IndInv, TypeOK
<1>8. /\ DOMAIN conns' = DOMAIN conns \cup {n} /\ n \notin DOMAIN conns
      /\ conns'[n].by = p /\ \A c \in DOMAIN conns : conns'[c] = conns[c]
  <2>1. DOMAIN conns = 1 .. Len(conns) /\ DOMAIN conns' = 1 .. Len(conns') /\ Len(conns) \in Nat
    BY <1>7
  <2>2. Len(conns') = n /\ conns'[n] = new /\ \A c \in 1 .. Len(conns) : conns'[c] = conns[c]
    BY <1>5, <1>7 DEF Grows
  <2>3. QED
    BY <1>5, <1>6, <2>1, <2>2
<1>9. Made(p)' = Made(p) \cup {n} /\ n \notin Made(p)
  BY <1>8 DEF Made
<1>10. \A r \in Programs \ {p} : Made(r)' = Made(r)
  BY <1>8 DEF Made
<1>11. Cardinality(Made(p)') = Cardinality(Made(p)) + 1
  BY <1>9, MadeType, FS_AddElement DEF IndInv
<1>12. Refusals(p)' = Refusals(p)
  <2>1. Refusals(p)' = typed'[p]["connect"] - Cardinality(Made(p)')
    BY DEF Refusals, Made
  <2>2. QED
    BY SMTT(60), <1>1, <1>11, <2>1, Numbers, MadeType DEF IndInv
<1>13. Counted(p)
  BY DEF SocketsAreCounted, Counted, One
<1>14. Counted(p)'
  <2>1. One(p) = 0 /\ One(p)' = 1
    BY <1>4 DEF One
  <2>2. QED
    BY <1>1, <1>2, <1>3, <1>12, <1>13, <2>1, Numbers DEF Counted, IndInv
<1>15. \A r \in Programs \ {p} : Untouched(r)
  BY <1>1, <1>2, <1>3, <1>4, <1>10 DEF Untouched
<1>16. QED
  BY <1>14, <1>15, CountOthers DEF IndInv

\* connect, when it is refused.
LEMMA CountRefused ==
  ASSUME IndInv, IndInv', SocketsAreCounted, NEW p \in Programs, NEW q \in Programs,
         Type(p, "connect"), ~ connected[p], Opens(p), Refused(p, q)
  PROVE  SocketsAreCounted'
<1>1. /\ typed'[p]["connect"] = typed[p]["connect"] + 1 /\ at[p] = "ready"
      /\ \A r \in Programs \ {p} : typed'[r] = typed[r]
  BY TypedStep DEF IndInv, Commands
<1>2. /\ descriptors'[p] = descriptors[p] + 1
      /\ \A r \in Programs \ {p} : descriptors'[r] = descriptors[r]
  BY OneMore DEF IndInv
<1>3. UNCHANGED <<at, connected, queues, conns>>
  BY DEF Refused
<1>4. \A r : Made(r)' = Made(r)
  BY <1>3 DEF Made
<1>5. Refusals(p)' = Refusals(p) + 1
  <2>1. Refusals(p)' = typed'[p]["connect"] - Cardinality(Made(p)')
    BY DEF Refusals, Made
  <2>2. QED
    BY <1>1, <1>4, <2>1, Numbers, MadeType DEF IndInv
<1>6. Counted(p)
  BY DEF SocketsAreCounted, Counted, One
<1>7. Counted(p)'
  <2>1. One(p)' = One(p)
    BY <1>3 DEF One
  <2>2. QED
    BY SMTT(60), <1>1, <1>2, <1>3, <1>5, <1>6, <2>1, Numbers DEF Counted, IndInv
<1>8. \A r \in Programs \ {p} : Untouched(r)
  BY <1>1, <1>2, <1>3, <1>4 DEF Untouched
<1>9. QED
  BY <1>7, <1>8, CountOthers DEF IndInv

\* connect.
LEMMA CountConnect ==
  ASSUME IndInv, IndInv', SocketsAreCounted, NEW p \in Programs, NEW q \in Programs, Connect(p, q)
  PROVE  SocketsAreCounted'
<1>1. Type(p, "connect") /\ ~ connected[p]
  BY DEF Connect
<1>2. CASE /\ Opens(p)
           /\ \E k \in DOMAIN queues[q] :
                /\ Len(queues[q][k]) <= Backlog
                /\ conns' = Append(conns, NewConnection(p, q))
                /\ queues' = [queues EXCEPT ![q][k] = Append(@, Len(conns'))]
                /\ Connects(p, Len(conns'), "caller")
  BY <1>1, <1>2, CountConnected
<1>3. CASE Opens(p) /\ Refused(p, q)
  BY <1>1, <1>3, CountRefused
<1>4. CASE Ended(p)
  <2>1. \A r \in Programs \ {p} : typed'[r] = typed[r]
    BY <1>1, TypedStep DEF IndInv, Commands
  <2>2. QED
    BY <1>4, <2>1, CountEnded
<1>5. QED
  BY <1>2, <1>3, <1>4 DEF Connect

\* listen: one socket more, and one listener.
LEMMA CountListen ==
  ASSUME IndInv, IndInv', SocketsAreCounted, NEW p \in Programs, Listen(p)
  PROVE  SocketsAreCounted'
<1>1. Type(p, "listen")
  BY DEF Listen
<1>2. /\ at[p] = "ready" /\ typed'[p]["connect"] = typed[p]["connect"]
      /\ \A r \in Programs \ {p} : typed'[r] = typed[r]
  BY <1>1, TypedStep DEF IndInv, Commands
<1>3. CASE /\ Opens(p)
           /\ queues' = [queues EXCEPT ![p] = Append(@, <<>>)]
           /\ at' = [at EXCEPT ![p] = "accept"]
           /\ UNCHANGED <<connected, global_sock, firstPass, conns>>
  <2>1. /\ descriptors'[p] = descriptors[p] + 1
        /\ \A r \in Programs \ {p} : descriptors'[r] = descriptors[r]
    BY <1>3, OneMore DEF IndInv
  <2>2. Len(queues'[p]) = Len(queues[p]) + 1
    <3>1. queues[p] \in Seq(Seq(DOMAIN conns)) /\ <<>> \in Seq(DOMAIN conns)
      BY SessionTypes DEF IndInv
    <3>2. queues'[p] = Append(queues[p], <<>>)
      BY <1>3 DEF IndInv, TypeOK
    <3>3. QED
      BY <3>1, <3>2
  <2>3. \A r \in Programs \ {p} : queues'[r] = queues[r] /\ at'[r] = at[r]
    BY <1>3 DEF IndInv, TypeOK
  <2>4. \A r : Made(r)' = Made(r)
    BY <1>3 DEF Made
  <2>5. Refusals(p)' = Refusals(p) /\ One(p)' = One(p)
    BY <1>2, <1>3, <2>4 DEF Refusals, Made, One
  <2>6. Counted(p)
    BY DEF SocketsAreCounted, Counted, One
  <2>7. Counted(p)'
    BY <1>2, <2>1, <2>2, <2>5, <2>6, Numbers DEF Counted, IndInv
  <2>8. \A r \in Programs \ {p} : Untouched(r)
    BY <1>2, <1>3, <2>1, <2>3, <2>4 DEF Untouched
  <2>9. QED
    BY <2>7, <2>8, CountOthers DEF IndInv
<1>4. CASE Ended(p)
  BY <1>2, <1>4, CountEnded
<1>5. QED
  BY <1>3, <1>4 DEF Listen

\* accept: one socket more, the one it uses.
LEMMA CountAccept ==
  ASSUME IndInv, IndInv', SocketsAreCounted, NEW p \in Programs, Accept(p)
  PROVE  SocketsAreCounted'
<1>1. at[p] = "accept" /\ ~ connected[p] /\ typed' = typed
  BY DEF Accept, IndInv, SessionInv, PlacesInv
<1>2. PICK k : k = Len(queues[p])
  OBVIOUS
<1>3. CASE /\ Opens(p)
           /\ queues' = [queues EXCEPT ![p][k] = Tail(@)]
           /\ Connects(p, Head(queues[p][k]), "callee")
           /\ UNCHANGED conns
  <2>1. /\ descriptors'[p] = descriptors[p] + 1
        /\ \A r \in Programs \ {p} : descriptors'[r] = descriptors[r]
    BY <1>3, OneMore DEF IndInv
  <2>2. \A r \in Programs : Len(queues'[r]) = Len(queues[r])
    <3>1. queues' = [queues EXCEPT ![p][k] = Tail(queues[p][k])]
      BY <1>3
    <3>2. QED
      BY <3>1, SameListeners DEF IndInv
  <2>3. /\ connected'[p]
        /\ \A r \in Programs \ {p} : connected'[r] = connected[r] /\ at'[r] = at[r]
    BY <1>3 DEF Connects, IndInv, TypeOK
  <2>4. \A r : Made(r)' = Made(r)
    BY <1>3 DEF Made
  <2>5. Refusals(p)' = Refusals(p)
    BY <1>1, <2>4 DEF Refusals, Made
  <2>6. Counted(p)
    BY DEF SocketsAreCounted, Counted, One
  <2>7. Counted(p)'
    <3>1. One(p) = 0 /\ One(p)' = 1
      BY <1>1, <2>3 DEF One
    <3>2. QED
      BY <1>1, <2>1, <2>2, <2>5, <2>6, <3>1, Numbers DEF Counted, IndInv
  <2>8. \A r \in Programs \ {p} : Untouched(r)
    BY <1>1, <2>1, <2>2, <2>3, <2>4 DEF Untouched
  <2>9. QED
    BY <2>7, <2>8, CountOthers DEF IndInv
<1>4. CASE Ended(p)
  BY <1>1, <1>4, CountEnded
<1>5. QED
  BY <1>2, <1>3, <1>4 DEF Accept

\* exit: the socket is given back.
LEMMA CountExit ==
  ASSUME IndInv, IndInv', SocketsAreCounted, NEW p \in Programs, Exit(p)
  PROVE  SocketsAreCounted'
<1>1. Type(p, "exit")
  BY DEF Exit
<1>2. /\ at[p] = "ready" /\ typed'[p]["connect"] = typed[p]["connect"]
      /\ \A r \in Programs \ {p} : typed'[r] = typed[r]
  BY <1>1, TypedStep DEF IndInv, Commands
<1>3. /\ connected[p] /\ ~ connected'[p] /\ descriptors'[p] = descriptors[p] - 1
      /\ UNCHANGED <<at, queues>>
      /\ \A r \in Programs \ {p} : connected'[r] = connected[r] /\ descriptors'[r] = descriptors[r]
  BY DEF Exit, IndInv, TypeOK
<1>4. SameMakers
  <2>1. PICK c, e : c = global_sock[p].conn /\ e = global_sock[p].end
    OBVIOUS
  <2>2. c \in DOMAIN conns /\ e \in Ends /\ conns[c] \in Connections
    BY <1>3, <2>1, SessionTypes, Zenon DEF IndInv, SessionInv, SocketsInv, TypeOK, Sockets
  <2>3. PICK x, y : x = conns[c] /\ y = Shut(x, {e}, TRUE)
    OBVIOUS
  <2>4. IsShut(x, {e}, y)
    BY <2>2, <2>3, ShutType
  <2>5. conns' = [conns EXCEPT ![c] = y]
    BY <2>1, <2>3 DEF Exit
  <2>6. QED
    BY <2>2, <2>3, <2>4, <2>5, ChangedConnection DEF IndInv, IsShut, SameMakers
<1>5. \A r : Made(r)' = Made(r)
  BY <1>4, MadeStays
<1>6. Refusals(p)' = Refusals(p)
  BY <1>2, <1>5 DEF Refusals, Made
<1>7. Counted(p)
  BY DEF SocketsAreCounted, Counted, One
<1>8. Counted(p)'
  <2>1. One(p) = 1 /\ One(p)' = 0
    BY <1>3 DEF One
  <2>2. QED
    BY <1>2, <1>3, <1>6, <1>7, <2>1, Numbers DEF Counted, IndInv
<1>9. \A r \in Programs \ {p} : Untouched(r)
  BY <1>2, <1>3, <1>5 DEF Untouched
<1>10. QED
  BY <1>8, <1>9, CountOthers DEF IndInv

\* Steps of which nothing is counted.
LEMMA CountNothing ==
  ASSUME IndInv, IndInv', SocketsAreCounted, SameMakers,
         \A r \in Programs : typed'[r]["connect"] = typed[r]["connect"],
         \A r \in Programs : at[r] = "over" => at'[r] = "over",
         UNCHANGED <<connected, queues, descriptors>>
  PROVE  SocketsAreCounted'
<1> SUFFICES ASSUME NEW p \in Programs PROVE Counted(p)'
  BY DEF SocketsAreCounted, Counted, One
<1>1. Counted(p)
  BY DEF SocketsAreCounted, Counted, One
<1>2. Untouched(p)
  BY MadeStays DEF Untouched
<1>3. QED
  BY <1>1, <1>2, CountStays DEF IndInv

\* A connection that is changed but for its maker.
LEMMA ChangedParts ==
  ASSUME TypeOK, NEW c, NEW y, y.by = conns[c].by, conns' = [conns EXCEPT ![c] = y]
  PROVE  SameMakers
BY DEF SameMakers, TypeOK

\* send.
LEMMA CountSend ==
  ASSUME IndInv, IndInv', SocketsAreCounted, NEW p \in Programs, NEW size \in 1 .. LineSize,
         Send(p, size)
  PROVE  SocketsAreCounted'
<1>1. Type(p, "send")
  BY Zenon DEF Send
<1>2. /\ at[p] = "ready" /\ typed'[p]["connect"] = typed[p]["connect"]
      /\ \A r \in Programs \ {p} : typed'[r] = typed[r]
  BY <1>1, TypedStep DEF IndInv, Commands
<1>3. PICK c, e, o : c = global_sock[p].conn /\ e = global_sock[p].end /\ o = Other(e)
  OBVIOUS
<1>4. CASE Arrives(c, e, o, size) /\ UNCHANGED <<program, queues, descriptors>>
  <2>1. conns' = [conns EXCEPT ![c] = After(conns[c], e, o, size)]
    BY ZenonT(60), <1>4, Zenon DEF Arrives, After
  <2>2. After(conns[c], e, o, size).by = conns[c].by
    BY DEF After
  <2>3. SameMakers
    BY <2>1, <2>2, ChangedParts DEF IndInv
  <2>4. QED
    BY <1>2, <1>4, <2>3, CountNothing DEF program
<1>5. CASE Bounces(c, e) /\ UNCHANGED <<program, queues, descriptors>>
  <2>1. SameMakers
    BY <1>5 DEF Bounces, SameMakers, IndInv, TypeOK
  <2>2. QED
    BY <1>2, <1>5, <2>1, CountNothing DEF program
<1>6. CASE Ended(p)
  BY <1>2, <1>6, CountEnded
<1>7. QED
  BY <1>3, <1>4, <1>5, <1>6, Zenon DEF Send, Arrives, Bounces

\* A round of recv.
LEMMA CountRecvChunk ==
  ASSUME IndInv, IndInv', SocketsAreCounted, NEW p \in Programs, RecvChunk(p)
  PROVE  SocketsAreCounted'
<1>1. PICK c, e : c = global_sock[p].conn /\ e = global_sock[p].end
  OBVIOUS
<1>2. at[p] = "recv" /\ UNCHANGED <<connected, global_sock, queues, descriptors, typed>>
  BY Zenon DEF RecvChunk
<1>3. CASE \E n \in 1 .. Len(conns[c].got[e]) :
             Taken(p, c, e, n, Printed(SubSeq(conns[c].got[e], 1, n)))
  <2>1. PICK n \in 1 .. Len(conns[c].got[e]) :
          Taken(p, c, e, n, Printed(SubSeq(conns[c].got[e], 1, n)))
    BY <1>3
  <2>2. PICK y : y = AfterTaken(conns[c], e, n, firstPass[p], Printed(SubSeq(conns[c].got[e], 1, n)))
    OBVIOUS
  <2>3. conns' = [conns EXCEPT ![c] = y]
    BY <2>1, <2>2, Zenon DEF Taken, AfterTaken
  <2>4. y.by = conns[c].by
    BY <2>2 DEF AfterTaken
  <2>5. SameMakers
    BY <2>3, <2>4, ChangedParts DEF IndInv
  <2>6. \A r \in Programs : at[r] = "over" => at'[r] = "over"
    BY <1>2, <2>1 DEF Taken, IndInv, TypeOK
  <2>7. QED
    BY <1>2, <2>5, <2>6, CountNothing
<1>4. CASE at' = [at EXCEPT ![p] = "ready"] /\ UNCHANGED <<firstPass, conns>>
  <2>1. SameMakers
    BY <1>4 DEF SameMakers
  <2>2. \A r \in Programs : at[r] = "over" => at'[r] = "over"
    BY <1>2, <1>4 DEF IndInv, TypeOK
  <2>3. QED
    BY <1>2, <2>1, <2>2, CountNothing
<1>5. QED
  BY <1>1, <1>3, <1>4, Zenon DEF RecvChunk, Taken

\* Every step keeps it.
LEMMA CountNext ==
  ASSUME IndInv, IndInv', SocketsAreCounted, [Next]_vars
  PROVE  SocketsAreCounted'
<1>1. ASSUME NEW p \in Programs, NEW q \in Programs, Connect(p, q) PROVE SocketsAreCounted'
  BY <1>1, CountConnect
<1>2. ASSUME NEW p \in Programs, Listen(p) PROVE SocketsAreCounted'
  BY <1>2, CountListen
<1>3. ASSUME NEW p \in Programs, Accept(p) PROVE SocketsAreCounted'
  BY <1>3, CountAccept
<1>4. ASSUME NEW p \in Programs, NEW size \in 1 .. LineSize, Send(p, size)
      PROVE  SocketsAreCounted'
  BY <1>4, CountSend
<1>5. ASSUME NEW p \in Programs, Recv(p) PROVE SocketsAreCounted'
  <2>1. Type(p, "recv") /\ UNCHANGED <<connected, queues, conns, descriptors>>
        /\ at' = [at EXCEPT ![p] = "recv"]
    BY <1>5 DEF Recv
  <2>2. at[p] = "ready" /\ \A r \in Programs : typed'[r]["connect"] = typed[r]["connect"]
    BY <2>1, TypedStep DEF IndInv, Commands
  <2>3. SameMakers /\ \A r \in Programs : at[r] = "over" => at'[r] = "over"
    BY <2>1, <2>2 DEF SameMakers, IndInv, TypeOK
  <2>4. QED
    BY <2>1, <2>2, <2>3, CountNothing
<1>6. ASSUME NEW p \in Programs, RecvChunk(p) PROVE SocketsAreCounted'
  BY <1>6, CountRecvChunk
<1>7. ASSUME NEW p \in Programs, Exit(p) PROVE SocketsAreCounted'
  BY <1>7, CountExit
<1>8. ASSUME NEW c \in DOMAIN conns, NEW e \in Ends, Lose(c, e) PROVE SocketsAreCounted'
  <2>1. SameMakers
    BY <1>8 DEF Lose, SameMakers, IndInv, TypeOK
  <2>2. QED
    BY <1>8, <2>1, CountNothing DEF Lose, program
<1>9. CASE UNCHANGED vars
  BY <1>9, CountNothing DEF vars, program, SameMakers
<1>10. QED
  BY <1>1, <1>2, <1>3, <1>4, <1>5, <1>6, <1>7, <1>8, <1>9 DEF Next

\* A process has open the socket it uses, its listeners and one socket for each
\* connect that was refused, and nothing of a session that is over, however many
\* sessions it has had and whoever has ended them (socket, accept, close): only
\* listen and refused connects bring it closer to its limit.
THEOREM SocketsAreCountedAlways == Spec => []SocketsAreCounted
<1>1. Init => SocketsAreCounted
  <2> SUFFICES ASSUME Init, NEW p \in Programs PROVE Counted(p)
    BY DEF SocketsAreCounted, Counted, One
  <2>1. descriptors[p] = 0 /\ Len(queues[p]) = 0 /\ One(p) = 0 /\ typed[p]["connect"] = 0
    BY DEF Init, One, Commands
  <2>2. Made(p) = {}
    BY DEF Init, Made
  <2>3. Refusals(p) = 0
    <3>1. Refusals(p) = typed[p]["connect"] - Cardinality(Made(p))
      BY DEF Refusals, Made
    <3>2. QED
      BY <2>1, <2>2, <3>1, FS_EmptySet
  <2>4. QED
    BY <2>1, <2>3 DEF Counted
<1>2. IndInv /\ IndInv' /\ SocketsAreCounted /\ [Next]_vars => SocketsAreCounted'
  BY CountNext
<1>3. QED
  BY <1>1, <1>2, IndInvAlways, PTL DEF Spec
=============================================================================
